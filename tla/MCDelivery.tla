------------------------------ MODULE MCDelivery ------------------------------
\* Two connections of one session.
EXTENDS Delivery

===============================================================================
