------------------------------ MODULE MCSession ------------------------------
(* Instances of Session for TLC. *)
EXTENDS Session

CONSTANTS h1, h2, u1, u2

MCOneUser == [h \in Handshake |-> u1]
MCTwoUsers == [h \in Handshake |-> IF h = h1 THEN u1 ELSE u2]

MCOneIP == [h \in Handshake |-> "wifi"]
MCTwoIPs == [h \in Handshake |-> IF h = h1 THEN "wifi" ELSE "mobile"]
=============================================================================
