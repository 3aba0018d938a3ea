------------------------------- MODULE MCLocks --------------------------------
\* Two clients; the first may fail to start, misbehave and stop reading.
EXTENDS Locks

CONSTANTS c1, c2

MCDoes == [c \in Client |-> IF c = c1 THEN {"return", "kick"} ELSE {"move", "batch", "ping"}]
===============================================================================
