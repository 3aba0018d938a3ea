------------------------------- MODULE MCWorld --------------------------------
\* Small worlds: two or three clients on a 3 by 3 grid.
EXTENDS Roster

CONSTANTS c1, c2, c3

MCSends == (c1 :> {"move"}) @@ (c2 :> {"chat", "move"}) @@ (c3 :> {})
MCTwoSend == [c \in {c1, c2} |-> MCSends[c]]
MCSpawn == {<<0, 1>>}
MCStep == {<<-128, 127>>, <<0, 0>>}

===============================================================================
