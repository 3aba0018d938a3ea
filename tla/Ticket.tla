-------------------------------- MODULE Ticket --------------------------------
(***************************************************************************)
(* What backend/db.go promises about login codes, with no locks and no     *)
(* steps in between: a ticket is issued to a name for TTL minutes, one     *)
(* gate admits its bearer under that name and spends the ticket in the     *)
(* same instant, a good ticket is never turned away, and one that nobody   *)
(* spends is withdrawn only after its deadline.                            *)
(***************************************************************************)
EXTENDS Naturals

CONSTANTS
  Code,     \* tickets
  Gate,     \* attempts to use one
  NameOf,   \* the name a ticket is issued to
  TTL,      \* minutes a ticket is good for
  Forged,   \* what a bearer without a ticket shows
  None

VARIABLES now, ticket, deadline, shown, answer

vars == <<now, ticket, deadline, shown, answer>>

Init ==
  /\ now = 0
  /\ ticket = [c \in Code |-> "none"]
  /\ deadline = [c \in Code |-> 0]
  /\ shown = [g \in Gate |-> None]
  /\ answer = [g \in Gate |-> "pending"]

Pass ==
  /\ now' = now + 1
  /\ UNCHANGED <<ticket, deadline, shown, answer>>

Issue(c) ==
  /\ ticket[c] = "none"
  /\ ticket' = [ticket EXCEPT ![c] = "good"]
  /\ deadline' = [deadline EXCEPT ![c] = now + TTL]
  /\ UNCHANGED <<now, shown, answer>>

\* Only a ticket that was handed out can be shown.
Show(g, c) ==
  /\ shown[g] = None
  /\ c # Forged => ticket[c] # "none"
  /\ shown' = [shown EXCEPT ![g] = c]
  /\ UNCHANGED <<now, ticket, deadline, answer>>

Admit(g, c) ==
  /\ answer[g] = "pending"
  /\ shown[g] = c
  /\ ticket[c] = "good"
  /\ ticket' = [ticket EXCEPT ![c] = "spent"]
  /\ answer' = [answer EXCEPT ![g] = NameOf[c]]
  /\ UNCHANGED <<now, deadline, shown>>

TurnAway(g) ==
  /\ answer[g] = "pending"
  /\ shown[g] # None
  /\ shown[g] \in Code => ticket[shown[g]] \in {"spent", "expired"}
  /\ answer' = [answer EXCEPT ![g] = "refused"]
  /\ UNCHANGED <<now, ticket, deadline, shown>>

Withdraw(S) ==
  /\ \A c \in S : ticket[c] = "good" /\ deadline[c] < now
  /\ ticket' = [c \in Code |-> IF c \in S THEN "expired" ELSE ticket[c]]
  /\ UNCHANGED <<now, deadline, shown, answer>>

Next ==
  \/ Pass
  \/ \E c \in Code : Issue(c)
  \/ \E g \in Gate, c \in Code \cup {Forged} : Show(g, c)
  \/ \E g \in Gate, c \in Code : Admit(g, c)
  \/ \E g \in Gate : TurnAway(g)
  \/ \E S \in SUBSET Code : Withdraw(S)

Spec == Init /\ [][Next]_vars
===============================================================================
