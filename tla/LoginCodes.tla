------------------------------ MODULE LoginCodes ------------------------------
(***************************************************************************)
(* backend/db.go: users and one-use transport codes, behind two mutexes    *)
(* that each method takes and releases on its own.  A login runs GetUser,  *)
(* pruneTransport and the insert of NewTransport as three critical         *)
(* sections, a verification pruneTransport and the lookup as two; any      *)
(* number of HTTP handlers run them at once.                               *)
(*                                                                         *)
(* A user id or a code is named by the login that made it: NewV7 and NewV4 *)
(* never repeat one.                                                       *)
(***************************************************************************)
EXTENDS Naturals, FiniteSets

CONSTANTS
  Login,    \* requests to /login
  Verify,   \* requests to /wt
  Name,     \* user names
  NameOf,   \* the name a login asks for
  TTL,      \* minutes a code is valid (5)
  MaxTime,  \* bound on the clock, in minutes
  Forged,   \* a well-formed code nobody issued
  None

ASSUME LoginAssumption ==
  /\ Login \cap Verify = {}
  /\ NameOf \in [Login -> Name]
  /\ TTL \in Nat
  /\ MaxTime \in Nat
  /\ Forged \notin Login /\ None \notin Login \cup Name \cup {Forged}

VARIABLES
  now,      \* the clock
  users,    \* UserDatabase.users: a name, or None while there is no such id
  codes,    \* the keys of TransportDatabase.codes
  schema,   \* the TransportSchema stored with a code
  pc,       \* control point of each request
  uid,      \* the user id a request found
  asked,    \* the code a verification was given
  began     \* when a verification read the clock (history)

vars == <<now, users, codes, schema, pc, uid, asked, began>>

Request == Login \cup Verify
Goto(r, l) == pc' = [pc EXCEPT ![r] = l]

Tick ==
  /\ now < MaxTime
  /\ now' = now + 1
  /\ UNCHANGED <<users, codes, schema, pc, uid, asked, began>>

-----------------------------------------------------------------------------
\* DatabaseManager.Login

\* Mutant: the search for the name is missing.
GetUserAlwaysNew(l) ==
  /\ pc[l] = "idle"
  /\ users' = [users EXCEPT ![l] = NameOf[l]]
  /\ uid' = [uid EXCEPT ![l] = l]
  /\ Goto(l, "prune")
  /\ UNCHANGED <<now, codes, schema, asked, began>>

\* GetUser: the id that has the name, or a new one.
GetUser(l) ==
  /\ pc[l] = "idle"
  /\ \/ /\ \E u \in Login : users[u] = NameOf[l] /\ uid' = [uid EXCEPT ![l] = u]
        /\ UNCHANGED users
     \/ /\ \A u \in Login : users[u] # NameOf[l]
        /\ users' = [users EXCEPT ![l] = NameOf[l]]
        /\ uid' = [uid EXCEPT ![l] = l]
  /\ Goto(l, "prune")
  /\ UNCHANGED <<now, codes, schema, asked, began>>

\* Mutant: nothing is pruned.
LiveAll == codes

\* pruneTransport: expires.Before(now) is strict.
Live == {c \in codes : ~(schema[c].expires < now)}

PruneForLogin(l) ==
  /\ pc[l] = "prune"
  /\ codes' = Live
  /\ Goto(l, "insert")
  /\ UNCHANGED <<now, users, schema, uid, asked, began>>

\* Mutant: the name is stored where the user id belongs.
NewTransportForName(l) ==
  /\ pc[l] = "insert"
  /\ codes' = codes \cup {l}
  /\ schema' = [schema EXCEPT ![l] = [user |-> NameOf[l], expires |-> now + TTL]]
  /\ Goto(l, "done")
  /\ UNCHANGED <<now, users, uid, asked, began>>

\* The rest of NewTransport.
NewTransport(l) ==
  /\ pc[l] = "insert"
  /\ codes' = codes \cup {l}
  /\ schema' = [schema EXCEPT ![l] = [user |-> uid[l], expires |-> now + TTL]]
  /\ Goto(l, "done")
  /\ UNCHANGED <<now, users, uid, asked, began>>

\* NewV7 or NewV4 returned an error.
NoUUID(l) ==
  /\ \/ pc[l] = "insert"
     \/ pc[l] = "idle" /\ \A u \in Login : users[u] # NameOf[l]
  /\ Goto(l, "failed")
  /\ UNCHANGED <<now, users, codes, schema, uid, asked, began>>

-----------------------------------------------------------------------------
\* VerifyTransport

\* verifyWT: a client presents a code it was given, or makes one up.  A request
\* without a well-formed code is refused before it gets here.
VerifyWT(v) ==
  /\ pc[v] = "idle"
  /\ \E c \in {l \in Login : pc[l] = "done"} \cup {Forged} :
       asked' = [asked EXCEPT ![v] = c]
  /\ Goto(v, "prune")
  /\ UNCHANGED <<now, users, codes, schema, uid, began>>

PruneForVerify(v) ==
  /\ pc[v] = "prune"
  /\ codes' = Live
  /\ began' = [began EXCEPT ![v] = now]
  /\ Goto(v, "lookup")
  /\ UNCHANGED <<now, users, schema, uid, asked>>

\* Mutant: the code is not deleted.
AcceptAndKeep(v) ==
  /\ pc[v] = "lookup"
  /\ asked[v] \in codes
  /\ uid' = [uid EXCEPT ![v] = schema[asked[v]].user]
  /\ Goto(v, "accepted")
  /\ UNCHANGED <<now, users, codes, schema, asked, began>>

Accept(v) ==
  /\ pc[v] = "lookup"
  /\ asked[v] \in codes
  /\ uid' = [uid EXCEPT ![v] = schema[asked[v]].user]
  /\ codes' = codes \ {asked[v]}
  /\ Goto(v, "accepted")
  /\ UNCHANGED <<now, users, schema, asked, began>>

Reject(v) ==
  /\ pc[v] = "lookup"
  /\ asked[v] \notin codes
  /\ Goto(v, "rejected")
  /\ UNCHANGED <<now, users, codes, schema, uid, asked, began>>

-----------------------------------------------------------------------------
Init ==
  /\ now = 0
  /\ users = [l \in Login |-> None]
  /\ codes = {}
  /\ schema = [l \in Login |-> [user |-> None, expires |-> 0]]
  /\ pc = [r \in Request |-> "idle"]
  /\ uid = [r \in Request |-> None]
  /\ asked = [v \in Verify |-> None]
  /\ began = [v \in Verify |-> 0]

Next ==
  \/ Tick
  \/ \E l \in Login :
       GetUser(l) \/ PruneForLogin(l) \/ NewTransport(l) \/ NoUUID(l)
  \/ \E v \in Verify :
       VerifyWT(v) \/ PruneForVerify(v) \/ Accept(v) \/ Reject(v)

Spec == Init /\ [][Next]_vars

-----------------------------------------------------------------------------
\* Types of every variable.
TypeOK ==
  /\ now \in Nat
  /\ users \in [Login -> Name \cup {None}]
  /\ codes \subseteq Login
  /\ schema \in [Login -> [user : Login \cup {None}, expires : Nat]]
  /\ pc \in [Request -> {"idle", "prune", "insert", "done", "failed",
                         "lookup", "accepted", "rejected"}]
  /\ uid \in [Request -> Login \cup {None}]
  /\ asked \in [Verify -> Login \cup {Forged, None}]
  /\ began \in [Verify -> Nat]

\* Concurrent first logins under one name agree on one user id, so a player
\* cannot be two users at once (db.go:53-72).
OneIdPerName ==
  \A u, w \in Login : users[u] # None /\ users[u] = users[w] => u = w

\* An accepted code had not expired when its verification began, however long
\* the request then waited for the mutex.
AcceptedInTime ==
  \A v \in Verify : pc[v] = "accepted" => began[v] <= schema[asked[v]].expires

\* A code of db.go as a ticket, a verification as a gate.
TicketState(c) ==
  CASE c \in codes -> "good"
    [] \E v \in Verify : pc[v] = "accepted" /\ asked[v] = c -> "spent"
    [] pc[c] # "done" -> "none"
    [] OTHER -> "expired"

AnswerOf(v) ==
  CASE pc[v] = "accepted" -> users[uid[v]]
    [] pc[v] = "rejected" -> "refused"
    [] OTHER -> "pending"

T == INSTANCE Ticket WITH
       Code <- Login, Gate <- Verify,
       ticket <- [c \in Login |-> TicketState(c)],
       deadline <- [c \in Login |-> schema[c].expires],
       shown <- asked,
       answer <- [v \in Verify |-> AnswerOf(v)]

\* Logins and verifications are atomic: every interleaving of db.go's critical
\* sections is one of Ticket's.  So of two requests racing with a code one is accepted,
\* as the user it was made for (db_test.go:48-51), and a code is refused only after
\* somebody used it or it expired: no prune and no other login takes a good one away.
TicketSpec == T!Spec
===============================================================================
