--------------------------- MODULE LoginCodesProofs ---------------------------
(***************************************************************************)
(* Theorems about LoginCodes, for any number of logins and verifications,  *)
(* any names and any lifetime of a code: types, one id per name, no code   *)
(* accepted after its time, and that the critical sections of db.go        *)
(* implement the atomic operations of Ticket.                              *)
(***************************************************************************)
EXTENDS LoginCodes, TLAPS

-----------------------------------------------------------------------------
\* The inductive invariant

\* A login that has found its user holds the id of its name, and so does the code
\* it makes.
NameInv ==
  \A l \in Login :
    /\ pc[l] = "idle" => users[l] = None
    /\ pc[l] \in {"prune", "insert"} => uid[l] \in Login /\ users[uid[l]] = NameOf[l]
    /\ pc[l] = "done" =>
         schema[l].user \in Login /\ users[schema[l].user] = NameOf[l]
    /\ l \in codes => pc[l] = "done"
    /\ pc[l] \in {"idle", "prune", "insert", "done", "failed"}

\* A verification asks for a code that was made; once accepted the code is gone, and
\* while it looks for the code, the code is one that was not pruned.
AskInv ==
  \A v \in Verify :
    /\ pc[v] \in {"idle", "prune", "lookup", "accepted", "rejected"}
    /\ pc[v] = "idle" <=> asked[v] = None
    /\ asked[v] \in Login => pc[asked[v]] = "done"
    /\ pc[v] = "lookup" /\ asked[v] \in codes => began[v] <= schema[asked[v]].expires
    /\ pc[v] = "accepted" =>
         /\ asked[v] \in Login \ codes
         /\ began[v] <= schema[asked[v]].expires
         /\ uid[v] \in Login /\ users[uid[v]] = NameOf[asked[v]]

IInv == TypeOK /\ OneIdPerName /\ NameInv /\ AskInv

LEMMA InitIInv == Init => IInv
BY LoginAssumption DEF Init, IInv, TypeOK, OneIdPerName, NameInv, AskInv, Request

LEMMA TypeStep ==
  ASSUME IInv, [Next]_vars
  PROVE  TypeOK'
<1> USE LoginAssumption DEF IInv, TypeOK, Request, Goto
<1>1. CASE Tick
  BY <1>1 DEF Tick
<1>2. ASSUME NEW l \in Login, GetUser(l) PROVE TypeOK'
  BY <1>2 DEF GetUser
<1>3. ASSUME NEW l \in Login, PruneForLogin(l) PROVE TypeOK'
  BY <1>3 DEF PruneForLogin, Live
<1>4. ASSUME NEW l \in Login, NewTransport(l) PROVE TypeOK'
  BY <1>4 DEF NewTransport
<1>5. ASSUME NEW l \in Login, NoUUID(l) PROVE TypeOK'
  BY <1>5 DEF NoUUID
<1>6. ASSUME NEW v \in Verify, VerifyWT(v) PROVE TypeOK'
  BY <1>6 DEF VerifyWT
<1>7. ASSUME NEW v \in Verify, PruneForVerify(v) PROVE TypeOK'
  BY <1>7 DEF PruneForVerify, Live
<1>8. ASSUME NEW v \in Verify, Accept(v) PROVE TypeOK'
  BY <1>8 DEF Accept
<1>9. ASSUME NEW v \in Verify, Reject(v) PROVE TypeOK'
  BY <1>9 DEF Reject
<1>10. CASE UNCHANGED vars
  BY <1>10 DEF vars
<1> QED
  BY <1>1, <1>2, <1>3, <1>4, <1>5, <1>6, <1>7, <1>8, <1>9, <1>10 DEF Next

\* A step leaves names alone: an id keeps the name it was given.
LEMMA NamesKept ==
  ASSUME IInv, [Next]_vars, NEW u \in Login, users[u] # None
  PROVE  users'[u] = users[u]
BY DEF IInv, TypeOK, NameInv, Next, vars, Tick, GetUser, PruneForLogin, NewTransport,
       NoUUID, VerifyWT, PruneForVerify, Accept, Reject

\* A user is made only for a name nobody has.
LEMMA OneIdStep ==
  ASSUME IInv, [Next]_vars
  PROVE  OneIdPerName'
<1> USE LoginAssumption DEF IInv, TypeOK, OneIdPerName
<1>1. ASSUME NEW l \in Login, GetUser(l) PROVE OneIdPerName'
  BY <1>1 DEF GetUser
<1>2. CASE UNCHANGED users
  BY <1>2
<1> QED
  BY <1>1, <1>2 DEF Next, vars, Tick, PruneForLogin, NewTransport, NoUUID, VerifyWT,
       PruneForVerify, Accept, Reject

LEMMA NameStep ==
  ASSUME IInv, [Next]_vars
  PROVE  NameInv'
<1> USE LoginAssumption DEF IInv, TypeOK, NameInv, Request, Goto
<1>1. CASE Tick
  BY <1>1 DEF Tick
<1>2. ASSUME NEW l \in Login, GetUser(l) PROVE NameInv'
  <2> SUFFICES ASSUME NEW k \in Login PROVE NameInv!(k)'
    OBVIOUS
  <2>1. CASE k = l
    BY <1>2, <2>1 DEF GetUser
  <2>2. CASE k # l
    BY <1>2, <2>2 DEF GetUser
  <2> QED
    BY <2>1, <2>2
<1>3. ASSUME NEW l \in Login, PruneForLogin(l) PROVE NameInv'
  BY <1>3 DEF PruneForLogin, Live
<1>4. ASSUME NEW l \in Login, NewTransport(l) PROVE NameInv'
  BY <1>4 DEF NewTransport
<1>5. ASSUME NEW l \in Login, NoUUID(l) PROVE NameInv'
  BY <1>5 DEF NoUUID
<1>6. ASSUME NEW v \in Verify, VerifyWT(v) PROVE NameInv'
  BY <1>6 DEF VerifyWT
<1>7. ASSUME NEW v \in Verify, PruneForVerify(v) PROVE NameInv'
  BY <1>7 DEF PruneForVerify, Live
<1>8. ASSUME NEW v \in Verify, Accept(v) PROVE NameInv'
  BY <1>8 DEF Accept
<1>9. ASSUME NEW v \in Verify, Reject(v) PROVE NameInv'
  BY <1>9 DEF Reject
<1>10. CASE UNCHANGED vars
  BY <1>10 DEF vars
<1> QED
  BY <1>1, <1>2, <1>3, <1>4, <1>5, <1>6, <1>7, <1>8, <1>9, <1>10 DEF Next

LEMMA AskStep ==
  ASSUME IInv, [Next]_vars
  PROVE  AskInv'
<1> USE LoginAssumption DEF IInv, TypeOK, AskInv, Request, Goto
<1>1. CASE Tick
  BY <1>1 DEF Tick
<1>2. ASSUME NEW l \in Login, GetUser(l) PROVE AskInv'
  <2>1. \A u \in Login : users[u] # None => users'[u] = users[u]
    BY <1>2, NamesKept DEF Next
  <2> QED
    BY <1>2, <2>1 DEF GetUser
<1>3. ASSUME NEW l \in Login, PruneForLogin(l) PROVE AskInv'
  BY <1>3 DEF PruneForLogin, Live
<1>4. ASSUME NEW l \in Login, NewTransport(l) PROVE AskInv'
  <2>1. \A v \in Verify : asked[v] # l
    BY <1>4 DEF NewTransport
  <2> QED
    BY <1>4, <2>1 DEF NewTransport
<1>5. ASSUME NEW l \in Login, NoUUID(l) PROVE AskInv'
  BY <1>5 DEF NoUUID
<1>6. ASSUME NEW v \in Verify, VerifyWT(v) PROVE AskInv'
  BY <1>6 DEF VerifyWT
<1>7. ASSUME NEW v \in Verify, PruneForVerify(v) PROVE AskInv'
  BY <1>7 DEF PruneForVerify, Live
<1>8. ASSUME NEW v \in Verify, Accept(v) PROVE AskInv'
  BY <1>8 DEF Accept, NameInv
<1>9. ASSUME NEW v \in Verify, Reject(v) PROVE AskInv'
  BY <1>9 DEF Reject
<1>10. CASE UNCHANGED vars
  BY <1>10 DEF vars
<1> QED
  BY <1>1, <1>2, <1>3, <1>4, <1>5, <1>6, <1>7, <1>8, <1>9, <1>10 DEF Next

\* The inductive invariant holds of every reachable state.
LEMMA Invariance == Spec => []IInv
<1>1. IInv /\ [Next]_vars => IInv'
  BY TypeStep, OneIdStep, NameStep, AskStep DEF IInv
<1> QED
  BY InitIInv, <1>1, PTL DEF Spec

-----------------------------------------------------------------------------
\* Every variable of db.go keeps its type.
THEOREM LoginTypeCorrect == Spec => []TypeOK
<1>1. IInv => TypeOK
  BY DEF IInv
<1> QED
  BY Invariance, <1>1, PTL

\* Logins under one name agree on one user, however many run at once (db.go:53-72).
THEOREM OneUserPerName == Spec => []OneIdPerName
<1>1. IInv => OneIdPerName
  BY DEF IInv
<1> QED
  BY Invariance, <1>1, PTL

\* No code is accepted that had expired when its verification began (db.go:113-130).
THEOREM NoLateAccept == Spec => []AcceptedInTime
<1>1. IInv => AcceptedInTime
  BY DEF IInv, AskInv, AcceptedInTime
<1> QED
  BY Invariance, <1>1, PTL

-----------------------------------------------------------------------------
\* The refinement of Ticket

\* No reachable state has a spent ticket among the codes, or a good one that is not made.
LEMMA TicketStates ==
  ASSUME IInv, NEW c \in Login
  PROVE  /\ c \in codes => TicketState(c) = "good" /\ pc[c] = "done"
         /\ \A v \in Verify : pc[v] = "accepted" /\ asked[v] = c =>
              TicketState(c) = "spent" /\ pc[c] = "done"
         /\ pc[c] # "done" <=> TicketState(c) = "none"
         /\ pc[c] = "done" => TicketState(c) \in {"good", "spent", "expired"}
         /\ TicketState(c) = "good" => c \in codes
BY DEF IInv, NameInv, AskInv, TicketState

\* A ticket's state depends on its own code, its login's end and who accepted it.
LEMMA TicketKept ==
  ASSUME NEW c \in Login, c \in codes <=> c \in codes',
         (pc[c] = "done") <=> (pc'[c] = "done"),
         \A v \in Verify : (pc[v] = "accepted" /\ asked[v] = c)
                             <=> (pc'[v] = "accepted" /\ asked'[v] = c)
  PROVE  TicketState(c)' = TicketState(c)
BY DEF TicketState

\* An answer depends on the verification's own control point, and on its user's name.
LEMMA AnswerKept ==
  ASSUME IInv, [Next]_vars, NEW v \in Verify, pc'[v] = pc[v], uid'[v] = uid[v]
  PROVE  AnswerOf(v)' = AnswerOf(v)
<1>1. CASE pc[v] = "accepted"
  <2>1. uid[v] \in Login /\ users[uid[v]] = NameOf[asked[v]] /\ asked[v] \in Login
    BY <1>1 DEF IInv, AskInv
  <2>2. users'[uid[v]] = users[uid[v]]
    BY <2>1, NamesKept, LoginAssumption
  <2> QED
    BY <1>1, <2>2 DEF AnswerOf
<1>2. CASE pc[v] # "accepted"
  BY <1>2 DEF AnswerOf
<1> QED
  BY <1>1, <1>2

LEMMA InitTicket == Init => T!Init
BY LoginAssumption DEF Init, T!Init, TicketState, AnswerOf, Request

\* Every step but those named is none of Ticket's.
LEMMA OtherSteps ==
  ASSUME IInv, [Next]_vars, UNCHANGED <<now, codes, schema, asked>>,
         \A c \in Login : (pc[c] = "done") <=> (pc'[c] = "done"),
         \A v \in Verify : pc'[v] = pc[v] /\ uid'[v] = uid[v]
  PROVE  UNCHANGED T!vars
<1>1. \A c \in Login : TicketState(c)' = TicketState(c)
  BY TicketKept
<1>2. \A v \in Verify : AnswerOf(v)' = AnswerOf(v)
  BY AnswerKept
<1> QED
  BY <1>1, <1>2 DEF T!vars

\* A prune withdraws what it removes.
LEMMA PruneWithdraws ==
  ASSUME IInv, [Next]_vars, codes' = Live, UNCHANGED <<now, users, schema, uid, asked>>,
         \A r \in Request : pc'[r] # pc[r] => pc[r] = "prune" /\ pc'[r] \in {"insert", "lookup"}
  PROVE  T!Withdraw(codes \ codes')
<1> DEFINE S == codes \ codes'
<1>1. \A c \in S : c \in Login /\ schema[c].expires < now
  BY DEF IInv, TypeOK, Live
<1>2. \A v \in Verify : AnswerOf(v)' = AnswerOf(v)
  BY AnswerKept DEF AnswerOf, Request
<1>3. ASSUME NEW c \in Login
      PROVE  TicketState(c)' = IF c \in S THEN "expired" ELSE TicketState(c)
  <2>1. \A v \in Verify : (pc[v] = "accepted" /\ asked[v] = c)
                            <=> (pc'[v] = "accepted" /\ asked'[v] = c)
    BY DEF Request
  <2>2. (pc[c] = "done") <=> (pc'[c] = "done")
    BY DEF Request
  <2>3. CASE c \in S
    <3>1. c \notin codes' /\ pc'[c] = "done"
      BY <2>2, <2>3, TicketStates
    <3>2. \A v \in Verify : ~(pc'[v] = "accepted" /\ asked'[v] = c)
      BY <2>1, <2>3 DEF IInv, AskInv
    <3> QED
      BY <2>3, <3>1, <3>2 DEF TicketState
  <2>4. CASE c \notin S
    <3>1. c \in codes <=> c \in codes'
      BY <2>4 DEF Live
    <3> QED
      BY <2>1, <2>2, <2>4, <3>1, TicketKept
  <2> QED
    BY <2>3, <2>4
<1>4. \A c \in S : TicketState(c) = "good"
  BY <1>1, TicketStates
<1> QED
  BY <1>1, <1>2, <1>3, <1>4 DEF T!Withdraw

LEMMA TicketStep ==
  ASSUME IInv, [Next]_vars
  PROVE  [T!Next]_(T!vars)
<1> USE LoginAssumption
<1>1. CASE Tick
  <2>1. \A c \in Login : TicketState(c)' = TicketState(c)
    BY <1>1, TicketKept DEF Tick
  <2>2. \A v \in Verify : AnswerOf(v)' = AnswerOf(v)
    BY <1>1, AnswerKept DEF Tick
  <2> QED
    BY <1>1, <2>1, <2>2 DEF Tick, T!Pass, T!Next
<1>2. ASSUME NEW l \in Login, GetUser(l) PROVE UNCHANGED T!vars
  <2>1. /\ \A c \in Login : (pc[c] = "done") <=> (pc'[c] = "done")
        /\ \A v \in Verify : pc'[v] = pc[v] /\ uid'[v] = uid[v]
    BY <1>2 DEF GetUser, Goto, IInv, TypeOK, Request
  <2> QED
    BY <1>2, <2>1, OtherSteps DEF GetUser
<1>3. ASSUME NEW l \in Login, PruneForLogin(l) PROVE T!Withdraw(codes \ codes')
  <2>1. \A r \in Request : pc'[r] # pc[r] => pc[r] = "prune" /\ pc'[r] \in {"insert", "lookup"}
    BY <1>3 DEF PruneForLogin, Goto, IInv, TypeOK, Request
  <2> QED
    BY <1>3, <2>1, PruneWithdraws DEF PruneForLogin
<1>4. ASSUME NEW l \in Login, NewTransport(l) PROVE T!Issue(l)
  <2>1. pc[l] # "done" /\ pc'[l] = "done" /\ \A r \in Request : r # l => pc'[r] = pc[r]
    BY <1>4 DEF NewTransport, Goto, IInv, TypeOK, Request
  <2>2. TicketState(l) = "none"
    BY <2>1, TicketStates
  <2>3. TicketState(l)' = "good"
    <3>1. l \in codes'
      BY <1>4 DEF NewTransport
    <3>2. \A v \in Verify : ~(pc'[v] = "accepted" /\ asked'[v] = l)
      BY <1>4, <2>1 DEF NewTransport, IInv, AskInv, Request
    <3> QED
      BY <2>1, <3>1, <3>2 DEF TicketState
  <2>4. \A c \in Login : c # l => TicketState(c)' = TicketState(c)
    BY <1>4, <2>1, TicketKept DEF NewTransport, Request
  <2>5. \A v \in Verify : AnswerOf(v)' = AnswerOf(v)
    BY <1>4, <2>1, AnswerKept DEF NewTransport, Request
  <2>6. \A c \in Login : schema'[c].expires = IF c = l THEN now + TTL ELSE schema[c].expires
    BY <1>4 DEF NewTransport, IInv, TypeOK
  <2> QED
    BY <1>4, <2>2, <2>3, <2>4, <2>5, <2>6 DEF NewTransport, T!Issue
<1>5. ASSUME NEW l \in Login, NoUUID(l) PROVE UNCHANGED T!vars
  <2>1. /\ \A c \in Login : (pc[c] = "done") <=> (pc'[c] = "done")
        /\ \A v \in Verify : pc'[v] = pc[v] /\ uid'[v] = uid[v]
    BY <1>5 DEF NoUUID, Goto, IInv, TypeOK, Request
  <2> QED
    BY <1>5, <2>1, OtherSteps DEF NoUUID
<1>6. ASSUME NEW v \in Verify, VerifyWT(v)
      PROVE  \E c \in Login \cup {Forged} : T!Show(v, c)
  <2>1. PICK c \in {l \in Login : pc[l] = "done"} \cup {Forged} :
          asked' = [asked EXCEPT ![v] = c]
    BY <1>6 DEF VerifyWT
  <2>2. pc[v] = "idle" /\ pc'[v] = "prune" /\ \A r \in Request : r # v => pc'[r] = pc[r]
    BY <1>6 DEF VerifyWT, Goto, IInv, TypeOK, Request
  <2>3. asked[v] = None
    BY <2>2 DEF IInv, AskInv
  <2>4. c # Forged => TicketState(c) # "none"
    BY <2>1, TicketStates
  <2>5. asked'[v] = c /\ \A w \in Verify : w # v => asked'[w] = asked[w]
    BY <2>1 DEF IInv, TypeOK
  <2>6. \A d \in Login : TicketState(d)' = TicketState(d)
    <3> SUFFICES ASSUME NEW d \in Login
                 PROVE  \A w \in Verify : (pc[w] = "accepted" /\ asked[w] = d)
                                            <=> (pc'[w] = "accepted" /\ asked'[w] = d)
      BY <1>6, <2>2, TicketKept DEF VerifyWT, Request
    <3> QED
      BY <2>2, <2>5 DEF Request
  <2>7. \A w \in Verify : AnswerOf(w)' = AnswerOf(w)
    <3>1. AnswerOf(v)' = AnswerOf(v)
      BY <2>2 DEF AnswerOf
    <3>2. \A w \in Verify : w # v => AnswerOf(w)' = AnswerOf(w)
      BY <1>6, <2>2, AnswerKept DEF VerifyWT, Request
    <3> QED
      BY <3>1, <3>2
  <2>8. c # Forged => c \in Login
    BY <2>1
  <2>9. T!Show(v, c)
    BY <1>6, <2>1, <2>3, <2>4, <2>6, <2>7, <2>8 DEF VerifyWT, T!Show
  <2> QED
    BY <2>9, <2>1
<1>7. ASSUME NEW v \in Verify, PruneForVerify(v) PROVE T!Withdraw(codes \ codes')
  <2>1. \A r \in Request : pc'[r] # pc[r] => pc[r] = "prune" /\ pc'[r] \in {"insert", "lookup"}
    BY <1>7 DEF PruneForVerify, Goto, IInv, TypeOK, Request
  <2> QED
    BY <1>7, <2>1, PruneWithdraws DEF PruneForVerify
<1>8. ASSUME NEW v \in Verify, Accept(v) PROVE \E c \in Login : T!Admit(v, c)
  <2> DEFINE c == asked[v]
  <2>1. c \in Login /\ c \in codes /\ pc[c] = "done" /\ TicketState(c) = "good"
    BY <1>8, TicketStates DEF Accept, IInv, TypeOK
  <2>2. /\ pc[v] = "lookup" /\ pc'[v] = "accepted"
        /\ uid'[v] = schema[c].user
        /\ \A r \in Request : r # v => pc'[r] = pc[r] /\ uid'[r] = uid[r]
    BY <1>8 DEF Accept, Goto, IInv, TypeOK, Request
  <2>3. AnswerOf(v) = "pending" /\ AnswerOf(v)' = NameOf[c]
    <3>1. users[schema[c].user] = NameOf[c]
      BY <2>1 DEF IInv, NameInv
    <3> QED
      BY <1>8, <2>2, <3>1 DEF Accept, AnswerOf
  <2>4. \A w \in Verify : w # v => AnswerOf(w)' = AnswerOf(w)
    BY <2>2, AnswerKept DEF Request
  <2>5. TicketState(c)' = "spent"
    <3>1. c \notin codes' /\ pc'[c] = "done" /\ pc'[v] = "accepted" /\ asked'[v] = c
      BY <1>8, <2>1, <2>2 DEF Accept, Request
    <3> QED
      BY <3>1 DEF TicketState
  <2>6. \A d \in Login : d # c => TicketState(d)' = TicketState(d)
    <3> SUFFICES ASSUME NEW d \in Login, d # c
                 PROVE  TicketState(d)' = TicketState(d)
      OBVIOUS
    <3>1. (d \in codes <=> d \in codes') /\ ((pc[d] = "done") <=> (pc'[d] = "done"))
      BY <1>8, <2>2 DEF Accept, Request
    <3>2. \A w \in Verify : (pc[w] = "accepted" /\ asked[w] = d)
                              <=> (pc'[w] = "accepted" /\ asked'[w] = d)
      BY <1>8, <2>2 DEF Accept, Request
    <3> QED
      BY <3>1, <3>2, TicketKept
  <2>7. T!Admit(v, c)
    BY <1>8, <2>1, <2>3, <2>4, <2>5, <2>6 DEF Accept, T!Admit
  <2> QED
    BY <2>1, <2>7
<1>9. ASSUME NEW v \in Verify, Reject(v) PROVE T!TurnAway(v)
  <2>1. /\ pc[v] = "lookup" /\ pc'[v] = "rejected" /\ asked[v] \notin codes
        /\ \A r \in Request : r # v => pc'[r] = pc[r]
    BY <1>9 DEF Reject, Goto, IInv, TypeOK, Request
  <2>2. asked[v] # None
    BY <2>1 DEF IInv, AskInv
  <2>3. asked[v] \in Login => TicketState(asked[v]) \in {"spent", "expired"}
    <3> HAVE asked[v] \in Login
    <3>1. pc[asked[v]] = "done"
      BY DEF IInv, AskInv
    <3> QED
      BY <2>1, <3>1, TicketStates
  <2>4. AnswerOf(v) = "pending" /\ AnswerOf(v)' = "refused"
    BY <2>1 DEF AnswerOf
  <2>5. \A w \in Verify : w # v => AnswerOf(w)' = AnswerOf(w)
    BY <1>9, <2>1, AnswerKept DEF Reject, Request
  <2>6. \A d \in Login : TicketState(d)' = TicketState(d)
    <3> SUFFICES ASSUME NEW d \in Login
                 PROVE  /\ (pc[d] = "done") <=> (pc'[d] = "done")
                        /\ \A w \in Verify : (pc[w] = "accepted" /\ asked[w] = d)
                                               <=> (pc'[w] = "accepted" /\ asked'[w] = d)
      BY <1>9, TicketKept DEF Reject
    <3> QED
      BY <1>9, <2>1 DEF Reject, Request
  <2> QED
    BY <1>9, <2>2, <2>3, <2>4, <2>5, <2>6 DEF Reject, T!TurnAway
<1>10. CASE UNCHANGED vars
  BY <1>10, OtherSteps DEF vars
<1>11. codes \ codes' \in SUBSET Login
  BY DEF IInv, TypeOK
<1> QED
  BY <1>1, <1>2, <1>3, <1>4, <1>5, <1>6, <1>7, <1>8, <1>9, <1>10, <1>11 DEF Next, T!Next

\* Every interleaving of db.go's critical sections is a behaviour of Ticket: a login
\* issues a code in one step, and a verification admits or refuses in one.
THEOREM LoginImplementsTicket == Spec => TicketSpec
<1> QED
  BY Invariance, InitTicket, TicketStep, PTL DEF Spec, TicketSpec, T!Spec

===============================================================================
