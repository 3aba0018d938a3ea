------------------------------ MODULE WorldProofs -----------------------------
(***************************************************************************)
(* Theorems about World, and about Roster, what the web clients make of    *)
(* it, for any number of clients, packets and returns, any grid, and any   *)
(* moves: types, mutual exclusion of broadcasts, that all clients are sent *)
(* the broadcasts in one order, that they are told of every player, that   *)
(* the last move they are sent is where it is, and that a web client's     *)
(* list shows who is there, and where.                                     *)
(***************************************************************************)
EXTENDS Roster, FiniteSetTheorems, TLAPS

LEMMA ThreadNames ==
  ASSUME NEW c \in Client
  PROVE  /\ Join(c) \in Thread /\ Loop(c) \in Thread /\ Janitor \in Thread
         /\ Join(c)[1] = "join" /\ Loop(c)[1] = "loop" /\ Janitor[1] = "janitor"
BY DEF Join, Loop, Janitor, Thread

LEMMA GotoType ==
  ASSUME TypeOK, NEW t \in Thread, NEW l \in Label, Goto(t, l)
  PROVE  /\ pc' \in [Thread -> Label]
         /\ pc'[t] = l
         /\ \A u \in Thread : u # t => pc'[u] = pc[u]
BY DEF TypeOK, Goto

\* Numbering a message leaves it a message.
LEMMA Numbered ==
  ASSUME NEW m \in News, NEW n \in Nat
  PROVE  /\ [m EXCEPT !.nr = n] \in News
         /\ [m EXCEPT !.nr = n].nr = n
<1>1. CASE m \in [kind : {"connect", "disconnect", "chat"}, who : Client, nr : Nat]
  BY <1>1 DEF News
<1>2. CASE m \in [kind : {"move"}, who : Client, at : Position, nr : Nat]
  BY <1>2 DEF News
<1> QED
  BY <1>1, <1>2 DEF News

LEMMA MessageNumber ==
  ASSUME NEW m \in Message
  PROVE  m.nr \in Nat
BY DEF Message, News

\* One step of a coordinate stays on the grid.
LEMMA OnGrid ==
  ASSUME NEW x \in 0..Edge, NEW d \in -128..127
  PROVE  Wrap(x + Sign(d)) \in 0..Edge
BY WorldAssumption DEF Wrap, Sign

\* What a write adds to a stream, and that it adds nothing else.
LEMMA WrittenType ==
  ASSUME TypeOK, NEW S, NEW m \in Message
  PROVE  /\ Written(S, m) \in [Client -> Seq(Message)]
         /\ \A c \in Client :
              \/ Written(S, m)[c] = sent[c]
              \/ c \in S /\ Written(S, m)[c] = Append(sent[c], m)
<1>1. \A c \in Client : sent[c] \in Seq(Message) /\ Append(sent[c], m) \in Seq(Message)
  BY DEF TypeOK
<1> QED
  BY <1>1 DEF Written

-----------------------------------------------------------------------------
\* Every step keeps every variable's type.
LEMMA TypeStep ==
  ASSUME TypeOK, GoalInv, CastInv, [Next]_vars
  PROVE  TypeOK'
<1> USE WorldAssumption
<1>1. ASSUME NEW t \in Thread, Announce(t) PROVE TypeOK'
  <2>1. news[t] \in News
    BY <1>1 DEF Announce, CastInv
  <2>2. casts' \in Nat
    BY <1>1 DEF Announce, TypeOK
  <2>3. news' \in [Thread -> News \cup {None}]
    BY <1>1, <2>1, <2>2, Numbered DEF Announce, TypeOK
  <2>4. pc' \in [Thread -> Label]
    BY <1>1, GotoType DEF Announce, Label
  <2> QED
    BY <1>1, <2>2, <2>3, <2>4 DEF Announce, TypeOK, session
<1>2. ASSUME NEW t \in Thread, NEW c \in Client, CastTo(t, c) PROVE TypeOK'
  <2>1. news[t] \in Message
    BY <1>2 DEF CastTo, CastInv, Message
  <2>2. sent' \in [Client -> Seq(Message)]
    BY <1>2, <2>1, WrittenType DEF CastTo
  <2>3. todo' \in [Thread -> SUBSET Client]
    BY <1>2 DEF CastTo, TypeOK
  <2> QED
    BY <1>2, <2>2, <2>3 DEF CastTo, TypeOK, session
<1>3. ASSUME NEW t \in Thread, CastEnd(t) PROVE TypeOK'
  <2>1. pc' \in [Thread -> Label]
    BY <1>3, GotoType DEF CastEnd, Label
  <2> QED
    BY <1>3, <2>1 DEF CastEnd, TypeOK, session
<1>4. ASSUME NEW c \in Client, Arrive(c) PROVE TypeOK'
  <2>1. pc' \in [Thread -> Label]
    BY <1>4, GotoType, ThreadNames DEF Arrive, Label
  <2> QED
    BY <1>4, <2>1 DEF Arrive, TypeOK
<1>5. ASSUME NEW c \in Client, Insert(c) PROVE TypeOK'
  <2>1. pc' \in [Thread -> Label]
    BY <1>5, GotoType, ThreadNames DEF Insert, Label
  <2>2. at' \in [Client -> Position]
    BY <1>5 DEF Insert, TypeOK, Position
  <2>3. news' \in [Thread -> News \cup {None}]
    BY <1>5, ThreadNames DEF Insert, TypeOK, News
  <2> QED
    BY <1>5, <2>1, <2>2, <2>3 DEF Insert, TypeOK, session
<1>6. ASSUME NEW c \in Client, Rejoin(c) PROVE TypeOK'
  <2>1. pc' \in [Thread -> Label]
    BY <1>6, GotoType, ThreadNames DEF Rejoin, Label
  <2> QED
    BY <1>6, <2>1 DEF Rejoin, TypeOK, session
<1>7. ASSUME NEW c \in Client, Greet(c) PROVE TypeOK'
  <2>1. [kind |-> "connect", who |-> c, nr |-> 0] \in Message
    BY DEF Message, News
  <2>2. sent' \in [Client -> Seq(Message)]
    BY <1>7, <2>1, WrittenType DEF Greet
  <2>3. pc' \in [Thread -> Label]
    BY <1>7, GotoType, ThreadNames DEF Greet, Label
  <2> QED
    BY <1>7, <2>2, <2>3 DEF Greet, TypeOK, session
<1>8. ASSUME NEW c \in Client, Collect(c) PROVE TypeOK'
  <2>1. pc' \in [Thread -> Label]
    BY <1>8, GotoType, ThreadNames DEF Collect, Label
  <2>2. list' \in [Client -> SUBSET (Client \X Position)]
    BY <1>8 DEF Collect, TypeOK
  <2> QED
    BY <1>8, <2>1, <2>2 DEF Collect, TypeOK, session
<1>9. ASSUME NEW c \in Client, SendList(c) PROVE TypeOK'
  <2>1. [kind |-> "players", all |-> list[c], nr |-> 0] \in Message
    BY DEF Message, TypeOK
  <2>2. sent' \in [Client -> Seq(Message)]
    BY <1>9, <2>1, WrittenType DEF SendList
  <2>3. pc' \in [Thread -> Label]
    BY <1>9, GotoType, ThreadNames DEF SendList, Label
  <2> QED
    BY <1>9, <2>2, <2>3 DEF SendList, TypeOK, session
<1>10. ASSUME NEW c \in Client, NoPlayer(c) PROVE TypeOK'
  <2>1. at' \in [Client -> Position]
    <3>1. CASE UNCHANGED at
      BY <3>1 DEF TypeOK
    <3>2. CASE pc[Loop(c)] = "setY" /\ at' = [at EXCEPT ![c] = <<@[1], goal[c][2]>>]
      <4>1. goal[c] \in Position /\ at[c] \in Position
        BY <3>2 DEF GoalInv, TypeOK
      <4>2. <<at[c][1], goal[c][2]>> \in Position
        BY <4>1 DEF Position
      <4> QED
        BY <3>2, <4>2 DEF TypeOK
    <3> QED
      BY <1>10, <3>1, <3>2 DEF NoPlayer
  <2> QED
    BY <1>10, <2>1 DEF NoPlayer, TypeOK, session
<1>11. ASSUME NEW c \in Client, Stay(c) PROVE TypeOK'
  <2>1. pc' \in [Thread -> Label]
    BY <1>11, GotoType, ThreadNames DEF Stay, Label
  <2> QED
    BY <1>11, <2>1 DEF Stay, TypeOK, session
<1>12. ASSUME NEW c \in Client, SetX(c) PROVE TypeOK'
  <2>1. pc' \in [Thread -> Label]
    BY <1>12, GotoType, ThreadNames DEF SetX, Label
  <2>2. goal[c] \in Position /\ at[c] \in Position
    BY <1>12 DEF SetX, GoalInv, TypeOK
  <2>3. at' \in [Client -> Position]
    BY <1>12, <2>2 DEF SetX, TypeOK, Position
  <2> QED
    BY <1>12, <2>1, <2>3 DEF SetX, TypeOK, session
<1>13. ASSUME NEW c \in Client, SetY(c) PROVE TypeOK'
  <2>1. pc' \in [Thread -> Label]
    BY <1>13, GotoType, ThreadNames DEF SetY, Label
  <2>2. goal[c] \in Position /\ at[c] \in Position
    BY <1>13 DEF SetY, GoalInv, TypeOK
  <2>3. at' \in [Client -> Position]
    BY <1>13, <2>2 DEF SetY, TypeOK, Position
  <2>4. news' \in [Thread -> News \cup {None}]
    <3>1. [kind |-> "move", who |-> c, at |-> at'[c], nr |-> 0] \in News
      BY <2>3 DEF News
    <3> QED
      BY <1>13, <3>1 DEF SetY, TypeOK
  <2>5. goal' \in [Client -> Position \cup {None}]
    BY <1>13 DEF SetY, TypeOK
  <2> QED
    BY <1>13, <2>1, <2>3, <2>4, <2>5 DEF SetY, TypeOK, session
<1>14. ASSUME NEW c \in Client, Return(c) PROVE TypeOK'
  <2>1. pc' \in [Thread -> Label]
    BY <1>14, GotoType, ThreadNames DEF Return, Label
  <2>2. sent' \in [Client -> Seq(Message)]
    BY <1>14 DEF Return, TypeOK
  <2> QED
    BY <1>14, <2>1, <2>2 DEF Return, TypeOK
<1>15. ASSUME NEW c \in Client, Packet(c) PROVE TypeOK'
  <2>1. packets' \in [Client -> 0..MaxPackets]
    BY <1>15 DEF Packet, TypeOK
  <2>2. CASE /\ news' = [news EXCEPT ![Loop(c)] =
                          [kind |-> "chat", who |-> c, nr |-> 0]]
             /\ Goto(Loop(c), "announce") /\ goal' = goal
    <3>1. pc' \in [Thread -> Label]
      BY <2>2, GotoType, ThreadNames DEF Label
    <3>2. news' \in [Thread -> News \cup {None}]
      BY <2>2 DEF TypeOK, News
    <3> QED
      BY <1>15, <2>1, <2>2, <3>1, <3>2 DEF Packet, TypeOK
  <2>3. ASSUME NEW m \in Step,
               LET to == <<Wrap(at[c][1] + Sign(m[1])), Wrap(at[c][2] + Sign(m[2]))>> IN
                 /\ goal' = [goal EXCEPT ![c] = to]
                 /\ Goto(Loop(c), IF to = at[c] THEN "stay" ELSE "setX"),
               news' = news
        PROVE  TypeOK'
    <3> DEFINE to == <<Wrap(at[c][1] + Sign(m[1])), Wrap(at[c][2] + Sign(m[2]))>>
    <3>1. at[c][1] \in 0..Edge /\ at[c][2] \in 0..Edge
      BY DEF TypeOK, Position
    <3>2. m[1] \in -128..127 /\ m[2] \in -128..127
      OBVIOUS
    <3>3. to \in Position
      BY <3>1, <3>2, OnGrid DEF Position
    <3>4. goal' \in [Client -> Position \cup {None}]
      BY <2>3, <3>3 DEF TypeOK
    <3>5. pc' \in [Thread -> Label]
      BY <2>3, GotoType, ThreadNames DEF Label
    <3> QED
      BY <1>15, <2>1, <2>3, <3>4, <3>5 DEF Packet, TypeOK
  <2> QED
    BY <1>15, <2>2, <2>3 DEF Packet
<1>16. ASSUME NEW c \in Client, Close(c) PROVE TypeOK'
  BY <1>16 DEF Close, TypeOK
<1>17. ASSUME NEW c \in Client, Disconnect(c) PROVE TypeOK'
  <2>1. pc' \in [Thread -> Label]
    BY <1>17, GotoType, ThreadNames DEF Disconnect, Label
  <2>2. news' \in [Thread -> News \cup {None}]
    BY <1>17 DEF Disconnect, TypeOK, News
  <2>3. crashed' \in BOOLEAN
    BY <1>17 DEF Disconnect, InMap
  <2> QED
    BY <1>17, <2>1, <2>2, <2>3 DEF Disconnect, TypeOK, session
<1>18. CASE UNCHANGED vars
  BY <1>18 DEF vars, session, TypeOK
<1> QED
  BY <1>1, <1>2, <1>3, <1>4, <1>5, <1>6, <1>7, <1>8, <1>9, <1>10, <1>11, <1>12,
     <1>13, <1>14, <1>15, <1>16, <1>17, <1>18
     DEF Next, ThreadStep, BroadcastStep, JoinStep, LoopStep

-----------------------------------------------------------------------------
LEMMA DifferentThreads ==
  ASSUME NEW c \in Client, NEW d \in Client
  PROVE  /\ Join(c) # Loop(d) /\ Janitor # Loop(c) /\ Janitor # Join(c)
         /\ c # d => Loop(c) # Loop(d)
BY DEF Join, Loop, Janitor

\* Only its own steps bring a loop to where it moves its player.
LEMMA GoalStep ==
  ASSUME TypeOK, GoalInv, [Next]_vars
  PROVE  GoalInv'
<1> USE WorldAssumption, ThreadNames, DifferentThreads
<1>1. ASSUME NEW t \in Thread, NEW l \in Label \ {"setX", "setY"}, Goto(t, l), goal' = goal
      PROVE  GoalInv'
  BY <1>1, GotoType DEF GoalInv
<1>2. ASSUME UNCHANGED <<pc, goal>> PROVE GoalInv'
  BY <1>2 DEF GoalInv
<1>3. ASSUME NEW t \in Thread, BroadcastStep(t) PROVE GoalInv'
  BY <1>1, <1>2, <1>3 DEF BroadcastStep, Announce, CastTo, CastEnd, Label
<1>4. ASSUME NEW c \in Client, JoinStep(c) PROVE GoalInv'
  <2>1. \E l \in Label \ {"setX", "setY"} : Goto(Join(c), l) /\ goal' = goal
    BY <1>4 DEF JoinStep, Insert, Rejoin, Greet, Collect, SendList, Label
  <2> QED
    BY <1>1, <2>1
<1>5. ASSUME NEW c \in Client, NoPlayer(c) \/ Close(c) PROVE GoalInv'
  BY <1>2, <1>5 DEF NoPlayer, Close
<1>6. ASSUME NEW c \in Client, NEW l \in Label, Goto(Loop(c), l),
             NEW g \in Position \cup {None}, goal' = [goal EXCEPT ![c] = g],
             l \in {"setX", "setY"} => g \in Position
      PROVE  GoalInv'
  <2> SUFFICES ASSUME NEW d \in Client, pc'[Loop(d)] \in {"setX", "setY"}
               PROVE  goal'[d] \in Position
    BY DEF GoalInv
  <2>1. CASE d = c
    BY <1>6, <2>1, GotoType DEF TypeOK
  <2>2. CASE d # c
    <3>1. pc'[Loop(d)] = pc[Loop(d)]
      BY <1>6, <2>2, GotoType
    <3>2. goal'[d] = goal[d]
      BY <1>6, <2>2 DEF TypeOK
    <3> QED
      BY <3>1, <3>2 DEF GoalInv
  <2> QED
    BY <2>1, <2>2
<1>7. ASSUME NEW c \in Client, Stay(c) \/ SetY(c) PROVE GoalInv'
  BY <1>6, <1>7 DEF Stay, SetY, Label
<1>8. ASSUME NEW c \in Client, SetX(c) PROVE GoalInv'
  <2>1. Goto(Loop(c), "setY") /\ goal' = goal /\ goal[c] \in Position
    BY <1>8 DEF SetX, GoalInv
  <2>2. goal' = [goal EXCEPT ![c] = goal[c]]
    BY <2>1 DEF TypeOK
  <2> QED
    BY <1>6, <2>1, <2>2 DEF Label
<1>9. ASSUME NEW c \in Client, Packet(c) PROVE GoalInv'
  <2>1. CASE Goto(Loop(c), "announce") /\ UNCHANGED goal
    BY <1>1, <2>1 DEF Label
  <2>2. ASSUME NEW m \in Step,
               LET to == <<Wrap(at[c][1] + Sign(m[1])), Wrap(at[c][2] + Sign(m[2]))>> IN
                 /\ goal' = [goal EXCEPT ![c] = to]
                 /\ Goto(Loop(c), IF to = at[c] THEN "stay" ELSE "setX")
        PROVE  GoalInv'
    <3> DEFINE to == <<Wrap(at[c][1] + Sign(m[1])), Wrap(at[c][2] + Sign(m[2]))>>
               l == IF to = at[c] THEN "stay" ELSE "setX"
    <3>1. at[c][1] \in 0..Edge /\ at[c][2] \in 0..Edge
      BY DEF TypeOK, Position
    <3>2. m[1] \in -128..127 /\ m[2] \in -128..127
      OBVIOUS
    <3>3. to \in Position
      BY <3>1, <3>2, OnGrid, ZenonT(40) DEF Position
    <3>4. l \in Label
      BY DEF Label
    <3>5. goal' = [goal EXCEPT ![c] = to] /\ Goto(Loop(c), l)
      BY <2>2
    <3> HIDE DEF to, l
    <3> QED
      BY <1>6, <3>3, <3>4, <3>5
  <2> QED
    BY <1>9, <2>1, <2>2 DEF Packet
<1>10. ASSUME NEW c \in Client, Arrive(c) \/ Return(c) \/ Disconnect(c) PROVE GoalInv'
  BY <1>1, <1>10 DEF Arrive, Return, Disconnect, Label
<1>11. CASE UNCHANGED vars
  BY <1>2, <1>11 DEF vars
<1> QED
  BY <1>3, <1>4, <1>5, <1>7, <1>8, <1>9, <1>10, <1>11 DEF Next, ThreadStep, LoopStep

-----------------------------------------------------------------------------
Casting == OneWriter /\ CastInv /\ SameOrder

\* Threads that neither wait for the writer nor broadcast, before or after.
Aside == \A t \in Thread :
  pc'[t] = pc[t] \/ (pc[t] # "cast" /\ pc'[t] \notin {"announce", "cast"})

LEMMA OneAside ==
  ASSUME TypeOK, NEW t \in Thread, NEW l \in Label \ {"announce", "cast"},
         Goto(t, l), pc[t] # "cast"
  PROVE  Aside
BY GotoType DEF Aside

LEMMA SilentStep ==
  ASSUME Casting, Aside, UNCHANGED <<news, todo, writer, sent, casts>>
  PROVE  Casting'
<1>1. OneWriter' /\ SameOrder'
  BY DEF Casting, OneWriter, SameOrder, Aside
<1>2. CastInv'
  BY DEF Casting, CastInv, Aside
<1> QED
  BY <1>1, <1>2 DEF Casting

\* A message is made by a thread that does not broadcast yet.
LEMMA NewsStep ==
  ASSUME TypeOK, Casting, NEW t \in Thread, NEW m \in News, pc[t] # "cast",
         Goto(t, "announce"), news' = [news EXCEPT ![t] = m],
         UNCHANGED <<todo, writer, sent, casts>>
  PROVE  Casting'
<1>1. /\ pc'[t] = "announce" /\ news'[t] = m
      /\ \A u \in Thread \ {t} : pc'[u] = pc[u] /\ news'[u] = news[u]
  BY GotoType DEF TypeOK, Label
<1>2. OneWriter' /\ SameOrder'
  BY <1>1 DEF Casting, OneWriter, SameOrder
<1>3. CastInv'
  BY <1>1 DEF Casting, CastInv
<1> QED
  BY <1>2, <1>3 DEF Casting

\* A message without a number is written while nobody broadcasts.
LEMMA PersonalStep ==
  ASSUME TypeOK, Casting, Aside, writer = None, NEW S, NEW m \in Message, m.nr = 0,
         sent' = Written(S, m), UNCHANGED <<news, todo, writer, casts>>
  PROVE  Casting'
<1>1. \A t \in Thread : pc[t] # "cast" /\ pc'[t] # "cast"
  BY WorldAssumption DEF Casting, OneWriter, Aside
<1>2. ASSUME NEW c \in Client
      PROVE  sent'[c] = sent[c] \/ sent'[c] = Append(sent[c], m)
  BY WrittenType
<1>3. \A c \in Client : sent[c] \in Seq(Message)
  BY DEF TypeOK
<1>4. OneWriter'
  BY <1>1 DEF Casting, OneWriter
<1>5. \A c \in Client : \A i \in DOMAIN sent'[c] : sent'[c][i].nr <= casts
  <2> SUFFICES ASSUME NEW c \in Client, NEW i \in DOMAIN sent'[c]
               PROVE  sent'[c][i].nr <= casts
    OBVIOUS
  <2>1. CASE sent'[c] = sent[c]
    BY <2>1 DEF Casting, CastInv
  <2>2. CASE sent'[c] = Append(sent[c], m)
    <3>1. CASE i = Len(sent[c]) + 1
      BY <1>3, <2>2, <3>1 DEF TypeOK
    <3>2. CASE i # Len(sent[c]) + 1
      <4>1. i \in DOMAIN sent[c] /\ sent'[c][i] = sent[c][i]
        BY <1>3, <2>2, <3>2
      <4> QED
        BY <4>1 DEF Casting, CastInv
    <3> QED
      BY <3>1, <3>2
  <2> QED
    BY <1>2, <2>1, <2>2
<1>6. CastInv'
  BY <1>1, <1>5 DEF Casting, CastInv, Aside
<1>7. SameOrder'
  <2> SUFFICES ASSUME NEW c \in Client, NEW i \in DOMAIN sent'[c], NEW j \in DOMAIN sent'[c],
                      i < j, sent'[c][i].nr # 0, sent'[c][j].nr # 0
               PROVE  sent'[c][i].nr < sent'[c][j].nr
    BY DEF SameOrder
  <2>1. CASE sent'[c] = sent[c]
    BY <2>1 DEF Casting, SameOrder
  <2>2. CASE sent'[c] = Append(sent[c], m)
    <3>1. i # Len(sent[c]) + 1 /\ j # Len(sent[c]) + 1
      BY <1>3, <2>2
    <3>2. /\ i \in DOMAIN sent[c] /\ sent'[c][i] = sent[c][i]
          /\ j \in DOMAIN sent[c] /\ sent'[c][j] = sent[c][j]
      BY <1>3, <2>2, <3>1
    <3> QED
      BY <3>2 DEF Casting, SameOrder
  <2> QED
    BY <1>2, <2>1, <2>2
<1> QED
  BY <1>4, <1>6, <1>7 DEF Casting

\* The mutex is free: nobody broadcasts, and no message has the new number.
LEMMA AnnounceStep ==
  ASSUME TypeOK, Casting, NEW t \in Thread, Announce(t)
  PROVE  Casting'
<1>1. /\ pc'[t] = "cast"
      /\ \A u \in Thread \ {t} : pc'[u] = pc[u] /\ news'[u] = news[u] /\ pc'[u] # "cast"
  <2>1. \A u \in Thread : pc[u] # "cast"
    BY WorldAssumption DEF Announce, Casting, OneWriter
  <2>2. "cast" \in Label
    BY DEF Label
  <2>3. pc'[t] = "cast" /\ \A u \in Thread \ {t} : pc'[u] = pc[u]
    BY <2>2, GotoType DEF Announce
  <2> QED
    BY <2>1, <2>3 DEF Announce, TypeOK
<1>2. casts' = casts + 1 /\ casts \in Nat /\ sent' = sent /\ writer' = t
  BY DEF Announce, TypeOK
<1>3. news'[t] \in News /\ news'[t].nr = casts'
  <2>1. news[t] \in News
    BY DEF Announce, Casting, CastInv
  <2>2. news'[t] = [news[t] EXCEPT !.nr = casts']
    BY DEF Announce, TypeOK
  <2> QED
    BY <1>2, <2>1, <2>2, Numbered
<1>4. OneWriter' /\ SameOrder'
  BY <1>1, <1>2 DEF Casting, OneWriter, SameOrder
<1>5. \A c \in Client : \A i \in DOMAIN sent[c] :
        /\ sent[c][i].nr <= casts
        /\ sent[c][i].nr \in Nat
  BY MessageNumber DEF Casting, CastInv, TypeOK
<1>6. todo'[t] \subseteq Client
  BY DEF Announce, TypeOK
<1>7. \A c \in Client : \A i \in DOMAIN sent'[c] : sent'[c][i].nr <= casts' /\ sent'[c][i].nr < casts'
  BY <1>2, <1>5
<1>8. CastInv'
  BY <1>1, <1>3, <1>6, <1>7 DEF Casting, CastInv
<1> QED
  BY <1>4, <1>8 DEF Casting

\* The broadcast's number is the latest, and the client has not had it.
LEMMA CastToStep ==
  ASSUME TypeOK, Casting, NEW t \in Thread, NEW c \in Client, CastTo(t, c)
  PROVE  Casting'
<1>1. /\ news[t] \in News /\ news[t] \in Message
      /\ news[t].nr = casts /\ casts \in Nat
  BY DEF CastTo, Casting, CastInv, TypeOK, Message
<1>2. /\ \A u \in Thread \ {t} : pc[u] # "cast"
      /\ pc[t] = "cast" /\ pc' = pc /\ news' = news /\ casts' = casts /\ writer' = writer
  BY DEF CastTo, Casting, OneWriter
<1>3. /\ \A d \in Client : d # c => sent'[d] = sent[d]
      /\ sent'[c] = sent[c] \/ sent'[c] = Append(sent[c], news[t])
  BY <1>1, WrittenType, SMTT(30) DEF CastTo
<1>4. sent[c] \in Seq(Message)
  BY DEF TypeOK
<1>5. \A i \in DOMAIN sent[c] : sent[c][i].nr < casts
  BY DEF CastTo, Casting, CastInv
<1>6. ASSUME NEW i \in DOMAIN sent'[c]
      PROVE  \/ i \in DOMAIN sent[c] /\ sent'[c][i] = sent[c][i]
             \/ i = Len(sent[c]) + 1 /\ sent'[c][i] = news[t]
  BY <1>3, <1>4
<1>7. OneWriter'
  BY <1>2 DEF Casting, OneWriter
<1>8. SameOrder'
  <2> SUFFICES ASSUME NEW d \in Client, NEW i \in DOMAIN sent'[d], NEW j \in DOMAIN sent'[d],
                      i < j, sent'[d][i].nr # 0, sent'[d][j].nr # 0
               PROVE  sent'[d][i].nr < sent'[d][j].nr
    BY DEF SameOrder
  <2>1. CASE d # c
    BY <1>3, <2>1 DEF Casting, SameOrder
  <2>2. CASE d = c
    <3>1. CASE j \in DOMAIN sent[c] /\ sent'[c][j] = sent[c][j]
      <4>1. i \in DOMAIN sent[c] /\ sent'[c][i] = sent[c][i]
        BY <1>4, <1>6, <2>2, <3>1
      <4> QED
        BY <2>2, <3>1, <4>1 DEF Casting, SameOrder
    <3>2. CASE j = Len(sent[c]) + 1 /\ sent'[c][j] = news[t]
      <4>1. i \in DOMAIN sent[c] /\ sent'[c][i] = sent[c][i]
        BY <1>4, <1>6, <2>2, <3>2
      <4> QED
        BY <1>1, <1>5, <2>2, <3>2, <4>1
    <3> QED
      BY <1>6, <2>2, <3>1, <3>2
  <2> QED
    BY <2>1, <2>2
<1>9. \A d \in Client : \A i \in DOMAIN sent'[d] : sent'[d][i].nr <= casts'
  <2>1. ASSUME NEW i \in DOMAIN sent'[c] PROVE sent'[c][i].nr <= casts
    <3>1. CASE i \in DOMAIN sent[c] /\ sent'[c][i] = sent[c][i]
      BY <3>1 DEF Casting, CastInv
    <3>2. CASE sent'[c][i] = news[t]
      BY <1>1, <3>2
    <3> QED
      BY <1>6, <3>1, <3>2
  <2>2. ASSUME NEW d \in Client, d # c, NEW i \in DOMAIN sent'[d] PROVE sent'[d][i].nr <= casts
    BY <1>3, <2>2 DEF Casting, CastInv
  <2> QED
    BY <1>2, <2>1, <2>2
<1>10. \A d \in todo'[t] : d \in todo[t] /\ d # c /\ d \in Client
  BY DEF CastTo, TypeOK
<1>11. CastInv'
  <2>1. \A d \in todo'[t] : \A i \in DOMAIN sent'[d] : sent'[d][i].nr < casts'
    BY <1>2, <1>3, <1>10 DEF Casting, CastInv
  <2> QED
    BY <1>1, <1>2, <1>9, <2>1 DEF Casting, CastInv
<1> QED
  BY <1>7, <1>8, <1>11 DEF Casting

LEMMA CastEndStep ==
  ASSUME TypeOK, Casting, NEW t \in Thread, CastEnd(t)
  PROVE  Casting'
<1>1. /\ pc'[t] \notin {"announce", "cast"}
      /\ \A u \in Thread \ {t} : pc'[u] = pc[u] /\ news'[u] = news[u] /\ pc'[u] # "cast"
  <2>1. \A u \in Thread \ {t} : pc[u] # "cast"
    BY DEF CastEnd, Casting, OneWriter
  <2>2. {"collect", "idle"} \subseteq Label
    BY DEF Label
  <2>3. pc'[t] \in {"collect", "idle"} /\ \A u \in Thread \ {t} : pc'[u] = pc[u]
    BY <2>2, GotoType DEF CastEnd
  <2> QED
    BY <2>1, <2>3 DEF CastEnd, TypeOK
<1>2. writer' = None /\ sent' = sent /\ casts' = casts
  BY DEF CastEnd
<1>3. OneWriter' /\ SameOrder'
  BY <1>1, <1>2, WorldAssumption DEF Casting, OneWriter, SameOrder
<1>4. CastInv'
  BY <1>1, <1>2 DEF Casting, CastInv
<1> QED
  BY <1>3, <1>4 DEF Casting

\* A new stream is empty.
LEMMA ReturnStep ==
  ASSUME TypeOK, Casting, NEW c \in Client, Return(c)
  PROVE  Casting'
<1>1. Aside
  <2>1. "rejoin" \in Label \ {"announce", "cast"}
    BY DEF Label
  <2> QED
    BY <2>1, OneAside, ThreadNames DEF Return
<1>2. /\ sent' = [sent EXCEPT ![c] = <<>>]
      /\ UNCHANGED <<news, todo, writer, casts>>
  BY DEF Return
<1>3. \A d \in Client : sent'[d] = sent[d] \/ sent'[d] = <<>>
  BY <1>2 DEF TypeOK
<1>4. OneWriter'
  BY <1>1, <1>2 DEF Casting, OneWriter, Aside
<1>5. SameOrder'
  BY <1>3 DEF Casting, SameOrder
<1>6. \A d \in Client : \A i \in DOMAIN sent'[d] : i \in DOMAIN sent[d] /\ sent'[d][i] = sent[d][i]
  BY <1>3
<1>7. CastInv'
  BY <1>1, <1>2, <1>6 DEF Casting, CastInv, Aside
<1> QED
  BY <1>4, <1>5, <1>7 DEF Casting

LEMMA JoinSteps ==
  ASSUME TypeOK, Casting, NEW c \in Client, JoinStep(c)
  PROVE  Casting'
<1> USE ThreadNames
<1> {"idle", "greet", "collect", "sendList"} \subseteq Label \ {"announce", "cast"}
  BY DEF Label
<1>1. CASE Insert(c)
  <2>1. [kind |-> "connect", who |-> c, nr |-> 0] \in News
    BY DEF News
  <2> QED
    BY <1>1, <2>1, NewsStep DEF Insert
<1>2. CASE Rejoin(c)
  BY <1>2, OneAside, SilentStep DEF Rejoin
<1>3. CASE Greet(c)
  <2>1. [kind |-> "connect", who |-> c, nr |-> 0] \in Message
    BY DEF Message, News
  <2>2. Aside
    BY <1>3, OneAside DEF Greet
  <2> QED
    BY <1>3, <2>1, <2>2, PersonalStep DEF Greet
<1>4. CASE Collect(c)
  BY <1>4, OneAside, SilentStep DEF Collect
<1>5. CASE SendList(c)
  <2>1. [kind |-> "players", all |-> list[c], nr |-> 0] \in Message
    BY DEF Message, TypeOK
  <2>2. Aside
    BY <1>5, OneAside DEF SendList
  <2> QED
    BY <1>5, <2>1, <2>2, PersonalStep DEF SendList
<1> QED
  BY <1>1, <1>2, <1>3, <1>4, <1>5 DEF JoinStep

LEMMA LoopSteps ==
  ASSUME TypeOK, GoalInv, Casting, NEW c \in Client, LoopStep(c) \/ Packet(c)
  PROVE  Casting'
<1> USE ThreadNames
<1> {"idle", "stay", "setX", "setY"} \subseteq Label \ {"announce", "cast"}
  BY DEF Label
<1>1. CASE NoPlayer(c)
  BY <1>1, SilentStep DEF NoPlayer, Aside
<1>2. CASE Stay(c)
  BY <1>2, OneAside, SilentStep DEF Stay
<1>3. CASE SetX(c)
  BY <1>3, OneAside, SilentStep DEF SetX
<1>4. CASE SetY(c)
  <2>1. at'[c] \in Position
    BY <1>4 DEF SetY, GoalInv, TypeOK, Position
  <2>2. [kind |-> "move", who |-> c, at |-> at'[c], nr |-> 0] \in News
    BY <2>1 DEF News
  <2> QED
    BY <1>4, <2>2, NewsStep DEF SetY
<1>5. CASE Packet(c)
  <2>1. CASE /\ news' = [news EXCEPT ![Loop(c)] =
                          [kind |-> "chat", who |-> c, nr |-> 0]]
             /\ Goto(Loop(c), "announce")
    <3>1. [kind |-> "chat", who |-> c, nr |-> 0] \in News
      BY DEF News
    <3> QED
      BY <1>5, <2>1, <3>1, NewsStep DEF Packet
  <2>2. CASE (\E l \in {"stay", "setX"} : Goto(Loop(c), l)) /\ news' = news
    BY <1>5, <2>2, OneAside, SilentStep DEF Packet
  <2> QED
    BY <1>5, <2>1, <2>2 DEF Packet
<1> QED
  BY <1>1, <1>2, <1>3, <1>4, <1>5 DEF LoopStep

LEMMA CastingStep ==
  ASSUME TypeOK, GoalInv, FreshInv, Casting, [Next]_vars
  PROVE  Casting'
<1> USE ThreadNames
<1>1. ASSUME NEW c \in Client, Arrive(c) PROVE Casting'
  <2>1. "insert" \in Label \ {"announce", "cast"}
    BY DEF Label
  <2>2. pc[Join(c)] # "cast"
    BY <1>1 DEF Arrive, FreshInv
  <2> QED
    BY <1>1, <2>1, <2>2, OneAside, SilentStep DEF Arrive
<1>2. ASSUME NEW c \in Client, Close(c) PROVE Casting'
  BY <1>2, SilentStep DEF Close, Aside
<1>3. ASSUME NEW c \in Client, Disconnect(c) PROVE Casting'
  <2>1. [kind |-> "disconnect", who |-> c, nr |-> 0] \in News
    BY DEF News
  <2> QED
    BY <1>3, <2>1, NewsStep DEF Disconnect
<1>4. CASE UNCHANGED vars
  BY <1>4, SilentStep DEF vars, Aside
<1>5. ASSUME NEW t \in Thread, BroadcastStep(t) PROVE Casting'
  BY <1>5, AnnounceStep, CastToStep, CastEndStep DEF BroadcastStep
<1> QED
  BY <1>1, <1>2, <1>3, <1>4, <1>5, ReturnStep, JoinSteps, LoopSteps
     DEF Next, ThreadStep

LEMMA FreshStep ==
  ASSUME TypeOK, FreshInv, [Next]_vars
  PROVE  FreshInv'
<1> USE ThreadNames, DifferentThreads
<1>1. ASSUME NEW t \in Thread, NEW l \in Label, Goto(t, l),
             pc[t] # "idle" \/ \A c \in Client : t # Join(c), state' = state
      PROVE  FreshInv'
  BY <1>1, GotoType DEF FreshInv
<1>2. ASSUME state' = state, pc' = pc PROVE FreshInv'
  BY <1>2 DEF FreshInv
<1>3. ASSUME NEW c \in Client, NEW l \in Label, Goto(Join(c), l),
             state' = [state EXCEPT ![c] = "open"]
      PROVE  FreshInv'
  <2> SUFFICES ASSUME NEW d \in Client, state'[d] = "new" PROVE pc'[Join(d)] = "idle"
    BY DEF FreshInv
  <2>1. d # c /\ state[d] = "new"
    BY <1>3 DEF TypeOK
  <2>2. Join(d) # Join(c)
    BY <2>1 DEF Join
  <2> QED
    BY <1>3, <2>1, <2>2, GotoType DEF FreshInv
<1>4. ASSUME NEW c \in Client, Arrive(c) \/ Return(c) PROVE FreshInv'
  BY <1>3, <1>4 DEF Arrive, Return, Label
<1>5. ASSUME NEW t \in Thread, BroadcastStep(t) PROVE FreshInv'
  BY <1>1, <1>2, <1>5 DEF BroadcastStep, Announce, CastTo, CastEnd, Label, session
<1>6. ASSUME NEW c \in Client, JoinStep(c) PROVE FreshInv'
  <2>1. \E l \in Label : Goto(Join(c), l) /\ state' = state /\ pc[Join(c)] # "idle"
    BY <1>6 DEF JoinStep, Insert, Rejoin, Greet, Collect, SendList, Label, session
  <2> QED
    BY <1>1, <2>1
<1>7. ASSUME NEW c \in Client, NoPlayer(c) PROVE FreshInv'
  BY <1>2, <1>7 DEF NoPlayer, session
<1>8. ASSUME NEW c \in Client, Stay(c) \/ SetX(c) \/ SetY(c) \/ Packet(c) PROVE FreshInv'
  <2>1. \E l \in Label : Goto(Loop(c), l) /\ state' = state
    BY <1>8 DEF Stay, SetX, SetY, Packet, Label, session
  <2> QED
    BY <1>1, <2>1
<1>9. ASSUME NEW c \in Client, Disconnect(c) PROVE FreshInv'
  BY <1>1, <1>9 DEF Disconnect, Label, session
<1>10. ASSUME NEW c \in Client, Close(c) PROVE FreshInv'
  BY <1>10 DEF Close, FreshInv, TypeOK
<1>11. CASE UNCHANGED vars
  BY <1>2, <1>11 DEF vars, session
<1> QED
  BY <1>4, <1>5, <1>6, <1>7, <1>8, <1>9, <1>10, <1>11
     DEF Next, ThreadStep, LoopStep

-----------------------------------------------------------------------------
LEMMA WorldInit == Init => WorldInv
<1> SUFFICES ASSUME Init PROVE WorldInv
  OBVIOUS
<1> USE WorldAssumption, ThreadNames DEF Init
<1>1. TypeOK
  <2>1. <<0, 0>> \in Position
    BY DEF Position
  <2>2. /\ at \in [Client -> Position] /\ sent \in [Client -> Seq(Message)]
        /\ packets \in [Client -> 0..MaxPackets]
    BY <2>1
  <2> QED
    BY <2>2, ZenonT(40) DEF TypeOK, Label
<1>2. OneWriter
  BY DEF OneWriter
<1>3. GoalInv /\ FreshInv /\ CastInv /\ SameOrder
  BY DEF GoalInv, FreshInv, CastInv, SameOrder
<1> QED
  BY <1>1, <1>2, <1>3 DEF WorldInv

LEMMA WorldStep == WorldInv /\ [Next]_vars => WorldInv'
BY TypeStep, GoalStep, FreshStep, CastingStep DEF WorldInv, Casting

LEMMA WorldInvariant == Spec => []WorldInv
BY WorldInit, WorldStep, PTL DEF Spec

\* Every variable keeps its type: what is on the grid stays on it, and what the
\* world writes are messages.
THEOREM WorldTypeCorrect == Spec => []TypeOK
<1>1. WorldInv => TypeOK
  BY DEF WorldInv
<1> QED
  BY <1>1, WorldInvariant, PTL

\* At most one broadcast is under way, and whoever is not broadcasting has given
\* the world's writer back.
THEOREM OneBroadcast == Spec => []OneWriter
<1>1. WorldInv => OneWriter
  BY DEF WorldInv
<1> QED
  BY <1>1, WorldInvariant, PTL

\* However joins, packets, closes, returns and the janitor interleave, every
\* client's stream has the broadcasts in the one order in which they were begun.
THEOREM BroadcastsInOrder == Spec => []SameOrder
<1>1. WorldInv => SameOrder
  BY DEF WorldInv
<1> QED
  BY <1>1, WorldInvariant, PTL

-----------------------------------------------------------------------------
\* What clients were told.  These are facts about one stream: s is what was written to
\* it, m the next message.

KnowsOf(s, p) == \E i \in DOMAIN s : Names(s[i], p)
Unmoved(s, p) == \A i \in DOMAIN s : ~Moves(s[i], p)
LastAt(s, p, x) ==
  \A i \in DOMAIN s :
    Moves(s[i], p) /\ (\A j \in DOMAIN s : j > i => ~Moves(s[j], p)) => s[i].at = x

LEMMA Appended ==
  ASSUME NEW s \in Seq(Message), NEW m \in Message
  PROVE  /\ \A i \in DOMAIN s : i \in DOMAIN Append(s, m) /\ Append(s, m)[i] = s[i]
         /\ Len(s) + 1 \in DOMAIN Append(s, m) /\ Append(s, m)[Len(s) + 1] = m
         /\ \A i \in DOMAIN Append(s, m) :
              i = Len(s) + 1 \/ (i \in DOMAIN s /\ i < Len(s) + 1)
OBVIOUS

LEMMA NextMessage ==
  ASSUME NEW s \in Seq(Message), NEW m \in Message, NEW p, NEW x
  PROVE  /\ KnowsOf(s, p) \/ Names(m, p) => KnowsOf(Append(s, m), p)
         /\ Unmoved(s, p) /\ ~Moves(m, p) => Unmoved(Append(s, m), p)
         /\ LastAt(s, p, x) /\ ~Moves(m, p) => LastAt(Append(s, m), p, x)
         /\ Moves(m, p) /\ m.at = x => LastAt(Append(s, m), p, x)
<1> DEFINE t == Append(s, m)
           n == Len(s) + 1
<1>1. /\ \A i \in DOMAIN s : i \in DOMAIN t /\ t[i] = s[i]
      /\ n \in DOMAIN t /\ t[n] = m
      /\ \A i \in DOMAIN t : i = n \/ (i \in DOMAIN s /\ i < n)
  BY Appended
<1> HIDE DEF t, n
<1>2. KnowsOf(s, p) \/ Names(m, p) => KnowsOf(t, p)
  BY <1>1 DEF KnowsOf
<1>3. Unmoved(s, p) /\ ~Moves(m, p) => Unmoved(t, p)
  BY <1>1 DEF Unmoved
<1>4. ASSUME LastAt(s, p, x), ~Moves(m, p)
      PROVE  LastAt(t, p, x)
  <2> SUFFICES ASSUME NEW i \in DOMAIN t, Moves(t[i], p),
                      \A j \in DOMAIN t : j > i => ~Moves(t[j], p)
               PROVE  t[i].at = x
    BY DEF LastAt
  <2>1. i \in DOMAIN s /\ t[i] = s[i]
    BY <1>1, <1>4
  <2>2. \A j \in DOMAIN s : j > i => ~Moves(s[j], p)
    BY <1>1
  <2> QED
    BY <1>4, <2>1, <2>2 DEF LastAt
<1>5. ASSUME Moves(m, p), m.at = x
      PROVE  LastAt(t, p, x)
  <2> SUFFICES ASSUME NEW i \in DOMAIN t, \A j \in DOMAIN t : j > i => ~Moves(t[j], p)
               PROVE  t[i].at = x
    BY DEF LastAt
  <2>1. i = n
    <3>1. ~(i \in DOMAIN s /\ i < n)
      <4>1. SUFFICES ASSUME i \in DOMAIN s, i < n PROVE FALSE
        OBVIOUS
      <4>2. n > i
        BY <4>1 DEF n
      <4> QED
        BY <1>1, <1>5, <4>2
    <3> QED
      BY <1>1, <3>1
  <2> QED
    BY <1>1, <1>5, <2>1
<1> QED
  BY <1>2, <1>3, <1>4, <1>5 DEF t

\* A stream of which nothing is known that would move a player.
LEMMA UnmovedIsAt ==
  ASSUME NEW s, NEW p, NEW x, Unmoved(s, p)
  PROVE  LastAt(s, p, x)
BY DEF Unmoved, LastAt

LEMMA NothingTold ==
  ASSUME NEW p
  PROVE  Unmoved(<<>>, p)
BY DEF Unmoved

\* A message keeps what it says when it is numbered.
LEMMA Renumbered ==
  ASSUME NEW m \in News, NEW n \in Nat
  PROVE  /\ [m EXCEPT !.nr = n].kind = m.kind /\ [m EXCEPT !.nr = n].who = m.who
         /\ m.kind = "move" => [m EXCEPT !.nr = n].at = m.at
<1>1. CASE m \in [kind : {"connect", "disconnect", "chat"}, who : Client, nr : Nat]
  BY <1>1
<1>2. CASE m \in [kind : {"move"}, who : Client, at : Position, nr : Nat]
  BY <1>2
<1> QED
  BY <1>1, <1>2 DEF News

-----------------------------------------------------------------------------
\* The inductive invariants of what clients are told

\* What a thread broadcasts: whom it is about, and of a move where the player is now.
NewsInv ==
  /\ \A c \in Client : pc[Join(c)] \in {"announce", "cast"} =>
       news[Join(c)].kind = "connect" /\ news[Join(c)].who = c
  /\ \A c \in Client : pc[Loop(c)] \in {"announce", "cast"} =>
       /\ news[Loop(c)].who = c
       /\ \/ news[Loop(c)].kind = "chat"
          \/ news[Loop(c)].kind = "move" /\ news[Loop(c)].at = at[c]
  /\ pc[Janitor] \in {"announce", "cast"} => news[Janitor].kind = "disconnect"

\* Of a client that is yet to be inserted nobody has heard, and it was told nothing.
Unseen(c) == state[c] = "new" \/ pc[Join(c)] = "insert"
UnseenInv ==
  \A c \in Client : Unseen(c) =>
    /\ c \notin players /\ sent[c] = <<>> /\ pc[Loop(c)] = "idle"
    /\ \A d \in Client : Unmoved(sent[d], c)

Lists(c, p) == \E q \in list[c] : q[1] = p

\* A client that has its list, or is about to be sent it, knows every player, or is in
\* the list or the broadcast that will tell it.
Knows(c, p) ==
  /\ c \in players /\ state[c] = "open" /\ pc[Join(c)] \in {"idle", "sendList"}
  /\ p \in players /\ pc[Join(p)] \notin {"insert", "announce"}
  => \/ KnowsOf(sent[c], p)
     \/ pc[Join(c)] = "sendList" /\ Lists(c, p)
     \/ pc[Join(p)] = "cast" /\ c \in todo[Join(p)]
KnowsInv == \A c, p \in Client : Knows(c, p)

\* A player's loop is between writing a new position and broadcasting it.
Moving(p) ==
  \/ pc[Loop(p)] = "setY"
  \/ pc[Loop(p)] = "announce" /\ news[Loop(p)].kind = "move"

\* At any other time the last move that was sent to an open stream is where the player
\* is, or the broadcast of the next is on its way there.
Reaches(c, p) ==
  pc[Loop(p)] = "cast" /\ c \in todo[Loop(p)] /\ news[Loop(p)].kind = "move"
Follows(c, p) ==
  c \in players /\ state[c] = "open" /\ ~Moving(p) =>
    LastAt(sent[c], p, at[p]) \/ Reaches(c, p)
MoveInv == \A c, p \in Client : Follows(c, p)

-----------------------------------------------------------------------------
\* Threads

LEMMA Threads ==
  /\ Janitor \in Thread
  /\ \A c \in Client : /\ Join(c) \in Thread /\ Loop(c) \in Thread
                       /\ Join(c) # Janitor /\ Loop(c) # Janitor
  /\ \A c, d \in Client : Join(c) # Loop(d)
  /\ \A c, d \in Client : c # d => Join(c) # Join(d) /\ Loop(c) # Loop(d)
  /\ \A t \in Thread : t = Janitor \/ \E c \in Client : t = Join(c) \/ t = Loop(c)
<1>1. \A t \in Thread : t = Janitor \/ \E c \in Client : t = Join(c) \/ t = Loop(c)
  BY DEF Thread, Join, Loop
<1> QED
  BY <1>1 DEF Join, Loop, Janitor, Thread

\* A broadcast that moves a player is one of its loop.
LEMMA WhoMoves ==
  ASSUME NewsInv, NEW t \in Thread, pc[t] = "cast", NEW p \in Client, Moves(news[t], p)
  PROVE  t = Loop(p) /\ news[t].at = at[p]
<1>1. CASE t = Janitor
  BY <1>1 DEF NewsInv, Moves
<1>2. ASSUME NEW c \in Client, t = Join(c) PROVE FALSE
  BY <1>2 DEF NewsInv, Moves
<1>3. ASSUME NEW c \in Client, t = Loop(c) PROVE t = Loop(p) /\ news[t].at = at[p]
  BY <1>3 DEF NewsInv, Moves
<1> QED
  BY <1>1, <1>2, <1>3, Threads

\* What a broadcast writes to one stream.
LEMMA CastWrites ==
  ASSUME TypeOK, CastInv, NEW t \in Thread, NEW d \in Client, CastTo(t, d)
  PROVE  /\ news[t] \in Message
         /\ \A c \in Client : sent[c] \in Seq(Message)
         /\ \A c \in Client : c # d => sent'[c] = sent[c]
         /\ \/ sent'[d] = sent[d] /\ state[d] # "open"
            \/ sent'[d] = Append(sent[d], news[t])
<1>1. news[t] \in Message
  BY DEF CastTo, CastInv, Message
<1> QED
  BY <1>1 DEF CastTo, Written, TypeOK

-----------------------------------------------------------------------------
\* News

LEMMA NewsKept ==
  ASSUME NewsInv, UNCHANGED news,
         \A t \in Thread : pc'[t] = pc[t] \/ pc'[t] \notin {"announce", "cast"},
         \A c \in Client : at'[c] = at[c] \/ pc'[Loop(c)] \notin {"announce", "cast"}
  PROVE  NewsInv'
BY Threads DEF NewsInv

LEMMA NewsMade ==
  ASSUME TypeOK, NewsInv, NEW t \in Thread, NEW m, news' = [news EXCEPT ![t] = m],
         \A u \in Thread : u # t => pc'[u] = pc[u],
         \A c \in Client : at'[c] = at[c] \/ pc'[Loop(c)] \notin {"announce", "cast"}
                           \/ t = Loop(c),
         \A c \in Client : t = Join(c) => m.kind = "connect" /\ m.who = c,
         \A c \in Client : t = Loop(c) =>
           m.who = c /\ (m.kind = "chat" \/ (m.kind = "move" /\ m.at = at'[c])),
         t = Janitor => m.kind = "disconnect"
  PROVE  NewsInv'
<1>1. news'[t] = m /\ \A u \in Thread : u # t => news'[u] = news[u]
  BY DEF TypeOK
<1>2. ASSUME NEW c \in Client, pc'[Join(c)] \in {"announce", "cast"}
      PROVE  news'[Join(c)].kind = "connect" /\ news'[Join(c)].who = c
  BY <1>1, <1>2, Threads DEF NewsInv
<1>3. ASSUME NEW c \in Client, pc'[Loop(c)] \in {"announce", "cast"}
      PROVE  /\ news'[Loop(c)].who = c
             /\ \/ news'[Loop(c)].kind = "chat"
                \/ news'[Loop(c)].kind = "move" /\ news'[Loop(c)].at = at'[c]
  BY <1>1, <1>3, Threads DEF NewsInv
<1>4. ASSUME pc'[Janitor] \in {"announce", "cast"} PROVE news'[Janitor].kind = "disconnect"
  BY <1>1, <1>4, Threads DEF NewsInv
<1> QED
  BY <1>2, <1>3, <1>4 DEF NewsInv

LEMMA NewsInvStep ==
  ASSUME TypeOK, NewsInv, UnseenInv, CastInv, [Next]_vars
  PROVE  NewsInv'
<1>1. ASSUME NEW t \in Thread, NEW l \in Label \ {"announce", "cast"}, Goto(t, l),
             UNCHANGED <<news, at>>
      PROVE  NewsInv'
  BY <1>1, GotoType, NewsKept
<1>2. ASSUME NEW t \in Thread, Announce(t) PROVE NewsInv'
  <2> DEFINE m == [news[t] EXCEPT !.nr = casts']
  <2>1. news[t] \in News /\ casts' \in Nat
    BY <1>2 DEF Announce, CastInv, TypeOK
  <2>2. m.kind = news[t].kind /\ m.who = news[t].who /\ (m.kind = "move" => m.at = news[t].at)
    BY <2>1, Renumbered
  <2>3. news' = [news EXCEPT ![t] = m]
    BY <1>2 DEF Announce
  <2> HIDE DEF m
  <2>4. \A u \in Thread : u # t => pc'[u] = pc[u]
    BY <1>2, GotoType DEF Announce, Label
  <2>5. /\ \A c \in Client : t = Join(c) => m.kind = "connect" /\ m.who = c
        /\ \A c \in Client : t = Loop(c) =>
             m.who = c /\ (m.kind = "chat" \/ (m.kind = "move" /\ m.at = at'[c]))
        /\ t = Janitor => m.kind = "disconnect"
    BY <1>2, <2>2 DEF Announce, NewsInv
  <2>6. \A c \in Client : at'[c] = at[c]
    BY <1>2 DEF Announce
  <2> QED
    BY <2>3, <2>4, <2>5, <2>6, NewsMade
<1>3. ASSUME NEW t \in Thread, NEW c \in Client, CastTo(t, c) PROVE NewsInv'
  BY <1>3, NewsKept DEF CastTo
<1>4. ASSUME NEW t \in Thread, CastEnd(t) PROVE NewsInv'
  <2>1. /\ pc'[t] \in {"collect", "idle"}
        /\ \A u \in Thread : u # t => pc'[u] = pc[u]
    BY <1>4, GotoType DEF CastEnd, Label
  <2>2. UNCHANGED at /\ \A u \in Thread : u # t => news'[u] = news[u]
    BY <1>4 DEF CastEnd, TypeOK
  <2> QED
    BY <2>1, <2>2, Threads DEF NewsInv
<1>5. ASSUME NEW c \in Client, Insert(c) PROVE NewsInv'
  <2> DEFINE m == [kind |-> "connect", who |-> c, nr |-> 0]
             t == Join(c)
  <2>1. news' = [news EXCEPT ![t] = m] /\ m.kind = "connect" /\ m.who = c
    BY <1>5 DEF Insert
  <2>2. \A u \in Thread : u # t => pc'[u] = pc[u]
    BY <1>5, GotoType, Threads DEF Insert, Label
  <2>3. pc'[Loop(c)] = "idle" /\ \A d \in Client : d # c => at'[d] = at[d]
    BY <1>5, <2>2, Threads DEF Insert, UnseenInv, Unseen, TypeOK
  <2> HIDE DEF m, t
  <2>4. /\ t \in Thread
        /\ \A d \in Client : at'[d] = at[d] \/ pc'[Loop(d)] \notin {"announce", "cast"}
                               \/ t = Loop(d)
        /\ \A d \in Client : t = Join(d) => m.kind = "connect" /\ m.who = d
        /\ \A d \in Client : t = Loop(d) =>
             m.who = d /\ (m.kind = "chat" \/ (m.kind = "move" /\ m.at = at'[d]))
        /\ t = Janitor => m.kind = "disconnect"
    BY <2>1, <2>3, Threads DEF t
  <2> QED
    BY <2>1, <2>2, <2>4, Threads DEF NewsInv, TypeOK
<1>6. ASSUME NEW c \in Client, Arrive(c) \/ Return(c) \/ Rejoin(c) \/ Greet(c) \/ Collect(c)
                                \/ SendList(c)
      PROVE  NewsInv'
  <2>1. /\ \E l \in Label \ {"announce", "cast"} : Goto(Join(c), l)
        /\ UNCHANGED <<news, at>>
    BY <1>6 DEF Arrive, Return, Rejoin, Greet, Collect, SendList, Label
  <2> QED
    BY <1>1, <2>1, Threads
<1>7. ASSUME NEW c \in Client, NoPlayer(c) \/ Close(c) PROVE NewsInv'
  <2>1. /\ UNCHANGED <<pc, news>>
        /\ \A d \in Client : at'[d] = at[d] \/ pc'[Loop(d)] = "setY"
    BY <1>7 DEF NoPlayer, Close, TypeOK
  <2> QED
    BY <2>1, NewsKept
<1>8. ASSUME NEW c \in Client, Stay(c) PROVE NewsInv'
  <2>1. Goto(Loop(c), "idle") /\ UNCHANGED <<news, at>>
    BY <1>8 DEF Stay
  <2> QED
    BY <1>1, <2>1, Threads DEF Label
<1>9. ASSUME NEW c \in Client, SetX(c) PROVE NewsInv'
  <2>1. pc'[Loop(c)] = "setY" /\ \A u \in Thread : u # Loop(c) => pc'[u] = pc[u]
    BY <1>9, GotoType, Threads DEF SetX, Label
  <2>2. UNCHANGED news /\ \A d \in Client : d # c => at'[d] = at[d]
    BY <1>9 DEF SetX, TypeOK
  <2> QED
    BY <2>1, <2>2, NewsKept
<1>10. ASSUME NEW c \in Client, SetY(c) PROVE NewsInv'
  <2> DEFINE m == [kind |-> "move", who |-> c, at |-> at'[c], nr |-> 0]
             t == Loop(c)
  <2>1. /\ news' = [news EXCEPT ![t] = m]
        /\ m.kind = "move" /\ m.who = c /\ m.at = at'[c]
    BY <1>10 DEF SetY
  <2>2. \A u \in Thread : u # t => pc'[u] = pc[u]
    BY <1>10, GotoType, Threads DEF SetY, Label
  <2>3. \A d \in Client : d # c => at'[d] = at[d]
    BY <1>10 DEF SetY, TypeOK
  <2> HIDE DEF m, t
  <2>4. /\ t \in Thread
        /\ \A d \in Client : at'[d] = at[d] \/ pc'[Loop(d)] \notin {"announce", "cast"}
                               \/ t = Loop(d)
        /\ \A d \in Client : t = Join(d) => m.kind = "connect" /\ m.who = d
        /\ \A d \in Client : t = Loop(d) =>
             m.who = d /\ (m.kind = "chat" \/ (m.kind = "move" /\ m.at = at'[d]))
        /\ t = Janitor => m.kind = "disconnect"
    BY <2>1, <2>3, Threads DEF t
  <2> QED
    BY <2>1, <2>2, <2>4, NewsMade
<1>11. ASSUME NEW c \in Client, Packet(c) PROVE NewsInv'
  <2>1. UNCHANGED at
    BY <1>11 DEF Packet
  <2>2. CASE /\ news' = [news EXCEPT ![Loop(c)] =
                           [kind |-> "chat", who |-> c, nr |-> 0]]
             /\ Goto(Loop(c), "announce")
    <3> DEFINE m == [kind |-> "chat", who |-> c, nr |-> 0]
               t == Loop(c)
    <3>1. news' = [news EXCEPT ![t] = m] /\ m.kind = "chat" /\ m.who = c
      BY <2>2
    <3>2. \A u \in Thread : u # t => pc'[u] = pc[u]
      BY <2>2, GotoType, Threads DEF Label
    <3> HIDE DEF m, t
    <3>3. /\ t \in Thread
          /\ \A d \in Client : at'[d] = at[d] \/ pc'[Loop(d)] \notin {"announce", "cast"}
                                 \/ t = Loop(d)
          /\ \A d \in Client : t = Join(d) => m.kind = "connect" /\ m.who = d
          /\ \A d \in Client : t = Loop(d) =>
               m.who = d /\ (m.kind = "chat" \/ (m.kind = "move" /\ m.at = at'[d]))
          /\ t = Janitor => m.kind = "disconnect"
      BY <2>1, <3>1, Threads DEF t
    <3> QED
      BY <3>1, <3>2, <3>3, NewsMade
  <2>3. CASE (\E l \in {"stay", "setX"} : Goto(Loop(c), l)) /\ news' = news
    <3>1. {"stay", "setX"} \subseteq Label \ {"announce", "cast"}
      BY DEF Label
    <3> QED
      BY <1>1, <2>1, <2>3, <3>1, Threads
  <2> QED
    BY <1>11, <2>2, <2>3 DEF Packet
<1>12. ASSUME NEW c \in Client, Disconnect(c) PROVE NewsInv'
  <2> DEFINE m == [kind |-> "disconnect", who |-> c, nr |-> 0]
  <2>1. news' = [news EXCEPT ![Janitor] = m] /\ m.kind = "disconnect" /\ UNCHANGED at
    BY <1>12 DEF Disconnect
  <2>2. \A u \in Thread : u # Janitor => pc'[u] = pc[u]
    BY <1>12, GotoType, Threads DEF Disconnect, Label
  <2> HIDE DEF m
  <2> QED
    BY <2>1, <2>2, Threads, NewsMade
<1>13. CASE UNCHANGED vars
  BY <1>13, NewsKept DEF vars
<1> QED
  BY <1>2, <1>3, <1>4, <1>5, <1>6, <1>7, <1>8, <1>9, <1>10, <1>11, <1>12, <1>13
     DEF Next, ThreadStep, BroadcastStep, JoinStep, LoopStep

-----------------------------------------------------------------------------
\* Unseens

LEMMA UnseenKept ==
  ASSUME UnseenInv, NEW t \in Thread,
         \A u \in Thread : u # t => pc'[u] = pc[u],
         \A c \in Client : state'[c] = "new" => state[c] = "new",
         \A c \in Client : t = Join(c) /\ pc'[t] = "insert" => Unseen(c),
         \A c \in Client : t = Loop(c) /\ pc'[t] # "idle" => pc[t] # "idle" \/ c \in players,
         \A c \in Client : Unseen(c) /\ Unseen(c)' =>
           /\ c \in players' => c \in players
           /\ sent'[c] \in {sent[c], <<>>}
           /\ \A d \in Client : sent'[d] = sent[d] \/ Unmoved(sent'[d], c)
  PROVE  UnseenInv'
<1> SUFFICES ASSUME NEW c \in Client, Unseen(c)'
             PROVE  /\ c \notin players' /\ sent'[c] = <<>> /\ pc'[Loop(c)] = "idle"
                    /\ \A d \in Client : Unmoved(sent'[d], c)
  BY DEF UnseenInv
<1>1. Unseen(c)
  <2>1. CASE state'[c] = "new"
    BY <2>1 DEF Unseen
  <2>2. CASE pc'[Join(c)] = "insert"
    BY <2>2, Threads DEF Unseen
  <2> QED
    BY <2>1, <2>2 DEF Unseen
<1>2. /\ c \notin players /\ sent[c] = <<>> /\ pc[Loop(c)] = "idle"
      /\ \A d \in Client : Unmoved(sent[d], c)
  BY <1>1 DEF UnseenInv
<1>3. /\ c \in players' => c \in players
      /\ sent'[c] \in {sent[c], <<>>}
      /\ \A d \in Client : sent'[d] = sent[d] \/ Unmoved(sent'[d], c)
  BY <1>1
<1>4. pc'[Loop(c)] = "idle"
  BY <1>2, Threads
<1> QED
  BY <1>2, <1>3, <1>4

\* What a join tells only its own client moves nobody.
LEMMA UnseenTold ==
  ASSUME TypeOK, FreshInv, UnseenInv, NEW c \in Client, NEW l \in {"collect", "idle"},
         pc[Join(c)] \in {"greet", "sendList"}, Goto(Join(c), l),
         NEW m \in Message, m.kind # "move", sent' = Written({c}, m),
         UNCHANGED <<state, players>>
  PROVE  UnseenInv'
<1>1. pc'[Join(c)] = l /\ \A u \in Thread : u # Join(c) => pc'[u] = pc[u]
  BY GotoType, Threads DEF Label
<1>2. ~Unseen(c)' /\ pc'[Join(c)] # "insert"
  BY <1>1 DEF FreshInv, Unseen
<1>3. \A d \in Client : sent[d] \in Seq(Message)
  BY DEF TypeOK
<1>4. /\ \A d \in Client : d # c => sent'[d] = sent[d]
      /\ sent'[c] = sent[c] \/ sent'[c] = Append(sent[c], m)
  BY WrittenType
<1>5. ASSUME NEW d \in Client, Unseen(d), Unseen(d)'
      PROVE  /\ sent'[d] \in {sent[d], <<>>}
             /\ \A e \in Client : sent'[e] = sent[e] \/ Unmoved(sent'[e], d)
  <2>1. sent'[d] = sent[d]
    BY <1>2, <1>4, <1>5
  <2>2. Unmoved(sent[c], d) /\ ~Moves(m, d)
    BY <1>5 DEF UnseenInv, Moves
  <2>3. Unmoved(Append(sent[c], m), d)
    BY <1>3, <2>2, NextMessage
  <2> QED
    BY <1>4, <2>1, <2>3
<1>6. \A d \in Client : Join(c) = Join(d) => d = c
  BY Threads
<1> DEFINE t == Join(c)
<1>7. /\ t \in Thread /\ \A u \in Thread : u # t => pc'[u] = pc[u]
      /\ pc'[t] # "insert" /\ \A d \in Client : t # Loop(d)
  BY <1>1, <1>2, Threads
<1> HIDE DEF t
<1> QED
  BY <1>5, <1>7, UnseenKept

LEMMA UnseenStep ==
  ASSUME TypeOK, FreshInv, CastInv, NewsInv, UnseenInv, [Next]_vars
  PROVE  UnseenInv'
<1>1. ASSUME NEW t \in Thread, NEW l \in Label \ {"insert"}, Goto(t, l),
             UNCHANGED <<state, sent>>, players' \subseteq players,
             \A c \in Client : t = Loop(c) => l = "idle" \/ pc[t] # "idle" \/ c \in players
      PROVE  UnseenInv'
  <2>1. pc'[t] = l /\ \A u \in Thread : u # t => pc'[u] = pc[u]
    BY <1>1, GotoType
  <2> QED
    BY <1>1, <2>1, UnseenKept
<1>2. ASSUME UNCHANGED <<pc, players, sent>>,
             \A c \in Client : state'[c] = "new" => state[c] = "new"
      PROVE  UnseenInv'
  BY <1>2, Threads, UnseenKept
<1>3. ASSUME NEW t \in Thread, Announce(t) \/ CastEnd(t) PROVE UnseenInv'
  <2>1. /\ \E l \in {"cast", "collect", "idle"} : Goto(t, l)
        /\ UNCHANGED <<state, sent, players>> /\ pc[t] # "idle"
    BY <1>3 DEF Announce, CastEnd, session
  <2> QED
    BY <1>1, <2>1 DEF Label
<1>4. ASSUME NEW t \in Thread, NEW d \in Client, CastTo(t, d) PROVE UnseenInv'
  <2>1. /\ UNCHANGED <<pc, state, players>> /\ d \in players /\ pc[t] = "cast"
    BY <1>4 DEF CastTo, session
  <2>2. /\ news[t] \in Message
        /\ \A e \in Client : sent[e] \in Seq(Message)
        /\ \A e \in Client : e # d => sent'[e] = sent[e]
        /\ sent'[d] = sent[d] \/ sent'[d] = Append(sent[d], news[t])
    BY <1>4, CastWrites
  <2>3. ASSUME NEW c \in Client, Unseen(c)
        PROVE  /\ sent'[c] \in {sent[c], <<>>}
               /\ \A e \in Client : sent'[e] = sent[e] \/ Unmoved(sent'[e], c)
    <3>1. c # d /\ pc[Loop(c)] = "idle" /\ Unmoved(sent[d], c)
      BY <2>1, <2>3 DEF UnseenInv
    <3>2. ~Moves(news[t], c)
      BY <2>1, <3>1, WhoMoves
    <3>3. Unmoved(Append(sent[d], news[t]), c)
      BY <2>2, <3>1, <3>2, NextMessage
    <3> QED
      BY <2>2, <3>1, <3>3
  <2>4. \A u \in Thread : pc'[u] = pc[u]
    BY <2>1
  <2>5. Janitor \in Thread /\ \A c \in Client : Janitor # Join(c) /\ Janitor # Loop(c)
    BY Threads
  <2> QED
    BY <2>1, <2>3, <2>4, <2>5, UnseenKept
<1>5. ASSUME NEW c \in Client, Arrive(c) PROVE UnseenInv'
  <2> DEFINE t == Join(c)
  <2>1. /\ t \in Thread /\ \A u \in Thread : u # t => pc'[u] = pc[u]
        /\ \A d \in Client : t # Loop(d) /\ (t = Join(d) => d = c)
        /\ Unseen(c)
    BY <1>5, GotoType, Threads DEF Arrive, Label, Unseen
  <2>2. /\ UNCHANGED <<players, sent>>
        /\ \A d \in Client : state'[d] = "new" => state[d] = "new"
    BY <1>5 DEF Arrive, TypeOK
  <2> HIDE DEF t
  <2> QED
    BY <2>1, <2>2, UnseenKept
<1>6. ASSUME NEW c \in Client, Insert(c) PROVE UnseenInv'
  <2> DEFINE t == Join(c)
  <2>1. /\ t \in Thread /\ \A u \in Thread : u # t => pc'[u] = pc[u]
        /\ \A d \in Client : t # Loop(d)
        /\ pc'[t] = "announce" /\ UNCHANGED <<state, sent>>
    BY <1>6, GotoType, Threads DEF Insert, Label, session
  <2>2. ~Unseen(c)' /\ \A d \in Client : d \in players' => d \in players \/ d = c
    BY <1>6, <2>1 DEF Unseen, Insert, FreshInv
  <2> HIDE DEF t
  <2> QED
    BY <2>1, <2>2, UnseenKept
<1>7. ASSUME NEW c \in Client, Return(c) PROVE UnseenInv'
  <2> DEFINE t == Join(c)
  <2>1. /\ t \in Thread /\ \A u \in Thread : u # t => pc'[u] = pc[u]
        /\ \A d \in Client : t # Loop(d)
        /\ pc'[t] = "rejoin" /\ UNCHANGED players
    BY <1>7, GotoType, Threads DEF Return, Label
  <2>2. /\ \A d \in Client : state'[d] = "new" => state[d] = "new"
        /\ \A d \in Client : sent'[d] = sent[d] \/ sent'[d] = <<>>
    BY <1>7 DEF Return, TypeOK
  <2>3. \A d, e \in Client : sent'[e] = sent[e] \/ Unmoved(sent'[e], d)
    BY <2>2, NothingTold
  <2> HIDE DEF t
  <2> QED
    BY <2>1, <2>2, <2>3, UnseenKept
<1>8. ASSUME NEW c \in Client, Greet(c) PROVE UnseenInv'
  <2> DEFINE m == [kind |-> "connect", who |-> c, nr |-> 0]
  <2>1. m \in Message /\ m.kind # "move" /\ sent' = Written({c}, m)
    BY <1>8 DEF Greet, Message, News
  <2> HIDE DEF m
  <2> QED
    BY <1>8, <2>1, UnseenTold DEF Greet, session
<1>9. ASSUME NEW c \in Client, SendList(c) PROVE UnseenInv'
  <2> DEFINE m == [kind |-> "players", all |-> list[c], nr |-> 0]
  <2>1. m \in Message /\ m.kind # "move" /\ sent' = Written({c}, m)
    BY <1>9 DEF SendList, Message, TypeOK
  <2> HIDE DEF m
  <2> QED
    BY <1>9, <2>1, UnseenTold DEF SendList, session
<1>10. ASSUME NEW c \in Client, Rejoin(c) \/ Collect(c) PROVE UnseenInv'
  <2>1. /\ \E l \in {"greet", "idle", "sendList"} : Goto(Join(c), l)
        /\ UNCHANGED <<state, sent, players>>
    BY <1>10 DEF Rejoin, Collect, session
  <2> QED
    BY <1>1, <2>1, Threads DEF Label
<1>11. ASSUME NEW c \in Client, Stay(c) \/ SetX(c) \/ SetY(c) \/ Packet(c)
       PROVE  UnseenInv'
  <2> DEFINE t == Loop(c)
  <2>1. /\ \E l \in {"idle", "setX", "setY", "announce", "stay"} : Goto(t, l)
        /\ UNCHANGED <<state, sent, players>> /\ c \in players
    BY <1>11 DEF Stay, SetX, SetY, Packet, session
  <2>2. t \in Thread /\ \A d \in Client : t = Loop(d) => d = c
    BY Threads
  <2> HIDE DEF t
  <2> QED
    BY <1>1, <2>1, <2>2 DEF Label
<1>12. ASSUME NEW c \in Client, NoPlayer(c) \/ Close(c) PROVE UnseenInv'
  BY <1>2, <1>12 DEF NoPlayer, Close, session, TypeOK
<1>13. ASSUME NEW c \in Client, Disconnect(c) PROVE UnseenInv'
  <2>1. /\ Goto(Janitor, "announce") /\ UNCHANGED <<state, sent>> /\ players' \subseteq players
    BY <1>13 DEF Disconnect, session
  <2> QED
    BY <1>1, <2>1, Threads DEF Label
<1>14. CASE UNCHANGED vars
  BY <1>2, <1>14 DEF vars, session
<1> QED
  BY <1>3, <1>4, <1>5, <1>6, <1>7, <1>8, <1>9, <1>10, <1>11, <1>12, <1>13, <1>14
     DEF Next, ThreadStep, BroadcastStep, JoinStep, LoopStep

-----------------------------------------------------------------------------
\* Whom clients know

LEMMA KnowsKept ==
  ASSUME NEW c \in Client, NEW p \in Client, Knows(c, p),
         c \in players' /\ p \in players' /\ state'[c] = "open" =>
           c \in players /\ p \in players /\ state[c] = "open",
         pc'[Join(c)] = pc[Join(c)],
         pc'[Join(p)] = pc[Join(p)] \/ pc[Join(p)] \notin {"insert", "announce", "cast"},
         list'[c] = list[c], c \in todo[Join(p)] => c \in todo'[Join(p)],
         KnowsOf(sent[c], p) => KnowsOf(sent'[c], p)
  PROVE  Knows(c, p)'
BY DEF Knows, Lists

\* A step of a join that neither gets nor sends the list, nor broadcasts.
LEMMA JoinMoves ==
  ASSUME TypeOK, KnowsInv, NEW x \in Client, NEW l \in Label, Goto(Join(x), l),
         l \notin {"idle", "sendList"} \/ x \notin players',
         l \in {"insert", "announce"} \/ pc[Join(x)] \notin {"insert", "announce", "cast"},
         \A c \in Client \ {x} :
           /\ c \in players' => c \in players
           /\ state'[c] = state[c] /\ sent'[c] = sent[c],
         x \in players' => x \in players \/ l \in {"insert", "announce"},
         UNCHANGED <<list, todo>>
  PROVE  KnowsInv'
<1>1. pc'[Join(x)] = l /\ \A c \in Client : c # x => pc'[Join(c)] = pc[Join(c)]
  BY GotoType, Threads
<1> SUFFICES ASSUME NEW c \in Client, NEW p \in Client PROVE Knows(c, p)'
  BY DEF KnowsInv
<1>2. CASE c = x
  BY <1>1, <1>2 DEF Knows
<1>3. CASE p = x /\ l \in {"insert", "announce"}
  BY <1>1, <1>3 DEF Knows
<1>4. CASE c # x /\ (p # x \/ l \notin {"insert", "announce"})
  <2>1. Knows(c, p)
    BY DEF KnowsInv
  <2>2. /\ c \in players' => c \in players
        /\ p \in players' => p \in players
        /\ state'[c] = state[c] /\ sent'[c] = sent[c]
    BY <1>4
  <2>3. /\ pc'[Join(c)] = pc[Join(c)]
        /\ pc'[Join(p)] = pc[Join(p)] \/ pc[Join(p)] \notin {"insert", "announce", "cast"}
    BY <1>1, <1>4
  <2> QED
    BY <2>1, <2>2, <2>3, KnowsKept
<1> QED
  BY <1>2, <1>3, <1>4

\* A step of a thread that is no join.
LEMMA NoJoinMoves ==
  ASSUME KnowsInv, \A c \in Client : pc'[Join(c)] = pc[Join(c)],
         \A c \in Client : todo'[Join(c)] = todo[Join(c)],
         UNCHANGED list, players' \subseteq players,
         \A c \in Client : state'[c] = "open" => state[c] = "open",
         \A c, p \in Client : KnowsOf(sent[c], p) => KnowsOf(sent'[c], p)
  PROVE  KnowsInv'
<1> SUFFICES ASSUME NEW c \in Client, NEW p \in Client PROVE Knows(c, p)'
  BY DEF KnowsInv
<1>1. Knows(c, p)
  BY DEF KnowsInv
<1> QED
  BY <1>1, KnowsKept

\* Broadcasts only add to what clients know, and one that a join begins reaches every
\* player there is.
LEMMA KnowsCast ==
  ASSUME TypeOK, OneWriter, CastInv, NewsInv, KnowsInv, NEW t \in Thread, BroadcastStep(t)
  PROVE  KnowsInv'
<1>1. ASSUME \A x \in Client : t # Join(x) PROVE KnowsInv'
  <2>1. \A c \in Client : pc'[Join(c)] = pc[Join(c)]
    BY <1>1, GotoType, Threads DEF BroadcastStep, Announce, CastTo, CastEnd, Label
  <2>2. \A c \in Client : todo'[Join(c)] = todo[Join(c)]
    BY <1>1, Threads DEF BroadcastStep, Announce, CastTo, CastEnd, TypeOK
  <2>3. UNCHANGED <<list, players, state>>
    BY DEF BroadcastStep, Announce, CastTo, CastEnd, session
  <2>4. \A c, p \in Client : KnowsOf(sent[c], p) => KnowsOf(sent'[c], p)
    <3>1. ASSUME NEW d \in Client, CastTo(t, d), NEW c \in Client, NEW p \in Client,
                 KnowsOf(sent[c], p)
          PROVE  KnowsOf(sent'[c], p)
      <4>1. /\ news[t] \in Message /\ sent[c] \in Seq(Message)
            /\ sent'[c] = sent[c] \/ sent'[c] = Append(sent[c], news[t])
        BY <3>1, CastWrites
      <4> QED
        BY <3>1, <4>1, NextMessage
    <3>2. CASE sent' = sent
      BY <3>2
    <3> QED
      BY <3>1, <3>2 DEF BroadcastStep, Announce, CastEnd
  <2> QED
    BY <2>1, <2>2, <2>3, <2>4, NoJoinMoves
<1>2. ASSUME NEW x \in Client, t = Join(x) PROVE KnowsInv'
  <2> SUFFICES ASSUME NEW c \in Client, NEW p \in Client PROVE Knows(c, p)'
    BY DEF KnowsInv
  <2>1. Knows(c, p)
    BY DEF KnowsInv
  <2>2. CASE Announce(t)
    <3>1. /\ pc'[Join(x)] = "cast" /\ \A d \in Client : d # x => pc'[Join(d)] = pc[Join(d)]
          /\ \A d \in Client : d # x => todo'[Join(d)] = todo[Join(d)]
          /\ todo'[Join(x)] = players
          /\ UNCHANGED <<list, players, state, sent>>
      BY <1>2, <2>2, GotoType, Threads, SMTT(30) DEF Announce, Label, TypeOK, session
    <3>2. CASE c = x \/ p = x
      BY <3>1, <3>2 DEF Knows
    <3>3. CASE c # x /\ p # x
      BY <2>1, <3>1, <3>3, KnowsKept
    <3> QED
      BY <3>2, <3>3
  <2>3. ASSUME NEW d \in Client, CastTo(t, d) PROVE Knows(c, p)'
    <3>1. /\ UNCHANGED <<pc, list, players, state>>
          /\ \A e \in Client : e # x => todo'[Join(e)] = todo[Join(e)]
          /\ todo'[Join(x)] = todo[Join(x)] \ {d}
          /\ pc[Join(x)] = "cast"
      BY <1>2, <2>3, Threads DEF CastTo, TypeOK, session
    <3>2. /\ news[t] \in Message /\ sent[c] \in Seq(Message)
          /\ c # d => sent'[c] = sent[c]
          /\ c = d => \/ sent'[c] = sent[c] /\ state[c] # "open"
                      \/ sent'[c] = Append(sent[c], news[t])
      BY <2>3, CastWrites
    <3>3. KnowsOf(sent[c], p) => KnowsOf(sent'[c], p)
      BY <3>2, NextMessage
    <3>4. CASE p = x /\ c = d /\ state[c] = "open"
      <4>1. Names(news[t], p)
        BY <1>2, <3>1, <3>4 DEF NewsInv, Names
      <4>2. KnowsOf(sent'[c], p)
        BY <3>2, <3>4, <4>1, NextMessage
      <4> QED
        BY <4>2 DEF Knows
    <3>5. CASE state[c] # "open"
      BY <3>1, <3>5 DEF Knows
    <3>6. CASE p # x \/ c # d
      BY <2>1, <3>1, <3>3, <3>6, KnowsKept
    <3> QED
      BY <3>4, <3>5, <3>6
  <2>4. CASE CastEnd(t)
    <3>1. /\ pc'[Join(x)] = "collect" /\ \A d \in Client : d # x => pc'[Join(d)] = pc[Join(d)]
          /\ \A d \in Client : d # x => todo'[Join(d)] = todo[Join(d)]
          /\ UNCHANGED <<list, players, state, sent>>
          /\ todo[Join(x)] \cap players = {} /\ pc[Join(x)] = "cast"
      <4>1. Goto(Join(x), "collect")
        BY <1>2, <2>4, ThreadNames DEF CastEnd
      <4>2. pc'[Join(x)] = "collect" /\ \A d \in Client : d # x => pc'[Join(d)] = pc[Join(d)]
        BY <4>1, GotoType, Threads DEF Label
      <4> QED
        BY <1>2, <2>4, <4>2, Threads DEF CastEnd, TypeOK, session
    <3>2. CASE c = x
      BY <3>1, <3>2 DEF Knows
    <3>3. CASE c # x /\ p = x
      BY <2>1, <3>1, <3>3 DEF Knows, Lists
    <3>4. CASE c # x /\ p # x
      BY <2>1, <3>1, <3>4, KnowsKept
    <3> QED
      BY <3>2, <3>3, <3>4
  <2> QED
    BY <2>2, <2>3, <2>4 DEF BroadcastStep
<1> QED
  BY <1>1, <1>2

\* The list names every player there is when it is collected.
LEMMA KnowsCollect ==
  ASSUME TypeOK, KnowsInv, NEW x \in Client, Collect(x)
  PROVE  KnowsInv'
<1>1. /\ pc'[Join(x)] = "sendList" /\ pc[Join(x)] = "collect"
      /\ \A c \in Client : c # x => pc'[Join(c)] = pc[Join(c)] /\ list'[c] = list[c]
      /\ list'[x] = {<<p, at[p]>> : p \in players}
      /\ UNCHANGED <<todo, players, state, sent>>
  BY GotoType, Threads DEF Collect, Label, TypeOK, session
<1> SUFFICES ASSUME NEW c \in Client, NEW p \in Client PROVE Knows(c, p)'
  BY DEF KnowsInv
<1>2. CASE c = x
  <2>1. p \in players => Lists(x, p)'
    <3>1. ASSUME p \in players PROVE <<p, at[p]>> \in list'[x] /\ <<p, at[p]>>[1] = p
      BY <1>1, <3>1
    <3> QED
      BY <3>1 DEF Lists
  <2> QED
    BY <1>1, <1>2, <2>1 DEF Knows
<1>3. CASE c # x
  <2>1. Knows(c, p)
    BY DEF KnowsInv
  <2> QED
    BY <1>1, <1>3, <2>1, KnowsKept
<1> QED
  BY <1>2, <1>3

\* Nobody broadcasts when the list is written, so whoever is not in it is known already.
LEMMA KnowsList ==
  ASSUME TypeOK, OneWriter, KnowsInv, NEW x \in Client, SendList(x)
  PROVE  KnowsInv'
<1> DEFINE m == [kind |-> "players", all |-> list[x], nr |-> 0]
<1>1. m \in Message /\ m.kind = "players" /\ m.all = list[x]
  BY DEF Message, TypeOK
<1>2. /\ pc[Join(x)] = "sendList" /\ pc'[Join(x)] = "idle"
      /\ \A c \in Client : c # x => pc'[Join(c)] = pc[Join(c)] /\ list'[c] = list[c]
      /\ UNCHANGED <<todo, players, state>>
  BY GotoType, Threads DEF SendList, Label, TypeOK, session
<1>3. /\ \A c \in Client : c # x => sent'[c] = sent[c]
      /\ state[x] = "open" => sent'[x] = Append(sent[x], m)
      /\ sent[x] \in Seq(Message)
  BY DEF SendList, Written, TypeOK
<1>4. \A p \in Client : pc[Join(p)] # "cast"
  BY WorldAssumption, Threads DEF SendList, OneWriter
<1> HIDE DEF m
<1> SUFFICES ASSUME NEW c \in Client, NEW p \in Client PROVE Knows(c, p)'
  BY DEF KnowsInv
<1>5. Knows(c, p)
  BY DEF KnowsInv
<1>6. CASE c = x
  <2> SUFFICES ASSUME c \in players', state'[c] = "open", p \in players',
                      pc'[Join(p)] \notin {"insert", "announce"}
               PROVE  KnowsOf(sent'[c], p)
    BY DEF Knows
  <2>1. pc[Join(p)] \notin {"insert", "announce"}
    BY <1>2
  <2>2. KnowsOf(sent[c], p) \/ Lists(c, p)
    BY <1>2, <1>4, <1>5, <1>6, <2>1 DEF Knows
  <2>3. KnowsOf(sent[c], p) \/ Names(m, p)
    BY <1>1, <1>6, <2>2 DEF Lists, Names
  <2> QED
    BY <1>1, <1>2, <1>3, <1>6, <2>3, NextMessage
<1>7. CASE c # x
  BY <1>2, <1>3, <1>5, <1>7, KnowsKept
<1> QED
  BY <1>6, <1>7

LEMMA KnowsStep ==
  ASSUME TypeOK, FreshInv, OneWriter, CastInv, NewsInv, UnseenInv, KnowsInv, [Next]_vars
  PROVE  KnowsInv'
<1>1. ASSUME NEW x \in Client, Arrive(x) PROVE KnowsInv'
  <2>1. pc[Join(x)] = "idle" /\ \A c \in Client : c # x => state'[c] = state[c]
    BY <1>1 DEF Arrive, FreshInv, TypeOK
  <2> QED
    BY <1>1, <2>1, JoinMoves DEF Arrive, Label
<1>2. ASSUME NEW x \in Client, Insert(x) PROVE KnowsInv'
  BY <1>2, JoinMoves DEF Insert, Label, session
<1>3. ASSUME NEW x \in Client, Return(x) PROVE KnowsInv'
  <2>1. \A c \in Client : c # x => state'[c] = state[c] /\ sent'[c] = sent[c]
    BY <1>3 DEF Return, TypeOK
  <2> QED
    BY <1>3, <2>1, JoinMoves DEF Return, Label
<1>4. ASSUME NEW x \in Client, Rejoin(x) PROVE KnowsInv'
  BY <1>4, JoinMoves DEF Rejoin, Label, session
<1>5. ASSUME NEW x \in Client, Greet(x) PROVE KnowsInv'
  <2>1. \A c \in Client : c # x => sent'[c] = sent[c]
    BY <1>5 DEF Greet, Written, TypeOK
  <2> QED
    BY <1>5, <2>1, JoinMoves DEF Greet, Label, session
<1>6. ASSUME UNCHANGED <<list, todo, sent>>, players' \subseteq players,
             \A c \in Client : state'[c] = "open" => state[c] = "open",
             \A c \in Client : pc'[Join(c)] = pc[Join(c)]
      PROVE  KnowsInv'
  BY <1>6, NoJoinMoves
<1>7. ASSUME NEW c \in Client, Stay(c) \/ SetX(c) \/ SetY(c) \/ Packet(c)
      PROVE  KnowsInv'
  <2>1. /\ \E l \in Label : Goto(Loop(c), l)
        /\ UNCHANGED <<list, todo, sent, players, state>>
    BY <1>7 DEF Stay, SetX, SetY, Packet, Label, session
  <2>2. \A d \in Client : pc'[Join(d)] = pc[Join(d)]
    BY <2>1, GotoType, Threads
  <2> QED
    BY <1>6, <2>1, <2>2
<1>8. ASSUME NEW c \in Client, Disconnect(c) PROVE KnowsInv'
  <2>1. \A d \in Client : pc'[Join(d)] = pc[Join(d)]
    BY <1>8, GotoType, Threads DEF Disconnect, Label
  <2> QED
    BY <1>6, <1>8, <2>1 DEF Disconnect, session
<1>9. ASSUME NEW c \in Client, NoPlayer(c) \/ Close(c) PROVE KnowsInv'
  BY <1>6, <1>9 DEF NoPlayer, Close, session, TypeOK
<1>10. CASE UNCHANGED vars
  BY <1>6, <1>10 DEF vars, session
<1>11. ASSUME NEW t \in Thread, BroadcastStep(t) PROVE KnowsInv'
  BY <1>11, KnowsCast
<1> QED
  BY <1>1, <1>2, <1>3, <1>4, <1>5, <1>7, <1>8, <1>9, <1>10, <1>11,
     KnowsCollect, KnowsList
     DEF Next, ThreadStep, JoinStep, LoopStep

-----------------------------------------------------------------------------
\* Where clients were told that players are

LEMMA FollowsKept ==
  ASSUME NEW c \in Client, NEW p \in Client, Follows(c, p),
         c \in players' /\ state'[c] = "open" => c \in players /\ state[c] = "open",
         Moving(p) => Moving(p)', Reaches(c, p) => Reaches(c, p)',
         at'[p] = at[p], LastAt(sent[c], p, at[p]) => LastAt(sent'[c], p, at[p])
  PROVE  Follows(c, p)'
BY DEF Follows

LEMMA FollowsNew ==
  ASSUME NEW c \in Client, NEW p \in Client, Unmoved(sent'[c], p)
  PROVE  Follows(c, p)'
BY UnmovedIsAt DEF Follows

\* A step that is of no loop and moves nobody whom clients have seen moving.
LEMMA NoLoopMoves ==
  ASSUME MoveInv,
         \A p \in Client : /\ pc'[Loop(p)] = pc[Loop(p)] /\ todo'[Loop(p)] = todo[Loop(p)]
                           /\ news'[Loop(p)] = news[Loop(p)],
         \A c \in Client : c \in players' /\ state'[c] = "open" =>
           (c \in players /\ state[c] = "open") \/ sent'[c] = <<>>,
         \A p \in Client : at'[p] = at[p] \/ \A c \in Client : Unmoved(sent'[c], p),
         \A c, p \in Client :
           \/ LastAt(sent[c], p, at[p]) => LastAt(sent'[c], p, at[p])
           \/ Unmoved(sent'[c], p)
  PROVE  MoveInv'
<1> SUFFICES ASSUME NEW c \in Client, NEW p \in Client PROVE Follows(c, p)'
  BY DEF MoveInv
<1>1. Follows(c, p)
  BY DEF MoveInv
<1>2. CASE Unmoved(sent'[c], p)
  BY <1>2, FollowsNew
<1>3. CASE sent'[c] = <<>>
  BY <1>3, NothingTold, FollowsNew
<1>4. CASE ~Unmoved(sent'[c], p) /\ sent'[c] # <<>>
  <2>1. /\ Moving(p) => Moving(p)'
        /\ Reaches(c, p) => Reaches(c, p)'
    BY DEF Moving, Reaches
  <2>2. /\ at'[p] = at[p]
        /\ LastAt(sent[c], p, at[p]) => LastAt(sent'[c], p, at[p])
        /\ c \in players' /\ state'[c] = "open" => c \in players /\ state[c] = "open"
    BY <1>4
  <2> QED
    BY <1>1, <2>1, <2>2, FollowsKept
<1> QED
  BY <1>2, <1>3, <1>4

\* A step of one player's loop that writes nothing to the streams.
LEMMA LoopMoves ==
  ASSUME TypeOK, MoveInv, NEW x \in Client, NEW l \in Label, Goto(Loop(x), l),
         UNCHANGED <<players, state, sent>>,
         \A p \in Client : p # x => /\ at'[p] = at[p] /\ todo'[Loop(p)] = todo[Loop(p)]
                                    /\ news'[Loop(p)] = news[Loop(p)],
         \/ Moving(x)'
         \/ at'[x] = at[x] /\ ~Moving(x) /\ pc[Loop(x)] # "cast"
         \/ at'[x] = at[x] /\ \A c \in players : Reaches(c, x)'
         \/ at'[x] = at[x] /\ ~Moving(x) /\ \A c \in players : ~Reaches(c, x)
  PROVE  MoveInv'
<1>1. \A p \in Client : p # x => pc'[Loop(p)] = pc[Loop(p)]
  BY GotoType, Threads
<1> SUFFICES ASSUME NEW c \in Client, NEW p \in Client PROVE Follows(c, p)'
  BY DEF MoveInv
<1>2. Follows(c, p)
  BY DEF MoveInv
<1>3. CASE p # x
  <2>1. /\ Moving(p) => Moving(p)'
        /\ Reaches(c, p) => Reaches(c, p)'
    BY <1>1, <1>3 DEF Moving, Reaches
  <2> QED
    BY <1>2, <1>3, <2>1, FollowsKept
<1>4. CASE p = x /\ Moving(x)'
  BY <1>4 DEF Follows
<1>5. CASE p = x /\ at'[x] = at[x] /\ \A d \in players : Reaches(d, x)'
  BY <1>5 DEF Follows
<1>6. CASE p = x /\ at'[x] = at[x] /\ ~Moving(x) /\ \A d \in players : ~Reaches(d, x)
  BY <1>2, <1>6 DEF Follows
<1>7. CASE p = x /\ at'[x] = at[x] /\ ~Moving(x) /\ pc[Loop(x)] # "cast"
  BY <1>2, <1>7 DEF Follows, Reaches
<1> QED
  BY <1>3, <1>4, <1>5, <1>6, <1>7

\* What is broadcast moves a player only to where it is.
LEMMA MoveCastTo ==
  ASSUME TypeOK, CastInv, NewsInv, MoveInv, NEW t \in Thread, NEW d \in Client, CastTo(t, d)
  PROVE  MoveInv'
<1> SUFFICES ASSUME NEW c \in Client, NEW p \in Client PROVE Follows(c, p)'
  BY DEF MoveInv
<1>1. Follows(c, p)
  BY DEF MoveInv
<1>2. /\ UNCHANGED <<pc, players, state, at, news>> /\ pc[t] = "cast"
      /\ \A u \in Thread : u # t => todo'[u] = todo[u]
      /\ todo'[t] = todo[t] \ {d}
  BY DEF CastTo, TypeOK, session
<1>3. /\ news[t] \in Message /\ sent[d] \in Seq(Message)
      /\ c # d => sent'[c] = sent[c]
      /\ \/ sent'[d] = sent[d] /\ state[d] # "open"
         \/ sent'[d] = Append(sent[d], news[t])
  BY CastWrites
<1>4. Moving(p) => Moving(p)'
  BY <1>2 DEF Moving
<1>5. CASE c # d
  <2>1. Reaches(c, p) => Reaches(c, p)'
    BY <1>2, <1>5, Threads DEF Reaches
  <2> QED
    BY <1>1, <1>2, <1>3, <1>4, <1>5, <2>1, FollowsKept
<1>6. CASE c = d /\ state[d] # "open"
  BY <1>2, <1>6 DEF Follows
<1>7. CASE c = d /\ sent'[d] = Append(sent[d], news[t]) /\ Moves(news[t], p)
  <2>1. news[t].at = at[p]
    BY <1>2, <1>7, WhoMoves
  <2>2. LastAt(sent'[c], p, at[p])
    BY <1>3, <1>7, <2>1, NextMessage
  <2> QED
    BY <1>2, <2>2 DEF Follows
<1>8. CASE c = d /\ sent'[d] = Append(sent[d], news[t]) /\ ~Moves(news[t], p)
  <2>1. Reaches(c, p) => t # Loop(p)
    BY <1>2, <1>8 DEF Reaches, NewsInv, Moves
  <2>2. Reaches(c, p) => Reaches(c, p)'
    BY <1>2, <2>1, Threads DEF Reaches
  <2>3. LastAt(sent[c], p, at[p]) => LastAt(sent'[c], p, at[p])
    BY <1>3, <1>8, NextMessage
  <2> QED
    BY <1>1, <1>2, <1>4, <2>2, <2>3, FollowsKept
<1> QED
  BY <1>3, <1>5, <1>6, <1>7, <1>8

LEMMA MoveCast ==
  ASSUME TypeOK, CastInv, NewsInv, MoveInv, NEW t \in Thread, Announce(t) \/ CastEnd(t)
  PROVE  MoveInv'
<1>1. UNCHANGED <<players, state, at, sent>> /\ \E l \in Label : Goto(t, l)
  BY DEF Announce, CastEnd, Label, session
<1>2. \A u \in Thread : u # t => todo'[u] = todo[u] /\ news'[u] = news[u]
  BY DEF Announce, CastEnd, TypeOK
<1>3. ASSUME \A x \in Client : t # Loop(x) PROVE MoveInv'
  <2>1. \A p \in Client : /\ pc'[Loop(p)] = pc[Loop(p)] /\ todo'[Loop(p)] = todo[Loop(p)]
                          /\ news'[Loop(p)] = news[Loop(p)]
    BY <1>1, <1>2, <1>3, GotoType, Threads
  <2> QED
    BY <1>1, <2>1, NoLoopMoves
<1>4. ASSUME NEW x \in Client, t = Loop(x) PROVE MoveInv'
  <2>1. \A p \in Client : p # x => /\ todo'[Loop(p)] = todo[Loop(p)]
                                   /\ news'[Loop(p)] = news[Loop(p)]
    BY <1>2, <1>4, Threads
  <2>2. CASE Announce(t) /\ news[t].kind = "move"
    <3>1. pc'[Loop(x)] = "cast" /\ todo'[Loop(x)] = players
      BY <1>4, <2>2, GotoType DEF Announce, Label, TypeOK
    <3>2. news'[Loop(x)].kind = "move"
      <4>1. news[t] \in News /\ casts' \in Nat
        BY <2>2 DEF Announce, CastInv, TypeOK
      <4>2. [news[t] EXCEPT !.nr = casts'].kind = news[t].kind
        BY <4>1, Renumbered
      <4> QED
        BY <1>4, <2>2, <4>2 DEF Announce, TypeOK
    <3>3. \A c \in players : Reaches(c, x)'
      BY <3>1, <3>2 DEF Reaches
    <3> QED
      BY <1>1, <1>4, <2>1, <3>3, LoopMoves
  <2>3. CASE Announce(t) /\ news[t].kind # "move"
    <3>1. ~Moving(x) /\ pc[Loop(x)] # "cast"
      BY <1>4, <2>3 DEF Announce, Moving
    <3> QED
      BY <1>1, <1>4, <2>1, <3>1, LoopMoves
  <2>4. CASE CastEnd(t)
    <3>1. ~Moving(x) /\ \A c \in players : ~Reaches(c, x)
      BY <1>4, <2>4 DEF CastEnd, Moving, Reaches
    <3> QED
      BY <1>1, <1>4, <2>1, <3>1, LoopMoves
  <2> QED
    BY <2>2, <2>3, <2>4
<1> QED
  BY <1>3, <1>4

LEMMA MoveStep ==
  ASSUME TypeOK, FreshInv, CastInv, NewsInv, UnseenInv, MoveInv, [Next]_vars
  PROVE  MoveInv'
<1>1. ASSUME NEW t \in Thread, BroadcastStep(t) PROVE MoveInv'
  BY <1>1, MoveCastTo, MoveCast DEF BroadcastStep
<1>2. ASSUME NEW x \in Client, Arrive(x) PROVE MoveInv'
  <2>1. \A p \in Client : pc'[Loop(p)] = pc[Loop(p)]
    BY <1>2, GotoType, Threads DEF Arrive, Label
  <2>2. \A c \in Client : c \in players /\ state'[c] = "open" => state[c] = "open"
    BY <1>2 DEF Arrive, UnseenInv, Unseen, TypeOK
  <2> QED
    BY <1>2, <2>1, <2>2, NoLoopMoves DEF Arrive
<1>3. ASSUME NEW x \in Client, Insert(x) PROVE MoveInv'
  <2>1. \A p \in Client : pc'[Loop(p)] = pc[Loop(p)]
    BY <1>3, GotoType, Threads DEF Insert, Label
  <2>2. \A p \in Client : /\ todo'[Loop(p)] = todo[Loop(p)]
                          /\ news'[Loop(p)] = news[Loop(p)]
    BY <1>3, Threads DEF Insert, TypeOK
  <2>3. /\ UNCHANGED <<state, sent>>
        /\ \A c \in Client : c \in players' => c \in players \/ c = x
        /\ \A p \in Client : p # x => at'[p] = at[p]
    BY <1>3 DEF Insert, TypeOK, session
  <2>4. sent[x] = <<>> /\ \A c \in Client : Unmoved(sent[c], x)
    BY <1>3 DEF Insert, UnseenInv, Unseen
  <2> QED
    BY <2>1, <2>2, <2>3, <2>4, NoLoopMoves
<1>4. ASSUME NEW x \in Client, Return(x) PROVE MoveInv'
  <2>1. \A p \in Client : pc'[Loop(p)] = pc[Loop(p)]
    BY <1>4, GotoType, Threads DEF Return, Label
  <2>2. /\ UNCHANGED <<players, todo, news, at>>
        /\ \A c \in Client : c # x => state'[c] = state[c] /\ sent'[c] = sent[c]
        /\ sent'[x] = <<>>
    BY <1>4 DEF Return, TypeOK
  <2>3. \A c, p \in Client : sent'[c] = sent[c] \/ Unmoved(sent'[c], p)
    BY <2>2, NothingTold
  <2> QED
    BY <2>1, <2>2, <2>3, NoLoopMoves
<1>5. ASSUME NEW x \in Client, Rejoin(x) \/ Collect(x) PROVE MoveInv'
  <2>1. /\ \E l \in Label : Goto(Join(x), l)
        /\ UNCHANGED <<players, state, todo, news, at, sent>>
    BY <1>5 DEF Rejoin, Collect, Label, session
  <2>2. \A p \in Client : pc'[Loop(p)] = pc[Loop(p)]
    BY <2>1, GotoType, Threads
  <2> QED
    BY <2>1, <2>2, NoLoopMoves
<1>6. ASSUME NEW x \in Client, NEW m \in Message, m.kind # "move", NEW l \in Label,
             Goto(Join(x), l), sent' = Written({x}, m),
             UNCHANGED <<players, state, todo, news, at>>
      PROVE  MoveInv'
  <2>1. \A p \in Client : pc'[Loop(p)] = pc[Loop(p)]
    BY <1>6, GotoType, Threads
  <2>2. ASSUME NEW c \in Client, NEW p \in Client, LastAt(sent[c], p, at[p])
        PROVE  LastAt(sent'[c], p, at[p])
    <3>1. sent[c] \in Seq(Message) /\ (sent'[c] = sent[c] \/ sent'[c] = Append(sent[c], m))
      BY <1>6, WrittenType, ZenonT(40) DEF TypeOK
    <3> QED
      BY <1>6, <2>2, <3>1, NextMessage DEF Moves
  <2> QED
    BY <1>6, <2>1, <2>2, NoLoopMoves
<1>7. ASSUME NEW x \in Client, Greet(x) PROVE MoveInv'
  <2> DEFINE m == [kind |-> "connect", who |-> x, nr |-> 0]
  <2>1. m \in Message /\ m.kind # "move" /\ sent' = Written({x}, m)
    BY <1>7 DEF Greet, Message, News
  <2> HIDE DEF m
  <2> QED
    BY <1>6, <1>7, <2>1 DEF Greet, Label, session
<1>8. ASSUME NEW x \in Client, SendList(x) PROVE MoveInv'
  <2> DEFINE m == [kind |-> "players", all |-> list[x], nr |-> 0]
  <2>1. m \in Message /\ m.kind # "move" /\ sent' = Written({x}, m)
    BY <1>8 DEF SendList, Message, TypeOK
  <2> HIDE DEF m
  <2> QED
    BY <1>6, <1>8, <2>1 DEF SendList, Label, session
<1>9. ASSUME NEW x \in Client, NoPlayer(x) \/ Close(x) PROVE MoveInv'
  <2>1. CASE UNCHANGED at
    <3>1. /\ UNCHANGED <<pc, players, todo, news, at, sent>>
          /\ \A c \in Client : state'[c] = "open" => state[c] = "open"
      BY <1>9, <2>1 DEF NoPlayer, Close, TypeOK, session
    <3> QED
      BY <3>1, NoLoopMoves
  <2>2. CASE NoPlayer(x) /\ pc[Loop(x)] = "setY"
    <3>1. Goto(Loop(x), "setY") /\ Moving(x)'
      <4>1. pc' = pc /\ pc[Loop(x)] = "setY"
        BY <2>2 DEF NoPlayer
      <4>2. pc' = [pc EXCEPT ![Loop(x)] = "setY"]
        BY <4>1 DEF TypeOK
      <4> QED
        BY <4>1, <4>2 DEF Goto, Moving
    <3>2. /\ UNCHANGED <<players, state, sent, todo, news>>
          /\ \A p \in Client : p # x => at'[p] = at[p]
      BY <2>2 DEF NoPlayer, TypeOK, session
    <3> QED
      BY <3>1, <3>2, LoopMoves DEF Label
  <2> QED
    BY <1>9, <2>1, <2>2 DEF NoPlayer, Close
<1>10. ASSUME NEW x \in Client, Stay(x) PROVE MoveInv'
  BY <1>10, LoopMoves DEF Stay, Moving, Label, session
<1>11. ASSUME NEW x \in Client, SetX(x) PROVE MoveInv'
  <2>1. Moving(x)' /\ \A p \in Client : p # x => at'[p] = at[p]
    BY <1>11, GotoType, Threads DEF SetX, Moving, Label, TypeOK
  <2> QED
    BY <1>11, <2>1, LoopMoves DEF SetX, Label, session
<1>12. ASSUME NEW x \in Client, SetY(x) PROVE MoveInv'
  <2>1. pc'[Loop(x)] = "announce" /\ news'[Loop(x)].kind = "move"
    BY <1>12, GotoType, Threads DEF SetY, Label, TypeOK
  <2>2. \A p \in Client : p # x => at'[p] = at[p] /\ news'[Loop(p)] = news[Loop(p)]
    BY <1>12, Threads DEF SetY, TypeOK
  <2> QED
    BY <1>12, <2>1, <2>2, LoopMoves DEF SetY, Moving, Label, session
<1>13. ASSUME NEW x \in Client, Packet(x) PROVE MoveInv'
  <2>1. /\ \E l \in Label : Goto(Loop(x), l)
        /\ UNCHANGED <<players, state, sent, at, todo>> /\ pc[Loop(x)] = "idle"
    BY <1>13 DEF Packet, Label
  <2>2. \A p \in Client : p # x => news'[Loop(p)] = news[Loop(p)]
    BY <1>13, Threads DEF Packet, TypeOK
  <2> QED
    BY <2>1, <2>2, LoopMoves DEF Moving
<1>14. ASSUME NEW x \in Client, Disconnect(x) PROVE MoveInv'
  <2>1. \A p \in Client : pc'[Loop(p)] = pc[Loop(p)] /\ news'[Loop(p)] = news[Loop(p)]
    BY <1>14, GotoType, Threads DEF Disconnect, Label, TypeOK
  <2>2. UNCHANGED <<state, sent, at, todo>> /\ \A c \in players' : c \in players
    BY <1>14 DEF Disconnect, session
  <2> QED
    BY <2>1, <2>2, NoLoopMoves
<1>15. CASE UNCHANGED vars
  BY <1>15, NoLoopMoves DEF vars, session
<1> QED
  BY <1>1, <1>2, <1>3, <1>4, <1>5, <1>7, <1>8, <1>9, <1>10, <1>11, <1>12, <1>13, <1>14,
     <1>15 DEF Next, ThreadStep, JoinStep, LoopStep

-----------------------------------------------------------------------------
ToldInv == NewsInv /\ UnseenInv /\ KnowsInv /\ MoveInv

LEMMA ToldInit == Init => ToldInv
<1> SUFFICES ASSUME Init PROVE ToldInv
  OBVIOUS
<1>1. NewsInv
  BY Threads DEF Init, NewsInv
<1>2. UnseenInv
  BY Threads, NothingTold DEF Init, UnseenInv
<1>3. KnowsInv /\ MoveInv
  BY DEF Init, KnowsInv, Knows, MoveInv, Follows
<1> QED
  BY <1>1, <1>2, <1>3 DEF ToldInv

LEMMA ToldInvariant == Spec => [](WorldInv /\ ToldInv)
<1>1. ASSUME WorldInv, ToldInv, [Next]_vars PROVE ToldInv'
  BY <1>1, NewsInvStep, UnseenStep, KnowsStep, MoveStep DEF WorldInv, ToldInv
<1> QED
  BY <1>1, ToldInit, WorldInit, WorldStep, PTL DEF Spec

\* However logins, returns and evictions overlap, every served client was told of every
\* player whose connect is over: Broadcast goes to all who are in the map when it begins,
\* and sendPlayers collects those who were in it before.
THEOREM EveryoneIsKnown == Spec => []KnowsEveryone
<1>1. WorldInv /\ ToldInv => KnowsEveryone
  <2> SUFFICES ASSUME ToldInv, NEW c \in Client, NEW p \in Client, Served(c), p \in players,
                      pc[Join(p)] \notin {"insert", "announce", "cast"}
               PROVE  KnowsOf(sent[c], p)
    BY DEF KnowsEveryone, KnowsOf
  <2>1. Knows(c, p)
    BY DEF ToldInv, KnowsInv
  <2> QED
    BY <2>1 DEF Knows, Served
<1> QED
  BY <1>1, ToldInvariant, PTL

\* However moves, chats, closes and returns interleave, the last move of a player that a
\* served client was sent is where the player is, unless its loop is moving it just now.
THEOREM LastMoveCounts == Spec => []LastMoveIsPosition
<1>1. WorldInv /\ ToldInv => LastMoveIsPosition
  <2> SUFFICES ASSUME ToldInv, NEW c \in Client, NEW p \in Client, Served(c),
                      pc[Loop(p)] = "idle", NEW i \in DOMAIN sent[c], LastMove(c, p, i)
               PROVE  sent[c][i].at = at[p]
    BY DEF LastMoveIsPosition
  <2>1. Follows(c, p)
    BY DEF ToldInv, MoveInv
  <2>2. LastAt(sent[c], p, at[p])
    BY <2>1 DEF Follows, Served, Moving, Reaches
  <2> QED
    BY <2>2 DEF LastAt, LastMove
<1> QED
  BY <1>1, ToldInvariant, PTL

-----------------------------------------------------------------------------
\* Which steps change what

JoinOwn(c) == JoinStep(c) \/ Arrive(c) \/ Return(c)
LoopOwn(c) == LoopStep(c) \/ Packet(c)

\* The steps of a thread.
Own(t) ==
  \/ Announce(t) \/ CastEnd(t)
  \/ \E c \in Client : t = Join(c) /\ JoinOwn(c)
  \/ \E c \in Client : t = Loop(c) /\ LoopOwn(c)
  \/ t = Janitor /\ \E c \in Client : Disconnect(c)

ThreadFrame ==
  \A t \in Thread :
    /\ pc'[t] # pc[t] => Own(t)
    /\ news'[t] # news[t] => Own(t)
    /\ todo'[t] # todo[t] => Announce(t) \/ CastEnd(t) \/ \E c \in Client : CastTo(t, c)

ClientFrame ==
  /\ players' # players => \E c \in Client : Insert(c) \/ Disconnect(c)
  /\ \A c \in Client :
       /\ list'[c] # list[c] => Collect(c) \/ SendList(c)
       /\ state'[c] # state[c] => Arrive(c) \/ Return(c) \/ Close(c)
       /\ at'[c] # at[c] => Insert(c) \/ SetX(c) \/ SetY(c) \/ NoPlayer(c)
       /\ sent'[c] # sent[c] =>
            Return(c) \/ Greet(c) \/ SendList(c) \/ \E t \in Thread : CastTo(t, c)

LEMMA ThreadFrames == ASSUME TypeOK, [Next]_vars PROVE ThreadFrame
<1> SUFFICES ASSUME NEW t \in Thread
             PROVE  /\ pc'[t] # pc[t] => Own(t)
                    /\ news'[t] # news[t] => Own(t)
                    /\ todo'[t] # todo[t] =>
                         Announce(t) \/ CastEnd(t) \/ \E c \in Client : CastTo(t, c)
  BY DEF ThreadFrame
<1>1. ASSUME NEW u \in Thread, Announce(u) \/ CastEnd(u) \/ \E c \in Client : CastTo(u, c)
      PROVE  /\ UNCHANGED pc \/ \E l \in Label : Goto(u, l)
             /\ u # t => news'[t] = news[t] /\ todo'[t] = todo[t]
             /\ u = t /\ (\E c \in Client : CastTo(u, c)) => UNCHANGED <<pc, news>>
  BY <1>1 DEF Announce, CastEnd, CastTo, Label, TypeOK
<1>2. ASSUME NEW u \in Thread, Announce(u) \/ CastEnd(u) \/ \E c \in Client : CastTo(u, c)
      PROVE  /\ pc'[t] # pc[t] => Own(t)
             /\ news'[t] # news[t] => Own(t)
             /\ todo'[t] # todo[t] =>
                  Announce(t) \/ CastEnd(t) \/ \E c \in Client : CastTo(t, c)
  <2>1. CASE u = t
    BY <1>1, <1>2, <2>1 DEF Own
  <2>2. CASE u # t
    BY <1>1, <1>2, <2>2, GotoType
  <2> QED
    BY <2>1, <2>2
<1>3. ASSUME NEW c \in Client, JoinOwn(c)
      PROVE  /\ \E l \in Label : Goto(Join(c), l)
             /\ t # Join(c) => news'[t] = news[t]
             /\ UNCHANGED todo
  <2>1. CASE Insert(c)
    BY <1>3, <2>1 DEF Insert, Label, TypeOK
  <2>2. CASE ~Insert(c)
    BY <1>3, <2>2 DEF JoinOwn, JoinStep, Arrive, Return, Rejoin, Greet, Collect, SendList, Label
  <2> QED
    BY <2>1, <2>2
<1>4. ASSUME NEW c \in Client, LoopOwn(c)
      PROVE  /\ UNCHANGED pc \/ \E l \in Label : Goto(Loop(c), l)
             /\ t # Loop(c) => news'[t] = news[t]
             /\ UNCHANGED todo
  <2>1. CASE Packet(c)
    BY <2>1 DEF Packet, Label, TypeOK
  <2>2. CASE LoopStep(c)
    BY <2>2 DEF LoopStep, NoPlayer, Stay, SetX, SetY, Label, TypeOK
  <2> QED
    BY <1>4, <2>1, <2>2 DEF LoopOwn
<1>5. ASSUME NEW c \in Client, Disconnect(c)
      PROVE  /\ \E l \in Label : Goto(Janitor, l)
             /\ t # Janitor => news'[t] = news[t]
             /\ UNCHANGED todo
  BY <1>5 DEF Disconnect, Label, TypeOK
<1>6. ASSUME NEW c \in Client, JoinOwn(c) \/ LoopOwn(c) \/ Disconnect(c)
      PROVE  /\ pc'[t] # pc[t] => Own(t)
             /\ news'[t] # news[t] => Own(t)
             /\ todo'[t] = todo[t]
  BY <1>3, <1>4, <1>5, <1>6, GotoType, Threads DEF Own
<1>7. ASSUME NEW c \in Client, Close(c) PROVE UNCHANGED <<pc, news, todo>>
  BY <1>7 DEF Close
<1>8. CASE UNCHANGED vars
  BY <1>8 DEF vars
<1> QED
  BY <1>2, <1>6, <1>7, <1>8 DEF Next, ThreadStep, BroadcastStep, JoinOwn, LoopOwn

LEMMA ClientFrames == ASSUME TypeOK, [Next]_vars PROVE ClientFrame
<1>1. ASSUME NEW t \in Thread, BroadcastStep(t) PROVE ClientFrame
  <2>1. UNCHANGED <<players, list, state, at>>
    BY <1>1 DEF BroadcastStep, Announce, CastTo, CastEnd, session
  <2>2. ASSUME NEW c \in Client, sent'[c] # sent[c] PROVE CastTo(t, c)
    BY <1>1, <2>2 DEF BroadcastStep, Announce, CastTo, CastEnd, Written, TypeOK
  <2> QED
    BY <2>1, <2>2 DEF ClientFrame
<1>2. ASSUME NEW x \in Client, JoinOwn(x) PROVE ClientFrame
  <2>1. CASE Insert(x)
    BY <2>1 DEF Insert, ClientFrame, TypeOK, session
  <2>2. CASE Arrive(x)
    BY <2>2 DEF Arrive, ClientFrame, TypeOK
  <2>3. CASE Return(x)
    BY <2>3 DEF Return, ClientFrame, TypeOK
  <2>4. CASE Rejoin(x)
    BY <2>4 DEF Rejoin, ClientFrame, session
  <2>5. CASE Greet(x)
    <3>1. UNCHANGED <<players, list, state, at>>
      BY <2>5 DEF Greet, session
    <3>2. \A c \in Client : c # x => sent'[c] = sent[c]
      BY <2>5 DEF Greet, Written
    <3> QED
      BY <2>5, <3>1, <3>2 DEF ClientFrame
  <2>6. CASE Collect(x)
    BY <2>6 DEF Collect, ClientFrame, TypeOK, session
  <2>7. CASE SendList(x)
    <3>1. UNCHANGED <<players, state, at>>
      BY <2>7 DEF SendList, session
    <3>2. \A c \in Client : c # x => sent'[c] = sent[c] /\ list'[c] = list[c]
      BY <2>7 DEF SendList, Written, TypeOK
    <3> QED
      BY <2>7, <3>1, <3>2 DEF ClientFrame
  <2> QED
    BY <1>2, <2>1, <2>2, <2>3, <2>4, <2>5, <2>6, <2>7 DEF JoinOwn, JoinStep
<1>3. ASSUME NEW x \in Client, LoopOwn(x) PROVE ClientFrame
  <2>1. CASE Packet(x)
    BY <2>1 DEF Packet, ClientFrame
  <2>2. CASE NoPlayer(x)
    <3>1. UNCHANGED <<players, list, state, sent>> /\ \A c \in Client : c # x => at'[c] = at[c]
      BY <2>2 DEF NoPlayer, TypeOK, session
    <3> QED
      BY <2>2, <3>1 DEF ClientFrame
  <2>3. CASE SetX(x) \/ SetY(x)
    BY <2>3 DEF SetX, SetY, ClientFrame, TypeOK, session
  <2>4. CASE Stay(x)
    BY <2>4 DEF Stay, ClientFrame, session
  <2> QED
    BY <1>3, <2>1, <2>2, <2>3, <2>4 DEF LoopOwn, LoopStep
<1>4. ASSUME NEW x \in Client, Disconnect(x) PROVE ClientFrame
  BY <1>4 DEF Disconnect, ClientFrame, session
<1>5. ASSUME NEW x \in Client, Close(x) PROVE ClientFrame
  BY <1>5 DEF Close, ClientFrame, TypeOK
<1>6. CASE UNCHANGED vars
  BY <1>6 DEF vars, ClientFrame, session
<1> QED
  BY <1>1, <1>2, <1>3, <1>4, <1>5, <1>6 DEF Next, ThreadStep, JoinOwn, LoopOwn

LEMMA JoinPath ==
  ASSUME TypeOK, [Next]_vars, NEW c \in Client, pc'[Join(c)] # pc[Join(c)]
  PROVE  \/ Arrive(c) /\ pc'[Join(c)] = "insert"
         \/ Insert(c) /\ pc'[Join(c)] = "announce"
         \/ Announce(Join(c)) /\ pc'[Join(c)] = "cast"
         \/ CastEnd(Join(c)) /\ pc'[Join(c)] = "collect"
         \/ Return(c) /\ pc'[Join(c)] = "rejoin"
         \/ Rejoin(c) /\ pc'[Join(c)] = (IF c \in players THEN "greet" ELSE "idle")
         \/ Greet(c) /\ pc'[Join(c)] = "collect"
         \/ Collect(c) /\ pc'[Join(c)] = "sendList"
         \/ SendList(c) /\ pc'[Join(c)] = "idle"
<1>1. Announce(Join(c)) \/ CastEnd(Join(c)) \/ JoinOwn(c)
  BY ThreadFrames, Threads DEF ThreadFrame, Own
<1>2. ASSUME Announce(Join(c)) PROVE pc'[Join(c)] = "cast"
  BY <1>2, GotoType, Threads DEF Announce, Label
<1>3. ASSUME CastEnd(Join(c)) PROVE pc'[Join(c)] = "collect"
  BY <1>3, GotoType, Threads, ThreadNames DEF CastEnd, Label
<1>4. CASE Arrive(c) \/ Insert(c) \/ Return(c)
  BY <1>4, GotoType, Threads DEF Arrive, Insert, Return, Label
<1>5. CASE Rejoin(c) \/ Greet(c)
  <2>1. CASE Rejoin(c) /\ c \in players
    BY <2>1, GotoType, Threads DEF Rejoin, Label
  <2>2. CASE Rejoin(c) /\ c \notin players
    <3>1. Goto(Join(c), "idle")
      BY <2>2 DEF Rejoin
    <3>2. pc'[Join(c)] = "idle"
      BY <3>1, GotoType, Threads DEF Label
    <3> QED
      BY <2>2, <3>2
  <2>3. CASE Greet(c)
    BY <2>3, GotoType, Threads DEF Greet, Label
  <2> QED
    BY <1>5, <2>1, <2>2, <2>3
<1>6. CASE Collect(c) \/ SendList(c)
  BY <1>6, GotoType, Threads DEF Collect, SendList, Label
<1> QED
  BY <1>1, <1>2, <1>3, <1>4, <1>5, <1>6 DEF JoinOwn, JoinStep

LEMMA StreamPath ==
  ASSUME TypeOK, CastInv, [Next]_vars, NEW c \in Client, sent'[c] # sent[c]
  PROVE  \/ Return(c) /\ sent'[c] = <<>>
         \/ Greet(c) /\ sent'[c] = Append(sent[c], [kind |-> "connect", who |-> c, nr |-> 0])
         \/ SendList(c) /\ sent'[c] = Append(sent[c], [kind |-> "players", all |-> list[c], nr |-> 0])
         \/ \E t \in Thread : /\ CastTo(t, c) /\ news[t] \in News
                              /\ sent'[c] = Append(sent[c], news[t])
<1>1. CASE Return(c)
  BY <1>1 DEF Return, TypeOK
<1>2. CASE Greet(c)
  BY <1>2 DEF Greet, Written
<1>3. CASE SendList(c)
  BY <1>3 DEF SendList, Written
<1>4. ASSUME NEW t \in Thread, CastTo(t, c)
      PROVE  news[t] \in News /\ sent'[c] = Append(sent[c], news[t])
  BY <1>4, CastWrites DEF CastTo, CastInv
<1> QED
  BY <1>1, <1>2, <1>3, <1>4, ClientFrames DEF ClientFrame

LEMMA PlayersPath ==
  ASSUME TypeOK, [Next]_vars, NEW c \in Client
  PROVE  /\ c \in players' => c \in players \/ Insert(c)
         /\ c \in players => c \in players' \/ Disconnect(c)
BY ClientFrames DEF ClientFrame, Insert, Disconnect

LEMMA UnseenShrinks ==
  ASSUME TypeOK, [Next]_vars, NEW c \in Client, Unseen(c)'
  PROVE  Unseen(c)
<1>1. CASE state'[c] = "new"
  BY <1>1, ClientFrames DEF ClientFrame, Unseen, Arrive, Return, Close, TypeOK
<1>2. CASE pc'[Join(c)] = "insert"
  BY <1>2, JoinPath DEF Unseen, Arrive
<1> QED
  BY <1>1, <1>2 DEF Unseen

-----------------------------------------------------------------------------
\* Who is in the map, and who left it

\* From the insert until its list is sent a client stays a player.
JoinerInv ==
  \A c \in Client :
    pc[Join(c)] \in {"announce", "cast", "greet", "collect", "sendList"} => c \in players

\* Whose disconnect is broadcast has left, and does not come again.
LeaverInv ==
  pc[Janitor] \in {"announce", "cast"} =>
    LET p == news[Janitor].who IN p \in Client /\ p \notin players /\ ~Unseen(p)

\* A list that was collected is finite and has the client it is for.
ListedInv ==
  /\ IsFiniteSet(players)
  /\ \A c \in Client :
       /\ IsFiniteSet(list[c])
       /\ \A q \in list[c] : ~Unseen(q[1])
       /\ pc[Join(c)] = "sendList" => Lists(c, c)

\* The list is the last thing a join does.
OneListInv ==
  \A c \in Client : pc[Join(c)] # "idle" =>
    \A i \in DOMAIN sent[c] : sent[c][i].kind # "players"

\* Nobody was told of who is yet to be inserted.
HeardInv == \A c, p \in Client : KnowsOf(sent[c], p) => ~Unseen(p)

LEMMA JoinerStep ==
  ASSUME TypeOK, JoinerInv, [Next]_vars
  PROVE  JoinerInv'
<1> SUFFICES ASSUME NEW c \in Client,
                    pc'[Join(c)] \in {"announce", "cast", "greet", "collect", "sendList"}
             PROVE  c \in players'
  BY DEF JoinerInv
<1>1. CASE Insert(c)
  BY <1>1 DEF Insert
<1>2. CASE pc'[Join(c)] # pc[Join(c)] /\ ~Insert(c)
  <2>1. c \in players
    BY <1>2, JoinPath DEF JoinerInv, Announce, CastEnd, Greet, Collect
  <2>2. ~Disconnect(c)
    BY <1>2, GotoType, Threads DEF Disconnect, Label
  <2> QED
    BY <2>1, <2>2, PlayersPath
<1>3. CASE pc'[Join(c)] = pc[Join(c)]
  BY <1>3, PlayersPath DEF JoinerInv, Disconnect
<1> QED
  BY <1>1, <1>2, <1>3

LEMMA LeaverStep ==
  ASSUME TypeOK, UnseenInv, CastInv, LeaverInv, [Next]_vars
  PROVE  LeaverInv'
<1>1. ASSUME NEW c \in Client, Disconnect(c) PROVE LeaverInv'
  <2>1. news'[Janitor].who = c /\ c \in players /\ c \notin players'
    BY <1>1, Threads DEF Disconnect, TypeOK
  <2>2. ~Unseen(c)'
    BY <2>1, UnseenShrinks DEF UnseenInv
  <2> QED
    BY <2>1, <2>2 DEF LeaverInv
<1>2. CASE CastEnd(Janitor)
  BY <1>2, GotoType, Threads, ThreadNames DEF CastEnd, LeaverInv, Label
<1>3. CASE (\A c \in Client : ~Disconnect(c)) /\ ~CastEnd(Janitor)
  <2>1. SUFFICES ASSUME pc'[Janitor] \in {"announce", "cast"},
                        NEW p, p = news'[Janitor].who
                 PROVE  p \in Client /\ p \notin players' /\ ~Unseen(p)'
    BY DEF LeaverInv, Unseen
  <2>2. pc[Janitor] \in {"announce", "cast"} /\ news[Janitor].who = p
    <3>1. CASE Announce(Janitor)
      <4>1. news[Janitor] \in News /\ casts' \in Nat
        BY <3>1, Threads DEF Announce, CastInv, TypeOK
      <4>2. news'[Janitor] = [news[Janitor] EXCEPT !.nr = casts']
        BY <3>1, Threads DEF Announce, TypeOK
      <4> QED
        BY <2>1, <3>1, <4>1, <4>2, Renumbered DEF Announce
    <3>2. CASE ~Announce(Janitor)
      BY <1>3, <2>1, <3>2, ThreadFrames, Threads DEF ThreadFrame, Own
    <3> QED
      BY <3>1, <3>2
  <2>3. p \in Client /\ p \notin players /\ ~Unseen(p)
    BY <2>2 DEF LeaverInv
  <2>4. ~Insert(p)
    BY <2>3 DEF Insert, Unseen
  <2> QED
    BY <2>3, <2>4, PlayersPath, UnseenShrinks
<1> QED
  BY <1>1, <1>2, <1>3

LEMMA ListedStep ==
  ASSUME TypeOK, UnseenInv, JoinerInv, ListedInv, [Next]_vars
  PROVE  ListedInv'
<1>1. IsFiniteSet(players')
  <2>1. CASE players' = players
    BY <2>1 DEF ListedInv
  <2>2. ASSUME NEW c \in Client, Insert(c) PROVE IsFiniteSet(players')
    BY <2>2, FS_AddElement DEF Insert, ListedInv
  <2>3. ASSUME NEW c \in Client, Disconnect(c) PROVE IsFiniteSet(players')
    BY <2>3, FS_RemoveElement DEF Disconnect, ListedInv
  <2> QED
    BY <2>1, <2>2, <2>3, ClientFrames DEF ClientFrame
<1> DEFINE Good(c) == /\ IsFiniteSet(list[c])
                      /\ \A q \in list[c] : ~Unseen(q[1])
                      /\ pc[Join(c)] = "sendList" => Lists(c, c)
<1>2. ASSUME NEW c \in Client, Collect(c) PROVE Good(c)'
  <2>1. list'[c] = {<<p, at[p]>> : p \in players}
    BY <1>2 DEF Collect, TypeOK
  <2> DEFINE f == [p \in players |-> <<p, at[p]>>]
  <2>2. f \in Surjection(players, list'[c])
    BY <2>1 DEF Surjection
  <2>3. IsFiniteSet(list'[c])
    BY <2>2, FS_Surjection DEF ListedInv
  <2>4. \A q \in list'[c] : ~Unseen(q[1])'
    <3> SUFFICES ASSUME NEW p \in players, Unseen(p)' PROVE FALSE
      BY <2>1 DEF Unseen
    <3> QED
      BY UnseenShrinks DEF UnseenInv, TypeOK
  <2>5. Lists(c, c)'
    <3>1. <<c, at[c]>> \in list'[c]
      BY <1>2, <2>1 DEF Collect, JoinerInv
    <3> QED
      BY <3>1 DEF Lists
  <2> QED
    BY <2>1, <2>3, <2>4, <2>5
<1>3. ASSUME NEW c \in Client, SendList(c) PROVE Good(c)'
  <2>1. list'[c] = {} /\ pc'[Join(c)] = "idle"
    BY <1>3, GotoType, Threads DEF SendList, TypeOK, Label
  <2> QED
    BY <2>1, FS_EmptySet
<1>4. ASSUME NEW c \in Client, ~Collect(c), ~SendList(c) PROVE Good(c)'
  <2>1. list'[c] = list[c] /\ list[c] \subseteq Client \X Position
    BY <1>4, ClientFrames DEF ClientFrame, TypeOK
  <2>2. pc'[Join(c)] = "sendList" => Lists(c, c)'
    BY <1>4, <2>1, JoinPath DEF ListedInv, Lists
  <2>3. \A q \in list'[c] : ~Unseen(q[1])'
    <3> SUFFICES ASSUME NEW q \in list[c] PROVE ~Unseen(q[1])'
      BY <2>1 DEF Unseen
    <3>1. q[1] \in Client /\ ~Unseen(q[1])
      BY <2>1 DEF ListedInv
    <3> DEFINE p == q[1]
    <3>2. p \in Client /\ ~Unseen(p)
      BY <3>1
    <3> HIDE DEF p
    <3>3. ~Unseen(p)'
      BY <3>2, UnseenShrinks
    <3> QED
      BY <3>3 DEF p
  <2> QED
    BY <2>1, <2>2, <2>3 DEF ListedInv
<1> HIDE DEF Good
<1>5. \A c \in Client : Good(c)'
  BY <1>2, <1>3, <1>4
<1> QED
  BY <1>1, <1>5 DEF ListedInv, Good

LEMMA OneListStep ==
  ASSUME TypeOK, CastInv, UnseenInv, OneListInv, [Next]_vars
  PROVE  OneListInv'
<1> SUFFICES ASSUME NEW c \in Client, pc'[Join(c)] # "idle",
                    NEW i \in DOMAIN sent'[c]
             PROVE  sent'[c][i].kind # "players"
  BY DEF OneListInv
<1>1. CASE sent'[c] = <<>>
  BY <1>1
<1>2. CASE sent'[c] = sent[c] /\ sent'[c] # <<>>
  <2>1. pc[Join(c)] # "idle"
    BY <1>2, JoinPath DEF UnseenInv, Unseen, Arrive, Return, Insert, Announce, CastEnd,
       Rejoin, Greet, Collect, TypeOK
  <2> QED
    BY <1>2, <2>1 DEF OneListInv
<1>3. ASSUME NEW m \in Message, sent'[c] = Append(sent[c], m), pc[Join(c)] # "idle",
             m.kind # "players"
      PROVE  sent'[c][i].kind # "players"
  <2>1. sent[c] \in Seq(Message)
    BY DEF TypeOK
  <2>2. \/ sent'[c][i] = m
        \/ i \in DOMAIN sent[c] /\ sent'[c][i] = sent[c][i]
    BY <1>3, <2>1
  <2> QED
    BY <1>3, <2>2 DEF OneListInv
<1>4. CASE Greet(c)
  <2> DEFINE m == [kind |-> "connect", who |-> c, nr |-> 0]
  <2>1. m \in Message /\ m.kind # "players"
    BY DEF Message, News
  <2>2. sent'[c] = sent[c] \/ sent'[c] = Append(sent[c], m)
    BY <1>4 DEF Greet, Written
  <2>3. pc[Join(c)] # "idle"
    BY <1>4 DEF Greet
  <2> HIDE DEF m
  <2> QED
    BY <1>2, <1>3, <1>1, <2>1, <2>2, <2>3
<1>5. CASE SendList(c)
  BY <1>5, GotoType, Threads DEF SendList, Label
<1>6. ASSUME NEW t \in Thread, CastTo(t, c), news[t] \in News,
             sent'[c] = Append(sent[c], news[t])
      PROVE  sent'[c][i].kind # "players"
  <2>1. news[t] \in Message /\ news[t].kind # "players"
    BY <1>6 DEF Message, News
  <2>2. pc[Join(c)] # "idle"
    BY <1>6 DEF CastTo
  <2> QED
    BY <1>3, <1>6, <2>1, <2>2
<1> QED
  BY <1>1, <1>2, <1>4, <1>5, <1>6, StreamPath

\* A broadcast connect is that of a join, about the client that joins.
LEMMA WhoConnects ==
  ASSUME NewsInv, NEW t \in Thread, pc[t] = "cast", news[t].kind = "connect"
  PROVE  news[t].who \in Client /\ t = Join(news[t].who)
<1>1. CASE t = Janitor
  BY <1>1 DEF NewsInv
<1>2. ASSUME NEW c \in Client, t = Join(c) PROVE news[t].who \in Client /\ t = Join(news[t].who)
  BY <1>2 DEF NewsInv
<1>3. ASSUME NEW c \in Client, t = Loop(c) PROVE FALSE
  BY <1>3 DEF NewsInv
<1> QED
  BY <1>1, <1>2, <1>3, Threads

LEMMA WhoLeaves ==
  ASSUME NewsInv, NEW t \in Thread, pc[t] = "cast", news[t].kind = "disconnect"
  PROVE  t = Janitor
BY Threads DEF NewsInv

LEMMA HeardStep ==
  ASSUME TypeOK, FreshInv, CastInv, NewsInv, ListedInv, HeardInv, [Next]_vars
  PROVE  HeardInv'
<1> SUFFICES ASSUME NEW c \in Client, NEW p \in Client, KnowsOf(sent'[c], p), Unseen(p)
             PROVE  FALSE
  BY UnseenShrinks DEF HeardInv, KnowsOf
<1>1. ~KnowsOf(sent[c], p)
  BY DEF HeardInv
<1>2. sent'[c] # sent[c] /\ sent'[c] # <<>>
  BY <1>1 DEF KnowsOf
<1>3. ASSUME NEW m \in Message, sent'[c] = Append(sent[c], m) PROVE Names(m, p)
  <2>1. sent[c] \in Seq(Message)
    BY DEF TypeOK
  <2> QED
    BY <1>1, <1>3, <2>1, Appended DEF KnowsOf
<1>4. CASE Greet(c)
  <2> DEFINE m == [kind |-> "connect", who |-> c, nr |-> 0]
  <2>1. m \in Message /\ (Names(m, p) => c = p)
    BY DEF Message, News, Names
  <2>2. sent'[c] = Append(sent[c], m)
    BY <1>2, <1>4 DEF Greet, Written
  <2> HIDE DEF m
  <2>3. c = p
    BY <1>3, <2>1, <2>2
  <2> QED
    BY <1>4, <2>3 DEF Greet, Unseen, FreshInv
<1>5. CASE SendList(c)
  <2> DEFINE m == [kind |-> "players", all |-> list[c], nr |-> 0]
  <2>1. m \in Message /\ (Names(m, p) => Lists(c, p))
    BY DEF Message, Names, Lists, TypeOK
  <2>2. sent'[c] = Append(sent[c], m)
    BY <1>2, <1>5 DEF SendList, Written
  <2> HIDE DEF m
  <2>3. Lists(c, p)
    BY <1>3, <2>1, <2>2
  <2> QED
    BY <2>3 DEF Lists, ListedInv
<1>6. ASSUME NEW t \in Thread, CastTo(t, c), news[t] \in News,
             sent'[c] = Append(sent[c], news[t])
      PROVE  FALSE
  <2>1. Names(news[t], p)
    BY <1>3, <1>6 DEF Message
  <2>2. news[t].kind = "connect" /\ news[t].who = p /\ pc[t] = "cast"
    BY <1>6, <2>1 DEF CastTo, Names, News
  <2>3. t = Join(p)
    BY <2>2, WhoConnects
  <2> QED
    BY <2>2, <2>3 DEF Unseen, FreshInv
<1> QED
  BY <1>2, <1>4, <1>5, <1>6, StreamPath

-----------------------------------------------------------------------------
\* What a player that has moved or left still owes to a client

\* The disconnect of p is about to be broadcast, or to be written to c.
Leaves(c, p) ==
  /\ pc[Janitor] = "announce" \/ (pc[Janitor] = "cast" /\ c \in todo[Janitor])
  /\ news[Janitor].who = p

\* Numbering its message is all that Announce does to what a thread has in hand.
LEMMA Announced ==
  ASSUME TypeOK, CastInv, NEW t \in Thread, Announce(t)
  PROVE  /\ pc'[t] = "cast" /\ todo'[t] = players
         /\ news'[t].kind = news[t].kind /\ news'[t].who = news[t].who
<1>1. news[t] \in News /\ casts' \in Nat
  BY DEF Announce, CastInv, TypeOK
<1>2. news'[t] = [news[t] EXCEPT !.nr = casts']
  BY DEF Announce, TypeOK
<1>3. pc'[t] = "cast" /\ todo'[t] = players
  BY GotoType DEF Announce, TypeOK, Label
<1> QED
  BY <1>1, <1>2, <1>3, Renumbered

LEMMA WhoWatches ==
  ASSUME TypeOK, UnseenInv, [Next]_vars, NEW c \in Client, c \in players', state'[c] = "open"
  PROVE  (c \in players /\ state[c] = "open") \/ sent'[c] = <<>>
<1>1. CASE c \notin players
  BY <1>1, PlayersPath DEF Insert, UnseenInv, Unseen
<1>2. CASE c \in players /\ state[c] # "open"
  <2>1. ~Arrive(c)
    BY <1>2 DEF Arrive, UnseenInv, Unseen
  <2>2. Return(c)
    BY <1>2, <2>1, ClientFrames DEF ClientFrame, Close, TypeOK
  <2> QED
    BY <2>2 DEF Return, TypeOK
<1> QED
  BY <1>1, <1>2

\* A client that sees a player at rest saw it there before, or is just told of the move.
LEMMA RestWatched ==
  ASSUME TypeOK, CastInv, UnseenInv, [Next]_vars, NEW c \in Client, NEW p \in Client,
         c \in players', state'[c] = "open", p \in players', ~Moving(p)', ~Reaches(c, p)'
  PROVE  \/ /\ c \in players /\ state[c] = "open" /\ p \in players
            /\ ~Moving(p) /\ ~Reaches(c, p) /\ at'[p] = at[p]
         \/ CastTo(Loop(p), c) /\ news[Loop(p)].kind = "move"
         \/ Unseen(p)
         \/ sent'[c] = <<>>
<1> SUFFICES ASSUME c \in players, state[c] = "open", ~Unseen(p),
                    ~(CastTo(Loop(p), c) /\ news[Loop(p)].kind = "move")
             PROVE  p \in players /\ ~Moving(p) /\ ~Reaches(c, p) /\ at'[p] = at[p]
  BY WhoWatches
<1> DEFINE t == Loop(p)
<1>1. p \in players
  BY PlayersPath DEF Insert, Unseen
<1>2. ~SetY(p)
  <2> SUFFICES ASSUME SetY(p) PROVE Moving(p)'
    OBVIOUS
  <2> QED
    BY GotoType, Threads DEF SetY, Moving, Label, TypeOK
<1>3. at'[p] = at[p]
  <2>1. ~Insert(p)
    BY DEF Insert, Unseen
  <2>2. ~SetX(p)
    BY GotoType, Threads DEF SetX, Moving, Label
  <2>3. ~NoPlayer(p)
    BY <1>1 DEF NoPlayer
  <2> QED
    BY <1>2, <2>1, <2>2, <2>3, ClientFrames DEF ClientFrame
<1>4. ASSUME Moving(p) PROVE FALSE
  <2>1. pc'[t] # pc[t] \/ news'[t] # news[t]
    BY <1>4 DEF Moving
  <2>2. Announce(t) \/ CastEnd(t) \/ LoopOwn(p)
    BY <2>1, ThreadFrames, Threads DEF ThreadFrame, Own
  <2>3. pc[t] = "setY" \/ (pc[t] = "announce" /\ news[t].kind = "move")
    BY <1>4 DEF Moving
  <2>4. ASSUME LoopOwn(p) PROVE FALSE
    BY <1>2, <2>1, <2>3, <2>4 DEF LoopOwn, LoopStep, Packet, NoPlayer, Stay, SetX
  <2>5. Announce(t)
    BY <2>2, <2>3, <2>4 DEF CastEnd
  <2>6. news[t].kind = "move"
    BY <2>3, <2>5 DEF Announce
  <2>7. Reaches(c, p)'
    BY <2>5, <2>6, Announced, Threads DEF Reaches
  <2> QED
    BY <2>7
<1>5. ASSUME Reaches(c, p) PROVE FALSE
  <2>1. pc[t] = "cast" /\ c \in todo[t] /\ news[t].kind = "move"
    BY <1>5 DEF Reaches
  <2>2. ~Announce(t) /\ ~CastEnd(t) /\ ~LoopOwn(p)
    BY <2>1 DEF Announce, CastEnd, LoopOwn, LoopStep, Packet, NoPlayer, Stay, SetX, SetY
  <2>3. pc'[t] = pc[t] /\ news'[t] = news[t]
    BY <2>2, ThreadFrames, Threads DEF ThreadFrame, Own
  <2>4. PICK d \in Client : CastTo(t, d)
    BY <2>1, <2>2, <2>3, ThreadFrames, Threads DEF ThreadFrame, Reaches
  <2>5. d # c
    BY <2>1, <2>4
  <2>6. c \in todo'[t]
    BY <2>1, <2>4, <2>5, Threads DEF CastTo, TypeOK
  <2> QED
    BY <2>1, <2>3, <2>6 DEF Reaches
<1> QED
  BY <1>1, <1>3, <1>4, <1>5

\* A client that is owed no disconnect of a player that has left was owed none before, or
\* is just told.
LEMMA LeaverWatched ==
  ASSUME TypeOK, CastInv, UnseenInv, [Next]_vars, NEW c \in Client, NEW p \in Client,
         c \in players', state'[c] = "open", p \notin players', ~Leaves(c, p)'
  PROVE  \/ /\ c \in players /\ state[c] = "open" /\ p \notin players
            /\ ~Leaves(c, p)
         \/ CastTo(Janitor, c) /\ news[Janitor].who = p
         \/ sent'[c] = <<>>
<1> SUFFICES ASSUME c \in players, state[c] = "open",
                    ~(CastTo(Janitor, c) /\ news[Janitor].who = p)
             PROVE  p \notin players /\ ~Leaves(c, p)
  BY WhoWatches
<1> DEFINE t == Janitor
<1>1. p \notin players
  <2>1. ASSUME Disconnect(p) PROVE FALSE
    <3>1. pc'[t] = "announce"
      BY <2>1, GotoType, Threads DEF Disconnect, Label
    <3>2. news'[t].who = p
      BY <2>1, Threads DEF Disconnect, TypeOK
    <3> QED
      BY <3>1, <3>2 DEF Leaves
  <2> QED
    BY <2>1, PlayersPath
<1>2. ASSUME Leaves(c, p) PROVE FALSE
  <2>1. pc[t] = "announce" \/ (pc[t] = "cast" /\ c \in todo[t])
    BY <1>2 DEF Leaves
  <2>2. ASSUME Announce(t) PROVE FALSE
    BY <1>2, <2>2, Announced, Threads DEF Leaves
  <2>3. ~CastEnd(t) /\ \A x \in Client : ~Disconnect(x)
    BY <2>1 DEF CastEnd, Disconnect
  <2>4. pc'[t] = pc[t] /\ news'[t] = news[t]
    BY <2>2, <2>3, ThreadFrames, Threads DEF ThreadFrame, Own
  <2>5. pc[t] = "cast" /\ c \in todo[t] /\ c \notin todo'[t]
    BY <1>2, <2>1, <2>4 DEF Leaves
  <2>6. PICK d \in Client : CastTo(t, d)
    BY <2>2, <2>3, <2>5, ThreadFrames, Threads DEF ThreadFrame
  <2>7. d # c
    BY <1>2, <2>6 DEF Leaves
  <2> QED
    BY <2>5, <2>6, <2>7, Threads DEF CastTo, TypeOK
<1> QED
  BY <1>1, <1>2

-----------------------------------------------------------------------------
\* What each message does to a web client's list

Entry == [id : Client, at : Position] \cup {Hole}
Maps == UNION {[S -> Nat] : S \in SUBSET Client}
Store == [user : Client \cup {None}, map : Maps, players : Seq(Entry)]

Home(r) ==
  \A p \in DOMAIN r.map : r.map[p] \in DOMAIN r.players /\ r.players[r.map[p]].id = p

\* Everybody a message does not speak of stays in the map and where it was.
Effect(r, m, new) ==
  /\ \A q \in DOMAIN new.map :
       \/ m.kind = "connect" /\ m.who = q
       \/ /\ q \in DOMAIN r.map /\ new.map[q] = r.map[q]
          /\ ~Moves(m, q) => Where(new, q) = Where(r, q)
  /\ \A q \in DOMAIN r.map : q \in DOMAIN new.map \/ (m.kind = "disconnect" /\ m.who = q)
  /\ \A q \in DOMAIN new.map : Moves(m, q) => Where(new, q) = m.at
  /\ m.kind = "connect" => m.who \in DOMAIN new.map
  /\ m.kind = "disconnect" /\ m.who \in DOMAIN new.map => new.map[m.who] = 1

LEMMA PushHome ==
  ASSUME NEW r \in Store, Home(r), NEW p \in Client
  PROVE  /\ Push(r, p) \in Store /\ Home(Push(r, p)) /\ Push(r, p).user = r.user
         /\ DOMAIN Push(r, p).map = DOMAIN r.map \cup {p}
         /\ \A q \in DOMAIN r.map \ {p} :
              Push(r, p).map[q] = r.map[q] /\ Where(Push(r, p), q) = Where(r, q)
<1> DEFINE n == Len(r.players) + 1
           map == Set(r.map, p, n)
           list2 == Append(r.players, Newcomer(p))
<1>1. r.players \in Seq(Entry) /\ r.map \in Maps /\ r.user \in Client \cup {None}
  BY DEF Store
<1>2. Newcomer(p) \in Entry /\ Newcomer(p).id = p
  BY WorldAssumption DEF Newcomer, Entry, Position
<1>3. /\ n \in Nat /\ list2 \in Seq(Entry) /\ n \in DOMAIN list2 /\ list2[n].id = p
      /\ \A i \in DOMAIN r.players : i \in DOMAIN list2 /\ list2[i] = r.players[i]
  BY <1>1, <1>2
<1>4. DOMAIN r.map \subseteq Client /\ \A q \in DOMAIN r.map : r.map[q] \in Nat
  BY <1>1 DEF Maps
<1>5. /\ DOMAIN map = DOMAIN r.map \cup {p} /\ map[p] = n
      /\ \A q \in DOMAIN r.map \ {p} : map[q] = r.map[q]
  BY DEF Set
<1>6. map \in [DOMAIN map -> Nat] /\ DOMAIN map \subseteq Client
  <2>1. map = [q \in DOMAIN r.map \cup {p} |-> map[q]]
    BY DEF Set
  <2>2. \A q \in DOMAIN r.map \cup {p} : map[q] \in Nat
    BY <1>3, <1>4, <1>5
  <2> HIDE DEF map
  <2> QED
    BY <2>1, <2>2, <1>4
<1>7. map \in Maps
  BY <1>6 DEF Maps
<1>8. Push(r, p) = [r EXCEPT !.map = map, !.players = list2]
  BY DEF Push
<1> HIDE DEF map, list2, n
<1>9. Push(r, p) = [user |-> r.user, map |-> map, players |-> list2]
  BY <1>8 DEF Store
<1>10. Push(r, p) \in Store
  BY <1>1, <1>3, <1>7, <1>9 DEF Store
<1>11. \A q \in DOMAIN r.map \ {p} : map[q] \in DOMAIN list2 /\ list2[map[q]] = r.players[r.map[q]]
  BY <1>3, <1>5 DEF Home
<1>12. Home(Push(r, p))
  BY <1>3, <1>5, <1>9, <1>11 DEF Home
<1> QED
  BY <1>5, <1>9, <1>10, <1>11, <1>12 DEF Where

LEMMA DropHome ==
  ASSUME NEW r \in Store, Home(r), NEW p \in Client
  PROVE  /\ Drop(r, p) \in Store /\ Home(Drop(r, p)) /\ Drop(r, p).user = r.user
         /\ DOMAIN Drop(r, p).map \subseteq DOMAIN r.map
         /\ \A q \in DOMAIN r.map \ {p} : q \in DOMAIN Drop(r, p).map
         /\ \A q \in DOMAIN Drop(r, p).map :
              Drop(r, p).map[q] = r.map[q] /\ Where(Drop(r, p), q) = Where(r, q)
         /\ p \in DOMAIN Drop(r, p).map => Drop(r, p).map[p] = 1
<1>1. CASE ~(p \in DOMAIN r.map /\ r.map[p] # 1)
  BY <1>1 DEF Drop
<1>2. CASE p \in DOMAIN r.map /\ r.map[p] # 1
  <2> DEFINE map == [q \in DOMAIN r.map \ {p} |-> r.map[q]]
             list2 == [r.players EXCEPT ![r.map[p]] = Hole]
  <2>1. r.players \in Seq(Entry) /\ r.map \in Maps /\ r.user \in Client \cup {None}
    BY DEF Store
  <2>2. Drop(r, p) = [user |-> r.user, map |-> map, players |-> list2]
    BY <1>2 DEF Drop, Store
  <2>3. map \in Maps
    <3>1. PICK S \in SUBSET Client : r.map \in [S -> Nat]
      BY <2>1 DEF Maps
    <3>2. map \in [S \ {p} -> Nat]
      BY <3>1
    <3> QED
      BY <3>2 DEF Maps
  <2>4. list2 \in Seq(Entry) /\ DOMAIN list2 = DOMAIN r.players
    <3>1. Hole \in Entry /\ r.map[p] \in DOMAIN r.players
      BY <1>2 DEF Entry, Home
    <3> HIDE DEF Hole
    <3> QED
      BY <2>1, <3>1
  <2>5. \A q \in DOMAIN map : /\ q \in DOMAIN r.map /\ map[q] = r.map[q] /\ q # p
                              /\ map[q] \in DOMAIN list2 /\ list2[map[q]] = r.players[r.map[q]]
    BY <1>2, <2>4 DEF Home
  <2>6. DOMAIN map = DOMAIN r.map \ {p}
    OBVIOUS
  <2> HIDE DEF map, list2
  <2>7. Drop(r, p) \in Store
    BY <2>1, <2>2, <2>3, <2>4 DEF Store
  <2>8. Home(Drop(r, p))
    BY <2>2, <2>5 DEF Home
  <2> QED
    BY <2>2, <2>5, <2>6, <2>7, <2>8 DEF Where
<1> QED
  BY <1>1, <1>2

LEMMA MoveHome ==
  ASSUME NEW r \in Store, Home(r), NEW m \in News, m.kind = "move"
  PROVE  LET new == HandleBPlayerMoved(r, m) IN
         /\ new \in Store /\ Home(new) /\ new.user = r.user /\ new.map = r.map
         /\ \A q \in DOMAIN r.map :
              Where(new, q) = IF q = m.who THEN m.at ELSE Where(r, q)
<1> DEFINE p == m.who
           new == HandleBPlayerMoved(r, m)
<1>1. p \in Client /\ m.at \in Position
  BY DEF News
<1>2. CASE p \notin DOMAIN r.map
  BY <1>2 DEF HandleBPlayerMoved
<1>3. CASE p \in DOMAIN r.map
  <2> DEFINE e == [id |-> p, at |-> m.at]
             list2 == [r.players EXCEPT ![r.map[p]] = e]
  <2>1. r.players \in Seq(Entry) /\ r.map \in Maps /\ r.user \in Client \cup {None}
    BY DEF Store
  <2>2. new = [user |-> r.user, map |-> r.map, players |-> list2]
    BY <1>3 DEF HandleBPlayerMoved, Store
  <2>3. e \in Entry
    BY <1>1 DEF Entry
  <2>4. /\ list2 \in Seq(Entry) /\ DOMAIN list2 = DOMAIN r.players
        /\ list2[r.map[p]] = e
    BY <1>3, <2>1, <2>3 DEF Home
  <2>5. \A q \in DOMAIN r.map \ {p} : list2[r.map[q]] = r.players[r.map[q]]
    BY <1>3 DEF Home
  <2>6. e.id = p /\ e.at = m.at
    OBVIOUS
  <2> HIDE DEF list2, e
  <2>7. new \in Store
    BY <2>1, <2>2, <2>4 DEF Store
  <2> HIDE DEF new
  <2>8. Home(new)
    BY <2>2, <2>4, <2>5, <2>6 DEF Home
  <2>9. \A q \in DOMAIN r.map : Where(new, q) = IF q = m.who THEN m.at ELSE Where(r, q)
    BY <2>2, <2>4, <2>5, <2>6 DEF Where
  <2> QED
    BY <2>2, <2>7, <2>8, <2>9 DEF new
<1> QED
  BY <1>2, <1>3

LEMMA ListHome ==
  ASSUME NEW r \in Store, NEW L \in SUBSET (Client \X Position), IsFiniteSet(L),
         NEW ids \in Arrangements(L)
  PROVE  LET new == HandleServerList(r, ids) IN
         /\ new \in Store /\ Home(new) /\ new.user = r.user
         /\ \A q \in L : q[1] \in DOMAIN new.map
         /\ \A p \in DOMAIN new.map : <<p, Where(new, p)>> \in L
<1> DEFINE n == Cardinality(L)
           list2 == [i \in DOMAIN ids |-> [id |-> ids[i][1], at |-> ids[i][2]]]
           map == [p \in {ids[i][1] : i \in DOMAIN ids} |-> CHOOSE i \in DOMAIN ids : ids[i][1] = p]
           new == HandleServerList(r, ids)
<1>1. n \in Nat
  BY FS_CardinalityType
<1>2. /\ ids \in [1..n -> L] /\ DOMAIN ids = 1..n
      /\ \A q \in L : \E i \in 1..n : ids[i] = q
  BY DEF Arrangements, Bijection, Injection, Surjection
<1>3. r.players \in Seq(Entry) /\ r.map \in Maps /\ r.user \in Client \cup {None}
  BY DEF Store
<1>4. new = [r EXCEPT !.players = list2, !.map = map]
  BY DEF HandleServerList, Mapped
<1>5. \A i \in 1..n : /\ ids[i] \in L /\ ids[i] = <<ids[i][1], ids[i][2]>>
                      /\ ids[i][1] \in Client /\ ids[i][2] \in Position
  BY <1>2
<1>6. list2 \in [1..n -> Entry]
  BY <1>2, <1>5 DEF Entry
<1>7. list2 \in Seq(Entry) /\ DOMAIN list2 = 1..n
  BY <1>1, <1>6
<1>8. \A i \in 1..n : list2[i].id = ids[i][1] /\ list2[i].at = ids[i][2]
  BY <1>2
<1>9. \A p \in DOMAIN map : map[p] \in 1..n /\ ids[map[p]][1] = p
  BY <1>2
<1>10. DOMAIN map = {ids[i][1] : i \in 1..n}
  BY <1>2
<1>11. map \in [DOMAIN map -> Nat]
  <2>1. map = [p \in DOMAIN map |-> map[p]]
    OBVIOUS
  <2> HIDE DEF map, n
  <2>2. \A p \in DOMAIN map : map[p] \in Nat
    BY <1>1, <1>9
  <2> QED
    BY <2>1, <2>2
<1> HIDE DEF list2, map, n, new
<1>12. DOMAIN map \subseteq Client
  BY <1>5, <1>10
<1>13. map \in Maps
  BY <1>11, <1>12 DEF Maps
<1>14. new = [user |-> r.user, map |-> map, players |-> list2]
  BY <1>4 DEF Store
<1>15. new \in Store
  BY <1>3, <1>7, <1>13, <1>14 DEF Store
<1>16. Home(new)
  BY <1>7, <1>8, <1>9, <1>14 DEF Home
<1>17. \A q \in L : q[1] \in DOMAIN new.map
  BY <1>2, <1>10, <1>14
<1>18. ASSUME NEW p \in DOMAIN new.map PROVE <<p, Where(new, p)>> \in L
  <2>1. /\ map[p] \in 1..n /\ ids[map[p]][1] = p
        /\ Where(new, p) = ids[map[p]][2]
    BY <1>8, <1>9, <1>14, <1>18 DEF Where
  <2> QED
    BY <1>5, <2>1
<1> QED
  BY <1>14, <1>15, <1>16, <1>17, <1>18 DEF new

LEMMA HandleNews ==
  ASSUME NEW r \in Store, Home(r), r.user # None, NEW m \in News, NEW new \in Handle(r, m)
  PROVE  new \in Store /\ Home(new) /\ new.user # None /\ Effect(r, m, new)
<1>1. m.who \in Client /\ m.kind \in {"connect", "disconnect", "chat", "move"}
  BY DEF News
<1>2. CASE m.kind = "connect"
  <2>1. new = Push(r, m.who)
    BY <1>2 DEF Handle, HandleBConnect
  <2> QED
    BY <1>1, <1>2, <2>1, PushHome DEF Effect, Moves
<1>3. CASE m.kind = "disconnect"
  <2>1. new = Drop(r, m.who)
    BY <1>3 DEF Handle, HandleBConnect
  <2> QED
    BY <1>1, <1>3, <2>1, DropHome DEF Effect, Moves
<1>4. CASE m.kind = "move"
  <2>1. new = HandleBPlayerMoved(r, m)
    BY <1>4 DEF Handle
  <2> QED
    BY <1>4, <2>1, MoveHome DEF Effect, Moves
<1>5. CASE m.kind = "chat"
  <2>1. new = r
    BY <1>5 DEF Handle
  <2> QED
    BY <1>5, <2>1 DEF Effect, Moves
<1> QED
  BY <1>1, <1>2, <1>3, <1>4, <1>5

\* The first that is named becomes the user, and is not put into the list.
LEMMA HandleFirst ==
  ASSUME NEW r \in Store, Home(r), r.user = None, NEW m \in News, NEW new \in Handle(r, m)
  PROVE  /\ new \in Store /\ Home(new) /\ DOMAIN new.map = DOMAIN r.map
         /\ m.kind = "connect" => new.user # None
<1>1. m.who \in Client /\ m.kind \in {"connect", "disconnect", "chat", "move"} /\ None \notin Client
  BY WorldAssumption DEF News
<1>2. CASE m.kind \in {"connect", "disconnect"}
  <2>1. new = [r EXCEPT !.user = m.who]
    BY <1>2 DEF Handle, HandleBConnect
  <2>2. new = [user |-> m.who, map |-> r.map, players |-> r.players]
    BY <2>1 DEF Store
  <2> QED
    BY <1>1, <2>2 DEF Store, Home
<1>3. CASE m.kind = "move"
  <2>1. new = HandleBPlayerMoved(r, m)
    BY <1>3 DEF Handle
  <2> QED
    BY <1>3, <2>1, MoveHome
<1>4. CASE m.kind = "chat"
  BY <1>4 DEF Handle
<1> QED
  BY <1>1, <1>2, <1>3, <1>4

-----------------------------------------------------------------------------
\* What a step of the world does to a web client

\* m is written to c by a broadcast, or is its own connect.
GotNews(c, m) ==
  /\ m \in News /\ sent'[c] = Append(sent[c], m) /\ roster'[c] \in Handle(roster[c], m)
  /\ \/ Greet(c) /\ m.kind = "connect" /\ m.who = c
     \/ \E t \in Thread : CastTo(t, c) /\ m = news[t]

GotList(c) ==
  /\ SendList(c)
  /\ sent'[c] = Append(sent[c], [kind |-> "players", all |-> list[c], nr |-> 0])
  /\ \E ids \in Arrangements(list[c]) : roster'[c] = HandleServerList(roster[c], ids)

LEMMA LastAppended ==
  ASSUME NEW s \in Seq(Message), NEW m \in Message
  PROVE  Append(s, m) # <<>> /\ Append(s, m) # s /\ Last(Append(s, m)) = m
<1>1. Len(Append(s, m)) = Len(s) + 1 /\ Append(s, m)[Len(s) + 1] = m
  OBVIOUS
<1> QED
  BY <1>1 DEF Last

LEMMA ReadPath ==
  ASSUME TypeOK, CastInv, [RosterNext]_<<vars, roster>>, NEW c \in Client
  PROVE  \/ sent'[c] = sent[c] /\ roster'[c] = roster[c]
         \/ sent'[c] = <<>> /\ roster'[c] = NewRoster
         \/ \E m \in News : GotNews(c, m)
         \/ GotList(c)
<1>1. CASE UNCHANGED <<vars, roster>>
  BY <1>1 DEF vars
<1>2. CASE RosterNext
  <2>1. [Next]_vars /\ roster'[c] \in Read(c)
    BY <1>2 DEF RosterNext
  <2>2. CASE sent'[c] = sent[c]
    BY <2>1, <2>2 DEF Read
  <2>3. CASE sent'[c] # sent[c] /\ sent'[c] = <<>>
    BY <2>1, <2>3 DEF Read
  <2>4. ASSUME NEW m \in Message, sent'[c] = Append(sent[c], m)
        PROVE  roster'[c] \in Handle(roster[c], m)
    <3>1. sent[c] \in Seq(Message)
      BY DEF TypeOK
    <3>2. sent'[c] # <<>> /\ sent'[c] # sent[c] /\ Last(sent'[c]) = m
      BY <2>4, <3>1, LastAppended
    <3> QED
      BY <2>1, <3>2 DEF Read
  <2>5. CASE Greet(c) /\ sent'[c] = Append(sent[c], [kind |-> "connect", who |-> c, nr |-> 0])
    <3> DEFINE m == [kind |-> "connect", who |-> c, nr |-> 0]
    <3>1. m \in News /\ m \in Message /\ m.kind = "connect" /\ m.who = c
      BY DEF News, Message
    <3> HIDE DEF m
    <3>2. GotNews(c, m)
      BY <2>4, <2>5, <3>1 DEF GotNews, m
    <3> QED
      BY <3>1, <3>2
  <2>6. ASSUME NEW t \in Thread, CastTo(t, c), news[t] \in News,
               sent'[c] = Append(sent[c], news[t])
        PROVE  GotNews(c, news[t])
    <3>1. news[t] \in Message
      BY <2>6 DEF Message
    <3> QED
      BY <2>4, <2>6, <3>1 DEF GotNews
  <2>7. CASE SendList(c) /\ sent'[c] = Append(sent[c], [kind |-> "players", all |-> list[c], nr |-> 0])
    <3> DEFINE m == [kind |-> "players", all |-> list[c], nr |-> 0]
    <3>1. m \in Message /\ m.kind = "players" /\ m.all = list[c]
      BY DEF Message, TypeOK
    <3>2. sent'[c] = Append(sent[c], m)
      BY <2>7
    <3> HIDE DEF m
    <3>3. roster'[c] \in Handle(roster[c], m)
      BY <2>4, <3>1, <3>2
    <3>4. \E ids \in Arrangements(list[c]) : roster'[c] = HandleServerList(roster[c], ids)
      BY <3>1, <3>3 DEF Handle
    <3> QED
      BY <2>7, <3>4 DEF GotList
  <2> QED
    BY <2>1, <2>2, <2>3, <2>5, <2>6, <2>7, StreamPath
<1> QED
  BY <1>1, <1>2

\* What is known of whom such a message speaks.
LEMMA NewsOf ==
  ASSUME TypeOK, FreshInv, NewsInv, UnseenInv, JoinerInv, LeaverInv, NEW c \in Client, NEW m, GotNews(c, m)
  PROVE  /\ UNCHANGED <<players, at>> /\ m.who \in Client
         /\ m.kind = "connect" => m.who \in players /\ ~Unseen(m.who)
         /\ m.kind = "disconnect" => /\ m.who \notin players
                                     /\ CastTo(Janitor, c) /\ news[Janitor].who = m.who
         /\ m.kind = "move" => m.at = at[m.who]
<1>1. CASE Greet(c) /\ m.kind = "connect" /\ m.who = c
  BY <1>1 DEF Greet, JoinerInv, Unseen, FreshInv
<1>2. ASSUME NEW t \in Thread, CastTo(t, c), m = news[t]
      PROVE  /\ UNCHANGED <<players, at>>
             /\ m.kind = "connect" => m.who \in players /\ ~Unseen(m.who)
             /\ m.kind = "disconnect" => /\ m.who \notin players
                                         /\ CastTo(Janitor, c) /\ news[Janitor].who = m.who
             /\ m.kind = "move" => m.at = at[m.who]
  <2>1. pc[t] = "cast" /\ UNCHANGED <<players, at>>
    BY <1>2 DEF CastTo
  <2>2. m.who \in Client
    BY DEF GotNews, News
  <2>3. ASSUME m.kind = "connect" PROVE m.who \in players /\ ~Unseen(m.who)
    <3>1. t = Join(m.who)
      BY <1>2, <2>1, <2>3, WhoConnects
    <3> QED
      BY <2>1, <2>2, <3>1 DEF JoinerInv, Unseen, FreshInv
  <2>4. ASSUME m.kind = "disconnect"
        PROVE  m.who \notin players /\ CastTo(Janitor, c) /\ news[Janitor].who = m.who
    <3>1. t = Janitor
      BY <1>2, <2>1, <2>4, WhoLeaves
    <3> QED
      BY <1>2, <2>1, <3>1 DEF LeaverInv
  <2>5. ASSUME m.kind = "move" PROVE m.at = at[m.who]
    <3>1. Moves(news[t], m.who)
      BY <1>2, <2>5 DEF Moves
    <3> QED
      BY <1>2, <2>1, <2>2, <3>1, WhoMoves
  <2> QED
    BY <2>1, <2>3, <2>4, <2>5
<1>3. m.who \in Client
  BY DEF GotNews, News
<1> QED
  BY <1>1, <1>2, <1>3 DEF GotNews

-----------------------------------------------------------------------------
\* The inductive invariants of the web client's list

\* The map leads home, and to nobody who is yet to be inserted.
StoreInv ==
  /\ roster \in [Client -> Store]
  /\ \A c \in Client : Home(roster[c]) /\ \A p \in DOMAIN roster[c].map : ~Unseen(p)

\* Who was sent a connect first has a user.
UserInv ==
  \A c \in Client :
    /\ sent[c] = <<>> => roster[c] = NewRoster
    /\ sent[c] # <<>> /\ sent[c][1].kind = "connect" => roster[c].user # None

\* A client that has its own connect and is yet to get its list.
Begun(c) ==
  /\ pc[Join(c)] = "sendList"
  /\ Len(sent[c]) = 1 /\ sent[c][1].kind = "connect" /\ sent[c][1].who = c

\* Its map has every player it was told of after its own connect, and itself.
KnowsLate(s, p) == \E i \in DOMAIN s : i > 1 /\ Names(s[i], p)
MapInv ==
  \A c, p \in Client :
    Clean(c) /\ p \in players /\ (p = c \/ KnowsLate(sent[c], p)) => p \in DOMAIN roster[c].map

\* A player at rest is where the client has it, or its list will, unless it was told of the
\* connect last or has a move to be told.
ConnectLast(s, p) ==
  \E i \in DOMAIN s : /\ s[i].kind = "connect" /\ s[i].who = p
                      /\ \A j \in DOMAIN s : j > i => ~Tells(s[j], p)
ShowInv ==
  \A c, p \in Client :
    c \in players /\ state[c] = "open" /\ p \in players /\ ~Moving(p) /\ ~Reaches(c, p) =>
      /\ Clean(c) /\ p \in DOMAIN roster[c].map /\ ~ConnectLast(sent[c], p) =>
           Where(roster[c], p) = at[p]
      /\ Begun(c) => \A q \in list[c] : q[1] = p => q[2] = at[p]

\* Who has left is out of the map, or at the head of the array, or the disconnect is coming;
\* and in no list that is yet to be sent.
LingerInv ==
  \A c, p \in Client :
    c \in players /\ state[c] = "open" /\ p \notin players /\ ~Leaves(c, p) =>
      /\ Clean(c) /\ p \in DOMAIN roster[c].map => roster[c].map[p] = 1
      /\ Begun(c) => ~Lists(c, p)

LEMMA StoreStep ==
  ASSUME TypeOK, FreshInv, CastInv, NewsInv, UnseenInv, JoinerInv, LeaverInv, ListedInv,
         StoreInv, UserInv, [RosterNext]_<<vars, roster>>
  PROVE  StoreInv' /\ UserInv'
<1>1. [Next]_vars
  BY DEF RosterNext, vars
<1> DEFINE Good(c) == /\ roster'[c] \in Store /\ Home(roster'[c])
                      /\ \A p \in DOMAIN roster'[c].map : ~Unseen(p)
                      /\ sent'[c] = <<>> => roster'[c] = NewRoster
                      /\ sent'[c] # <<>> /\ sent'[c][1].kind = "connect" => roster'[c].user # None
<1>2. NewRoster \in Store /\ NewRoster.map = <<>> /\ DOMAIN NewRoster.map = {} /\ NewRoster.user = None
  <2>1. <<>> \in [{} -> Nat] /\ <<>> \in Seq(Entry)
    OBVIOUS
  <2>2. <<>> \in Maps
    BY <2>1 DEF Maps
  <2> QED
    BY <2>1, <2>2 DEF NewRoster, Store
<1>3. ASSUME NEW c \in Client PROVE Good(c)
  <2>1. CASE sent'[c] = sent[c] /\ roster'[c] = roster[c]
    BY <2>1 DEF StoreInv, UserInv
  <2>2. CASE sent'[c] = <<>> /\ roster'[c] = NewRoster
    BY <1>2, <2>2 DEF Home
  <2>3. ASSUME NEW m \in News, GotNews(c, m) PROVE Good(c)
    <3> DEFINE r == roster[c]
               new == roster'[c]
               s == sent[c]
    <3>1. /\ r \in Store /\ Home(r) /\ \A p \in DOMAIN r.map : ~Unseen(p)
          /\ new \in Handle(r, m) /\ m \in Message /\ s \in Seq(Message)
          /\ sent'[c] = Append(s, m)
      BY <2>3 DEF StoreInv, GotNews, TypeOK, Message
    <3>2. m.kind = "connect" => ~Unseen(m.who)
      BY <2>3, NewsOf
    <3>3. /\ s = <<>> => r.user = None
          /\ s # <<>> /\ s[1].kind = "connect" => r.user # None
      BY <1>2 DEF UserInv
    <3> HIDE DEF r, new, s
    <3>4. Append(s, m) # <<>> /\ (s = <<>> => Append(s, m)[1] = m)
          /\ (s # <<>> => Append(s, m)[1] = s[1])
      BY <3>1
    <3>5. CASE r.user = None
      <4>1. /\ new \in Store /\ Home(new) /\ DOMAIN new.map = DOMAIN r.map
            /\ m.kind = "connect" => new.user # None
        BY <3>1, <3>5, HandleFirst
      <4> QED
        BY <3>1, <3>3, <3>4, <3>5, <4>1 DEF new
    <3>6. CASE r.user # None
      <4>1. new \in Store /\ Home(new) /\ new.user # None /\ Effect(r, m, new)
        BY <3>1, <3>6, HandleNews
      <4>2. \A p \in DOMAIN new.map : ~Unseen(p)
        BY <3>1, <3>2, <4>1 DEF Effect
      <4> QED
        BY <3>1, <3>4, <4>1, <4>2 DEF new
    <3> QED
      BY <3>5, <3>6
  <2>4. CASE GotList(c)
    <3> DEFINE L == list[c]
               m == [kind |-> "players", all |-> L, nr |-> 0]
               s == sent[c]
               r == roster[c]
               new == roster'[c]
    <3>1. /\ L \in SUBSET (Client \X Position) /\ IsFiniteSet(L) /\ m \in Message
          /\ s \in Seq(Message) /\ sent'[c] = Append(s, m) /\ r \in Store
      BY <2>4 DEF TypeOK, ListedInv, StoreInv, GotList, Message
    <3>2. PICK ids \in Arrangements(L) : new = HandleServerList(r, ids)
      BY <2>4 DEF GotList
    <3>3. \A q \in L : ~Unseen(q[1])
      BY DEF ListedInv
    <3>4. m.kind # "connect"
      OBVIOUS
    <3>5. s # <<>> /\ s[1].kind = "connect" => r.user # None
      BY DEF UserInv
    <3> HIDE DEF L, m, s, r, new
    <3>6. /\ new \in Store /\ Home(new) /\ new.user = r.user
          /\ \A p \in DOMAIN new.map : <<p, Where(new, p)>> \in L
      BY <3>1, <3>2, ListHome
    <3>7. \A p \in DOMAIN new.map : ~Unseen(p)
      <4> SUFFICES ASSUME NEW p \in DOMAIN new.map PROVE ~Unseen(p)
        OBVIOUS
      <4>1. <<p, Where(new, p)>>[1] = p
        OBVIOUS
      <4> QED
        BY <3>3, <3>6, <4>1
    <3>8. Append(s, m) # <<>> /\ (s = <<>> => Append(s, m)[1] = m)
          /\ (s # <<>> => Append(s, m)[1] = s[1])
      BY <3>1
    <3> QED
      BY <3>1, <3>4, <3>5, <3>6, <3>7, <3>8 DEF new
  <2> QED
    BY <2>1, <2>2, <2>3, <2>4, ReadPath
<1> HIDE DEF Good
<1>4. roster' \in [Client -> Store]
  <2>1. CASE UNCHANGED roster
    BY <2>1 DEF StoreInv
  <2>2. CASE RosterNext
    <3>1. roster' = [c \in Client |-> roster'[c]]
      BY <2>2 DEF RosterNext
    <3> QED
      BY <1>3, <3>1 DEF Good
  <2> QED
    BY <2>1, <2>2
<1>5. \A c \in Client : \A p \in DOMAIN roster'[c].map : ~Unseen(p)'
  <2> SUFFICES ASSUME NEW c \in Client, NEW p \in DOMAIN roster'[c].map PROVE ~Unseen(p)'
    OBVIOUS
  <2>1. p \in Client
    BY <1>4 DEF Store, Maps
  <2>2. ~Unseen(p)
    BY <1>3 DEF Good
  <2> QED
    BY <1>1, <2>1, <2>2, UnseenShrinks
<1>6. StoreInv'
  <2>1. \A c \in Client : Home(roster'[c])
    BY <1>3 DEF Good
  <2> QED
    BY <1>4, <1>5, <2>1 DEF StoreInv, Home, Unseen
<1>7. UserInv'
  BY <1>3 DEF Good, UserInv
<1> QED
  BY <1>6, <1>7

\* The steps after which a client has its own connect and then its list.
LEMMA CleanPath ==
  ASSUME TypeOK, CastInv, OneListInv, StoreInv, UserInv, [RosterNext]_<<vars, roster>>,
         NEW c \in Client, Clean(c)'
  PROVE  \/ Clean(c) /\ sent'[c] = sent[c] /\ roster'[c] = roster[c]
         \/ Clean(c) /\ \E m \in News : GotNews(c, m) /\ Effect(roster[c], m, roster'[c])
         \/ Begun(c) /\ GotList(c)
<1> DEFINE s == sent[c]
<1>1. s \in Seq(Message) /\ Len(s) \in Nat
  BY DEF TypeOK
<1>2. /\ Len(sent'[c]) >= 2 /\ sent'[c][1].kind = "connect" /\ sent'[c][1].who = c
      /\ sent'[c][2].kind = "players"
  BY DEF Clean
<1>3. CASE sent'[c] = sent[c] /\ roster'[c] = roster[c]
  BY <1>2, <1>3 DEF Clean
<1>4. CASE sent'[c] = <<>>
  BY <1>2, <1>4
<1>5. ASSUME NEW m \in Message, sent'[c] = Append(s, m), m.kind = "players" \/ Len(s) # 1,
             m.kind # "connect" \/ Len(s) # 0
      PROVE  \/ Len(s) >= 2 /\ Clean(c)
             \/ Len(s) = 1 /\ s[1].kind = "connect" /\ s[1].who = c
  <2>1. Len(s) # 0
    BY <1>1, <1>2, <1>5
  <2>2. CASE Len(s) = 1
    BY <1>1, <1>2, <1>5, <2>2
  <2>3. CASE Len(s) >= 2
    <3>1. Append(s, m)[1] = s[1] /\ Append(s, m)[2] = s[2]
      BY <1>1, <2>3
    <3> QED
      BY <1>2, <1>5, <2>3, <3>1 DEF Clean
  <2>4. Len(s) = 1 \/ Len(s) >= 2
    <3>1. \A n \in Nat : n = 0 \/ n = 1 \/ n >= 2
      OBVIOUS
    <3> HIDE DEF s
    <3> QED
      BY <1>1, <2>1, <3>1
  <2> QED
    BY <2>2, <2>3, <2>4
<1>6. ASSUME NEW m \in News, GotNews(c, m)
      PROVE  Clean(c) /\ Effect(roster[c], m, roster'[c])
  <2>1. /\ m \in Message /\ sent'[c] = Append(s, m) /\ m.kind # "players"
        /\ roster'[c] \in Handle(roster[c], m)
    BY <1>6 DEF GotNews, Message, News
  <2> HIDE DEF s
  <2>2. Len(s) # 1 /\ Len(s) # 0
    <3>1. ASSUME Len(s) = 1 PROVE Append(s, m)[2] = m
      <4>1. Append(s, m)[Len(s) + 1] = m
        BY <1>1, <2>1
      <4> QED
        BY <3>1, <4>1
    <3>2. ASSUME Len(s) = 0 PROVE Len(Append(s, m)) = 1
      BY <1>1, <2>1, <3>2
    <3> QED
      BY <1>2, <2>1, <3>1, <3>2
  <2>3. Clean(c)
    BY <1>5, <2>1, <2>2
  <2>4. roster[c] \in Store /\ Home(roster[c]) /\ roster[c].user # None
    <3>1. s # <<>> /\ s[1].kind = "connect"
      BY <2>2, <2>3 DEF Clean, s
    <3> QED
      BY <3>1 DEF StoreInv, UserInv, s
  <2> QED
    BY <2>1, <2>3, <2>4, HandleNews
<1>7. CASE GotList(c)
  <2> DEFINE m == [kind |-> "players", all |-> list[c], nr |-> 0]
  <2>1. m \in Message /\ sent'[c] = Append(s, m) /\ m.kind = "players" /\ m.kind # "connect"
    BY <1>7 DEF GotList, Message, TypeOK
  <2> HIDE DEF m, s
  <2>2. pc[Join(c)] = "sendList"
    BY <1>7 DEF GotList, SendList
  <2>3. ~(Len(s) >= 2 /\ Clean(c))
    BY <1>1, <2>2 DEF OneListInv, Clean, s
  <2>4. Begun(c)
    BY <1>5, <2>1, <2>2, <2>3 DEF Begun, s
  <2> QED
    BY <1>7, <2>4
<1> QED
  BY <1>3, <1>4, <1>6, <1>7, ReadPath

\* ... and those after which its list is collected.
LEMMA BegunPath ==
  ASSUME TypeOK, CastInv, NewsInv, [Next]_vars, NEW c \in Client, Begun(c)'
  PROVE  \/ /\ Collect(c) /\ list'[c] = {<<p, at[p]>> : p \in players}
            /\ UNCHANGED <<players, at>>
         \/ Begun(c) /\ list'[c] = list[c] /\ sent'[c] = sent[c]
<1>1. /\ pc'[Join(c)] = "sendList"
      /\ Len(sent'[c]) = 1 /\ sent'[c][1].kind = "connect" /\ sent'[c][1].who = c
  BY DEF Begun
<1>2. CASE Collect(c)
  BY <1>2 DEF Collect, TypeOK
<1>3. CASE ~Collect(c)
  <2>1. pc[Join(c)] = "sendList"
    BY <1>1, <1>3, JoinPath
  <2>2. ~SendList(c)
    BY <1>1, GotoType, Threads DEF SendList, Label
  <2>3. list'[c] = list[c]
    BY <1>3, <2>2, ClientFrames DEF ClientFrame
  <2>4. ASSUME NEW t \in Thread, CastTo(t, c), news[t] \in News,
               sent'[c] = Append(sent[c], news[t])
        PROVE  FALSE
    <3>1. sent[c] \in Seq(Message) /\ news[t] \in Message /\ pc[t] = "cast"
      BY <2>4 DEF TypeOK, Message, CastTo
    <3>2. sent'[c][1] = news[t]
      BY <1>1, <2>4, <3>1
    <3>3. t = Join(c)
      BY <1>1, <3>1, <3>2, WhoConnects
    <3> QED
      BY <2>1, <3>1, <3>3
  <2>5. sent'[c] = sent[c]
    BY <2>1, <2>2, <2>4, StreamPath DEF Return, Greet
  <2> QED
    BY <1>1, <2>1, <2>3, <2>5 DEF Begun
<1> QED
  BY <1>2, <1>3

LEMMA TellsAppended ==
  ASSUME NEW s \in Seq(Message), NEW m \in Message, NEW p
  PROVE  /\ KnowsLate(Append(s, m), p) => KnowsLate(s, p) \/ Names(m, p)
         /\ m.kind = "connect" /\ m.who = p => ConnectLast(Append(s, m), p)
         /\ ConnectLast(s, p) /\ ~Tells(m, p) => ConnectLast(Append(s, m), p)
<1> DEFINE t == Append(s, m)
           n == Len(s) + 1
<1>1. /\ \A i \in DOMAIN s : i \in DOMAIN t /\ t[i] = s[i]
      /\ n \in DOMAIN t /\ t[n] = m
      /\ \A i \in DOMAIN t : i = n \/ (i \in DOMAIN s /\ i < n)
  BY Appended
<1>2. \A i \in DOMAIN t : ~(i > n)
  OBVIOUS
<1> HIDE DEF t, n
<1>3. KnowsLate(t, p) => KnowsLate(s, p) \/ Names(m, p)
  BY <1>1 DEF KnowsLate
<1>4. m.kind = "connect" /\ m.who = p => ConnectLast(t, p)
  BY <1>1, <1>2 DEF ConnectLast
<1>5. ConnectLast(s, p) /\ ~Tells(m, p) => ConnectLast(t, p)
  BY <1>1 DEF ConnectLast
<1> QED
  BY <1>3, <1>4, <1>5 DEF t

LEMMA GotListMap ==
  ASSUME TypeOK, ListedInv, StoreInv, NEW c \in Client, GotList(c)
  PROVE  /\ \A p \in Client : Lists(c, p) => p \in DOMAIN roster'[c].map
         /\ \A p \in DOMAIN roster'[c].map : <<p, Where(roster'[c], p)>> \in list[c]
<1> DEFINE L == list[c]
           r == roster[c]
           new == roster'[c]
<1>1. L \in SUBSET (Client \X Position) /\ IsFiniteSet(L) /\ r \in Store
  BY DEF TypeOK, ListedInv, StoreInv
<1>2. PICK ids \in Arrangements(L) : new = HandleServerList(r, ids)
  BY DEF GotList
<1> HIDE DEF L, r, new
<1>3. /\ \A q \in L : q[1] \in DOMAIN new.map
      /\ \A p \in DOMAIN new.map : <<p, Where(new, p)>> \in L
  BY <1>1, <1>2, ListHome
<1> QED
  BY <1>3 DEF Lists, L, new

LEMMA MapStep ==
  ASSUME TypeOK, FreshInv, CastInv, NewsInv, UnseenInv, JoinerInv, LeaverInv, ListedInv,
         OneListInv, HeardInv, StoreInv, UserInv, MapInv, [RosterNext]_<<vars, roster>>
  PROVE  MapInv'
<1>1. [Next]_vars
  BY DEF RosterNext, vars
<1> SUFFICES ASSUME NEW c \in Client, NEW p \in Client, Clean(c)', p \in players',
                    p = c \/ KnowsLate(sent'[c], p)
             PROVE  p \in DOMAIN roster'[c].map
  BY DEF MapInv, KnowsLate
<1>2. CASE Clean(c) /\ sent'[c] = sent[c] /\ roster'[c] = roster[c]
  <2>1. p \in players
    <3> SUFFICES ASSUME Insert(p) PROVE FALSE
      BY <1>1, PlayersPath
    <3>1. Unseen(p) /\ sent[p] = <<>>
      BY DEF Insert, Unseen, UnseenInv
    <3>2. p # c
      BY <1>2, <3>1 DEF Clean
    <3>3. KnowsOf(sent[c], p)
      BY <1>2, <3>2 DEF KnowsLate, KnowsOf
    <3> QED
      BY <3>1, <3>3 DEF HeardInv
  <2> QED
    BY <1>2, <2>1 DEF MapInv
<1>3. ASSUME NEW m \in News, Clean(c), GotNews(c, m), Effect(roster[c], m, roster'[c])
      PROVE  p \in DOMAIN roster'[c].map
  <2>1. /\ p \in players
        /\ m.kind = "disconnect" => m.who \notin players
    BY <1>3, NewsOf
  <2>2. CASE p \in DOMAIN roster[c].map
    BY <1>3, <2>1, <2>2 DEF Effect
  <2>3. CASE p \notin DOMAIN roster[c].map
    <3>1. p # c /\ ~KnowsLate(sent[c], p)
      BY <1>3, <2>1, <2>3 DEF MapInv
    <3>2. sent[c] \in Seq(Message) /\ sent'[c] = Append(sent[c], m) /\ m \in Message
      BY <1>3 DEF TypeOK, GotNews, Message
    <3>3. Names(m, p)
      BY <3>1, <3>2, TellsAppended
    <3>4. m.kind = "connect" /\ m.who = p
      BY <3>3 DEF Names, News
    <3> QED
      BY <1>3, <3>4 DEF Effect
  <2> QED
    BY <2>2, <2>3
<1>4. CASE Begun(c) /\ GotList(c)
  <2>1. Lists(c, c)
    BY <1>4 DEF Begun, ListedInv
  <2>2. KnowsLate(sent'[c], p) => Lists(c, p)
    <3> DEFINE m == [kind |-> "players", all |-> list[c], nr |-> 0]
    <3>1. /\ sent[c] \in Seq(Message) /\ sent'[c] = Append(sent[c], m) /\ m \in Message
          /\ Names(m, p) => Lists(c, p)
      BY <1>4 DEF TypeOK, GotList, Message, Names, Lists
    <3>2. ~KnowsLate(sent[c], p)
      BY <1>4, <3>1 DEF Begun, KnowsLate
    <3> HIDE DEF m
    <3> QED
      BY <3>1, <3>2, TellsAppended
  <2> QED
    BY <1>4, <2>1, <2>2, GotListMap
<1> QED
  BY <1>2, <1>3, <1>4, CleanPath

LEMMA ShowStep ==
  ASSUME TypeOK, FreshInv, CastInv, NewsInv, UnseenInv, JoinerInv, LeaverInv, ListedInv,
         OneListInv, StoreInv, UserInv, ShowInv, [RosterNext]_<<vars, roster>>
  PROVE  ShowInv'
<1>1. [Next]_vars
  BY DEF RosterNext, vars
<1> SUFFICES ASSUME NEW c \in Client, NEW p \in Client, c \in players', state'[c] = "open",
                    p \in players', ~Moving(p)', ~Reaches(c, p)'
             PROVE  /\ Clean(c)' /\ p \in DOMAIN roster'[c].map /\ ~ConnectLast(sent'[c], p) =>
                         Where(roster'[c], p) = at'[p]
                    /\ Begun(c)' => \A q \in list'[c] : q[1] = p => q[2] = at'[p]
  BY DEF ShowInv, ConnectLast, Where
<1> DEFINE Rested == /\ c \in players /\ state[c] = "open" /\ p \in players
                     /\ ~Moving(p) /\ ~Reaches(c, p) /\ at'[p] = at[p]
           Moved == CastTo(Loop(p), c) /\ news[Loop(p)].kind = "move"
<1>2. Rested \/ Moved \/ Unseen(p) \/ sent'[c] = <<>>
  BY <1>1, RestWatched
<1> HIDE DEF Rested, Moved
<1>3. ASSUME Clean(c)', p \in DOMAIN roster'[c].map, ~ConnectLast(sent'[c], p)
      PROVE  Where(roster'[c], p) = at'[p]
  <2>1. sent'[c] # <<>>
    BY <1>3 DEF Clean
  <2>2. CASE Clean(c) /\ sent'[c] = sent[c] /\ roster'[c] = roster[c]
    <3>1. ~Unseen(p)
      BY <1>3, <2>2 DEF StoreInv
    <3>2. ~Moved
      <4> SUFFICES ASSUME Moved PROVE FALSE
        OBVIOUS
      <4>1. news[Loop(p)] \in Message /\ sent[c] \in Seq(Message) /\ CastTo(Loop(p), c)
        BY Threads, CastWrites DEF Moved
      <4>2. state'[c] = state[c]
        BY <4>1 DEF CastTo, session
      <4>3. sent'[c] = Append(sent[c], news[Loop(p)])
        BY <4>1, <4>2, Threads, CastWrites
      <4> QED
        BY <2>2, <4>1, <4>3, LastAppended
    <3>3. Rested
      BY <1>2, <2>1, <3>1, <3>2
    <3> QED
      BY <1>3, <2>2, <3>3 DEF ShowInv, Rested
  <2>3. ASSUME NEW m \in News, Clean(c), GotNews(c, m), Effect(roster[c], m, roster'[c])
        PROVE  Where(roster'[c], p) = at'[p]
    <3>1. /\ at'[p] = at[p] /\ p \in players
          /\ m.kind = "move" => m.at = at[m.who]
      BY <2>3, NewsOf
    <3>2. CASE Moves(m, p)
      BY <1>3, <2>3, <3>1, <3>2 DEF Effect, Moves
    <3>3. CASE ~Moves(m, p)
      <4>1. sent[c] \in Seq(Message) /\ sent'[c] = Append(sent[c], m) /\ m \in Message
        BY <2>3 DEF TypeOK, GotNews, Message
      <4>2. ~(m.kind = "connect" /\ m.who = p)
        BY <1>3, <4>1, TellsAppended
      <4>3. ~Tells(m, p)
        BY <3>3, <4>2 DEF Tells, Names, News
      <4>4. ~ConnectLast(sent[c], p)
        BY <1>3, <4>1, <4>3, TellsAppended
      <4>5. p \in DOMAIN roster[c].map /\ Where(roster'[c], p) = Where(roster[c], p)
        BY <1>3, <2>3, <3>3, <4>2 DEF Effect
      <4>6. ~Unseen(p)
        BY <4>5 DEF StoreInv
      <4>7. ~Moved
        <5> SUFFICES ASSUME Moved PROVE FALSE
          OBVIOUS
        <5>1. CastTo(Loop(p), c) /\ state'[c] = state[c] /\ news[Loop(p)].kind = "move"
          BY DEF Moved, CastTo, session
        <5>2. sent'[c] = Append(sent[c], news[Loop(p)]) /\ news[Loop(p)] \in Message
          BY <5>1, Threads, CastWrites
        <5>3. m = news[Loop(p)]
          <6>1. Last(sent'[c]) = m
            BY <4>1, LastAppended
          <6>2. Last(sent'[c]) = news[Loop(p)]
            BY <4>1, <5>2, LastAppended
          <6> QED
            BY <6>1, <6>2
        <5>4. news[Loop(p)].who = p
          BY <5>1 DEF CastTo, NewsInv
        <5> QED
          BY <3>3, <5>1, <5>3, <5>4 DEF Moves
      <4>8. Rested
        BY <1>2, <2>1, <4>6, <4>7
      <4> QED
        BY <2>3, <3>1, <4>4, <4>5, <4>8 DEF ShowInv, Rested
    <3> QED
      BY <3>2, <3>3
  <2>4. CASE Begun(c) /\ GotList(c)
    <3>1. <<p, Where(roster'[c], p)>> \in list[c]
      BY <1>3, <2>4, GotListMap
    <3>2. ~Unseen(p)
      <4>1. <<p, Where(roster'[c], p)>>[1] = p
        OBVIOUS
      <4> QED
        BY <3>1, <4>1 DEF ListedInv
    <3>3. ~Moved
      <4>1. pc[Join(c)] = "sendList" /\ Goto(Join(c), "idle")
        BY <2>4 DEF GotList, SendList
      <4>2. pc'[Join(c)] # pc[Join(c)]
        BY <4>1, GotoType, Threads DEF Label
      <4> QED
        BY <4>2 DEF Moved, CastTo
    <3>4. Rested
      BY <1>2, <2>1, <3>2, <3>3
    <3>5. \A q \in list[c] : q[1] = p => q[2] = at[p]
      BY <2>4, <3>4 DEF ShowInv, Rested
    <3>6. Where(roster'[c], p) = at[p]
      BY <3>1, <3>5
    <3> QED
      BY <3>4, <3>6 DEF Rested
  <2> QED
    BY <1>3, <2>2, <2>3, <2>4, CleanPath
<1>4. ASSUME Begun(c)', NEW q \in list'[c], q[1] = p PROVE q[2] = at'[p]
  <2>1. CASE list'[c] = {<<x, at[x]>> : x \in players} /\ UNCHANGED at
    BY <1>4, <2>1
  <2>2. CASE Begun(c) /\ list'[c] = list[c] /\ sent'[c] = sent[c]
    <3>1. ~Unseen(p)
      BY <1>4, <2>2 DEF ListedInv
    <3>2. sent'[c] # <<>>
      BY <2>2 DEF Begun
    <3>3. ~Moved
      <4> SUFFICES ASSUME Moved PROVE FALSE
        OBVIOUS
      <4>1. CastTo(Loop(p), c) /\ state'[c] = state[c]
        BY DEF Moved, CastTo, session
      <4>2. sent'[c] = Append(sent[c], news[Loop(p)]) /\ news[Loop(p)] \in Message
        BY <4>1, Threads, CastWrites
      <4>3. sent[c] \in Seq(Message)
        BY DEF TypeOK
      <4> QED
        BY <2>2, <4>2, <4>3, LastAppended
    <3>4. Rested
      BY <1>2, <3>1, <3>2, <3>3
    <3> QED
      BY <1>4, <2>2, <3>4 DEF ShowInv, Rested
  <2> QED
    BY <1>1, <1>4, <2>1, <2>2, BegunPath
<1> QED
  BY <1>3, <1>4

LEMMA LingerStep ==
  ASSUME TypeOK, FreshInv, CastInv, NewsInv, UnseenInv, JoinerInv, LeaverInv, ListedInv,
         OneListInv, StoreInv, UserInv, LingerInv, [RosterNext]_<<vars, roster>>
  PROVE  LingerInv'
<1>1. [Next]_vars
  BY DEF RosterNext, vars
<1> SUFFICES ASSUME NEW c \in Client, NEW p \in Client, c \in players', state'[c] = "open",
                    p \notin players', ~Leaves(c, p)'
             PROVE  /\ Clean(c)' /\ p \in DOMAIN roster'[c].map => roster'[c].map[p] = 1
                    /\ Begun(c)' => ~Lists(c, p)'
  BY DEF LingerInv
<1> DEFINE Gone == c \in players /\ state[c] = "open" /\ p \notin players /\ ~Leaves(c, p)
           Left == CastTo(Janitor, c) /\ news[Janitor].who = p
<1>2. Gone \/ Left \/ sent'[c] = <<>>
  BY <1>1, LeaverWatched
<1>3. ASSUME Left
      PROVE  /\ sent'[c] = Append(sent[c], news[Janitor]) /\ sent'[c] # sent[c]
             /\ news[Janitor] \in Message /\ news[Janitor].kind = "disconnect"
             /\ pc'[Join(c)] = pc[Join(c)]
  <2>1. /\ CastTo(Janitor, c) /\ state'[c] = state[c] /\ news[Janitor].kind = "disconnect"
        /\ pc'[Join(c)] = pc[Join(c)]
    BY <1>3 DEF CastTo, NewsInv, session
  <2>2. sent'[c] = Append(sent[c], news[Janitor]) /\ news[Janitor] \in Message /\ sent[c] \in Seq(Message)
    BY <2>1, Threads, CastWrites
  <2> QED
    BY <2>1, <2>2, LastAppended
<1> HIDE DEF Gone
<1>4. ASSUME Clean(c)', p \in DOMAIN roster'[c].map
      PROVE  roster'[c].map[p] = 1
  <2>1. sent'[c] # <<>>
    BY <1>4 DEF Clean
  <2>2. CASE Clean(c) /\ sent'[c] = sent[c] /\ roster'[c] = roster[c]
    <3>1. Gone
      BY <1>2, <1>3, <2>1, <2>2
    <3> QED
      BY <1>4, <2>2, <3>1 DEF LingerInv, Gone
  <2>3. ASSUME NEW m \in News, Clean(c), GotNews(c, m), Effect(roster[c], m, roster'[c])
        PROVE  roster'[c].map[p] = 1
    <3>1. /\ p \notin players
          /\ m.kind = "connect" => m.who \in players
      BY <2>3, NewsOf
    <3>2. p \in DOMAIN roster[c].map /\ roster'[c].map[p] = roster[c].map[p]
      BY <1>4, <2>3, <3>1 DEF Effect
    <3>3. CASE Left
      <4>1. sent[c] \in Seq(Message) /\ sent'[c] = Append(sent[c], m) /\ m \in Message
        BY <2>3 DEF TypeOK, GotNews, Message
      <4>2. m = news[Janitor]
        <5>1. Last(sent'[c]) = m
          BY <4>1, LastAppended
        <5>2. Last(sent'[c]) = news[Janitor]
          BY <1>3, <3>3, <4>1, LastAppended
        <5> QED
          BY <5>1, <5>2
      <4>3. m.kind = "disconnect" /\ m.who = p
        BY <1>3, <3>3, <4>2
      <4> QED
        BY <1>4, <2>3, <4>3 DEF Effect
    <3>4. CASE Gone
      BY <2>3, <3>2, <3>4 DEF LingerInv, Gone
    <3> QED
      BY <1>2, <2>1, <3>3, <3>4
  <2>4. CASE Begun(c) /\ GotList(c)
    <3>1. pc'[Join(c)] # pc[Join(c)]
      <4>1. pc[Join(c)] = "sendList" /\ Goto(Join(c), "idle")
        BY <2>4 DEF GotList, SendList
      <4> QED
        BY <4>1, GotoType, Threads DEF Label
    <3>2. Gone
      BY <1>2, <1>3, <2>1, <3>1
    <3>3. <<p, Where(roster'[c], p)>> \in list[c]
      BY <1>4, <2>4, GotListMap
    <3>4. Lists(c, p)
      BY <3>3 DEF Lists
    <3> QED
      BY <2>4, <3>2, <3>4 DEF LingerInv, Gone
  <2> QED
    BY <1>4, <2>2, <2>3, <2>4, CleanPath
<1>5. ASSUME Begun(c)' PROVE ~Lists(c, p)'
  <2>1. CASE list'[c] = {<<x, at[x]>> : x \in players} /\ UNCHANGED players
    BY <2>1 DEF Lists
  <2>2. CASE Begun(c) /\ list'[c] = list[c] /\ sent'[c] = sent[c]
    <3>1. sent'[c] # <<>>
      BY <2>2 DEF Begun
    <3>2. Gone
      BY <1>2, <1>3, <2>2, <3>1
    <3> QED
      BY <2>2, <3>2 DEF LingerInv, Gone, Lists
  <2> QED
    BY <1>1, <1>5, <2>1, <2>2, BegunPath
<1> QED
  BY <1>4, <1>5

-----------------------------------------------------------------------------
RosterInv ==
  /\ JoinerInv /\ LeaverInv /\ ListedInv /\ OneListInv /\ HeardInv
  /\ StoreInv /\ UserInv /\ MapInv /\ ShowInv /\ LingerInv

LEMMA RosterIsWorld == RosterSpec => Spec
<1>1. RosterInit => Init
  BY DEF RosterInit
<1>2. [RosterNext]_<<vars, roster>> => [Next]_vars
  BY DEF RosterNext, vars
<1> QED
  BY <1>1, <1>2, PTL DEF RosterSpec, Spec

LEMMA RosterStarts == RosterInit => RosterInv
<1> SUFFICES ASSUME RosterInit PROVE RosterInv
  OBVIOUS
<1> USE DEF RosterInit, Init
<1>1. JoinerInv /\ LeaverInv
  BY Threads DEF JoinerInv, LeaverInv
<1>2. ListedInv
  BY Threads, FS_EmptySet DEF ListedInv
<1>3. OneListInv /\ HeardInv
  BY DEF OneListInv, HeardInv, KnowsOf
<1>4. StoreInv
  <2>1. <<>> \in [{} -> Nat] /\ <<>> \in Seq(Entry)
    OBVIOUS
  <2>2. <<>> \in Maps
    BY <2>1 DEF Maps
  <2>3. NewRoster \in Store /\ NewRoster.map = <<>> /\ DOMAIN NewRoster.map = {}
    BY <2>1, <2>2 DEF NewRoster, Store
  <2> HIDE DEF Init
  <2>4. \A c \in Client : roster[c] = NewRoster
    BY DEF RosterInit
  <2>5. roster \in [Client -> Store]
    BY <2>3 DEF RosterInit
  <2> QED
    BY <2>3, <2>4, <2>5 DEF StoreInv, Home
<1>5. UserInv
  BY DEF UserInv
<1>6. \A c \in Client : c \notin players /\ sent[c] = <<>>
  OBVIOUS
<1>7. MapInv /\ ShowInv /\ LingerInv
  BY <1>6 DEF MapInv, ShowInv, LingerInv
<1> QED
  BY <1>1, <1>2, <1>3, <1>4, <1>5, <1>7 DEF RosterInv

LEMMA RosterInvariant == RosterSpec => [](WorldInv /\ ToldInv /\ RosterInv)
<1>1. ASSUME WorldInv, ToldInv, RosterInv, [RosterNext]_<<vars, roster>> PROVE RosterInv'
  <2>1. /\ TypeOK /\ FreshInv /\ CastInv /\ NewsInv /\ UnseenInv
        /\ JoinerInv /\ LeaverInv /\ ListedInv /\ OneListInv /\ HeardInv
        /\ StoreInv /\ UserInv /\ MapInv /\ ShowInv /\ LingerInv
    BY <1>1 DEF WorldInv, ToldInv, RosterInv
  <2>2. [Next]_vars
    BY <1>1 DEF RosterNext, vars
  <2>3. JoinerInv' /\ LeaverInv' /\ ListedInv' /\ OneListInv' /\ HeardInv'
    BY <2>1, <2>2, JoinerStep, LeaverStep, ListedStep, OneListStep, HeardStep
  <2>4. StoreInv' /\ UserInv'
    BY <1>1, <2>1, StoreStep
  <2>5. MapInv' /\ ShowInv' /\ LingerInv'
    BY <1>1, <2>1, MapStep, ShowStep, LingerStep
  <2> QED
    BY <2>3, <2>4, <2>5 DEF RosterInv
<1> QED
  BY <1>1, RosterStarts, RosterIsWorld, ToldInvariant, PTL DEF RosterSpec

\* However lists, connects, moves and disconnects interleave, a client's map leads to the
\* entry of the player it is asked for: pushing, dropping and replacing keep it beside the
\* array, so a move or a disconnect never touches somebody else's entry.
THEOREM MapLeadsHome == RosterSpec => []MapPointsHome
<1>1. RosterInv => MapPointsHome
  BY DEF RosterInv, StoreInv, Home, MapPointsHome
<1> QED
  BY <1>1, RosterInvariant, PTL

\* A client whose connect and list were not overlapped has every player that has joined in
\* its map, and has it where it is, unless it heard of the player's connect last.
THEOREM EveryoneIsShown == RosterSpec => []ShowsEveryone
<1>1. WorldInv /\ ToldInv /\ RosterInv => ShowsEveryone
  <2> SUFFICES ASSUME TypeOK, ToldInv, RosterInv, NEW c \in Client, Served(c), Clean(c),
                      NEW p \in players, p \in Client, Settled(p)
               PROVE  /\ p \in DOMAIN roster[c].map
                      /\ \A i \in DOMAIN sent[c] : LastTell(c, p, i) =>
                           sent[c][i].kind = "connect" \/ Where(roster[c], p) = at[p]
    BY DEF ShowsEveryone, WorldInv, TypeOK
  <2>0. DOMAIN sent[c] = 1..Len(sent[c]) /\ Len(sent[c]) \in Nat
    BY DEF TypeOK
  <2>1. KnowsOf(sent[c], p)
    <3>1. Knows(c, p)
      BY DEF ToldInv, KnowsInv
    <3> QED
      BY <3>1 DEF Knows, Served, Settled
  <2>2. p = c \/ KnowsLate(sent[c], p)
    <3>1. PICK i \in DOMAIN sent[c] : Names(sent[c][i], p)
      BY <2>1 DEF KnowsOf
    <3>2. CASE i = 1
      BY <3>1, <3>2 DEF Clean, Names
    <3>3. CASE i # 1
      <4> QED
        BY <2>0, <3>1, <3>3 DEF KnowsLate
    <3> QED
      BY <3>2, <3>3
  <2>3. p \in DOMAIN roster[c].map
    BY <2>2 DEF RosterInv, MapInv
  <2>4. ~Moving(p) /\ ~Reaches(c, p)
    BY DEF Settled, Moving, Reaches
  <2>5. ASSUME NEW i \in DOMAIN sent[c], LastTell(c, p, i), sent[c][i].kind # "connect"
        PROVE  Where(roster[c], p) = at[p]
    <3>1. ~ConnectLast(sent[c], p)
      <4> SUFFICES ASSUME ConnectLast(sent[c], p) PROVE FALSE
        OBVIOUS
      <4>1. PICK j \in DOMAIN sent[c] :
              /\ sent[c][j].kind = "connect" /\ sent[c][j].who = p
              /\ \A k \in DOMAIN sent[c] : k > j => ~Tells(sent[c][k], p)
        BY DEF ConnectLast
      <4>2. Tells(sent[c][j], p) /\ Tells(sent[c][i], p)
        BY <2>5, <4>1 DEF LastTell, Tells, Names
      <4>3. i \in Nat /\ j \in Nat
        BY <2>0
      <4>4. ~(j > i) /\ ~(i > j)
        BY <2>5, <4>1, <4>2 DEF LastTell
      <4>5. i = j
        BY <4>3, <4>4
      <4> QED
        BY <2>5, <4>1, <4>5
    <3> QED
      BY <2>3, <2>4, <3>1 DEF RosterInv, ShowInv, Served
  <2> QED
    BY <2>3, <2>5
<1> QED
  BY <1>1, RosterInvariant, PTL

\* Once the janitor's broadcast is over, such a client's map has nobody who left, but for
\* the player at the head of its array: "if (idx)" does not hold of index 0.
THEOREM NobodyElseLingers == RosterSpec => []OnlyFirstLingers
<1>1. WorldInv /\ RosterInv => OnlyFirstLingers
  <2> SUFFICES ASSUME RosterInv, NEW c \in Client, Served(c), Clean(c), pc[Janitor] = "idle",
                      NEW p \in DOMAIN roster[c].map, p \notin players
               PROVE  roster[c].map[p] = 1
    BY DEF OnlyFirstLingers
  <2>1. p \in Client
    BY DEF RosterInv, StoreInv, Store, Maps
  <2>2. ~Leaves(c, p)
    BY DEF Leaves
  <2> QED
    BY <2>1, <2>2 DEF RosterInv, LingerInv, Served
<1> QED
  BY <1>1, RosterInvariant, PTL

===============================================================================
