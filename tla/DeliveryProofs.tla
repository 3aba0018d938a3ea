---------------------------- MODULE DeliveryProofs ----------------------------
(***************************************************************************)
(* Theorems about Delivery, for any number of connections, packets and     *)
(* closes and any capacity of the queue: types, that a packet is in one    *)
(* place at a time and never lost, and that each packet loop keeps the     *)
(* order of a connection's packets.                                        *)
(***************************************************************************)
EXTENDS Delivery, SequenceTheorems, FiniteSetTheorems, TLAPS

-----------------------------------------------------------------------------
\* The inductive invariant

\* Readers and loops belong to connections there have been; who has no packet in hand
\* is not about to pass one on.
ActorInv ==
  /\ phase = "closed" => conn < Conns /\ closing = Nil
  /\ phase = "started" => conn \in Conn /\ loop[conn] = "off"
  /\ \A k \in Conn :
       /\ reader[k] # "off" \/ loop[k] # "off" => k <= conn
       /\ reader[k] = "push" => read[k] > 0
       /\ loop[k] \in {"lock", "handle"} <=> got[k] # None

\* The places a packet may be in.
AtReader(p) == reader[p[1]] = "push" /\ read[p[1]] = p[2]
Queued(p) == \E i \in 1..Len(queue) : queue[i] = p
Taken(p) == \E k \in Conn : got[k] = p
Done(p) == handled[p] # 0

\* A packet that was read is in a place, in one only, and once.
PlaceInv ==
  /\ \A p \in Packet :
       /\ AtReader(p) \/ Queued(p) \/ Taken(p) \/ Done(p) <=> p[2] <= read[p[1]]
       /\ AtReader(p) => ~Queued(p) /\ ~Taken(p) /\ ~Done(p)
       /\ Queued(p) => ~Taken(p) /\ ~Done(p)
       /\ Taken(p) => ~Done(p)
  /\ \A k, l \in Conn : got[k] = got[l] /\ got[k] # None => k = l

\* The queue holds a connection's packets in their order, all of them after those that
\* were taken, and a loop has handled only what came before the packet it has.
OrderInv ==
  /\ \A i, j \in 1..Len(queue) :
       i < j /\ queue[i][1] = queue[j][1] => queue[i][2] < queue[j][2]
  /\ \A p, q \in Packet :
       (Taken(p) \/ Done(p)) /\ Queued(q) /\ p[1] = q[1] => p[2] < q[2]
  /\ \A k \in Conn : \A q \in Packet :
       got[k] # None /\ handled[q] = k /\ q[1] = got[k][1] => q[2] < got[k][2]

IInv == TypeOK /\ ActorInv /\ PlaceInv /\ OrderInv

-----------------------------------------------------------------------------
\* Sequences and sets

LEMMA PacketParts ==
  ASSUME NEW p \in Packet
  PROVE  /\ p[1] \in Conn /\ p[2] \in 1..Packets /\ p = <<p[1], p[2]>> /\ p # None
BY DEF Packet, Conn, None

\* The bound on what is read bounds what is read of one connection.
LEMMA ReadBound ==
  ASSUME TypeOK, NEW k \in Conn, Cardinality(ReadSoFar) < Packets
  PROVE  read[k] < Packets
<1> SUFFICES ASSUME read[k] = Packets PROVE FALSE
  BY DeliveryAssumption DEF TypeOK
<1>1. IsFiniteSet(Conn) /\ IsFiniteSet(1..Packets) /\ Cardinality(1..Packets) = Packets
  BY DeliveryAssumption, FS_Interval DEF Conn
<1>2. IsFiniteSet(Packet)
  BY <1>1, FS_Product DEF Packet
<1>3. IsFiniteSet(ReadSoFar)
  BY <1>2, FS_Subset DEF ReadSoFar
<1>4. {k} \X (1..Packets) \in SUBSET ReadSoFar
  BY DEF ReadSoFar, Packet
<1>5. IsFiniteSet({k}) /\ Cardinality({k}) = 1
  BY FS_Singleton
<1>6. Cardinality({k} \X (1..Packets)) = 1 * Packets
  BY <1>1, <1>5, FS_Product
<1>7. Packets <= Cardinality(ReadSoFar)
  <2>1. Cardinality({k} \X (1..Packets)) <= Cardinality(ReadSoFar)
    BY <1>3, <1>4, FS_Subset
  <2> QED
    BY <1>6, <2>1, DeliveryAssumption
<1>8. Cardinality(ReadSoFar) \in Nat
  BY <1>3, FS_CardinalityType
<1> QED
  BY <1>7, <1>8, DeliveryAssumption

-----------------------------------------------------------------------------
LEMMA InitIInv == Init => IInv
<1> SUFFICES ASSUME Init PROVE IInv
  OBVIOUS
<1> USE DeliveryAssumption DEF Init
<1>1. TypeOK
  <2>1. queue \in Seq(Packet) /\ Len(queue) <= QueueCap
    BY EmptySeq
  <2>2. /\ 0 \in 0..Conns /\ 0 \in 0..Packets /\ 0 \in 0..Kicks
        /\ {} \subseteq 1..0
    OBVIOUS
  <2>3. /\ reader \in [Conn -> {"off", "start", "read", "push", "done"}]
        /\ watched \in [Conn -> 0..Conns] /\ read \in [Conn -> 0..Packets]
        /\ loop \in [Conn -> {"off", "start", "select", "wait", "lock", "handle", "done"}]
        /\ watch \in [Conn -> 0..Conns] /\ got \in [Conn -> Packet \cup {None}]
        /\ handled \in [Packet -> 0..Conns]
    BY <2>2 DEF Nil
  <2> QED
    BY <2>1, <2>2, <2>3 DEF TypeOK, Nil
<1>2. ActorInv
  BY DEF ActorInv
<1>3. \A p \in Packet : ~AtReader(p) /\ ~Queued(p) /\ ~Taken(p) /\ ~Done(p) /\ ~(p[2] <= read[p[1]])
  BY PacketParts DEF AtReader, Queued, Taken, Done
<1>4. PlaceInv
  BY <1>3 DEF PlaceInv
<1>5. OrderInv
  BY <1>3 DEF OrderInv
<1> QED
  BY <1>1, <1>2, <1>4, <1>5 DEF IInv

\* What Close does to the session's variables.
LEMMA CloseType ==
  ASSUME TypeOK, Close, conn > 0
  PROVE  /\ conn' \in 0..Conns /\ active' \in BOOLEAN /\ closing' = Nil
         /\ closed' \subseteq 1..conn /\ cancelled' \subseteq 1..conn
         /\ conn' = conn /\ queue' = queue
<1>1. conn \in 1..conn /\ ({closing} \ {Nil}) \subseteq {conn}
  BY DEF TypeOK
<1>2. closed' \subseteq 1..conn /\ cancelled' \subseteq 1..conn
  BY <1>1 DEF TypeOK, Close
<1> QED
  BY <1>2 DEF TypeOK, Close

LEMMA TypeStep ==
  ASSUME IInv, [Next]_vars
  PROVE  TypeOK' /\ ActorInv'
<1> USE DeliveryAssumption DEF IInv
<1>1. CASE Login
  <2>1. CASE conn = 0
    <3>1. closing = Nil
      BY <2>1 DEF TypeOK, Nil
    <3> QED
      BY <1>1, <2>1, <3>1 DEF Login, TypeOK, ActorInv, session, readers, loops, Nil
  <2>2. CASE conn # 0
    <3>1. Close /\ conn > 0
      BY <1>1, <2>2 DEF Login, TypeOK
    <3> QED
      BY <1>1, <3>1, CloseType DEF Login, TypeOK, ActorInv, readers, loops
  <2> QED
    BY <2>1, <2>2
<1>2. CASE Start
  <2>1. conn' = conn + 1 /\ conn' \in Conn
    BY <1>2 DEF Start, TypeOK, ActorInv, Conn
  <2>2. 1..conn \subseteq 1..conn'
    BY <2>1 DEF TypeOK
  <2>3. closed' \subseteq 1..conn' /\ lost' \subseteq 1..conn' /\ cancelled' \subseteq 1..conn'
    BY <1>2, <2>2 DEF Start, TypeOK
  <2>4. TypeOK'
    <3>1. conn' \in 0..Conns
      BY <2>1 DEF Conn
    <3> QED
      BY <1>2, <2>1, <2>3, <3>1 DEF Start, TypeOK, ReaderAt, loops
  <2>5. ActorInv'
    BY <1>2, <2>1 DEF Start, TypeOK, ActorInv, ReaderAt, loops, Conn
  <2> QED
    BY <2>4, <2>5
<1>3. CASE Serve
  <2>1. conn \in Conn
    BY <1>3 DEF Serve, TypeOK, ActorInv, Conn
  <2>2. TypeOK'
    BY <1>3, <2>1 DEF Serve, TypeOK, LoopAt, session, readers
  <2>3. ActorInv'
    <3>1. ASSUME NEW k \in Conn
          PROVE  /\ loop'[k] = IF k = conn THEN "start" ELSE loop[k]
                 /\ reader'[k] = reader[k] /\ read'[k] = read[k] /\ got'[k] = got[k]
      BY <1>3 DEF Serve, LoopAt, readers, TypeOK
    <3>2. got[conn] = None
      BY <1>3 DEF Serve, ActorInv
    <3>3. conn \in 0..Conns
      BY DEF TypeOK
    <3> QED
      BY <1>3, <2>1, <3>1, <3>2, <3>3 DEF Serve, ActorInv, session
  <2> QED
    BY <2>2, <2>3
<1>4. ASSUME NEW k \in Conn, Lose(k) PROVE TypeOK' /\ ActorInv'
  <2>1. lost' \subseteq 1..conn
    BY <1>4 DEF Lose, TypeOK, Conn
  <2>2. TypeOK'
    BY <1>4, <2>1 DEF Lose, TypeOK, session, readers, loops
  <2>3. ActorInv'
    BY <1>4 DEF Lose, ActorInv, session, readers, loops
  <2> QED
    BY <2>2, <2>3
<1>5. ASSUME NEW k \in Conn, Read(k) PROVE TypeOK' /\ ActorInv'
  <2>1. read[k] < Packets
    BY <1>5, ReadBound DEF Read
  <2> QED
    BY <1>5, <2>1, SMTT(30) DEF Read, TypeOK, ActorInv, ReaderAt, session, loops, Nil
<1>6. ASSUME NEW k \in Conn, ReaderStart(k) PROVE TypeOK' /\ ActorInv'
  <2>1. closing \in 0..Conns
    BY DEF TypeOK, Nil
  <2>2. TypeOK'
    BY <1>6, <2>1 DEF ReaderStart, LookAtClosing, TypeOK, ReaderAt, session, loops
  <2>3. ActorInv'
    BY <1>6 DEF ReaderStart, LookAtClosing, TypeOK, ActorInv, ReaderAt, session, loops
  <2> QED
    BY <2>2, <2>3
<1>7. ASSUME NEW k \in Conn, ReadFails(k) PROVE TypeOK' /\ ActorInv'
  <2>1. conn > 0
    BY <1>7 DEF ReadFails, ActorInv, Conn, TypeOK
  <2>2. /\ conn' = conn /\ active' \in BOOLEAN /\ closing' \in {Nil, conn} /\ queue' = queue
        /\ closing' \in {Nil, closing}
        /\ closed' \subseteq 1..conn /\ cancelled' \subseteq 1..conn
    BY <1>7, <2>1, CloseType DEF ReadFails, session, TypeOK
  <2> QED
    BY <1>7, <2>2 DEF ReadFails, TypeOK, ActorInv, ReaderAt, loops
<1>8. ASSUME NEW k \in Conn, Push(k) PROVE TypeOK' /\ ActorInv'
  <2>1. <<k, read[k]>> \in Packet
    BY <1>8 DEF Push, ActorInv, TypeOK, Packet
  <2>2. queue' \in Seq(Packet) /\ Len(queue') <= QueueCap
    BY <1>8, <2>1, AppendProperties DEF Push, TypeOK
  <2> QED
    BY <1>8, <2>2 DEF Push, LookAtClosing, TypeOK, ActorInv, ReaderAt, session, loops
<1>9. ASSUME NEW k \in Conn, LoopStart(k) PROVE TypeOK' /\ ActorInv'
  BY <1>9 DEF LoopStart, TypeOK, ActorInv, LoopAt, session, readers
<1>10. ASSUME NEW k \in Conn, Select(k) PROVE TypeOK' /\ ActorInv'
  BY <1>10, SMTT(30) DEF Select, TypeOK, ActorInv, LoopAt, session, readers, Nil
<1>11. ASSUME NEW k \in Conn, SeeClosing(k) PROVE TypeOK' /\ ActorInv'
  BY <1>11, SMTT(30) DEF SeeClosing, TypeOK, ActorInv, LoopAt, session, readers, Nil
<1>12. ASSUME NEW k \in Conn, Take(k) PROVE TypeOK' /\ ActorInv'
  <2>1. /\ Head(queue) \in Packet /\ Tail(queue) \in Seq(Packet)
        /\ Len(Tail(queue)) = Len(queue) - 1 /\ Len(queue) \in Nat
    BY <1>12, HeadTailProperties, LenProperties DEF Take, TypeOK
  <2>2. Head(queue) # None
    BY <2>1, PacketParts
  <2> QED
    BY <1>12, <2>1, <2>2, SMTT(30) DEF Take, TypeOK, ActorInv, LoopAt, session, readers, Nil
<1>13. ASSUME NEW k \in Conn, Lock(k) PROVE TypeOK' /\ ActorInv'
  <2>1. TypeOK'
    <3>1. k \in 0..Conns
      BY DEF Conn
    <3> QED
      BY <1>13, <3>1 DEF Lock, TypeOK, LoopAt, session, readers
  <2>2. ActorInv'
    BY <1>13 DEF Lock, TypeOK, ActorInv, LoopAt, session, readers
  <2> QED
    BY <2>1, <2>2
<1>14. ASSUME NEW k \in Conn, Handle(k) PROVE TypeOK' /\ ActorInv'
  <2>1. conn > 0
    BY <1>14 DEF Handle, ActorInv, Conn, TypeOK
  <2>2. /\ conn' = conn /\ active' \in BOOLEAN /\ closing' \in {Nil, conn} /\ queue' = queue
        /\ closing' \in {Nil, closing}
        /\ closed' \subseteq 1..conn /\ cancelled' \subseteq 1..conn
    BY <1>14, <2>1, CloseType DEF Handle, session, TypeOK
  <2>3. got[k] \in Packet /\ kicks' \in 0..Kicks
    BY <1>14 DEF Handle, ActorInv, TypeOK
  <2>4. handled' \in [Packet -> 0..Conns]
    <3>1. k \in 0..Conns
      BY DEF Conn
    <3> QED
      BY <1>14, <3>1 DEF Handle, TypeOK
  <2>5. TypeOK'
    BY <1>14, <2>2, <2>3, <2>4, SMTT(30) DEF Handle, Handled, TypeOK, LoopAt, readers
  <2>6. ActorInv'
    BY <1>14, <2>2 DEF Handle, TypeOK, ActorInv, LoopAt, readers
  <2> QED
    BY <2>5, <2>6
<1>15. CASE UNCHANGED vars
  BY <1>15 DEF vars, TypeOK, ActorInv, session, readers, loops
<1>16. CASE StartFails
  <2>1. conn' = conn + 1 /\ conn' \in Conn /\ closing' = Nil
    BY <1>16 DEF StartFails, TypeOK, ActorInv, Conn
  <2>2. 1..conn \subseteq 1..conn' /\ {conn'} \subseteq 1..conn'
    BY <2>1 DEF TypeOK, Conn
  <2>3. closed' \subseteq 1..conn' /\ lost' \subseteq 1..conn' /\ cancelled' \subseteq 1..conn'
    BY <1>16, <2>2 DEF StartFails, TypeOK
  <2>4. TypeOK'
    <3>1. conn' \in 0..Conns
      BY <2>1 DEF Conn
    <3> QED
      BY <1>16, <2>1, <2>3, <3>1 DEF StartFails, TypeOK, readers, loops
  <2>5. ActorInv'
    BY <1>16, <2>1 DEF StartFails, TypeOK, ActorInv, readers, loops, Conn
  <2> QED
    BY <2>4, <2>5
<1>17. CASE ConnectPanics
  <2>1. TypeOK'
    BY <1>17 DEF ConnectPanics, TypeOK, session, readers, loops
  <2>2. ActorInv'
    BY <1>17 DEF ConnectPanics, ActorInv, session, readers, loops
  <2> QED
    BY <2>1, <2>2
<1> QED
  BY <1>1, <1>2, <1>3, <1>4, <1>5, <1>6, <1>7, <1>8, <1>9, <1>10, <1>11, <1>12, <1>13, <1>14,
     <1>15, <1>16, <1>17 DEF Next, Handshake, ReaderStep, LoopStep

-----------------------------------------------------------------------------
\* Where packets are

\* A step that leaves the queue, the loops' hands and what was read and handled alone.
LEMMA PlaceQuiet ==
  ASSUME PlaceInv, OrderInv, UNCHANGED <<queue, got, handled, read>>,
         \A k \in Conn : reader'[k] = "push" <=> reader[k] = "push"
  PROVE  PlaceInv' /\ OrderInv'
<1>1. \A p \in Packet : /\ AtReader(p)' <=> AtReader(p)
                        /\ Queued(p)' <=> Queued(p)
                        /\ Taken(p)' <=> Taken(p)
                        /\ Done(p)' <=> Done(p)
  BY PacketParts DEF AtReader, Queued, Taken, Done
<1>2. PlaceInv'
  BY <1>1 DEF PlaceInv
<1>3. OrderInv'
  BY <1>1 DEF OrderInv
<1> QED
  BY <1>2, <1>3

\* A packet that is read is with its reader, and nowhere else.
LEMMA ReadStep ==
  ASSUME IInv, NEW k \in Conn, Read(k)
  PROVE  PlaceInv' /\ OrderInv'
<1> DEFINE new == <<k, read[k] + 1>>
<1>1. /\ read[k] \in 0..Packets /\ read' = [read EXCEPT ![k] = @ + 1]
      /\ reader[k] = "read" /\ reader' = [reader EXCEPT ![k] = "push"]
      /\ queue' = queue /\ got' = got /\ handled' = handled
  BY DEF Read, ReaderAt, IInv, TypeOK, session, loops
<1>2. ASSUME NEW p \in Packet
      PROVE  /\ Queued(p)' <=> Queued(p)
             /\ Taken(p)' <=> Taken(p)
             /\ Done(p)' <=> Done(p)
             /\ AtReader(p)' <=> AtReader(p) \/ p = new
             /\ p = new => ~(p[2] <= read[p[1]])
             /\ p[2] <= read'[p[1]] <=> p[2] <= read[p[1]] \/ p = new
             /\ p[1] = k => ~AtReader(p)
  <2>1. p[1] \in Conn /\ p[2] \in 1..Packets /\ p = <<p[1], p[2]>>
    BY PacketParts
  <2>2. Queued(p)' <=> Queued(p)
    BY <1>1 DEF Queued
  <2>3. Taken(p)' <=> Taken(p)
    BY <1>1 DEF Taken
  <2>4. Done(p)' <=> Done(p)
    BY <1>1 DEF Done
  <2>5. read'[p[1]] = IF p[1] = k THEN read[k] + 1 ELSE read[p[1]]
    BY <1>1, <2>1 DEF IInv, TypeOK
  <2>6. reader'[p[1]] = IF p[1] = k THEN "push" ELSE reader[p[1]]
    BY <1>1, <2>1 DEF IInv, TypeOK
  <2>7. p = new <=> p[1] = k /\ p[2] = read[k] + 1
    BY <2>1
  <2>8. p[1] = k => ~AtReader(p)
    BY <1>1 DEF AtReader
  <2>9. AtReader(p)' <=> AtReader(p) \/ p = new
    BY <1>1, <2>1, <2>5, <2>6, <2>7, <2>8 DEF AtReader
  <2>10. read[p[1]] \in Nat
    BY <2>1 DEF IInv, TypeOK
  <2> QED
    BY <1>1, <2>1, <2>2, <2>3, <2>4, <2>5, <2>7, <2>8, <2>9, <2>10
<1>3. PlaceInv'
  BY <1>1, <1>2 DEF IInv, PlaceInv
<1>4. OrderInv'
  BY <1>1, <1>2 DEF IInv, OrderInv
<1> QED
  BY <1>3, <1>4

\* A packet that is queued comes behind all others of its connection.
LEMMA PushStep ==
  ASSUME IInv, NEW k \in Conn, Push(k)
  PROVE  PlaceInv' /\ OrderInv'
<1> DEFINE new == <<k, read[k]>>
<1>1. /\ reader[k] = "push" /\ reader'[k] # "push"
      /\ \A l \in Conn : l # k => reader'[l] = reader[l]
      /\ queue' = Append(queue, new) /\ got' = got /\ handled' = handled /\ read' = read
  BY DEF Push, LookAtClosing, ReaderAt, IInv, TypeOK, session, loops
<1>2. new \in Packet /\ new[1] = k /\ new[2] = read[k] /\ AtReader(new)
  BY <1>1 DEF IInv, TypeOK, ActorInv, Packet, AtReader
<1>3. /\ queue \in Seq(Packet) /\ Len(queue) \in Nat /\ Len(queue') = Len(queue) + 1
      /\ \A i \in 1..Len(queue) : queue'[i] = queue[i] /\ queue[i] \in Packet
      /\ queue'[Len(queue) + 1] = new
  BY <1>1, <1>2, AppendProperties, LenProperties, ElementOfSeq DEF IInv, TypeOK
<1>4. ASSUME NEW p \in Packet
      PROVE  /\ Queued(p)' <=> Queued(p) \/ p = new
             /\ Taken(p)' <=> Taken(p)
             /\ Done(p)' <=> Done(p)
             /\ AtReader(p)' <=> AtReader(p) /\ p # new
             /\ read'[p[1]] = read[p[1]]
  <2>1. p[1] \in Conn /\ p[2] \in 1..Packets /\ p = <<p[1], p[2]>>
    BY PacketParts
  <2>2. Queued(p)' <=> Queued(p) \/ p = new
    <3>1. 1..Len(queue') = 1..Len(queue) \cup {Len(queue) + 1}
      BY <1>3
    <3> QED
      BY <1>3, <3>1 DEF Queued
  <2>3. AtReader(p)' <=> AtReader(p) /\ p # new
    BY <1>1, <2>1 DEF AtReader
  <2> QED
    BY <1>1, <2>2, <2>3 DEF Taken, Done
<1>5. ASSUME NEW p \in Packet, p[1] = k, Queued(p) \/ Taken(p) \/ Done(p)
      PROVE  p[2] < read[k]
  <2>1. p[2] <= read[k] /\ p # new
    BY <1>2, <1>5 DEF IInv, PlaceInv
  <2> QED
    BY <1>2, <1>5, <2>1, PacketParts DEF IInv, TypeOK
<1>6. PlaceInv'
  BY <1>1, <1>2, <1>4 DEF IInv, PlaceInv
<1>7. OrderInv'
  <2>1. ASSUME NEW i \in 1..Len(queue'), NEW j \in 1..Len(queue'), i < j,
               queue'[i][1] = queue'[j][1]
        PROVE  queue'[i][2] < queue'[j][2]
    <3>1. CASE j \in 1..Len(queue)
      BY <1>3, <2>1, <3>1 DEF IInv, OrderInv
    <3>2. CASE j = Len(queue) + 1
      <4>1. i \in 1..Len(queue) /\ queue'[i] = queue[i] /\ queue[i] \in Packet /\ Queued(queue[i])
        BY <1>3, <2>1, <3>2 DEF Queued
      <4>2. queue'[j] = new
        BY <1>3, <3>2
      <4> QED
        BY <1>2, <1>5, <2>1, <4>1, <4>2
    <3> QED
      BY <1>3, <3>1, <3>2
  <2>2. ASSUME NEW p \in Packet, NEW q \in Packet, (Taken(p) \/ Done(p))', Queued(q)', p[1] = q[1]
        PROVE  p[2] < q[2]
    <3>1. Taken(p) \/ Done(p)
      BY <1>4, <2>2
    <3>2. CASE Queued(q)
      BY <2>2, <3>1, <3>2 DEF IInv, OrderInv
    <3>3. CASE q = new
      BY <1>2, <1>5, <2>2, <3>1, <3>3
    <3> QED
      BY <1>4, <2>2, <3>2, <3>3
  <2> QED
    BY <1>1, <2>1, <2>2 DEF IInv, OrderInv
<1> QED
  BY <1>6, <1>7

\* The head of the queue goes to a loop.
LEMMA TakeStep ==
  ASSUME IInv, NEW k \in Conn, Take(k)
  PROVE  PlaceInv' /\ OrderInv'
<1> DEFINE new == Head(queue)
<1>1. /\ loop[k] = "wait" /\ queue # <<>>
      /\ got' = [got EXCEPT ![k] = new] /\ queue' = Tail(queue)
      /\ reader' = reader /\ read' = read /\ handled' = handled
  BY DEF Take, readers
<1>2. /\ queue \in Seq(Packet) /\ Len(queue) \in Nat \ {0} /\ new \in Packet /\ new = queue[1]
      /\ Len(queue') = Len(queue) - 1
      /\ \A i \in 1..Len(queue') : queue'[i] = queue[i + 1]
      /\ \A i \in 1..Len(queue) : queue[i] \in Packet
  BY <1>1, HeadTailProperties, LenProperties, EmptySeq, ElementOfSeq DEF IInv, TypeOK
<1>3. got[k] = None /\ new # None
  BY <1>1, <1>2, PacketParts DEF IInv, ActorInv
<1>4. \A l \in Conn : got'[l] = IF l = k THEN new ELSE got[l]
  BY <1>1 DEF IInv, TypeOK
<1>5. Queued(new)
  BY <1>2 DEF Queued
<1>6. \A i \in 2..Len(queue) : queue[i] # new
  <2>1. \A i \in 2..Len(queue) : queue[1][1] = queue[i][1] => queue[1][2] < queue[i][2]
    BY <1>2 DEF IInv, OrderInv
  <2>2. new[2] \in Nat
    BY <1>2, PacketParts
  <2> QED
    BY <1>2, <2>1, <2>2
<1>7. ASSUME NEW p \in Packet
      PROVE  /\ Queued(p)' <=> Queued(p) /\ p # new
             /\ Taken(p)' <=> Taken(p) \/ p = new
             /\ Done(p)' <=> Done(p)
             /\ AtReader(p)' <=> AtReader(p)
             /\ read'[p[1]] = read[p[1]]
  <2>1. Queued(p)' => Queued(p) /\ p # new
    BY <1>2, <1>6 DEF Queued
  <2>2. Queued(p) /\ p # new => Queued(p)'
    <3> SUFFICES ASSUME NEW i \in 1..Len(queue), queue[i] = p, p # new
                 PROVE  Queued(p)'
      BY DEF Queued
    <3>1. i - 1 \in 1..Len(queue') /\ queue'[i - 1] = p
      BY <1>2
    <3> QED
      BY <3>1 DEF Queued
  <2>3. Taken(p)' <=> Taken(p) \/ p = new
    BY <1>3, <1>4, PacketParts DEF Taken
  <2> QED
    BY <1>1, <2>1, <2>2, <2>3 DEF Done, AtReader
<1>8. PlaceInv'
  <2>1. ~Taken(new) /\ ~Done(new) /\ ~AtReader(new)
    BY <1>2, <1>5 DEF IInv, PlaceInv
  <2>2. \A l \in Conn : got[l] # new
    BY <2>1 DEF Taken
  <2>3. \A l, m \in Conn : got'[l] = got'[m] /\ got'[l] # None => l = m
    BY <1>4, <2>2 DEF IInv, PlaceInv
  <2> QED
    BY <1>2, <1>5, <1>7, <2>1, <2>3 DEF IInv, PlaceInv
<1>9. OrderInv'
  <2>1. ASSUME NEW i \in 1..Len(queue'), NEW j \in 1..Len(queue'), i < j,
               queue'[i][1] = queue'[j][1]
        PROVE  queue'[i][2] < queue'[j][2]
    <3>1. /\ i + 1 \in 1..Len(queue) /\ j + 1 \in 1..Len(queue) /\ i + 1 < j + 1
          /\ queue'[i] = queue[i + 1] /\ queue'[j] = queue[j + 1]
      BY <1>2, <2>1
    <3> QED
      BY <2>1, <3>1 DEF IInv, OrderInv
  <2>2. ASSUME NEW p \in Packet, NEW q \in Packet, (Taken(p) \/ Done(p))', Queued(q)', p[1] = q[1]
        PROVE  p[2] < q[2]
    <3>1. Queued(q) /\ q # new
      BY <1>7, <2>2
    <3>2. CASE Taken(p) \/ Done(p)
      BY <2>2, <3>1, <3>2 DEF IInv, OrderInv
    <3>3. CASE p = new
      <4>1. PICK i \in 1..Len(queue) : queue[i] = q
        BY <3>1 DEF Queued
      <4>2. 1 < i /\ 1 \in 1..Len(queue)
        BY <1>2, <3>1, <4>1
      <4> QED
        BY <1>2, <2>2, <3>3, <4>1, <4>2 DEF IInv, OrderInv
    <3> QED
      BY <1>7, <2>2, <3>2, <3>3
  <2>3. ASSUME NEW l \in Conn, NEW q \in Packet, got'[l] # None, handled'[q] = l,
               q[1] = got'[l][1]
        PROVE  q[2] < got'[l][2]
    <3>1. CASE l = k
      <4>1. got'[l] = new /\ Done(q)
        BY <1>1, <1>4, <2>3, <3>1 DEF Done, Conn
      <4> QED
        BY <1>2, <1>5, <2>3, <4>1 DEF IInv, OrderInv
    <3>2. CASE l # k
      BY <1>1, <1>4, <2>3, <3>2 DEF IInv, OrderInv
    <3> QED
      BY <3>1, <3>2
  <2> QED
    BY <2>1, <2>2, <2>3 DEF OrderInv
<1> QED
  BY <1>8, <1>9

\* A loop has handled the packet it had.
LEMMA HandleStep ==
  ASSUME IInv, NEW k \in Conn, Handle(k)
  PROVE  PlaceInv' /\ OrderInv'
<1> DEFINE old == got[k]
<1>1. /\ loop[k] = "handle"
      /\ got' = [got EXCEPT ![k] = None] /\ handled' = [handled EXCEPT ![old] = k]
      /\ reader' = reader /\ read' = read /\ queue' = queue
  BY DEF Handle, readers, Close
<1>2. old \in Packet /\ old # None /\ Taken(old)
  BY <1>1 DEF IInv, ActorInv, TypeOK, Taken
<1>3. \A l \in Conn : got'[l] = IF l = k THEN None ELSE got[l]
  BY <1>1 DEF IInv, TypeOK
<1>4. \A q \in Packet : handled'[q] = IF q = old THEN k ELSE handled[q]
  BY <1>1, <1>2 DEF IInv, TypeOK
<1>5. k # 0
  BY DEF Conn
<1>6. ASSUME NEW p \in Packet
      PROVE  /\ Queued(p)' <=> Queued(p)
             /\ Taken(p)' <=> Taken(p) /\ p # old
             /\ Done(p)' <=> Done(p) \/ p = old
             /\ AtReader(p)' <=> AtReader(p)
             /\ read'[p[1]] = read[p[1]]
  <2>1. Taken(p)' <=> Taken(p) /\ p # old
    BY <1>2, <1>3, PacketParts DEF Taken, IInv, PlaceInv
  <2>2. Done(p)' <=> Done(p) \/ p = old
    BY <1>4, <1>5 DEF Done
  <2> QED
    BY <1>1, <2>1, <2>2 DEF Queued, AtReader
<1>7. PlaceInv'
  <2>1. \A l, m \in Conn : got'[l] = got'[m] /\ got'[l] # None => l = m
    BY <1>3 DEF IInv, PlaceInv
  <2> QED
    BY <1>2, <1>6, <2>1 DEF IInv, PlaceInv
<1>8. OrderInv'
  <2>1. ASSUME NEW p \in Packet, NEW q \in Packet, (Taken(p) \/ Done(p))', Queued(q)', p[1] = q[1]
        PROVE  p[2] < q[2]
    BY <1>2, <1>6, <2>1 DEF IInv, OrderInv
  <2>2. ASSUME NEW l \in Conn, NEW q \in Packet, got'[l] # None, handled'[q] = l,
               q[1] = got'[l][1]
        PROVE  q[2] < got'[l][2]
    <3>1. l # k /\ got'[l] = got[l] /\ handled'[q] = handled[q]
      BY <1>3, <1>4, <2>2
    <3> QED
      BY <2>2, <3>1 DEF IInv, OrderInv
  <2> QED
    BY <1>1, <2>1, <2>2 DEF IInv, OrderInv
<1> QED
  BY <1>7, <1>8

LEMMA PlaceStep ==
  ASSUME IInv, [Next]_vars
  PROVE  PlaceInv' /\ OrderInv'
<1>1. ASSUME NEW k \in Conn, ReaderStart(k) \/ ReadFails(k)
      PROVE  PlaceInv' /\ OrderInv'
  <2>1. UNCHANGED <<queue, got, handled, read>>
    BY <1>1 DEF ReaderStart, ReadFails, session, loops, Close
  <2>2. \A l \in Conn : reader'[l] = "push" <=> reader[l] = "push"
    BY <1>1 DEF ReaderStart, ReadFails, LookAtClosing, ReaderAt, IInv, TypeOK
  <2> QED
    BY <2>1, <2>2, PlaceQuiet DEF IInv
<1>2. CASE Start
  <2>1. \A l \in Conn : reader'[l] = "push" <=> reader[l] = "push"
    <3>1. conn' = conn + 1 /\ conn \in Nat
      BY <1>2 DEF Start, IInv, TypeOK
    <3>2. conn' \in Conn /\ ~(conn' <= conn)
      BY <1>2, <3>1, DeliveryAssumption DEF Start, IInv, ActorInv, TypeOK, Conn
    <3>3. reader[conn'] # "push"
      BY <3>2 DEF IInv, ActorInv
    <3> QED
      BY <1>2, <3>3 DEF Start, ReaderAt, IInv, TypeOK
  <2> QED
    BY <1>2, <2>1, PlaceQuiet DEF Start, IInv, loops
<1>3. CASE Login \/ Serve \/ StartFails \/ ConnectPanics
  BY <1>3, PlaceQuiet DEF Login, Serve, StartFails, ConnectPanics, IInv, Close, session, readers, loops
<1>4. ASSUME NEW k \in Conn, Lose(k) \/ LoopStart(k) \/ Select(k) \/ SeeClosing(k) \/ Lock(k)
      PROVE  PlaceInv' /\ OrderInv'
  BY <1>4, PlaceQuiet DEF Lose, LoopStart, Select, SeeClosing, Lock, IInv, session, readers, loops
<1>5. CASE UNCHANGED vars
  BY <1>5, PlaceQuiet DEF vars, IInv, session, readers, loops
<1> QED
  BY <1>1, <1>2, <1>3, <1>4, <1>5, ReadStep, PushStep, TakeStep, HandleStep
     DEF Next, Handshake, ReaderStep, LoopStep

\* The inductive invariant holds of every reachable state.
LEMMA Invariance == Spec => []IInv
<1>1. IInv /\ [Next]_vars => IInv'
  BY TypeStep, PlaceStep DEF IInv
<1> QED
  BY InitIInv, <1>1, PTL DEF Spec

-----------------------------------------------------------------------------
\* Every variable of the session's queue, readers and loops keeps its type.
THEOREM DeliveryTypeCorrect == Spec => []TypeOK
<1>1. IInv => TypeOK
  BY DEF IInv
<1> QED
  BY Invariance, <1>1, PTL

\* A packet that was read is with its reader, in the queue, with a loop or handled, and
\* in one of these places, whatever closes and reconnects meanwhile (packet.go:234-272,
\* session.go:309-328).
THEOREM PacketsKept == Spec => []NothingLost
<1>1. IInv => NothingLost
  <2> SUFFICES ASSUME IInv, NEW p \in Packet PROVE NothingLost!(p)
    BY DEF NothingLost
  <2>1. p[2] \in Nat /\ read[p[1]] \in Nat
    BY PacketParts DEF IInv, TypeOK
  <2>2. Cardinality({i \in DOMAIN queue : queue[i] = p}) = IF Queued(p) THEN 1 ELSE 0
    <3> DEFINE S == {i \in DOMAIN queue : queue[i] = p}
    <3>1. DOMAIN queue = 1..Len(queue) /\ Len(queue) \in Nat
      BY LenProperties DEF IInv, TypeOK
    <3>2. \A i, j \in S : i = j
      <4> SUFFICES ASSUME NEW i \in S, NEW j \in S, i < j PROVE FALSE
        BY <3>1
      <4> QED
        BY <3>1, PacketParts DEF IInv, OrderInv
    <3>3. CASE Queued(p)
      <4>1. PICK i \in S : S = {i}
        BY <3>1, <3>2, <3>3 DEF Queued
      <4> QED
        BY <3>3, <4>1, FS_Singleton
    <3>4. CASE ~Queued(p)
      <4>1. S = {}
        BY <3>1, <3>4 DEF Queued
      <4> QED
        BY <3>4, <4>1, FS_EmptySet
    <3> QED
      BY <3>3, <3>4
  <2>3. Cardinality({k \in Conn : got[k] = p}) = IF Taken(p) THEN 1 ELSE 0
    <3> DEFINE S == {k \in Conn : got[k] = p}
    <3>1. \A k, l \in S : k = l
      BY PacketParts DEF IInv, PlaceInv
    <3>2. CASE Taken(p)
      <4>1. PICK k \in S : S = {k}
        BY <3>1, <3>2 DEF Taken
      <4> QED
        BY <3>2, <4>1, FS_Singleton
    <3>3. CASE ~Taken(p)
      <4>1. S = {}
        BY <3>3 DEF Taken
      <4> QED
        BY <3>3, <4>1, FS_EmptySet
    <3> QED
      BY <3>2, <3>3
  <2>4. p \in ReadSoFar <=> p[2] <= read[p[1]]
    BY DEF ReadSoFar
  <2> QED
    BY <2>1, <2>2, <2>3, <2>4 DEF IInv, PlaceInv, AtReader, Done
<1> QED
  BY Invariance, <1>1, PTL

\* One loop handles a connection's packets in the order they were sent (session.go:309-328).
THEOREM LoopsKeepOrder == Spec => InOrder
<1> DEFINE Ordered ==
      \A p, q \in Packet :
        handled'[p] # handled[p] /\ q[1] = p[1] /\ q[2] >= p[2] => handled[q] # handled'[p]
<1>1. IInv /\ [Next]_vars => [Ordered]_vars
  <2> SUFFICES ASSUME IInv, Next, NEW p \in Packet, NEW q \in Packet,
                      handled'[p] # handled[p], q[1] = p[1], q[2] >= p[2]
               PROVE  handled[q] # handled'[p]
    OBVIOUS
  <2>1. PICK k \in Conn : Handle(k)
    BY DEF Next, Handshake, ReaderStep, LoopStep, Login, Start, StartFails, Serve, ConnectPanics,
           Lose, Read, ReaderStart, ReadFails, Push, LoopStart, Select, SeeClosing, Take, Lock,
           loops
  <2>2. got[k] \in Packet /\ got[k] # None
    BY <2>1 DEF Handle, IInv, ActorInv, TypeOK
  <2>3. p = got[k] /\ handled'[p] = k
    BY <2>1, <2>2 DEF Handle, IInv, TypeOK
  <2>4. q[2] \in Nat /\ p[2] \in Nat
    BY PacketParts
  <2> QED
    BY <2>2, <2>3, <2>4 DEF IInv, OrderInv
<1> QED
  BY Invariance, <1>1, PTL DEF Spec, InOrder

===============================================================================
