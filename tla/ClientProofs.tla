----------------------------- MODULE ClientProofs ------------------------------
(***************************************************************************)
(* Theorems about Client, for any number of packets and any queue: types,  *)
(* that its queue keeps to its capacity, and where the process can panic.  *)
(***************************************************************************)
EXTENDS Client, SequenceTheorems, TLAPS

-----------------------------------------------------------------------------
\* The inductive invariant

\* Types of every variable; the queue is within its capacity.
TypeOK ==
  /\ process \in {"up", "stopped", "fatal", "write", "close"}
  /\ main \in {"waits", "ranges", "closes", "returns"}
  /\ dial \in {"off", "failed", "connected", "appended"}
  /\ listed \in BOOLEAN /\ over \in BOOLEAN
  /\ stream \in BOOLEAN /\ closing \in BOOLEAN
  /\ reader \in Opcode \cup {"off", "accept", "read", "end", "look", "close", "done"}
  /\ loop \in Opcode \cup {"off", "select", "wait", "done"}
  /\ garbage \in {"off", "select", "wait", "send", "done"}
  /\ readerSees \in BOOLEAN /\ loopSees \in BOOLEAN /\ garbageSees \in BOOLEAN
  /\ sent \in 0..Packets /\ pings \in Nat /\ pongs \in Nat
  /\ incoming \in Seq(Opcode) /\ Len(incoming) <= QueueCap
  /\ ticking \in BOOLEAN

\* Before AcceptStream nothing has come in, and nobody writes.
QuietInv ==
  /\ dial = "off" => reader = "off"
  /\ reader \in {"off", "accept"} =>
       incoming = <<>> /\ loop \notin Opcode /\ garbage # "send" /\ ~ticking

\* There is a stream while the reader reads from it.
StreamInv == reader \in Opcode \cup {"read", "end"} => stream

\* Who closed the client: main, which is about to return, or the reader of a session
\* that is over.
ClosedInv == ~closing => main = "returns" \/ (reader = "done" /\ over)

\* The reader leaves only if the session is over or the client is closed.
LeavesInv ==
  /\ reader \in {"end", "look"} => over \/ ~closing
  /\ reader = "close" => over
  /\ reader = "done" => over \/ main = "returns"

IInv == TypeOK /\ QuietInv /\ StreamInv /\ ClosedInv /\ LeavesInv /\ PanicsAtTheEnd

-----------------------------------------------------------------------------
\* Steps

LEMMA Queues ==
  ASSUME NEW S, NEW q \in Seq(S)
  PROVE  /\ Len(q) \in Nat
         /\ q # <<>> => /\ Head(q) \in S /\ Tail(q) \in Seq(S)
                        /\ Len(Tail(q)) = Len(q) - 1
         /\ \A m \in S : /\ Append(q, m) \in Seq(S) /\ Append(q, m) # <<>>
                         /\ Len(Append(q, m)) = Len(q) + 1
<1>1. Len(q) \in Nat
  BY LenProperties
<1>2. q # <<>> => Head(q) \in S /\ Tail(q) \in Seq(S) /\ Len(Tail(q)) = Len(q) - 1
  BY HeadTailProperties
<1>3. ASSUME NEW m \in S
      PROVE  /\ Append(q, m) \in Seq(S) /\ Append(q, m) # <<>>
             /\ Len(Append(q, m)) = Len(q) + 1
  <2>1. Append(q, m) \in Seq(S) /\ Len(Append(q, m)) = Len(q) + 1
    BY AppendProperties
  <2> QED
    BY <1>1, <2>1, EmptySeq
<1> QED
  BY <1>1, <1>2, <1>3

\* The connection and the session.
LEMMA OutsideKeepsInv ==
  ASSUME IInv, process = "up", Connect \/ AppendClient \/ Overwritten \/ Over
  PROVE  IInv'
<1> USE DEF outside, shared, readers, loops, garbages, Opcode
<1>1. TypeOK'
  <2>1. CASE Connect
    BY <2>1 DEF IInv, TypeOK, Connect
  <2>2. CASE AppendClient
    BY <2>2 DEF IInv, TypeOK, AppendClient
  <2>3. CASE Overwritten
    <3>1. listed' \in BOOLEAN
      BY <2>3 DEF Overwritten
    <3> QED
      BY <2>3, <3>1 DEF IInv, TypeOK, Overwritten
  <2>4. CASE Over
    BY <2>4 DEF IInv, TypeOK, Over
  <2> QED
    BY <2>1, <2>2, <2>3, <2>4
<1>2. QuietInv'
  BY DEF IInv, QuietInv, Connect, AppendClient, Overwritten, Over
<1>3. StreamInv' /\ ClosedInv' /\ LeavesInv'
  BY DEF IInv, QuietInv, StreamInv, ClosedInv, LeavesInv, Connect, AppendClient,
     Overwritten, Over
<1>4. PanicsAtTheEnd'
  BY DEF IInv, PanicsAtTheEnd, Connect, AppendClient, Overwritten, Over
<1> QED
  BY <1>1, <1>2, <1>3, <1>4 DEF IInv

\* The reader's steps but for the last close.
LEMMA ReaderKeepsInv ==
  ASSUME IInv, process = "up",
         \/ Accept \/ AcceptFails \/ Push \/ ReadFails \/ ClearStream \/ ReaderLooks
         \/ \E op \in Opcode : Read(op)
  PROVE  IInv'
<1> USE DEF outside, shared, readers, loops, garbages, Opcode
<1>1. TypeOK'
  <2>1. ASSUME Push PROVE incoming' \in Seq(Opcode) /\ Len(incoming') <= QueueCap
    BY <2>1, Queues, ClientAssumption DEF Push, IInv, TypeOK
  <2>2. ASSUME NEW op \in Opcode, Read(op) PROVE TypeOK'
    BY <2>2, ClientAssumption DEF Read, IInv, TypeOK
  <2>3. CASE Push
    BY <2>1, <2>3 DEF Push, IInv, TypeOK
  <2>4. CASE Accept
    BY <2>4 DEF IInv, TypeOK, Accept
  <2>5. CASE AcceptFails
    BY <2>5 DEF IInv, TypeOK, AcceptFails
  <2>6. CASE ReadFails
    BY <2>6 DEF IInv, TypeOK, ReadFails
  <2>7. CASE ClearStream
    <3>1. stream' \in BOOLEAN
      BY <2>7 DEF ClearStream
    <3> QED
      BY <2>7, <3>1 DEF IInv, TypeOK, ClearStream
  <2>8. CASE ReaderLooks
    BY <2>8 DEF IInv, TypeOK, ReaderLooks
  <2> QED
    BY <2>2, <2>3, <2>4, <2>5, <2>6, <2>7, <2>8
<1>2. QuietInv'
  BY DEF IInv, QuietInv, Accept, AcceptFails, Push, ReadFails, ClearStream, ReaderLooks, Read
<1>3. StreamInv'
  BY DEF IInv, StreamInv, Accept, AcceptFails, Push, ReadFails, ClearStream, ReaderLooks,
     Read
<1>4. ClosedInv' /\ LeavesInv'
  BY DEF IInv, ClosedInv, LeavesInv, Accept, AcceptFails, Push, ReadFails, ClearStream,
     ReaderLooks, Read
<1>5. PanicsAtTheEnd'
  BY DEF IInv, PanicsAtTheEnd, Accept, AcceptFails, Push, ReadFails, ClearStream,
     ReaderLooks, Read
<1> QED
  BY <1>1, <1>2, <1>3, <1>4, <1>5 DEF IInv

\* Who comes second to close the channel is the reader or main, when both end.
LEMMA CloseKeepsInv ==
  ASSUME IInv, process = "up", ReaderCloses \/ MainCloses
  PROVE  IInv'
<1> USE DEF outside, shared, readers, loops, garbages, Opcode, CloseClient
<1>1. TypeOK'
  BY DEF IInv, TypeOK, ReaderCloses, MainCloses
<1>2. QuietInv' /\ StreamInv'
  BY DEF IInv, QuietInv, StreamInv, ReaderCloses, MainCloses
<1>3. ClosedInv' /\ LeavesInv'
  BY DEF IInv, ClosedInv, LeavesInv, ReaderCloses, MainCloses
<1>4. PanicsAtTheEnd'
  BY DEF IInv, ClosedInv, LeavesInv, PanicsAtTheEnd, ReaderCloses, MainCloses
<1> QED
  BY <1>1, <1>2, <1>3, <1>4 DEF IInv

\* A write of the packet loop or of the garbage loop.
LEMMA WriteKeepsPanics ==
  ASSUME IInv, process = "up", loop \in Opcode \/ garbage = "send", Write,
         UNCHANGED <<reader, over, main>>
  PROVE  PanicsAtTheEnd'
<1>1. CASE stream
  BY <1>1 DEF Write, PanicsAtTheEnd
<1>2. CASE ~stream
  <2>1. reader \in {"look", "close", "done"}
    BY <1>2 DEF IInv, TypeOK, QuietInv, StreamInv
  <2>2. over \/ main = "returns"
    BY <2>1 DEF IInv, LeavesInv, ClosedInv
  <2> QED
    BY <1>2, <2>1, <2>2 DEF Write, PanicsAtTheEnd
<1> QED
  BY <1>1, <1>2

LEMMA LoopKeepsInv ==
  ASSUME IInv, process = "up", Loop
  PROVE  IInv'
<1> USE DEF outside, shared, readers, loops, garbages
<1>1. TypeOK'
  <2>1. CASE Take
    <3>1. /\ Head(incoming) \in Opcode
          /\ incoming' \in Seq(Opcode) /\ Len(incoming') <= QueueCap
      BY <2>1, Queues, ClientAssumption DEF Take, IInv, TypeOK
    <3> QED
      BY <2>1, <3>1 DEF Take, IInv, TypeOK
  <2>2. CASE LoopSelects \/ LoopEnds \/ HandleGarbageRequest \/ HandleNews
    BY <2>2 DEF IInv, TypeOK, LoopSelects, LoopEnds, HandleGarbageRequest, HandleNews
  <2>3. CASE HandlePing
    BY <2>3 DEF IInv, TypeOK, HandlePing, Write
  <2> QED
    BY <2>1, <2>2, <2>3 DEF Loop
<1>2. QuietInv'
  BY DEF IInv, QuietInv, Loop, LoopSelects, LoopEnds, Take, HandlePing,
     HandleGarbageRequest, HandleNews, Opcode
<1>3. StreamInv' /\ ClosedInv' /\ LeavesInv'
  BY DEF IInv, StreamInv, ClosedInv, LeavesInv, Loop, LoopSelects, LoopEnds, Take,
     HandlePing, HandleGarbageRequest, HandleNews
<1>4. PanicsAtTheEnd'
  <2>1. CASE HandlePing
    BY <2>1, WriteKeepsPanics DEF HandlePing, Opcode
  <2>2. CASE LoopSelects \/ LoopEnds \/ Take \/ HandleGarbageRequest \/ HandleNews
    BY <2>2 DEF IInv, PanicsAtTheEnd, LoopSelects, LoopEnds, Take, HandleGarbageRequest,
       HandleNews
  <2> QED
    BY <2>1, <2>2 DEF Loop
<1> QED
  BY <1>1, <1>2, <1>3, <1>4 DEF IInv

LEMMA GarbageLoopKeepsInv ==
  ASSUME IInv, process = "up", GarbageLoop
  PROVE  IInv'
<1> USE DEF outside, shared, readers, loops, garbages
<1>1. TypeOK'
  BY DEF IInv, TypeOK, GarbageLoop, GarbageSelects, GarbageEnds, Tick, SendGarbage, Write
<1>2. QuietInv'
  BY DEF IInv, QuietInv, GarbageLoop, GarbageSelects, GarbageEnds, Tick, SendGarbage
<1>3. StreamInv' /\ ClosedInv' /\ LeavesInv'
  BY DEF IInv, StreamInv, ClosedInv, LeavesInv, GarbageLoop, GarbageSelects, GarbageEnds,
     Tick, SendGarbage
<1>4. PanicsAtTheEnd'
  <2>1. CASE SendGarbage
    BY <2>1, WriteKeepsPanics DEF SendGarbage
  <2>2. CASE GarbageSelects \/ GarbageEnds \/ Tick
    BY <2>2 DEF IInv, PanicsAtTheEnd, GarbageSelects, GarbageEnds, Tick
  <2> QED
    BY <2>1, <2>2 DEF GarbageLoop
<1> QED
  BY <1>1, <1>2, <1>3, <1>4 DEF IInv

LEMMA MainKeepsInv ==
  ASSUME IInv, process = "up", Signal \/ MainLooks \/ Return
  PROVE  IInv'
<1> USE DEF outside, shared, readers, loops, garbages
<1>1. TypeOK'
  BY DEF IInv, TypeOK, Signal, MainLooks, Return
<1>2. QuietInv' /\ StreamInv' /\ ClosedInv' /\ LeavesInv'
  BY DEF IInv, QuietInv, StreamInv, ClosedInv, LeavesInv, Signal, MainLooks, Return
<1>3. PanicsAtTheEnd'
  BY DEF IInv, PanicsAtTheEnd, Signal, MainLooks, Return
<1> QED
  BY <1>1, <1>2, <1>3 DEF IInv

LEMMA InitInv == Init => IInv
<1>1. <<>> \in Seq(Opcode) /\ Len(<<>>) = 0
  BY EmptySeq
<1>2. 0 \in 0..Packets /\ 0 \in Nat /\ 0 <= QueueCap
  BY ClientAssumption
<1>3. Init => TypeOK
  BY <1>1, <1>2 DEF Init, TypeOK
<1>4. Init => QuietInv /\ StreamInv /\ ClosedInv /\ LeavesInv /\ PanicsAtTheEnd
  BY DEF Init, QuietInv, StreamInv, ClosedInv, LeavesInv, PanicsAtTheEnd, Opcode
<1> QED
  BY <1>3, <1>4 DEF IInv

LEMMA NextKeepsInv == IInv /\ [Next]_vars => IInv'
<1> SUFFICES ASSUME IInv, [Next]_vars PROVE IInv'
  OBVIOUS
<1>1. CASE Next
  BY <1>1, OutsideKeepsInv, ReaderKeepsInv, CloseKeepsInv, LoopKeepsInv,
     GarbageLoopKeepsInv, MainKeepsInv DEF Next, Reader, Main
<1>2. CASE UNCHANGED vars
  BY <1>2 DEF vars, outside, shared, readers, loops, garbages, IInv, TypeOK, QuietInv,
     StreamInv, ClosedInv, LeavesInv, PanicsAtTheEnd
<1> QED
  BY <1>1, <1>2

LEMMA AlwaysIInv == Spec => []IInv
BY InitInv, NextKeepsInv, PTL DEF Spec

\* The goroutines of a client keep their types, and what the server sends never makes
\* its queue grow beyond its capacity (client.go).
THEOREM ClientTypeCorrect == Spec => []TypeOK
<1>1. IInv => TypeOK
  BY DEF IInv
<1> QED
  BY <1>1, AlwaysIInv, PTL

\* However its goroutines take turns, a client's process panics only at the end: a
\* write on no stream after the session or main ended, a second close of the channel
\* when a signal meets a reader that leaves (client.go).
THEOREM PanicsOnlyAtTheEnd == Spec => []PanicsAtTheEnd
<1>1. IInv => PanicsAtTheEnd
  BY DEF IInv
<1> QED
  BY <1>1, AlwaysIInv, PTL

===============================================================================
