------------------------------- MODULE Delivery -------------------------------
(***************************************************************************)
(* The way of a packet through one session: from the connection's reader   *)
(* (HandleStream, packet.go) into the queue "incoming" and out of it by    *)
(* the packet loop (Session.Run), while the session closes and reconnects. *)
(* The queue outlives connections, and so may readers and loops.           *)
(*                                                                         *)
(* Connections of the session are numbered; connection k comes with reader *)
(* k, the channel k in s.Closing and packet loop k.  Close is one step,    *)
(* its races with itself are in Session.                                   *)
(***************************************************************************)
EXTENDS Naturals, Sequences, FiniteSets

CONSTANTS
  Conns,     \* how often the client connects
  Packets,   \* bound on the packets it sends
  QueueCap,  \* capacity of incoming (1024)
  Kicks      \* how often a handler closes the session

ASSUME DeliveryAssumption ==
  Conns \in Nat \ {0} /\ Packets \in Nat /\ QueueCap \in Nat \ {0} /\ Kicks \in Nat

Conn == 1..Conns
Packet == Conn \X (1..Packets)
Nil == 0        \* the nil channel
None == <<0, 0>>  \* no packet

VARIABLES
  phase,      \* of the handshake: "idle", "closed" or "started"
  conn,       \* the connection of the session
  active,     \* s.Active
  closing,    \* s.Closing
  closed,     \* channels that were closed
  lost,       \* connections whose peer is gone
  cancelled,  \* connections this side has closed, and the stream with them
  queue,      \* s.incoming
  reader,     \* control point of a reader
  watched,    \* the channel it was given
  read,       \* number of packets it has read
  loop,       \* control point of a packet loop
  watch,      \* the channel its select waits for
  got,        \* the packet it has taken
  mutex,      \* the loop that holds reader.mu
  handled,    \* which loop handled a packet (history), 0: none yet
  kicks       \* handlers that closed the session (history)

session == <<conn, active, closing, closed, cancelled>>
readers == <<reader, watched, read>>
loops == <<loop, watch, got, mutex, handled, kicks>>
vars == <<phase, session, lost, queue, readers, loops>>

\* The packets the client has sent and a reader has read.
ReadSoFar == {p \in Packet : p[2] <= read[p[1]]}
ReaderAt(k, l) == reader' = [reader EXCEPT ![k] = l]
LoopAt(k, l) == loop' = [loop EXCEPT ![k] = l]

-----------------------------------------------------------------------------
\* The session

\* Session.Close leaves the queue as it is.
Close ==
  /\ active' = FALSE /\ closing' = Nil
  /\ closed' = closed \cup ({closing} \ {Nil})
  /\ cancelled' = cancelled \cup {conn}
  /\ UNCHANGED <<conn, queue>>

\* A login of the session's user: CreateSession for the first, Reconnect's Close for the
\* others.  If that fails, which it may where the peer is gone, Reconnect returns and the
\* new connection is nobody's.
Login ==
  /\ phase = "idle" /\ conn < Conns
  /\ phase' \in {"closed"} \cup (IF conn \in lost \ cancelled THEN {"idle"} ELSE {})
  /\ IF conn = 0 THEN UNCHANGED <<session, queue>> ELSE Close
  /\ UNCHANGED <<lost, readers, loops>>

\* Mutant: the channel of the last connection is used again.
StartOnOldChannel ==
  /\ phase = "closed"
  /\ phase' = "started"
  /\ conn' = conn + 1 /\ active' = TRUE
  /\ closing' = 1
  /\ ReaderAt(conn', "start")
  /\ UNCHANGED <<closed, cancelled, lost, queue, watched, read, loops>>

\* Session.Start.
Start ==
  /\ phase = "closed"
  /\ phase' = "started"
  /\ conn' = conn + 1 /\ active' = TRUE
  /\ closing' = conn'
  /\ ReaderAt(conn', "start")
  /\ UNCHANGED <<closed, cancelled, lost, queue, watched, read, loops>>

\* OpenStream fails on a connection whose peer is gone; Start closes it, and the handler
\* ends without a packet loop.
StartFails ==
  /\ phase = "closed"
  /\ phase' = "idle"
  /\ conn' = conn + 1
  /\ lost' = lost \cup {conn'} /\ cancelled' = cancelled \cup {conn'}
  /\ UNCHANGED <<active, closing, closed, queue, readers, loops>>

\* The end of handleWT: go session.Run().
Serve ==
  /\ phase = "started"
  /\ phase' = "idle"
  /\ LoopAt(conn, "start")
  /\ UNCHANGED <<session, lost, queue, readers, watch, got, mutex, handled, kicks>>

\* GameWorld.Connect, which the first login calls, panics on the nil stream of another
\* session; net/http recovers, and nobody handles what the reader reads.
ConnectPanics ==
  /\ phase = "started" /\ conn = 1
  /\ phase' = "idle"
  /\ UNCHANGED <<session, lost, queue, readers, loops>>

Handshake == Login \/ Start \/ StartFails \/ Serve \/ ConnectPanics

Lose(k) ==
  /\ k <= conn /\ k \notin lost
  /\ lost' = lost \cup {k}
  /\ UNCHANGED <<phase, session, queue, readers, loops>>

-----------------------------------------------------------------------------
\* Reader k

\* The top of its loop, one step with what comes before it.
LookAtClosing(k, channel) == ReaderAt(k, IF channel \in closed THEN "done" ELSE "read")

\* The goroutine of Start evaluates s.Closing when it runs.
ReaderStart(k) ==
  /\ reader[k] = "start"
  /\ watched' = [watched EXCEPT ![k] = closing]
  /\ LookAtClosing(k, closing)
  /\ UNCHANGED <<phase, session, lost, queue, read, loops>>

\* What the client sends: the header and the payload, in two reads.
Read(k) ==
  /\ reader[k] = "read"
  /\ k \notin cancelled \cup lost /\ Cardinality(ReadSoFar) < Packets
  /\ read' = [read EXCEPT ![k] = @ + 1]
  /\ ReaderAt(k, "push")
  /\ UNCHANGED <<phase, session, lost, queue, watched, loops>>

\* Mutant: only the error of a cancelled stream ends the reader.
ReadFailsOnCancel(k) ==
  /\ reader[k] = "read" /\ k \in cancelled
  /\ ReaderAt(k, "done")
  /\ UNCHANGED <<phase, session, lost, queue, watched, read, loops>>

\* ErrSessionStreamClosed ends the reader, any other error closes the session, and
\* that is the one there is now.
ReadFails(k) ==
  /\ reader[k] = "read"
  /\ ReaderAt(k, "done")
  /\ \/ k \in cancelled /\ UNCHANGED <<session, queue>>
     \/ k \in lost \ cancelled /\ Close
  /\ UNCHANGED <<phase, lost, watched, read, loops>>

\* Mutant: a packet that finds no room is dropped.
PushOrDrop(k) ==
  /\ reader[k] = "push"
  /\ queue' = IF Len(queue) < QueueCap THEN Append(queue, <<k, read[k]>>) ELSE queue
  /\ LookAtClosing(k, watched[k])
  /\ UNCHANGED <<phase, session, lost, watched, read, loops>>

\* The send on incoming waits for room and for nothing else.
Push(k) ==
  /\ reader[k] = "push"
  /\ Len(queue) < QueueCap
  /\ queue' = Append(queue, <<k, read[k]>>)
  /\ LookAtClosing(k, watched[k])
  /\ UNCHANGED <<phase, session, lost, watched, read, loops>>

ReaderStep(k) ==
  ReaderStart(k) \/ ReadFails(k) \/ Push(k)

-----------------------------------------------------------------------------
\* Packet loop k

LoopStart(k) ==
  /\ loop[k] = "start"
  /\ LoopAt(k, IF active THEN "select" ELSE "done")
  /\ UNCHANGED <<phase, session, lost, queue, readers, watch, got, mutex, handled, kicks>>

\* The select evaluates s.Closing anew each time.
Select(k) ==
  /\ loop[k] = "select"
  /\ watch' = [watch EXCEPT ![k] = closing]
  /\ LoopAt(k, "wait")
  /\ UNCHANGED <<phase, session, lost, queue, readers, got, mutex, handled, kicks>>

SeeClosing(k) ==
  /\ loop[k] = "wait" /\ watch[k] \in closed
  /\ watch' = [watch EXCEPT ![k] = Nil]
  /\ LoopAt(k, "done")
  /\ UNCHANGED <<phase, session, lost, queue, readers, got, mutex, handled, kicks>>

\* Mutant: the newest packet first.
TakeLast(k) ==
  /\ loop[k] = "wait" /\ queue # <<>>
  /\ got' = [got EXCEPT ![k] = queue[Len(queue)]]
  /\ queue' = SubSeq(queue, 1, Len(queue) - 1)
  /\ watch' = [watch EXCEPT ![k] = Nil]
  /\ LoopAt(k, "lock")
  /\ UNCHANGED <<phase, session, lost, readers, mutex, handled, kicks>>

Take(k) ==
  /\ loop[k] = "wait" /\ queue # <<>>
  /\ got' = [got EXCEPT ![k] = Head(queue)]
  /\ queue' = Tail(queue)
  /\ watch' = [watch EXCEPT ![k] = Nil]
  /\ LoopAt(k, "lock")
  /\ UNCHANGED <<phase, session, lost, readers, mutex, handled, kicks>>

Lock(k) ==
  /\ loop[k] = "lock" /\ mutex = 0
  /\ mutex' = k
  /\ LoopAt(k, "handle")
  /\ UNCHANGED <<phase, session, lost, queue, readers, watch, got, handled, kicks>>

\* Mutant: the mutex is not given back.
HandledLocked(k) == mutex' = k

Handled(k) == mutex' = 0

\* The handler, which may close the session (game_handlers.go:82); of a packet that has none,
\* as one that does nothing.
Handle(k) ==
  /\ loop[k] = "handle"
  /\ \/ UNCHANGED <<session, queue, kicks>>
     \/ kicks < Kicks /\ kicks' = kicks + 1 /\ Close
  /\ handled' = [handled EXCEPT ![got[k]] = k]
  /\ got' = [got EXCEPT ![k] = None]
  /\ Handled(k)
  /\ LoopAt(k, "select")
  /\ UNCHANGED <<phase, lost, readers, watch>>

LoopStep(k) ==
  LoopStart(k) \/ Select(k) \/ SeeClosing(k) \/ Take(k) \/ Lock(k) \/ Handle(k)

-----------------------------------------------------------------------------
Init ==
  /\ phase = "idle" /\ conn = 0 /\ active = FALSE /\ closing = Nil
  /\ closed = {} /\ lost = {} /\ cancelled = {}
  /\ queue = <<>>
  /\ reader = [k \in Conn |-> "off"]
  /\ watched = [k \in Conn |-> Nil]
  /\ read = [k \in Conn |-> 0]
  /\ loop = [k \in Conn |-> "off"]
  /\ watch = [k \in Conn |-> Nil]
  /\ got = [k \in Conn |-> None]
  /\ mutex = 0 /\ handled = [p \in Packet |-> 0] /\ kicks = 0

Next ==
  \/ Handshake
  \/ \E k \in Conn : Lose(k) \/ Read(k) \/ ReaderStep(k) \/ LoopStep(k)

Spec == Init /\ [][Next]_vars

\* Goroutines that can run do; a client need not log in, and need not send.
FairSpec ==
  /\ Spec
  /\ WF_vars(phase # "idle" /\ Handshake)
  /\ \A k \in Conn : WF_vars(ReaderStep(k)) /\ WF_vars(LoopStep(k))

-----------------------------------------------------------------------------
\* Types of every variable.
TypeOK ==
  /\ phase \in {"idle", "closed", "started"}
  /\ conn \in 0..Conns /\ active \in BOOLEAN
  /\ closing \in {Nil, conn}
  /\ closed \subseteq 1..conn /\ lost \subseteq 1..conn /\ cancelled \subseteq 1..conn
  /\ queue \in Seq(Packet) /\ Len(queue) <= QueueCap
  /\ reader \in [Conn -> {"off", "start", "read", "push", "done"}]
  /\ watched \in [Conn -> 0..Conns]
  /\ read \in [Conn -> 0..Packets]
  /\ loop \in [Conn -> {"off", "start", "select", "wait", "lock", "handle", "done"}]
  /\ watch \in [Conn -> 0..Conns]
  /\ got \in [Conn -> Packet \cup {None}]
  /\ mutex \in 0..Conns
  /\ handled \in [Packet -> 0..Conns]
  /\ kicks \in 0..Kicks

\* Whatever closes, reconnects and loops beside it, a packet that was read is in
\* exactly one place: with its reader, in the queue, with a loop, or handled.
NothingLost ==
  \A p \in Packet :
    (IF reader[p[1]] = "push" /\ read[p[1]] = p[2] THEN 1 ELSE 0)
      + Cardinality({i \in DOMAIN queue : queue[i] = p})
      + Cardinality({k \in Conn : got[k] = p})
      + (IF handled[p] # 0 THEN 1 ELSE 0)
    = IF p \in ReadSoFar THEN 1 ELSE 0

\* One loop handles the packets of a connection in the order they were sent, those
\* it took over from another loop included.  Two loops need not.
InOrder ==
  [][\A p, q \in Packet :
       handled'[p] # handled[p] /\ q[1] = p[1] /\ q[2] >= p[2]
         => handled[q] # handled'[p]]_vars

NoLoop == \A l \in Conn : loop[l] \in {"off", "done"}

\* What readers have read is handled, whatever closes and reconnects, unless the session is
\* left without a packet loop: all have ended, or its first login was not served.
ReadIsHandled ==
  \/ <>[]NoLoop
  \/ \A p \in Packet : p \in ReadSoFar ~> handled[p] # 0

\* The reader of a connection that is gone, if there ever was one, ends, unless the queue is full and every
\* loop has ended (session.go:112-113: "Could this lock if enough packets get sent
\* enough?").
ReaderEnds ==
  \A k \in Conn :
    k \in lost \cup cancelled ~>
      \/ reader[k] \in {"off", "done"}
      \/ Len(queue) = QueueCap /\ NoLoop

===============================================================================
