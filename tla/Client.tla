-------------------------------- MODULE Client --------------------------------
(***************************************************************************)
(* A Go client in its process (cmd/client, or cmd/server with -c): the     *)
(* reader (HandleStream), the packet loop (Run) and the garbage loop       *)
(* (runGarbage) share c.Stream and c.Closing without a lock, main closes   *)
(* the clients in its list when it is signalled, and a panic in one        *)
(* goroutine ends the whole process.  The other clients of the process     *)
(* matter by overwriting that list.                                        *)
(*                                                                         *)
(* Which ticks find garbageWait set is left open here, see Garbage.        *)
(***************************************************************************)
EXTENDS Naturals, Sequences

CONSTANTS
  Packets,   \* bound on the packets the server sends
  QueueCap   \* capacity of incoming (1024)

ASSUME ClientAssumption == Packets \in Nat /\ QueueCap \in Nat \ {0}

\* What the server sends; news: the broadcasts, the player list and the garbage ack.
Opcode == {"heartbeat", "garbage", "news"}

VARIABLES
  process,   \* "up", "stopped", or how it died: "fatal", "write" or "close"
  main,      \* control point of main: "waits", "ranges", "closes" or "returns"
  listed,    \* main's list holds the client
  dial,      \* control point of the goroutine that connects it
  over,      \* the session is over: closed by the server, or lost
  stream,    \* c.Stream is not nil
  closing,   \* c.Closing is not nil, and open
  reader, loop, garbage,             \* control points of the client's goroutines
  readerSees, loopSees, garbageSees, \* the channel they watch is not nil
  sent,      \* number of packets read
  incoming,  \* c.incoming
  ticking,   \* the garbage ticker runs
  pings, pongs  \* pings read and answered (history)

outside == <<main, listed, dial, over>>
shared == <<stream, closing>>
readers == <<reader, readerSees, sent, pings>>
loops == <<loop, loopSees, ticking, pongs>>
garbages == <<garbage, garbageSees>>
vars == <<process, outside, shared, readers, loops, garbages, incoming>>

-----------------------------------------------------------------------------
\* connectClient and ClientConnect: the login may fail, and a failed Dial ends the
\* process (log.Fatal).
Connect ==
  /\ dial = "off"
  /\ \/ dial' = "failed" /\ UNCHANGED <<process, reader, loop, garbage>>
     \/ process' = "fatal" /\ UNCHANGED <<dial, reader, loop, garbage>>
     \/ /\ dial' = "connected"
        /\ reader' = "accept" /\ loop' = "select" /\ garbage' = "select"
        /\ UNCHANGED process
  /\ UNCHANGED <<main, listed, over, shared, readerSees, sent, pings, loopSees, ticking, pongs,
                 garbageSees, incoming>>

\* clients = append(clients, c)
AppendClient ==
  /\ dial = "connected"
  /\ dial' = "appended" /\ listed' = TRUE
  /\ UNCHANGED <<process, main, over, shared, readers, loops, garbages, incoming>>

\* Another goroutine's append began before and ends after this one.
Overwritten ==
  /\ listed
  /\ listed' = FALSE
  /\ UNCHANGED <<process, main, dial, over, shared, readers, loops, garbages, incoming>>

\* The server closes the session, or the connection is lost.
Over ==
  /\ dial \notin {"off", "failed"} /\ ~over
  /\ over' = TRUE
  /\ UNCHANGED <<process, main, listed, dial, shared, readers, loops, garbages, incoming>>

-----------------------------------------------------------------------------
\* The reader: HandleStream

\* Mutant: c.Stream is not set before packets are read.
AcceptOnly ==
  /\ reader = "accept"
  /\ readerSees' = closing
  /\ reader' = "read"
  /\ UNCHANGED <<process, outside, shared, sent, pings, loops, garbages, incoming>>

\* AcceptStream, and the first look at closing.
Accept ==
  /\ reader = "accept"
  /\ stream' = TRUE
  /\ readerSees' = closing
  /\ reader' = "read"
  /\ UNCHANGED <<process, outside, closing, sent, pings, loops, garbages, incoming>>

\* Without a stream the reader returns, and the client stays open.
AcceptFails ==
  /\ reader = "accept" /\ over
  /\ reader' = "done"
  /\ UNCHANGED <<process, outside, shared, readerSees, sent, pings, loops, garbages, incoming>>

\* The reader holds what it has read until incoming has room.
Read(op) ==
  /\ reader = "read" /\ ~over /\ sent < Packets
  /\ reader' = op
  /\ sent' = sent + 1
  /\ pings' = IF op = "heartbeat" THEN pings + 1 ELSE pings
  /\ UNCHANGED <<process, outside, shared, readerSees, loops, garbages, incoming>>

\* Queue the packet, and look at closing.
Push ==
  /\ reader \in Opcode /\ Len(incoming) < QueueCap
  /\ incoming' = Append(incoming, reader)
  /\ reader' = IF readerSees /\ ~closing THEN "end" ELSE "read"
  /\ UNCHANGED <<process, outside, shared, readerSees, sent, pings, loops, garbages>>

ReadFails ==
  /\ reader = "read" /\ over
  /\ reader' = "end"
  /\ UNCHANGED <<process, outside, shared, readerSees, sent, pings, loops, garbages, incoming>>

\* c.Stream = nil
ClearStream ==
  /\ reader = "end"
  /\ stream' = FALSE
  /\ reader' = "look"
  /\ UNCHANGED <<process, outside, closing, readerSees, sent, pings, loops, garbages, incoming>>

\* Close: is there a channel to close?
ReaderLooks ==
  /\ reader = "look"
  /\ reader' = IF closing THEN "close" ELSE "done"
  /\ UNCHANGED <<process, outside, shared, readerSees, sent, pings, loops, garbages, incoming>>

\* Close it and set c.Closing to nil; whoever comes second panics.
CloseClient ==
  IF closing THEN closing' = FALSE /\ UNCHANGED process
             ELSE process' = "close" /\ UNCHANGED closing

ReaderCloses ==
  /\ reader = "close"
  /\ CloseClient
  /\ reader' = "done"
  /\ UNCHANGED <<outside, stream, readerSees, sent, pings, loops, garbages, incoming>>

\* Mutant: a reader whose stream ended does not close the client.
QuietReader == Accept \/ AcceptFails \/ Push \/ ReadFails \/ ClearStream

Reader ==
  \/ Accept \/ AcceptFails \/ Push \/ ReadFails
  \/ ClearStream \/ ReaderLooks \/ ReaderCloses

-----------------------------------------------------------------------------
\* The packet loop: Run

\* The select evaluates c.Closing anew each time.
LoopSelects ==
  /\ loop = "select"
  /\ loop' = "wait" /\ loopSees' = closing
  /\ UNCHANGED <<process, outside, shared, readers, ticking, pongs, garbages, incoming>>

LoopEnds ==
  /\ loop = "wait" /\ loopSees /\ ~closing
  /\ loop' = "done"
  /\ UNCHANGED <<process, outside, shared, readers, loopSees, ticking, pongs, garbages, incoming>>

\* Mutant: there is no handler for the player list.
FewHandlers == {"heartbeat", "garbage"}

\* setupHandlers.
Handlers == Opcode

\* A packet without a handler ends the loop.
Take ==
  /\ loop = "wait" /\ incoming # <<>>
  /\ incoming' = Tail(incoming)
  /\ loop' = IF Head(incoming) \in Handlers THEN Head(incoming) ELSE "done"
  /\ UNCHANGED <<process, outside, shared, readers, loopSees, ticking, pongs, garbages>>

\* SendStream.  A nil c.Stream is an interface that is not nil: a write to it panics.  A
\* write to a stream that is over fails.
Write == IF stream THEN UNCHANGED process ELSE process' = "write"

\* A pong that was made counts if it could be written; making one does not fail.
HandlePing ==
  /\ loop = "heartbeat"
  /\ Write
  /\ loop' = "select"
  /\ pongs' = IF stream /\ ~over THEN pongs + 1 ELSE pongs
  /\ UNCHANGED <<outside, shared, readers, loopSees, ticking, garbages, incoming>>

\* Resets the ticker.
HandleGarbageRequest ==
  /\ loop = "garbage"
  /\ loop' = "select" /\ ticking' = TRUE
  /\ UNCHANGED <<process, outside, shared, readers, loopSees, pongs, garbages, incoming>>

\* The handlers of broadcasts, list and ack check their message and change nothing here
\* (garbageWait is in Garbage).
HandleNews ==
  /\ loop = "news"
  /\ loop' = "select"
  /\ UNCHANGED <<process, outside, shared, readers, loopSees, ticking, pongs, garbages, incoming>>

Loop == LoopSelects \/ LoopEnds \/ Take \/ HandlePing \/ HandleGarbageRequest \/ HandleNews

-----------------------------------------------------------------------------
\* The garbage loop: runGarbage

GarbageSelects ==
  /\ garbage = "select"
  /\ garbage' = "wait" /\ garbageSees' = closing
  /\ UNCHANGED <<process, outside, shared, readers, loops, incoming>>

GarbageEnds ==
  /\ garbage = "wait" /\ garbageSees /\ ~closing
  /\ garbage' = "done"
  /\ UNCHANGED <<process, outside, shared, readers, loops, garbageSees, incoming>>

\* A tick that finds the last ack missing selects again, any other sends.
Tick ==
  /\ garbage = "wait" /\ ticking
  /\ garbage' \in {"select", "send"}
  /\ UNCHANGED <<process, outside, shared, readers, loops, garbageSees, incoming>>

\* sendGarbage; an error stops the ticker.
SendGarbage ==
  /\ garbage = "send"
  /\ Write
  /\ garbage' = "select" /\ ticking' = (ticking /\ ~over)
  /\ UNCHANGED <<outside, shared, readers, loop, loopSees, pongs, garbageSees, incoming>>

GarbageLoop == GarbageSelects \/ GarbageEnds \/ Tick \/ SendGarbage

-----------------------------------------------------------------------------
\* main

\* Signalled, it ranges over the list as it is.
Signal ==
  /\ main = "waits"
  /\ main' = IF listed THEN "ranges" ELSE "returns"
  /\ UNCHANGED <<process, listed, dial, over, shared, readers, loops, garbages, incoming>>

\* client.Close, in the two steps of the reader's.
MainLooks ==
  /\ main = "ranges"
  /\ main' = IF closing THEN "closes" ELSE "returns"
  /\ UNCHANGED <<process, listed, dial, over, shared, readers, loops, garbages, incoming>>

MainCloses ==
  /\ main = "closes"
  /\ CloseClient
  /\ main' = "returns"
  /\ UNCHANGED <<listed, dial, over, stream, readers, loops, garbages, incoming>>

Return ==
  /\ main = "returns"
  /\ process' = "stopped"
  /\ UNCHANGED <<outside, shared, readers, loops, garbages, incoming>>

Main == Signal \/ MainLooks \/ MainCloses \/ Return

-----------------------------------------------------------------------------
Init ==
  /\ process = "up" /\ main = "waits" /\ listed = FALSE /\ dial = "off" /\ over = FALSE
  /\ stream = FALSE /\ closing = TRUE
  /\ reader = "off" /\ loop = "off" /\ garbage = "off"
  /\ readerSees = FALSE /\ loopSees = FALSE /\ garbageSees = FALSE
  /\ sent = 0 /\ incoming = <<>> /\ ticking = FALSE /\ pings = 0 /\ pongs = 0

\* A process that ended takes no step.
Next ==
  /\ process = "up"
  /\ \/ Connect \/ AppendClient \/ Overwritten \/ Over
     \/ Reader \/ Loop \/ GarbageLoop \/ Main
     \/ \E op \in Opcode : Read(op)

Spec == Init /\ [][Next]_vars

\* The goroutines of the client run when they can; nothing else has to happen.
FairSpec ==
  /\ Spec
  /\ WF_vars(process = "up" /\ Reader)
  /\ WF_vars(process = "up" /\ Loop)
  /\ WF_vars(process = "up" /\ GarbageLoop)

-----------------------------------------------------------------------------
\* The process panics only where something ends: a write finds no stream only after
\* the session is over or main has closed the client, and a channel is closed twice
\* only when main is signalled while the reader of a session that is over leaves.
PanicsAtTheEnd ==
  /\ process = "write" => /\ reader \in {"look", "close", "done"}
                          /\ over \/ main = "returns"
  /\ process = "close" => over /\ main \in {"closes", "returns"} /\ reader \in {"close", "done"}

\* A ping that was read is answered, unless the session is over, the client closes or the
\* process ends: no packet the server sends ends the packet loop (client.go:180-183).
PingIsAnswered ==
  \A n \in 1..Packets : pings = n ~> pongs >= n \/ over \/ ~closing \/ process # "up"

\* All goroutines of a client whose session is over end, but for one that was busy when
\* the reader closed the client: it selects on the channel that is nil by then.  None
\* does where AcceptStream failed or the reader is stuck at a full queue.
LoopsEnd ==
  over ~> \/ process # "up"
          \/ reader = "done" /\ closing
          \/ Len(incoming) = QueueCap /\ loop = "done"
          \/ /\ reader = "done"
             /\ loop = "done" \/ ~loopSees
             /\ garbage = "done" \/ ~garbageSees

===============================================================================
