------------------------------- MODULE Garbage --------------------------------
(***************************************************************************)
(* The garbage exchange of one connection: the server asks for batches of  *)
(* hashes (game_respond.go sendGarbage), the Go client sends one per tick  *)
(* of its ticker and waits for an ack (client.go runGarbage), the server   *)
(* checks it (game_handlers.go HandleClientGarbage).                       *)
(*                                                                         *)
(* The client is two goroutines on the same unguarded fields: Run handles  *)
(* what the server sends, runGarbage sends.  The server's handler runs     *)
(* under reader.mu and replies last, so it is one step.  A hash is         *)
(* abstracted to the base it was made with.                                *)
(***************************************************************************)
EXTENDS Naturals, Sequences

CONSTANTS
  Amounts,   \* hashes a batch may have (10..19)
  Bases,     \* sha1 sums of the second a request is made in
  Batches,   \* batches a request may ask for (600..2261)
  MaxFailed, \* consecutive bad batches a session survives (5)
  Faulty,    \* TRUE: the client may send any batch at any time
  MaxFaulty, \* bound on what is in flight when a faulty client sends
  NoBase, TornBase

ASSUME GarbageAssumption ==
  /\ Amounts \subseteq Nat \ {0}
  /\ Batches \subseteq Nat \ {0}
  /\ MaxFailed \in Nat /\ MaxFaulty \in Nat
  /\ Faulty \in BOOLEAN
  /\ NoBase \notin Bases /\ TornBase \notin Bases \cup {NoBase}

VARIABLES
  up,          \* the session is open
  amount, total, base, failed,   \* Player.Garbage*
  toServer, toClient,            \* the two directions of the stream
  run, request,                  \* the client's Run goroutine, its message
  send, batch,                   \* its runGarbage goroutine, the batch it builds
  ticking, wait, cAmount, cBase, \* Client.garbageTicker, Wait, Amount, Base
  raced, overtaken, junked       \* a tick came during HandleGarbageRequest; a reply
                                 \* came before SetWait; junk was sent (history)

player == <<amount, total, base, failed>>
client == <<ticking, wait, cAmount, cBase>>
history == <<raced, overtaken, junked>>
vars == <<up, player, toServer, toClient, run, request, send, batch, client,
          history>>

Batch == [size : Amounts, base : Bases \cup {NoBase, TornBase}]
Request == [kind : {"request"}, size : Amounts, base : Bases]
Ack == [kind : {"ack"}, left : Nat]

-----------------------------------------------------------------------------
\* The server

\* Writing to a closed session's stream fails, which is only logged.
SendClient(m) == toClient' = IF up' THEN Append(toClient, m) ELSE toClient

\* sendGarbage: a new request, which replaces the one before.
SendGarbage ==
  \E a \in Amounts, b \in Bases, n \in Batches :
    /\ amount' = a
    /\ total' = a * n
    /\ base' = b
    /\ SendClient([kind |-> "request", size |-> a, base |-> b])

\* GameWorld.Connect
Connect ==
  /\ amount = 0
  /\ up' = TRUE
  /\ SendGarbage
  /\ UNCHANGED <<failed, toServer, run, request, send, batch, client, history>>

\* A failed batch counts against the player; one too many closes the session.
Fail ==
  /\ failed' = failed + 1
  /\ up' = (up /\ failed + 1 <= MaxFailed)

\* HandleGarbage found the wrong number of hashes: nothing is sent back.
WrongSize(m) ==
  /\ m.size # amount
  /\ Fail
  /\ UNCHANGED <<amount, total, base, toClient>>

WrongHash(m) ==
  /\ m.size = amount /\ m.base # base
  /\ Fail
  /\ SendGarbage

\* Mutants: a batch that completes the request is acknowledged; a request is
\* completed only by one hash too many.
RightBatchAcked(m) ==
  /\ m.size = amount /\ m.base = base
  /\ failed' = 0
  /\ UNCHANGED up
  /\ total' = total - m.size
  /\ SendClient([kind |-> "ack", left |-> total'])
  /\ UNCHANGED <<amount, base>>

RightBatchLate(m) ==
  /\ m.size = amount /\ m.base = base
  /\ failed' = 0
  /\ UNCHANGED up
  /\ IF total < m.size
       THEN SendGarbage
       ELSE /\ total' = total - m.size
            /\ SendClient([kind |-> "ack", left |-> total'])
            /\ UNCHANGED <<amount, base>>

\* sendGarbage without reset gives up while hashes are still due.
RightBatch(m) ==
  /\ m.size = amount /\ m.base = base
  /\ failed' = 0
  /\ UNCHANGED up
  /\ IF total <= m.size
       THEN SendGarbage
       ELSE /\ total' = total - m.size
            /\ SendClient([kind |-> "ack", left |-> total'])
            /\ UNCHANGED <<amount, base>>

\* What was read before the session closed is handled all the same: Run ends
\* only when it sees Closing, and Close has set that to nil.
HandleClientGarbage ==
  /\ amount # 0 /\ toServer # <<>>
  /\ toServer' = Tail(toServer)
  /\ LET m == Head(toServer) IN WrongSize(m) \/ WrongHash(m) \/ RightBatch(m)
  /\ UNCHANGED <<run, request, send, batch, client, history>>

-----------------------------------------------------------------------------
\* The client's Run goroutine

\* Mutant: the ack is read and ignored.
AckIgnored ==
  /\ run = "idle" /\ toClient # <<>>
  /\ Head(toClient).kind = "ack"
  /\ toClient' = Tail(toClient)
  /\ UNCHANGED <<up, player, toServer, run, request, send, batch, client, history>>

HandleGarbageAck ==
  /\ run = "idle" /\ toClient # <<>>
  /\ Head(toClient).kind = "ack"
  /\ toClient' = Tail(toClient)
  /\ wait' = FALSE
  /\ overtaken' = (overtaken \/ send = "setWait")
  /\ UNCHANGED <<up, player, toServer, run, request, send, batch, ticking,
                 cAmount, cBase, raced, junked>>

\* HandleGarbageRequest, in the order of its assignments.
HandleGarbageRequest ==
  /\ run = "idle" /\ toClient # <<>>
  /\ Head(toClient).kind = "request"
  /\ toClient' = Tail(toClient)
  /\ request' = Head(toClient)
  /\ ticking' = TRUE
  /\ run' = "setAmount"
  /\ UNCHANGED <<up, player, toServer, send, batch, wait, cAmount, cBase,
                 history>>

SetAmount ==
  /\ run = "setAmount"
  /\ cAmount' = request.size
  /\ run' = "setBase"
  /\ UNCHANGED <<up, player, toServer, toClient, request, send, batch, ticking,
                 wait, cBase, history>>

SetBase ==
  /\ run = "setBase"
  /\ cBase' = request.base
  /\ run' = "clearWait"
  /\ UNCHANGED <<up, player, toServer, toClient, request, send, batch, ticking,
                 wait, cAmount, history>>

ClearWait ==
  /\ run = "clearWait"
  /\ wait' = FALSE
  /\ run' = "idle"
  /\ overtaken' = (overtaken \/ send = "setWait")
  /\ UNCHANGED <<up, player, toServer, toClient, request, send, batch, ticking,
                 cAmount, cBase, raced, junked>>

RunStep ==
  HandleGarbageAck \/ HandleGarbageRequest \/ SetAmount \/ SetBase \/ ClearWait

-----------------------------------------------------------------------------
\* The client's runGarbage goroutine

\* Mutant: garbageWait is not looked at.
TickAnyway ==
  /\ send = "idle" /\ ticking
  /\ send' = "build"
  /\ raced' = (raced \/ run # "idle")
  /\ UNCHANGED <<up, player, toServer, toClient, run, request, batch, client,
                 overtaken, junked>>

\* A tick that finds garbageWait set is skipped.
Tick ==
  /\ send = "idle" /\ ticking /\ ~wait
  /\ send' = "build"
  /\ raced' = (raced \/ run # "idle")
  /\ UNCHANGED <<up, player, toServer, toClient, run, request, batch, client,
                 overtaken, junked>>

\* sendGarbage allocates the list; before the first request there is nothing to
\* send and the ticker is stopped.
Build ==
  /\ send = "build"
  /\ IF cAmount = 0
       THEN /\ send' = "idle" /\ ticking' = FALSE
            /\ UNCHANGED batch
       ELSE /\ send' = "write" /\ batch' = cAmount
            /\ UNCHANGED ticking
  /\ UNCHANGED <<up, player, toServer, toClient, run, request, wait, cAmount,
                 cBase, history>>

\* The hashes read garbageBase without a lock while SetBase may be writing it.
BaseRead == {cBase} \cup IF run = "setBase" THEN {request.base, TornBase} ELSE {}

\* A write to a stream the server closed is lost, or fails and stops the ticker.
Write ==
  /\ send = "write"
  /\ \/ /\ \E b \in BaseRead :
             toServer' = IF up THEN Append(toServer, [size |-> batch, base |-> b])
                         ELSE toServer
        /\ send' = "setWait"
        /\ UNCHANGED ticking
     \/ /\ ~up
        /\ send' = "idle" /\ ticking' = FALSE
        /\ UNCHANGED toServer
  /\ UNCHANGED <<up, player, toClient, run, request, batch, wait, cAmount,
                 cBase, history>>

\* garbageWait is set after the write returned.
SetWait ==
  /\ send = "setWait"
  /\ wait' = TRUE
  /\ send' = "idle"
  /\ UNCHANGED <<up, player, toServer, toClient, run, request, batch, ticking,
                 cAmount, cBase, history>>

SendStep == Tick \/ Build \/ Write \/ SetWait

\* Another client program sends what it likes.
SendJunk ==
  /\ Faulty /\ up
  /\ Len(toServer) + Len(toClient) < MaxFaulty
  /\ \E m \in [size : Amounts, base : Bases] : toServer' = Append(toServer, m)
  /\ junked' = TRUE
  /\ UNCHANGED <<up, player, toClient, run, request, send, batch, client, raced,
                 overtaken>>

-----------------------------------------------------------------------------
Init ==
  /\ up = FALSE
  /\ amount = 0 /\ total = 0 /\ base = NoBase /\ failed = 0
  /\ toServer = <<>> /\ toClient = <<>>
  /\ run = "idle" /\ request = [kind |-> "none"]
  /\ send = "idle" /\ batch = 0
  /\ ticking = FALSE /\ wait = FALSE /\ cAmount = 0 /\ cBase = NoBase
  /\ raced = FALSE /\ overtaken = FALSE /\ junked = FALSE

Next == Connect \/ HandleClientGarbage \/ RunStep \/ SendStep \/ SendJunk

Spec == Init /\ [][Next]_vars

\* Goroutines run, ticks come, and what was written arrives.
FairSpec ==
  /\ Spec
  /\ WF_vars(Connect) /\ WF_vars(HandleClientGarbage)
  /\ WF_vars(RunStep) /\ WF_vars(SendStep)

-----------------------------------------------------------------------------
\* Types of every variable.
TypeOK ==
  /\ up \in BOOLEAN
  /\ amount \in Amounts \cup {0} /\ total \in Nat
  /\ base \in Bases \cup {NoBase}
  /\ failed \in Nat
  /\ toServer \in Seq(Batch) /\ toClient \in Seq(Request \cup Ack)
  /\ run \in {"idle", "setAmount", "setBase", "clearWait"}
  /\ request \in Request \cup {[kind |-> "none"]}
  /\ send \in {"idle", "build", "write", "setWait"}
  /\ batch \in Amounts \cup {0}
  /\ ticking \in BOOLEAN /\ wait \in BOOLEAN
  /\ cAmount \in Amounts \cup {0} /\ cBase \in Bases \cup {NoBase}
  /\ {raced, overtaken, junked} \subseteq BOOLEAN

\* Once a player has a request, hashes are always due, in whole batches: the
\* count of HandleGarbage and the guard of sendGarbage (game_respond.go:218)
\* agree, so no request is completed without the next being made.
TotalIsDue == amount # 0 => total > 0 /\ total % amount = 0

\* The exchange is stop-and-wait: however the goroutines run, request, acks and
\* batches under way are never more than the request and the one batch the
\* client's initial garbageWait = false lets it send early, so neither
\* incoming queue can fill up with garbage.
FewInFlight == ~junked => Len(toServer) + Len(toClient) <= 2

\* The Go client is never counted as failing unless a tick comes while it handles
\* a request, as no request can overtake a batch made for the one before.
HonestNeverFails == failed > 0 => raced \/ junked

\* "Request an amount of 'garbage' from the client every few seconds"
\* (README.md:20): as long as the session is open, batches keep coming, unless the
\* reply to one was handled before garbageWait was set for it, or a tick came while a
\* request was handled.
GarbageKeepsComing ==
  []<>(~up \/ send = "write") \/ <>(overtaken \/ raced \/ junked)

===============================================================================
