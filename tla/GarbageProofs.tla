----------------------------- MODULE GarbageProofs -----------------------------
(***************************************************************************)
(* Theorems about Garbage, for any amounts, bases and numbers of batches:  *)
(* types, that hashes are always due in whole batches, that few messages   *)
(* are under way, and that the Go client's batches are right unless a tick *)
(* comes while it handles a request.                                       *)
(*                                                                         *)
(* The last two count tokens: what may still lead to a message.  A token   *)
(* is a message under way, a request being handled, or a sender that is    *)
(* about to write.  No step makes a token but Connect and SendJunk.        *)
(***************************************************************************)
EXTENDS Garbage, SequenceTheorems, TLAPS

-----------------------------------------------------------------------------
\* The inductive invariant

\* The goroutines have what the step they are at needs.
GoroutineInv ==
  /\ run # "idle" => request \in Request
  /\ send = "write" => batch \in Amounts

\* What is due is a number of batches.
DueInv == amount # 0 => \E k \in Nat \ {0} : total = amount * k

\* Before Connect nothing happens.
BeforeInv ==
  amount = 0 =>
    /\ ~up /\ failed = 0
    /\ toServer = <<>> /\ toClient = <<>>
    /\ run = "idle" /\ send = "idle" /\ ~ticking

One(cond) == IF cond THEN 1 ELSE 0

\* The sender is about to write, or a tick finds garbageWait clear.
Sending == send \in {"build", "write"}
MaySend == send = "idle" /\ ~wait

\* The first request and the early batch.
TokenInv ==
  ~junked =>
    Len(toServer) + Len(toClient) + One(run # "idle") + One(Sending \/ MaySend) <= 2

\* A tick that is not a race.
Due == MaySend /\ ticking /\ run = "idle"

\* Client and server agree on the request.
Agreed == cAmount = amount /\ cBase = base
AskedFor(m) == m.size = amount /\ m.base = base

\* Without a race there is one token, and whoever has it knows the last request.
InStepInv ==
  ~raced /\ ~junked =>
    /\ failed = 0
    /\ Len(toServer) + Len(toClient) + One(run # "idle") + One(Sending \/ Due) <= 1
    /\ toServer # <<>> => AskedFor(Head(toServer)) /\ Agreed
    /\ toClient # <<>> => \/ Head(toClient).kind = "request" /\ AskedFor(Head(toClient))
                          \/ Head(toClient).kind = "ack" /\ Agreed
    /\ run # "idle" => AskedFor(request)
    /\ run \in {"setBase", "clearWait"} => cAmount = amount
    /\ run = "clearWait" => cBase = base
    /\ Sending \/ Due => Agreed
    /\ send = "write" => batch = amount

IInv == TypeOK /\ GoroutineInv /\ DueInv /\ BeforeInv /\ TokenInv /\ InStepInv

-----------------------------------------------------------------------------
\* Queues and products

LEMMA Queues ==
  ASSUME NEW S, NEW q \in Seq(S)
  PROVE  /\ Len(q) \in Nat /\ (q = <<>> <=> Len(q) = 0)
         /\ q # <<>> => /\ Head(q) \in S /\ Tail(q) \in Seq(S)
                        /\ Len(Tail(q)) = Len(q) - 1
         /\ \A m \in S : /\ Append(q, m) \in Seq(S) /\ Len(Append(q, m)) = Len(q) + 1
                         /\ Append(q, m) # <<>>
                         /\ q = <<>> => Head(Append(q, m)) = m
                         /\ q # <<>> => Head(Append(q, m)) = Head(q)
<1>1. Len(q) \in Nat /\ (q = <<>> <=> Len(q) = 0)
  BY LenProperties, EmptySeq
<1>2. q # <<>> => Head(q) \in S /\ Tail(q) \in Seq(S) /\ Len(Tail(q)) = Len(q) - 1
  BY HeadTailProperties
<1>3. ASSUME NEW m \in S
      PROVE  /\ Append(q, m) \in Seq(S) /\ Len(Append(q, m)) = Len(q) + 1
             /\ Append(q, m) # <<>>
             /\ q = <<>> => Head(Append(q, m)) = m
             /\ q # <<>> => Head(Append(q, m)) = Head(q)
  <2>1. /\ Append(q, m) \in Seq(S) /\ Len(Append(q, m)) = Len(q) + 1
        /\ \A i \in 1..Len(q) : Append(q, m)[i] = q[i]
        /\ Append(q, m)[Len(q) + 1] = m
    BY AppendProperties
  <2>2. Append(q, m) # <<>>
    BY <1>1, <2>1, EmptySeq
  <2>4. Head(Append(q, m)) = Append(q, m)[1]
    BY <2>1, <2>2, HeadTailProperties
  <2>3. q # <<>> => Head(q) = q[1]
    BY HeadTailProperties
  <2> QED
    BY <1>1, <2>1, <2>2, <2>3, <2>4
<1> QED
  BY <1>1, <1>2, <1>3

\* Whole batches leave no rest.
LEMMA WholeBatches ==
  ASSUME NEW a \in Nat \ {0}, NEW k \in Nat \ {0}
  PROVE  a * k > 0 /\ (a * k) % a = 0
<1>1. a * k > 0
  OBVIOUS
<1>2. (a * k) % a = 0
  OBVIOUS
<1> QED
  BY <1>1, <1>2

-----------------------------------------------------------------------------
\* The steps of the client

LEMMA AckKeepsInv ==
  ASSUME IInv, HandleGarbageAck
  PROVE  IInv'
<1> USE DEF Batch, Request, Ack
<1>a. /\ toClient \in Seq(Request \cup Ack) /\ toClient # <<>>
      /\ toServer \in Seq(Batch)
  BY DEF IInv, TypeOK, HandleGarbageAck
<1>b. /\ Len(toClient) \in Nat /\ Len(toServer) \in Nat
      /\ Head(toClient) \in Request \cup Ack /\ toClient' = Tail(toClient)
      /\ Tail(toClient) \in Seq(Request \cup Ack)
      /\ Len(Tail(toClient)) = Len(toClient) - 1
      /\ toServer # <<>> => Len(toServer) > 0
      /\ Tail(toClient) # <<>> => Len(Tail(toClient)) > 0
  BY <1>a, Queues DEF HandleGarbageAck
<1>1. TypeOK'
  BY <1>b, ZenonT(40) DEF IInv, TypeOK, GoroutineInv, HandleGarbageAck, player, client, history
<1>2. GoroutineInv'
  BY <1>b DEF IInv, TypeOK, GoroutineInv, HandleGarbageAck, player, client, history
<1>3. DueInv'
  BY <1>b DEF IInv, DueInv, HandleGarbageAck, player, client, history
<1>4. BeforeInv'
  BY <1>b DEF IInv, BeforeInv, HandleGarbageAck, player, client, history
<1>5. TokenInv'
  BY <1>b DEF IInv, TypeOK, TokenInv, One, Sending, MaySend, HandleGarbageAck, player,
     client, history
<1>6. InStepInv'
  BY <1>b DEF IInv, TypeOK, InStepInv, One, Sending, MaySend, Due, Agreed, AskedFor,
     HandleGarbageAck, player, client, history
<1> QED
  BY <1>1, <1>2, <1>3, <1>4, <1>5, <1>6 DEF IInv

LEMMA RequestKeepsInv ==
  ASSUME IInv, HandleGarbageRequest
  PROVE  IInv'
<1> USE DEF Batch, Request, Ack
<1>a. /\ toClient \in Seq(Request \cup Ack) /\ toClient # <<>>
      /\ toServer \in Seq(Batch)
  BY DEF IInv, TypeOK, HandleGarbageRequest
<1>b. /\ Len(toClient) \in Nat /\ Len(toServer) \in Nat
      /\ Head(toClient) \in Request \cup Ack /\ toClient' = Tail(toClient)
      /\ Tail(toClient) \in Seq(Request \cup Ack)
      /\ Len(Tail(toClient)) = Len(toClient) - 1
      /\ toServer # <<>> => Len(toServer) > 0
      /\ Tail(toClient) # <<>> => Len(Tail(toClient)) > 0
  BY <1>a, Queues DEF HandleGarbageRequest
<1>1. TypeOK'
  BY <1>b DEF IInv, TypeOK, GoroutineInv, HandleGarbageRequest, player, client, history
<1>2. GoroutineInv'
  BY <1>b DEF IInv, TypeOK, GoroutineInv, HandleGarbageRequest, player, client, history
<1>3. DueInv'
  BY <1>b DEF IInv, DueInv, HandleGarbageRequest, player, client, history
<1>4. BeforeInv'
  BY <1>b DEF IInv, BeforeInv, HandleGarbageRequest, player, client, history
<1>5. TokenInv'
  BY <1>b DEF IInv, TypeOK, TokenInv, One, Sending, MaySend, HandleGarbageRequest,
     player, client, history
<1>6. InStepInv'
  BY <1>b DEF IInv, TypeOK, InStepInv, One, Sending, MaySend, Due, Agreed, AskedFor,
     HandleGarbageRequest, player, client, history
<1> QED
  BY <1>1, <1>2, <1>3, <1>4, <1>5, <1>6 DEF IInv

LEMMA SetAmountKeepsInv ==
  ASSUME IInv, SetAmount
  PROVE  IInv'
<1> USE DEF Request
<1>a. /\ toClient \in Seq(Request \cup Ack) /\ toServer \in Seq(Batch)
  BY DEF IInv, TypeOK
<1>b. /\ Len(toClient) \in Nat /\ Len(toServer) \in Nat
      /\ toServer # <<>> => Len(toServer) > 0
      /\ toClient # <<>> => Len(toClient) > 0
  BY <1>a, Queues
<1>1. TypeOK'
  BY <1>b DEF IInv, TypeOK, GoroutineInv, SetAmount, player, client, history
<1>2. GoroutineInv'
  BY <1>b DEF IInv, TypeOK, GoroutineInv, SetAmount, player, client, history
<1>3. DueInv'
  BY <1>b DEF IInv, DueInv, SetAmount, player, client, history
<1>4. BeforeInv'
  BY <1>b DEF IInv, BeforeInv, SetAmount, player, client, history
<1>5. TokenInv'
  BY <1>b DEF IInv, TypeOK, TokenInv, One, Sending, MaySend, SetAmount, player, client,
     history
<1>6. InStepInv'
  BY <1>b DEF IInv, TypeOK, InStepInv, One, Sending, MaySend, Due, Agreed, AskedFor,
     SetAmount, player, client, history
<1> QED
  BY <1>1, <1>2, <1>3, <1>4, <1>5, <1>6 DEF IInv

LEMMA SetBaseKeepsInv ==
  ASSUME IInv, SetBase
  PROVE  IInv'
<1> USE DEF Request
<1>a. /\ toClient \in Seq(Request \cup Ack) /\ toServer \in Seq(Batch)
  BY DEF IInv, TypeOK
<1>b. /\ Len(toClient) \in Nat /\ Len(toServer) \in Nat
      /\ toServer # <<>> => Len(toServer) > 0
      /\ toClient # <<>> => Len(toClient) > 0
  BY <1>a, Queues
<1>1. TypeOK'
  BY <1>b DEF IInv, TypeOK, GoroutineInv, SetBase, player, client, history
<1>2. GoroutineInv'
  BY <1>b DEF IInv, TypeOK, GoroutineInv, SetBase, player, client, history
<1>3. DueInv'
  BY <1>b DEF IInv, DueInv, SetBase, player, client, history
<1>4. BeforeInv'
  BY <1>b DEF IInv, BeforeInv, SetBase, player, client, history
<1>5. TokenInv'
  BY <1>b DEF IInv, TypeOK, TokenInv, One, Sending, MaySend, SetBase, player, client,
     history
<1>6. InStepInv'
  BY <1>b DEF IInv, TypeOK, InStepInv, One, Sending, MaySend, Due, Agreed, AskedFor,
     SetBase, player, client, history
<1> QED
  BY <1>1, <1>2, <1>3, <1>4, <1>5, <1>6 DEF IInv

LEMMA ClearWaitKeepsInv ==
  ASSUME IInv, ClearWait
  PROVE  IInv'
<1>a. /\ toClient \in Seq(Request \cup Ack) /\ toServer \in Seq(Batch)
  BY DEF IInv, TypeOK
<1>b. /\ Len(toClient) \in Nat /\ Len(toServer) \in Nat
      /\ toServer # <<>> => Len(toServer) > 0
      /\ toClient # <<>> => Len(toClient) > 0
  BY <1>a, Queues
<1>1. TypeOK'
  BY <1>b DEF IInv, TypeOK, GoroutineInv, ClearWait, player, client, history
<1>2. GoroutineInv'
  BY <1>b DEF IInv, TypeOK, GoroutineInv, ClearWait, player, client, history
<1>3. DueInv'
  BY <1>b DEF IInv, DueInv, ClearWait, player, client, history
<1>4. BeforeInv'
  BY <1>b DEF IInv, BeforeInv, ClearWait, player, client, history
<1>5. TokenInv'
  BY <1>b DEF IInv, TypeOK, TokenInv, One, Sending, MaySend, ClearWait, player, client,
     history
<1>6. InStepInv'
  BY <1>b DEF IInv, TypeOK, InStepInv, One, Sending, MaySend, Due, Agreed, AskedFor,
     ClearWait, player, client, history
<1> QED
  BY <1>1, <1>2, <1>3, <1>4, <1>5, <1>6 DEF IInv

LEMMA TickKeepsInv ==
  ASSUME IInv, Tick
  PROVE  IInv'
<1>a. /\ toClient \in Seq(Request \cup Ack) /\ toServer \in Seq(Batch)
  BY DEF IInv, TypeOK
<1>b. /\ Len(toClient) \in Nat /\ Len(toServer) \in Nat
      /\ toServer # <<>> => Len(toServer) > 0
      /\ toClient # <<>> => Len(toClient) > 0
  BY <1>a, Queues
<1>1. TypeOK'
  BY <1>b DEF IInv, TypeOK, GoroutineInv, Tick, player, client, history
<1>2. GoroutineInv'
  BY <1>b DEF IInv, TypeOK, GoroutineInv, Tick, player, client, history
<1>3. DueInv'
  BY <1>b DEF IInv, DueInv, Tick, player, client, history
<1>4. BeforeInv'
  BY <1>b DEF IInv, BeforeInv, Tick, player, client, history
<1>5. TokenInv'
  BY <1>b DEF IInv, TypeOK, TokenInv, One, Sending, MaySend, Tick, player, client, history
<1>6. InStepInv'
  BY <1>b DEF IInv, TypeOK, InStepInv, One, Sending, MaySend, Due, Agreed, AskedFor,
     Tick, player, client, history
<1> QED
  BY <1>1, <1>2, <1>3, <1>4, <1>5, <1>6 DEF IInv

LEMMA BuildKeepsInv ==
  ASSUME IInv, Build
  PROVE  IInv'
<1>a. /\ toClient \in Seq(Request \cup Ack) /\ toServer \in Seq(Batch)
  BY DEF IInv, TypeOK
<1>b. /\ Len(toClient) \in Nat /\ Len(toServer) \in Nat
      /\ toServer # <<>> => Len(toServer) > 0
      /\ toClient # <<>> => Len(toClient) > 0
  BY <1>a, Queues
<1>1. TypeOK'
  BY <1>b DEF IInv, TypeOK, GoroutineInv, Build, player, client, history
<1>2. GoroutineInv'
  BY <1>b DEF IInv, TypeOK, GoroutineInv, Build, player, client, history
<1>3. DueInv'
  BY <1>b DEF IInv, DueInv, Build, player, client, history
<1>4. BeforeInv'
  BY <1>b DEF IInv, BeforeInv, Build, player, client, history
<1>5. TokenInv'
  BY <1>b DEF IInv, TypeOK, TokenInv, One, Sending, MaySend, Build, player, client, history
<1>6. InStepInv'
  BY <1>b DEF IInv, TypeOK, InStepInv, One, Sending, MaySend, Due, Agreed, AskedFor,
     Build, player, client, history
<1> QED
  BY <1>1, <1>2, <1>3, <1>4, <1>5, <1>6 DEF IInv

LEMMA SetWaitKeepsInv ==
  ASSUME IInv, SetWait
  PROVE  IInv'
<1>a. /\ toClient \in Seq(Request \cup Ack) /\ toServer \in Seq(Batch)
  BY DEF IInv, TypeOK
<1>b. /\ Len(toClient) \in Nat /\ Len(toServer) \in Nat
      /\ toServer # <<>> => Len(toServer) > 0
      /\ toClient # <<>> => Len(toClient) > 0
  BY <1>a, Queues
<1>1. TypeOK'
  BY <1>b DEF IInv, TypeOK, GoroutineInv, SetWait, player, client, history
<1>2. GoroutineInv'
  BY <1>b DEF IInv, TypeOK, GoroutineInv, SetWait, player, client, history
<1>3. DueInv'
  BY <1>b DEF IInv, DueInv, SetWait, player, client, history
<1>4. BeforeInv'
  BY <1>b DEF IInv, BeforeInv, SetWait, player, client, history
<1>5. TokenInv'
  BY <1>b DEF IInv, TypeOK, TokenInv, One, Sending, MaySend, SetWait, player, client,
     history
<1>6. InStepInv'
  BY <1>b DEF IInv, TypeOK, InStepInv, One, Sending, MaySend, Due, Agreed, AskedFor,
     SetWait, player, client, history
<1> QED
  BY <1>1, <1>2, <1>3, <1>4, <1>5, <1>6 DEF IInv

LEMMA WriteKeepsInv ==
  ASSUME IInv, Write
  PROVE  IInv'
<1>a. /\ toClient \in Seq(Request \cup Ack) /\ toServer \in Seq(Batch)
  BY DEF IInv, TypeOK
<1>b. /\ Len(toClient) \in Nat /\ Len(toServer) \in Nat
      /\ toServer # <<>> => Len(toServer) > 0
      /\ toClient # <<>> => Len(toClient) > 0
  BY <1>a, Queues
<1>c. \/ UNCHANGED toServer
      \/ /\ up /\ send = "write"
         /\ \E b \in BaseRead : toServer' = Append(toServer, [size |-> batch, base |-> b])
  BY DEF Write
<1>d. /\ BaseRead \subseteq Bases \cup {NoBase, TornBase}
      /\ run # "setBase" => BaseRead = {cBase}
  BY DEF IInv, TypeOK, GoroutineInv, BaseRead, Request
<1>e. \/ UNCHANGED toServer
      \/ /\ up /\ toServer' \in Seq(Batch) /\ Len(toServer') = Len(toServer) + 1
         /\ toServer = <<>> /\ run # "setBase" =>
              Head(toServer').size = batch /\ Head(toServer').base = cBase
  <2>1. CASE UNCHANGED toServer
    BY <2>1
  <2>2. CASE up /\ send = "write" /\ ~UNCHANGED toServer
    <3>1. PICK b \in BaseRead : toServer' = Append(toServer, [size |-> batch, base |-> b])
      BY <1>c, <2>2
    <3>2. [size |-> batch, base |-> b] \in Batch
      BY <1>d, <2>2 DEF IInv, GoroutineInv, Batch
    <3>3. /\ toServer' \in Seq(Batch) /\ Len(toServer') = Len(toServer) + 1
          /\ toServer = <<>> => Head(toServer') = [size |-> batch, base |-> b]
      BY <1>a, <3>1, <3>2, Queues
    <3>4. run # "setBase" => b = cBase
      BY <1>d
    <3> QED
      BY <2>2, <3>3, <3>4
  <2> QED
    BY <1>c, <2>1, <2>2
<1>1. TypeOK'
  BY <1>b, <1>e, ZenonT(40) DEF IInv, TypeOK, GoroutineInv, Write, player, client, history
<1>2. GoroutineInv'
  BY <1>b, <1>e DEF IInv, TypeOK, GoroutineInv, Write, player, client, history
<1>3. DueInv'
  BY <1>b, <1>e DEF IInv, DueInv, Write, player, client, history
<1>4. BeforeInv'
  BY <1>b, <1>e DEF IInv, BeforeInv, Write, player, client, history
<1>5. TokenInv'
  BY <1>b, <1>e DEF IInv, TypeOK, TokenInv, One, Sending, MaySend, Write, player, client,
     history
<1>6. InStepInv'
  BY <1>b, <1>e DEF IInv, TypeOK, InStepInv, One, Sending, MaySend, Due, Agreed,
     AskedFor, Write, player, client, history
<1> QED
  BY <1>1, <1>2, <1>3, <1>4, <1>5, <1>6 DEF IInv

\* Another client is outside of what the last two say.
LEMMA JunkKeepsInv ==
  ASSUME IInv, SendJunk
  PROVE  IInv'
<1>a. /\ toClient \in Seq(Request \cup Ack) /\ toServer \in Seq(Batch)
      /\ toServer' \in Seq(Batch)
  <2>1. PICK m \in [size : Amounts, base : Bases] : toServer' = Append(toServer, m)
    BY DEF SendJunk
  <2>2. m \in Batch
    BY DEF Batch
  <2> QED
    BY <2>1, <2>2, Queues DEF IInv, TypeOK
<1>1. TypeOK'
  BY <1>a DEF IInv, TypeOK, GoroutineInv, SendJunk, player, client, history
<1>2. GoroutineInv'
  BY <1>a DEF IInv, TypeOK, GoroutineInv, SendJunk, player, client, history
<1>3. DueInv'
  BY <1>a DEF IInv, DueInv, SendJunk, player, client, history
<1>4. BeforeInv'
  BY <1>a DEF IInv, BeforeInv, SendJunk, player, client, history
<1>5. TokenInv'
  BY <1>a DEF IInv, TypeOK, TokenInv, One, Sending, MaySend, SendJunk, player, client,
     history
<1>6. InStepInv'
  BY <1>a DEF IInv, TypeOK, InStepInv, One, Sending, MaySend, Due, Agreed, AskedFor,
     SendJunk, player, client, history
<1> QED
  BY <1>1, <1>2, <1>3, <1>4, <1>5, <1>6 DEF IInv

-----------------------------------------------------------------------------
\* The steps of the server

\* What a write to the client leaves under way.
LEMMA SendClientGives ==
  ASSUME TypeOK, NEW m \in Request \cup Ack, SendClient(m)
  PROVE  /\ toClient' \in Seq(Request \cup Ack)
         /\ Len(toClient') <= Len(toClient) + 1
         /\ toClient = <<>> /\ toClient' # <<>> => Head(toClient') = m
<1>1. toClient \in Seq(Request \cup Ack)
  BY DEF TypeOK
<1>2. toClient' = toClient \/ toClient' = Append(toClient, m)
  BY DEF SendClient
<1> QED
  BY <1>1, <1>2, Queues

LEMMA SendGarbageGives ==
  ASSUME TypeOK, SendGarbage
  PROVE  /\ amount' \in Amounts /\ base' \in Bases /\ total' \in Nat
         /\ \E k \in Nat \ {0} : total' = amount' * k
         /\ toClient' \in Seq(Request \cup Ack)
         /\ Len(toClient') <= Len(toClient) + 1
         /\ toClient = <<>> /\ toClient' # <<>> =>
              /\ Head(toClient').kind = "request"
              /\ Head(toClient').size = amount' /\ Head(toClient').base = base'
<1>1. PICK a \in Amounts, b \in Bases, n \in Batches :
        /\ amount' = a /\ total' = a * n /\ base' = b
        /\ SendClient([kind |-> "request", size |-> a, base |-> b])
  BY DEF SendGarbage
<1>2. [kind |-> "request", size |-> a, base |-> b] \in Request \cup Ack
  BY DEF Request
<1>3. a \in Nat \ {0} /\ n \in Nat \ {0} /\ a * n \in Nat
  BY GarbageAssumption
<1>4. /\ toClient' \in Seq(Request \cup Ack)
      /\ Len(toClient') <= Len(toClient) + 1
      /\ toClient = <<>> /\ toClient' # <<>> =>
           Head(toClient') = [kind |-> "request", size |-> a, base |-> b]
  BY <1>1, <1>2, SendClientGives, Zenon
<1> QED
  BY <1>1, <1>3, <1>4

LEMMA ConnectKeepsInv ==
  ASSUME IInv, Connect
  PROVE  IInv'
<1>1. amount = 0 /\ up' = TRUE /\ SendGarbage
      /\ UNCHANGED <<failed, toServer, run, request, send, batch, client, history>>
  BY DEF Connect
<1>2. /\ amount' \in Amounts /\ base' \in Bases /\ total' \in Nat
      /\ \E k \in Nat \ {0} : total' = amount' * k
      /\ toClient' \in Seq(Request \cup Ack)
      /\ Len(toClient') <= Len(toClient) + 1
      /\ toClient = <<>> /\ toClient' # <<>> =>
           /\ Head(toClient').kind = "request"
           /\ Head(toClient').size = amount' /\ Head(toClient').base = base'
  BY <1>1, SendGarbageGives DEF IInv
<1>3. /\ failed = 0 /\ run = "idle" /\ send = "idle" /\ ~ticking
      /\ toServer = <<>> /\ toClient = <<>> /\ Len(toServer) = 0 /\ Len(toClient) = 0
      /\ Len(toClient') \in Nat
  <2>1. toServer = <<>> /\ toClient = <<>>
    BY <1>1 DEF IInv, BeforeInv
  <2> QED
    BY <1>1, <1>2, <2>1, Queues, EmptySeq DEF IInv, BeforeInv
<1>4. TypeOK'
  BY <1>1, <1>2 DEF IInv, TypeOK, client, history
<1>5. GoroutineInv'
  BY <1>1 DEF IInv, GoroutineInv
<1>6. DueInv'
  BY <1>2 DEF DueInv
<1>7. BeforeInv'
  BY <1>2, GarbageAssumption DEF BeforeInv
<1>8. TokenInv'
  BY <1>1, <1>2, <1>3 DEF TokenInv, One, Sending, MaySend, client, history
<1>9. InStepInv'
  BY <1>1, <1>2, <1>3 DEF InStepInv, One, Sending, MaySend, Due, Agreed, AskedFor,
     client, history
<1> QED
  BY <1>4, <1>5, <1>6, <1>7, <1>8, <1>9 DEF IInv

\* What is due after a batch that is not the last.
LEMMA LessIsDue ==
  ASSUME NEW a \in Nat \ {0}, NEW k \in Nat \ {0}, a * k > a
  PROVE  k - 1 \in Nat \ {0} /\ a * k - a = a * (k - 1)
<1>1. k # 1
  OBVIOUS
<1> QED
  BY <1>1

LEMMA HandleKeepsInv ==
  ASSUME IInv, HandleClientGarbage
  PROVE  IInv'
<1> DEFINE m == Head(toServer)
<1>1. /\ amount # 0 /\ toServer # <<>> /\ toServer' = Tail(toServer)
      /\ WrongSize(m) \/ WrongHash(m) \/ RightBatch(m)
      /\ UNCHANGED <<run, request, send, batch, client, history>>
  BY DEF HandleClientGarbage
<1>2. toServer \in Seq(Batch) /\ toClient \in Seq(Request \cup Ack)
  BY DEF IInv, TypeOK
<1>3. /\ m \in Batch /\ Len(toServer) \in Nat \ {0} /\ Len(toClient) \in Nat
      /\ toClient # <<>> => Len(toClient) > 0
      /\ toServer' \in Seq(Batch) /\ Len(toServer') = Len(toServer) - 1
      /\ toServer' # <<>> => Len(toServer') > 0
  BY <1>1, <1>2, Queues
<1>4. amount \in Nat \ {0} /\ m.size \in Nat
  BY <1>1, <1>3, GarbageAssumption DEF IInv, TypeOK, Batch
\* The server's fields and the reply, whatever the batch was.
<1>5. /\ up' \in BOOLEAN /\ amount' \in Amounts /\ total' \in Nat
      /\ base' \in Bases \cup {NoBase} /\ failed' \in Nat
      /\ toClient' \in Seq(Request \cup Ack) /\ Len(toClient') <= Len(toClient) + 1
      /\ \E k \in Nat \ {0} : total' = amount' * k
  <2>1. PICK k \in Nat \ {0} : total = amount * k
    BY <1>1 DEF IInv, DueInv
  <2>2. CASE WrongSize(m)
    BY <1>1, <1>2, <1>3, <2>1, <2>2 DEF WrongSize, Fail, IInv, TypeOK
  <2>3. CASE WrongHash(m)
    <3>1. up' \in BOOLEAN /\ failed' \in Nat /\ SendGarbage
      BY <2>3 DEF WrongHash, Fail, IInv, TypeOK
    <3> QED
      BY <3>1, SendGarbageGives DEF IInv
  <2>4. CASE RightBatch(m)
    <3>1. up' \in BOOLEAN /\ failed' = 0
      BY <2>4 DEF RightBatch, IInv, TypeOK
    <3>2. CASE total <= m.size
      <4>1. SendGarbage
        BY <2>4, <3>2 DEF RightBatch
      <4> QED
        BY <3>1, <4>1, SendGarbageGives DEF IInv
    <3>3. CASE ~(total <= m.size)
      <4>1. /\ total' = total - m.size /\ m.size = amount
            /\ SendClient([kind |-> "ack", left |-> total'])
            /\ UNCHANGED <<amount, base>>
        BY <2>4, <3>3 DEF RightBatch
      <4>2. total' \in Nat /\ [kind |-> "ack", left |-> total'] \in Request \cup Ack
        BY <1>4, <3>3, <4>1 DEF IInv, TypeOK, Ack
      <4>3. toClient' \in Seq(Request \cup Ack) /\ Len(toClient') <= Len(toClient) + 1
        BY <4>1, <4>2, SendClientGives DEF IInv
      <4>4. k - 1 \in Nat \ {0} /\ total' = amount' * (k - 1)
        <5>1. amount * k > amount
          BY <1>4, <2>1, <3>3, <4>1 DEF IInv, TypeOK
        <5> QED
          BY <1>4, <2>1, <4>1, <5>1, LessIsDue
      <4> QED
        BY <1>1, <3>1, <4>1, <4>2, <4>3, <4>4 DEF IInv, TypeOK
    <3> QED
      BY <3>2, <3>3
  <2> QED
    BY <1>1, <2>2, <2>3, <2>4
<1>6. Len(toClient') \in Nat /\ (toClient' # <<>> => Len(toClient') > 0)
  BY <1>5, Queues
\* A batch of a client in step is right, and the reply is what is asked for now.
<1>7. ASSUME ~raced, ~junked
      PROVE  /\ failed' = 0 /\ toClient = <<>> /\ Agreed
             /\ toClient' # <<>> =>
                  \/ Head(toClient').kind = "request" /\ AskedFor(Head(toClient))'
                  \/ Head(toClient').kind = "ack" /\ UNCHANGED <<amount, base>>
  <2>1. AskedFor(m) /\ Agreed /\ toClient = <<>>
    BY <1>1, <1>3, <1>7 DEF IInv, InStepInv, One
  <2>2. RightBatch(m)
    BY <1>1, <2>1 DEF WrongSize, WrongHash, AskedFor
  <2>3. CASE total <= m.size
    <3>1. SendGarbage
      BY <2>2, <2>3 DEF RightBatch
    <3> QED
      BY <2>1, <2>2, <3>1, SendGarbageGives DEF IInv, RightBatch, AskedFor
  <2>4. CASE ~(total <= m.size)
    <3>1. /\ SendClient([kind |-> "ack", left |-> total'])
          /\ UNCHANGED <<amount, base>>
      BY <2>2, <2>4 DEF RightBatch
    <3>2. [kind |-> "ack", left |-> total'] \in Request \cup Ack
      BY <1>5 DEF Ack
    <3>3. toClient' # <<>> => Head(toClient') = [kind |-> "ack", left |-> total']
      BY <2>1, <3>1, <3>2, SendClientGives DEF IInv
    <3> QED
      BY <2>1, <2>2, <3>1, <3>3 DEF RightBatch
  <2> QED
    BY <2>3, <2>4
<1> HIDE DEF m
<1>8. TypeOK'
  BY <1>1, <1>3, <1>5 DEF IInv, TypeOK, client, history
<1>9. GoroutineInv'
  BY <1>1 DEF IInv, GoroutineInv
<1>10. DueInv' /\ BeforeInv'
  BY <1>5, GarbageAssumption DEF DueInv, BeforeInv
<1>11. TokenInv'
  BY <1>1, <1>3, <1>5, <1>6 DEF IInv, TypeOK, TokenInv, One, Sending, MaySend, client,
     history
<1>12. InStepInv'
  <2>1. SUFFICES ASSUME ~raced', ~junked' PROVE InStepInv'
    BY DEF InStepInv
  <2>2. ~raced /\ ~junked
    BY <1>1, <2>1 DEF history
  <2>3. /\ toServer' = <<>> /\ run = "idle" /\ ~Sending /\ ~Due
        /\ Len(toServer) + Len(toClient) = 1
    BY <1>1, <1>3, <2>2 DEF IInv, InStepInv, One
  <2>4. run' = "idle" /\ ~Sending' /\ ~Due' /\ ~raced /\ ~junked
    BY <1>1, <2>2, <2>3 DEF Sending, MaySend, Due, client, history
  <2>5. Len(toServer') = 0 /\ Len(toClient') <= 1
    BY <1>3, <1>5, <1>6, <1>7, <2>2, <2>3, EmptySeq
  <2>6. toClient' # <<>> =>
          \/ Head(toClient').kind = "request" /\ AskedFor(Head(toClient))'
          \/ Head(toClient').kind = "ack" /\ Agreed'
    BY <1>1, <1>7, <2>2 DEF Agreed, client
  <2>7. failed' = 0 /\ send' # "write"
    BY <1>7, <2>2, <2>4 DEF Sending
  <2> QED
    BY <1>6, <2>3, <2>4, <2>5, <2>6, <2>7 DEF InStepInv, One
<1> QED
  BY <1>8, <1>9, <1>10, <1>11, <1>12 DEF IInv

-----------------------------------------------------------------------------
LEMMA InitInv == Init => IInv
<1> SUFFICES ASSUME Init PROVE IInv
  OBVIOUS
<1>1. <<>> \in Seq(Batch) /\ <<>> \in Seq(Request \cup Ack) /\ Len(<<>>) = 0
  BY EmptySeq
<1>2. TypeOK
  BY <1>1 DEF Init, TypeOK
<1>3. GoroutineInv /\ DueInv /\ BeforeInv
  BY DEF Init, GoroutineInv, DueInv, BeforeInv
<1>4. TokenInv
  BY <1>1 DEF Init, TokenInv, One, Sending, MaySend
<1>5. InStepInv
  BY <1>1 DEF Init, InStepInv, One, Sending, MaySend, Due
<1> QED
  BY <1>2, <1>3, <1>4, <1>5 DEF IInv

LEMMA NextKeepsInv == IInv /\ [Next]_vars => IInv'
<1> SUFFICES ASSUME IInv, [Next]_vars PROVE IInv'
  OBVIOUS
<1>1. CASE Connect
  BY <1>1, ConnectKeepsInv
<1>2. CASE HandleClientGarbage
  BY <1>2, HandleKeepsInv
<1>3. CASE RunStep
  BY <1>3, AckKeepsInv, RequestKeepsInv, SetAmountKeepsInv, SetBaseKeepsInv,
     ClearWaitKeepsInv DEF RunStep
<1>4. CASE SendStep
  BY <1>4, TickKeepsInv, BuildKeepsInv, WriteKeepsInv, SetWaitKeepsInv DEF SendStep
<1>5. CASE SendJunk
  BY <1>5, JunkKeepsInv
<1>6. CASE UNCHANGED vars
  BY <1>6 DEF vars, player, client, history, IInv, TypeOK, GoroutineInv, DueInv, BeforeInv,
     TokenInv, InStepInv, Sending, MaySend, Due, Agreed, AskedFor
<1> QED
  BY <1>1, <1>2, <1>3, <1>4, <1>5, <1>6 DEF Next

LEMMA AlwaysIInv == Spec => []IInv
BY InitInv, NextKeepsInv, PTL DEF Spec

\* The fields of the player, of the client and of their goroutines keep their types:
\* what is due never goes below zero (game_respond.go, game_handlers.go, client.go).
THEOREM GarbageTypeCorrect == Spec => []TypeOK
<1>1. IInv => TypeOK
  BY DEF IInv
<1> QED
  BY <1>1, AlwaysIInv, PTL

\* Hashes are always due, in whole batches: HandleGarbage and the guard of sendGarbage
\* agree on when a request is done, whatever amounts and counts are drawn.
THEOREM AlwaysSomethingDue == Spec => []TotalIsDue
<1>1. IInv => TotalIsDue
  <2> SUFFICES ASSUME IInv, amount # 0 PROVE total > 0 /\ total % amount = 0
    BY DEF TotalIsDue
  <2>1. PICK k \in Nat \ {0} : total = amount * k
    BY DEF IInv, DueInv
  <2>2. amount \in Nat \ {0}
    BY GarbageAssumption DEF IInv, TypeOK
  <2> QED
    BY <2>1, <2>2, WholeBatches
<1> QED
  BY <1>1, AlwaysIInv, PTL

\* With the Go client no more than two messages of the exchange are under way, however
\* its two goroutines and the server's handler take turns (client.go).
THEOREM StopAndWait == Spec => []FewInFlight
<1>1. IInv => FewInFlight
  <2> SUFFICES ASSUME IInv, ~junked PROVE Len(toServer) + Len(toClient) <= 2
    BY DEF FewInFlight
  <2>1. Len(toServer) \in Nat /\ Len(toClient) \in Nat
    BY Queues DEF IInv, TypeOK
  <2> QED
    BY <2>1 DEF IInv, TokenInv, One
<1> QED
  BY <1>1, AlwaysIInv, PTL

\* No batch of the Go client is refused unless a tick came while it handled a request.
THEOREM OnlyRacesFail == Spec => []HonestNeverFails
<1>1. IInv => HonestNeverFails
  BY DEF IInv, TypeOK, InStepInv, HonestNeverFails
<1> QED
  BY <1>1, AlwaysIInv, PTL

===============================================================================
