# Verification of simpleWT

simpleWT is a WebTransport game server with a Go load-test client and an unfinished
Svelte client. Clients log in over HTTPS, get a one-time transport code, open a
WebTransport connection with it, and then exchange capnp packets on one stream: moves
and chats that are broadcast to everybody, heartbeats, and "garbage", batches of hashes
the server asks for and checks.

This directory holds TLA+ models of the parts of it that are hard to test, the TLC
configurations that check them, and proofs that TLAPS checks. Paths below are relative to
`src/`; the Go files without a directory are in `src/backend/`. `PROJECT.json` is the
machine-readable index: it maps every definition that models code to its lines, and lists
the runs, the mutants that show each property can fail, the findings and the hazards.

## 1. Inventory

| Component | Source | State | Operations |
|---|---|---|---|
| Sessions | `session.go` | `SessionManager.sessions` (under `mu`); per `Session`: `conn`, `stream`, `Active`, `LastActive`, `Closing`, `incoming`, writer and reader mutexes. No mutex guards the session's own fields | `CreateSession`, `GetValidSession`, `Start`, `Reconnect`, `Close`, `HandleStream`, `StartHeartbeat`, `Run`, `pruneInactive`, `Shutdown`, `QueueMessage` |
| Server and handshake | `webtransport.go` | the server's `sessions`, `db`, `world` pointers | `HandleLogin`, `verifyWT`, `handleWT`, `Stop` |
| Login and codes | `db.go` | users by id and name, transport codes with expiry; one Mutex each | `GetUser`, `NewTransport`, `VerifyTransport`, `pruneTransport`, `Login` |
| Game world | `game.go`, `game_handlers.go`, `game_respond.go` | `Players` (under `pmu`, not everywhere), position, garbage counters per player | `Connect`, `Disconnect`, `Reconnect`, `Broadcast`, `HandleClientMove`, `HandleChat`, `HandleClientGarbage`, `sendGarbage`, `sendGarbageAck`, `sendPlayers`, `movePlayer` |
| Packets | `packet.go`, `capnext/marshal.go` | a writer's reusable buffer, a reader's partial frame | `SendStream`, `HandleStream`, `MarshalThree`, `Expand` |
| Heartbeat timing | `session.go`, `session_handlers.go` | ping and wait tickers, `missedPings` | `StartHeartbeat`, `HandlePing`, `HandlePong` |
| Go client | `client.go`, `client_handlers.go`, `cmd/client/client.go` | `Closing`, `incoming`, `garbageTicker/Wait/Amount/Base`, known players | `ClientConnect`, `HandleStream`, `Run`, `runGarbage`, `Close`, handlers |
| Web client | `frontend/src/lib/stores/*.ts`, `frontend/src/lib/handlers/*.ts` | player list, chat list, garbage store, stream buffer | `#readStream`, handlers for every packet |
| Rest | `tls.go`, `middleware.go`, `cpnp/`, Svelte pages | none that changes | certificate, HTTP chain, generated accessors, drawing |

How they meet: the `/wt` handler calls the code database, then the session manager, then
the session, then the world, each under that component's own lock and never under one that
spans two of them. A session's three goroutines (reader, heartbeat, packet loop) call back
into `Close`; the janitor (`SessionManager.Run`) calls `world.Disconnect` with `mu` held;
packet handlers run in the packet loop under `reader.mu` and write to other sessions'
streams through `Broadcast`. The Go client has the same reader and packet loop, and a
further goroutine that sends garbage from fields the packet loop writes.

Where it is hard:

* **No lock on a `Session`.** Handler, reader, heartbeat, packet loop, janitor and
  shutdown read and write the same fields. `Close` tests, closes and clears `Closing` in
  three steps, and stamps `LastActive` after it cleared `Active`.
* **Sessions outlive connections.** A reconnect puts a new connection, stream and
  channel into an old object whose previous goroutines may still be running, and those
  read the object's fields anew.
* **Two registries.** `SessionManager.sessions` and `GameWorld.Players` have to agree and
  share no lock.
* **Check, unlock, use.** `GetValidSession` returns a pointer; `VerifyTransport` prunes in
  one critical section and looks up in another; `movePlayer` looks a player up twice.
* **Failure half way.** `Start` may fail before there is a stream, and the world is told
  of the session all the same.
* **Backpressure.** Every queue and stream is bounded, and broadcasts write to all streams
  under locks.
* **Unguarded client fields.** The garbage exchange is stop-and-wait over a flag two
  goroutines set without order.

What makes each part correct:

* *Sessions*: `Close` never panics however often it runs at once; manager and world know
  the same sessions; whoever is served is in the world; the player of a lost client goes; a
  goroutine of a dead connection ends and does no harm to the next; a replaced connection
  is closed.
* *Codes*: one id per name; a code admits its owner, once, in time; a client is turned
  away only for a reason.
* *Garbage*: the two sides agree on what is due; an honest client is not counted as
  failing; at most the batches of a stop-and-wait exchange are in flight; it does not stop.
* *World*: players leave and join consistently in every client's view; no send blocks all.
* *Packets*: frames arrive as they were sent, whatever the chunks.

## 2. Modules

| Module | Models | Extended by |
|---|---|---|
| `Session` | `session.go`, `handleWT`, `Stop`, the reader's control in `packet.go`, membership in the world | `MCSession`, `SessionProofs` |
| `World` | `Players`, `pmu`, the world's `writer.mu`; connect, disconnect, reconnect, moves, chats, `sendPlayers` and their broadcasts; what each client's stream has been sent | `Roster` |
| `Roster` | the web client's player list, a variable that each message `World` sends changes | `MCWorld`, `WorldProofs` |
| `Locks` | every mutex of the server, in which order it is taken, and every write to a stream made under one | `MCLocks`, `LocksProofs` |
| `Delivery` | packets with identities, from a connection's reader through `incoming` to the packet loops, across reconnects | `MCDelivery`, `DeliveryProofs` |
| `Frames` | `SendStream`, `MarshalThree`'s buffer, `HandleStream` and `#readStream`, byte by byte | `MCFrames`, `FramesProofs` |
| `Client` | a Go client's three goroutines, its `Close`, and `main` | `MCClient`, `ClientProofs` |
| `Garbage` | the exchange of one connection, server and Go client | `MCGarbage`, `GarbageProofs` |
| `LoginCodes` | `db.go` with `HandleLogin` and `verifyWT` | `MCLoginCodes`, `LoginCodesProofs` |
| `Ticket` | what the database promises: the specification `LoginCodes` implements | |
| `*Proofs` | the theorems of section 6, one module for each; `WorldProofs` has `Roster`'s too | |

The modules overlap where one component's inside is another's single step. `Session` has
each call of the world as one step, `World` its inside. `World` writes to streams that
never block and `Locks` to streams that do. `Session` counts the packets in `incoming`,
`Delivery` names them, `Frames` says how they became packets. `Client` leaves open which
ticks send, `Garbage` decides it. No module uses a RECURSIVE operator.

### Session

A login is named by its *handshake* `h`, one run of `handleWT` after the code was
verified. Everything a login creates takes that name: its connection (`h \in lost`,
`h \in connClosed`), the stream and the `Closing` channel `Start` makes, and the
goroutines `Handler(h)`, `Reader(h)`, `Beat(h)`, `Run(h)`. A `*Session` is named by the
handshake that created it, and `obj[h]` is the object a handshake works on: itself for a
new session, an earlier handshake's for a reconnect. `Stop(s)` is the thread that closes
session `s` in a shutdown.

| Variable | Code |
|---|---|
| `active`, `lapsed`, `conn`, `stream`, `closing`, `queued` | `Active`, `LastActive` older than five minutes, `conn`, `stream`, `Closing`, `len(incoming)` |
| `seen` | the channel a `select` or `HandleStream` evaluated and is watching |
| `sessions`, `players`, `joined` | `SessionManager.sessions`, keys of `GameWorld.Players`, whom the world called `sendPlayers` for |
| `server`, `janitor`, `todo`, `victim` | `Stop`'s progress, `pruneInactive`'s loop |
| `pc` | where each goroutine is |
| `crashed` | a panic outside an HTTP handler has ended the process |

The grain: one step per access to a field of a `*Session` that another goroutine may
touch, so `Close` is six steps; one step for what happens under `mu`, except
`pruneInactive` and `Shutdown`, which are loops and keep everybody else out with
`Unlocked`. Three things are coarser than the code. `Teardown` does the cancel of the
stream and the close of the connection, which hang together through `s.stream` and
`s.conn`, in one step. A call of the world is one step with the broadcast it makes. The
first ping of `StartHeartbeat` is left out, as its error is only logged. The writers' mutexes are not in
the model, which gives it more behaviours than the code has, never fewer, for safety; a
panic of `playerConnectedSend` that leaves one locked belongs to `Locks`.

Panics are modelled as Go has them: `close` of a closed or nil channel, a method call on
the nil manager after `Stop`, and a write to a nil `*webtransport.Stream` inside a non-nil
`io.Writer`. Those of the HTTP handler are recovered by net/http and end the handler; the
others end the process.

### World

Clients are named once: `c` is a session, the player made for it and the client at the
other end. `Join(c)` is the HTTP handler inside `Connect` or `Reconnect`, `Loop(c)` the
packet loop inside `movePlayer` or `sendChat`, `Janitor` is `pruneInactive` inside
`Disconnect`. `writer` is the holder of `GameWorld.writer.mu`; `pmu` is only held over
several steps by `Broadcast`, so "somebody is in `cast`" is its read lock. `sent[c]` is
everything written to the stream `c` has now; messages keep who they are about and, for a
move or a list, where. `nr` numbers broadcasts and is a history variable, like `back` and
`packets`.

A broadcast is a step for the mutex, one per stream, and one to give the mutex back.
`sendPlayers` collects in one step and sends in another. `movePlayer` writes X and Y in
two, each indexing `Players` anew; if the player is gone that is a nil pointer and the
process ends (`NoPlayer`). `Disconnect` deletes from the map without `pmu`: if any other
thread is at an access of the map, Go may end the process, so `crashed` may become true.
The last index of `movePlayer`, for the unlock, is a step with the write of Y: a player
that is gone when it comes to it ends the process with Y written (`NoPlayer`).

`Session` and `World` overlap in who is in `Players`: `Session` has the calls as single
steps among the session's own, `World` has their insides and takes from `Session` only
what it allows: a session closes at any time after `Start`, an evicted one is closed, a
client returns to a closed one, and packets queued before a close are still handled.

### LoginCodes and Ticket

`LoginCodes` has one step per critical section: a login is `GetUser`, `PruneForLogin`,
`NewTransport`; a verification is `PruneForVerify`, then `Accept` or `Reject`. The clock
(`Tick`) moves between any two. `Ticket` knows nothing of maps and pruning: a login is
issued a ticket, a ticket is shown and admits its owner once, unless it was withdrawn
after its time. `TicketSpec` is `Ticket` under the refinement mapping in `LoginCodes`.

### Garbage

The server's handler for a batch is one step: it runs under `reader.mu`, and its reply is
its last action. The client is two goroutines and one step per access to a shared field:
`HandleGarbageRequest` assigns amount, base and wait in three steps while `runGarbage`
allocates, hashes and sets wait in three others. `garbageBase` is a byte slice that is
read without a lock while it is assigned, so a batch hashed meanwhile may use the old
base, the new one or a torn one. Hashes are abstracted to the base they were made with,
ticker periods to "ticking or not".

`overtaken` and `raced` are histories of two races: a reply that was handled before
`garbageWait` was set for its batch, and a tick that fell into `HandleGarbageRequest`.

### Roster

`ClientStore` keeps an array of players and a map from a player's id to an index; index 1
is the array's index 0. `roster[c]` is the store of client `c` when it has handled all that
was written to its stream. `RosterNext` is a step of `World` with what it makes of the
stores: no step writes more than one message to a stream, and `Read(c)` handles that
message, or does nothing, or resets the store where the step opened a new stream.
`Arrangements` are the orders Go's `range` over `Players` may give a list, any of which may
come. `RosterSpec` adds nothing to what `World` may do, so it implies `World`'s `Spec`
(`RosterIsWorld`), and all that holds of `World` holds here.

### Locks

A thread is a handler, packet loop, heartbeat, the janitor or `Stop`; `prog[t]` is the
rest of its operation, a sequence of what it may wait for. `Connect`, `Reconnect`,
`Handle`, `Ping` and `Prune` build these sequences from the code's calls: `Take` waits for
a mutex, `Send` for room in a stream, `cast` is `Broadcast`'s loop, `past` names the
critical sections nothing blocks in, which are waited for together with the next lock.
`holder` is who has a lock; `Pmu` in `holder` is a writer's lock, which keeps new readers
out while it waits, and a reader that is inside over several steps is a thread at `cast`.
A stream is `"up"`, `"dead"` (cancelled or lost: writes return), or `"nil"` (Start failed:
writes panic). Flow control is one bit: a write fills the stream, the client's read
empties it. An early return of an operation waits for less than the operation does, so
the sequences have every wait of the code.

A panic in a handler is recovered by net/http and runs the deferred unlocks: only the
session's writer in `playerConnectedSend`, which has no defer, stays locked (`Leaked`).

### Delivery

Connections of one session are numbered, and connection `k` brings reader `k`, channel `k`
and packet loop `k`. A packet is `<<connection, number>>`. `Close` is a single step here.
`watched[k]` is the channel `HandleStream` was given once, `watch[k]` the one a loop's
`select` evaluated last, which may be nil: such a loop does not end with its connection
and takes packets of the next.

A login may fail half way. `Close` in `Reconnect` may return an error, and the new
connection is nobody's (`Login` ends in `"idle"`); `OpenStream` may fail (`StartFails`);
and `Connect` may panic on the nil stream of another user's session, which net/http
recovers (`ConnectPanics`). After each of them no packet loop is started. In the last case
the session is active and has a reader: what that reads lies in the queue until the user
logs in again, or for ever. `Reconnect` of the world writes to the session's own stream
only and so cannot panic on another's.

### Client

One variable per field that is shared (`stream`, `closing`), one control point per
goroutine (`reader`, `loop`, `garbage`, `dial`, `main`), and what each one's `select` or
`HandleStream` saw of `c.Closing`. `process` says how the process ended: `main`
returned, `log.Fatal`, a write to a nil stream, a second `close`. `Overwritten` is the
append of another goroutine of the same process to `clients`, which has no lock. Packets
are abstracted to what their handler does: answer, start the ticker, neither.

### Frames

A byte is `<<frame, position>>`, so a byte that lands in the wrong packet is seen.
`buf[w]` is a writer's reused buffer, which starts with `PacketBufferSize` bytes and still
holds the end of the message before. `TooSmall` is the error of `MarshalThree` that makes
`SendStream` expand the buffer and call itself. The reader of a behaviour is Go's, which
asks for a number of bytes, or the web client's, which takes what comes and parses what
is whole; `k` in `GoRead(k)` and `WebRead(k)` is the size of the piece.

## 3. Runs

| Run | Instance | Checks | Distinct states |
|---|---|---|---|
| `Session_single` | 1 login, everything may happen | `TypeOK`, `ClosedChannelHasCloser`, `RegistryMatchesWorld` | 827,244 |
| `Session_live` | 1 login, loss, packets, kick, prune | `LostClientLeaves`, `HeartbeatsEnd` | 61,337 |
| `Session_reconnect` | 1 user, 2 logins from one address | `RegistryMatchesWorld`, `SupersededIsClosed`, `JoinSendsPlayers` | 899,077 |
| `Session_twousers` | 2 users, one unreliable | `OnlyLostAreClosed` | 107,704 |
| `Delivery` | 2 connections of a session, 3 packets, a queue of 2; logins that fail half way | `TypeOK`, `NothingLost`, `InOrder`, `ReadIsHandled`, `ReaderEnds` | 151,422 |
| `Locks` | 2 clients, the janitor and `Stop`; one client returns, is kicked, dies or does not start | `TypeOK`, `LockOrder`, `NoDeadlock`, `LocksReturned` | 553,005 |
| `World` | 2 clients, 1 packet each; one loses its session, returns, is evicted | `TypeOK`, `SameOrder`, `KnowsEveryone`, `LastMoveIsPosition`, `MapPointsHome`, `ShowsEveryone`, `OnlyFirstLingers` | 1,492,878 |
| `World_join` | *violated* | `JoinSendsCurrent` | |
| `LoginCodes` | 3 logins (2 of one name), 2 verifications | `TypeOK`, `OneIdPerName`, `AcceptedInTime`, `TicketSpec` | 874,128 |
| `Garbage_exchange` | Go client, and junk beside it | `TypeOK`, `TotalIsDue`, `FewInFlight`, `HonestNeverFails`, `GarbageKeepsComing` | 2,214,029 |
| `Client` | 3 packets, a queue of 1 | `PanicsAtTheEnd`, `PingIsAnswered`, `LoopsEnd` | 219,977 |
| `Frames` | 2 writers, 2 messages each, either reader | `FramesIntact`, `TwoTries`, `AllHandled` | 113,486 |

What the passing runs show:

* `Close` may be in progress in five goroutines at once and no goroutine is left with a
  closed channel in `s.Closing`, except while the one that closed it is about to clear it
  (`ClosedChannelHasCloser`). It says when the next `Close` is safe; it does not say
  that `close` never panics. Two goroutines between test and `close` do, and the model has
  that step (`crashed`).
* The manager and the world know the same sessions (`RegistryMatchesWorld`) as long as a
  user keeps its address and does not log in twice at once, evictions included (section 6).
* A client that reconnects after any prefix of its first connection's end is sent the
  players, and the replaced connection is closed.
* One client's failure closes no other client's connection, although its dead stream is
  written to by everybody's broadcasts.
* The player of a lost client leaves, and the heartbeat of a session that stays inactive
  ends, although neither may see the closed channel: the heartbeat's own test of `Active`
  is what saves it.
* A packet that a reader has read is in exactly one place until it is handled, through
  closes and reconnects. It is handled unless the session is from some moment on left with
  no packet loop for good (`ReadIsHandled`): every login failed before `go session.Run()`,
  or the loops ended with their connections and nobody logged in again. One loop keeps the order of a connection's packets; the run also
  has two loops on one queue, which between them may not (`InOrder` is about one
  loop). The reader of a gone connection ends, but for the case that all loops have
  ended before it and the queue is full (`ReaderEnds`): the question the code asks at
  `session.go:112-113` is answered yes.
* The server's mutexes are taken in one order that nothing in the code writes down
  (`LockOrder`): manager, world's writer, `pmu`, a player, a session's writer. No threads
  wait for one another in a circle, the wait of `pmu` for its readers included. A client
  that does not read still holds everybody up until its connection times out: the wait
  is for the client, not in a circle.
* Every operation gives its locks back on every way out, but for the session's writer of
  a nil stream (`LocksReturned`).
* All clients are sent the broadcasts in one order; whoever is served was told of every
  player that has joined, however the logins overlap; the last move a client was sent of a
  player is where it is. A list sent on joining is another matter, see the finding.
* The web client's map never leads to somebody else's entry; a client whose join was not
  overlapped by another broadcast shows everybody where they are, but for those that
  connected after it and have not moved; of those that left, only the head of its array
  stays.
* The database's critical sections do what atomic tickets would: a code admits its owner
  once, nobody is refused without a cause, whatever is pruned in between.
* The count of hashes due stays a positive multiple of the batch size for any client, and
  the exchange never has more than two messages under way for the Go client. The server
  counts a failure against the Go client only if a tick fell into `HandleGarbageRequest`.
  Batches keep coming unless that happened or a reply overtook `garbageWait`.
* A Go client panics only at the end: a write finds no stream only after the session is
  over or `main` has closed the client. It answers pings whatever the server sends.
  Its goroutines end with the session, but for a loop that was busy when the reader closed
  the client, and but for all of them when `AcceptStream` failed or the reader hangs at a
  full queue.
* Packets come out as they were framed, whatever the pieces and however the session's and
  the world's writer take turns; a message that does not fit takes one more call.

### Findings

`World_join` shows one that contradicts a line of the repository, and `PROJECT.json` quotes
it: **a joining client is sent old positions** (`game_respond.go:56-63`). The list is made
before the writer's mutex is awaited; moves broadcast meanwhile are undone by it.

Seen in the models' behaviours, or while they were written, without a run of their own.

The repository's README names two known issues (`README.md:49-50`). "Clients crash at
`-c=20` or so" agrees with the models: `PanicsAtTheEnd` names the two ways a Go client
panics, a write without a stream and a second `close`, both at the end of its session, and
with many clients in one process the first panic, or the first `log.Fatal` of a dial, ends
them all; their list is appended to without a lock as well. A client whose session goes on
does not panic, so a crash under load comes from sessions that end. "Heartbeat handling on
client disconnect not the best" is what `HeartbeatsEnd` is about, and `missedPings` below.

Sessions:

* A session without a packet loop (`webtransport.go:226-235`): when `Connect` panics on
  another user's nil stream the handler ends, but the new session's reader and heartbeat
  run and answer for it. Its packets are queued and not handled; no part of the server
  notices while its connection lives.
* Ghosts (`session.go:129`, `144-147`): a login from a second address overwrites the
  registry entry of an active session; nobody can remove the first player.
* A nil stream ends the server (`webtransport.go:225-226`, `packet.go:179`): a connection
  that dies before `OpenStream` leaves a player without a stream, and the nil pointer is
  a non-nil `io.Writer`.
* `Close` clears `Active` before it stamps `LastActive` (`session.go:221-222`); the janitor
  in between evicts a session that was active until then.
* The janitor may evict between `GetValidSession` and `Reconnect`
  (`webtransport.go:211-219`); the client is then served without a player. The run
  `Session_reconnect` leaves out `"prune"` for this reason.
* The reader of a lost connection may be inside `Close` while the user reconnects, and then
  closes the new connection (`session.go:251`).
* After a reconnect two loops may handle one connection's packets, out of order
  (`session.go:316`).
* `missedPings` is never counted: a client that answers no ping is not closed.
* A client that does not read stops every broadcast, and with it every packet loop
  (`game.go:112`).

Garbage and Go client:

* The exchange stops (`client.go:272`): the client waits for an ack it has already handled.
* The schema calls the ack's field the "Number that was just acknowledged"
  (`cpnp/game.capnp:47`), the server sends the total still due (`game_respond.go:280`).
* A client's panic or `log.Fatal` (`client.go:112`) in `cmd/server -c` takes the server
  with it. The programs append clients to a list without a lock: one whose entry is
  overwritten is never closed.
* Where `AcceptStream` fails the client stays open, with two loops that wait for ever.

Web client:

* It takes the first connect it is sent for its own, which may be somebody else's
  (`game.go:82-84`, `handlers.ts:46`).
* A connect carries no position: the newcomer is drawn at 0,0 until it moves.
* `if (idx)` (`client.svelte.ts:131`) never removes the player at index 0; the others'
  removal leaves holes in the array.
* A list that overlaps with connects overwrites or doubles players.

Elsewhere: the certificate is valid for ten days and never renewed (`tls.go:82`).

## 4. Bounds

| Constant | Value | Why it is enough |
|---|---|---|
| `Handshake` | 1 or 2 | two logins already give an old and a new set of goroutines on one object, or two objects; a third adds only one more stale set of the same kind |
| `QueueCap` | 1 (1024 in the code) | the full and the empty queue are what the loops distinguish |
| `Unreliable` | one connection, or all | every step at which a connection can die is reached |
| `Events` | chosen by run | `single` has all of them at once; the runs with two logins leave out those that multiply states and are covered by it |
| `Sequential` | TRUE | a user logs in again after its last handshake ended; `TypeCorrect` and `OneCloser` of section 6 hold for FALSE too |
| `Client` | 2 | a client that joins and one that is there, in both roles; three give more receivers of the same broadcast |
| `Edge`, `Step`, `Spawn` | 2, a diagonal step and none, one corner | the low edge is crossed, X and Y differ, the step that leads nowhere. With one move each from the spawn the high edge is not reached; `WorldTypeCorrect` covers it |
| `MaxPackets`, `Sends` | 1; a move, and a move or a chat | one packet of each client at every step of the other's join, close, return and eviction. A second move is out of TLC's reach beside them (over 5 million states); that the *last* of several moves is the position is theorem `LastMoveCounts` of section 6 |
| `Fickle`, `Loyal` | one client | it closes, returns and closes again |
| `Login`, `Verify`, `MaxTime`, `TTL` | 3, 2, 3, 1 | two logins of one name and one of another; codes that expire before, between and after the critical sections |
| `Amounts`, `Bases`, `Batches` | {2,3}, 2, {1,3} | a batch of the wrong size, of the wrong base, the last batch and one that is not |
| `MaxFailed` | 2 (5) | reached and passed by the junk |
| `MaxFaulty` | 2 | bound on messages in flight when junk is sent |
| `Conns`, `Packets`, `QueueCap`, `Kicks` of `Delivery` | 2, 3, 2 (1024), 1 | an old and a new loop and reader; a full queue, a packet at a reader and one with a loop at once; a close from inside a handler |
| `Client`, `Does`, `Unreliable` of `Locks` | 2; one returns and is kicked, the other moves, sends batches and is pinged; the first | each mutex has two kinds of contenders; the first may be nil, dead or full while the other is served. The packets left out ask for the same locks: a chat for a move's without the player's, the last batch for those of `kick` |
| `Packets`, `QueueCap` of `Client` | 3, 1 (1024) | a packet with the loop, one in a full queue, one with the reader |
| `Writers`, `Messages`, `Size` | 2, 2, {1, 3} | a message longer and one shorter than the one before; both writers |
| `Header`, `Initial`, `Slack` | 2, 3, 1 (6, 8, 2) | a header that can be cut, a first buffer that holds the small message and not the large one |

`CHECK_DEADLOCK FALSE` is set throughout: clients need not log in again, the process may
have ended, and an exchange whose session is closed is over.

## 5. Fairness

The Go scheduler runs every goroutine that can run; each is weakly fair, and nothing else
is but what is named here.

* `Session_live`: handler, heartbeat, packet loop, `Close` and the janitor; tickers tick
  (`BeatTick`, `Janitor`) and five minutes pass (`Lapse`). A reader gets it only for
  steps that do not wait for the peer. `Lookup` and `CreateSession` get strong fairness
  because the janitor disables them again and again and `sync.RWMutex` starves nobody.
  Logins, losses, packets, kicks and shutdown get none.
* `Delivery`: the handshake once it began, whichever way it ends, each reader but for reads of packets the client
  need not send, each loop. Weak fairness is enough
  for loops that wait for `reader.mu`, as there are only `Packets` packets to hold it for.
* `Client`: reader, packet loop and garbage loop as one action each; neither reads nor
  `main`, the losses or the dial. `Tick` belongs to the garbage loop's action: a ticker
  that runs ticks.
* `Frames`: a `SendStream` that began goes on, and the reader reads what is there. New
  messages and breaks get none.
* `Garbage_exchange`: both client goroutines and the server's handler; the transport
  delivers. Junk gets none.

## 6. Proofs

Every theorem holds for all values of the constants that satisfy the `ASSUME` of the
component's module, which the run of that module evaluates, and what the theorem's own
statement assumes of them. Each rests on one inductive
invariant (called `IInv`, `SessionInv` or `WorldInv`), which TLC checked on the instance of
the component's run before it was proved. A proof module states the invariant first, then
what the operators do, then one lemma per part of the invariant with a step per action,
then the theorems.

### Session

`SessionProofs` proves for any number of handshakes, users, addresses, any queue capacity,
any set of events and concurrent logins of one user, from `SessionAssumption` only:

* `TypeCorrect`: `Spec => []TypeOK`
* `OneCloser`: `Spec => []ClosedChannelHasCloser`

The argument is one inductive invariant, `SessionInv`, found with TLC on the instance of
`Session_reconnect`:

* `ClosedChannelHasCloser` is not inductive alone. `Arm` stores a new channel in
  `s.Closing`, so one has to know that this channel has not been closed before:
  `ChannelInv` says that every closed channel, and every channel in `s.Closing`, was made by
  a `Start` that is over, and that of the session it is found in.
* `SpawnInv` places the goroutines: a reader or heartbeat runs only after `Start`
  succeeded, `Run` only after the handler ended well; it keeps a goroutine from reading
  `obj` before it is set.
* `ObjectInv` is why `Mine(p)` is always an object: handles are set once and only to
  registered sessions; it is also what keeps `conn` of that object non-nil, on which the type
  of `on`, `connClosed` and `chanClosed` hangs.

Most actions touch none of the variables the invariant relates: the lemmas on *quiet* steps
deal with all of those at once, and one lemma per action that binds an object, moves a goroutine
in or out of `Close`, or changes a channel does the rest.

What depends on how users log in is proved from assumptions on the constants, the same
as its runs make or weaker ones:

| Theorem | States | From |
|---|---|---|
| `SupersededClosed` | `Spec => []SupersededIsClosed` | `Sequential` |
| `JoinersAreTold` | `Spec => []JoinSendsPlayers` | `Sequential`, no "prune" |
| `RegistryAndWorld` | `Spec => [](~crashed => RegistryMatchesWorld)` | `Sequential`, `OneAddress` |
| `OnlyLostCloses` | `Spec => []OnlyLostAreClosed` | `OneLogin`, no "kick", no "stop" |

The first three are about logins of one user that follow each other, with everything else
of `Events` at any moment. `StepCases` sorts the steps: those of the goroutines that are no
handler are `Calm`, those of a handler are in `Close` (`Closing`), in `Start` and the world
(`Finishing`), or one of five. Then

* `TurnInv`: a user has one handshake in flight and it works on a session of that user;
  hence nobody else works on the session (`Alone`).
* `RebindInv`: at `rebind` the old connection has been closed, by the `Close` that
  `Reconnect` waited for. That nobody gave the session another connection in between is
  `Alone`.
* `PlayerInv`: who made a session has a player when its handshake has ended, so the world's
  `Reconnect` finds one. It needs that nothing is pruned: an eviction between
  `GetValidSession` and the world's `Reconnect` leaves the client without its list.
* `RegistryInv`: a session is created only where the manager has none (`OneAddress`: the
  manager hands out every session it has to its user), and `pruneInactive` evicts
  registered sessions that are not joining, so each map loses what the other loses. A panic
  within an eviction, after the player and before the session, ends the process;
  hence `~crashed`.

For the fourth, `AloneInv` says that a handshake and its goroutines touch what it has made
and nothing else (`OwnInv`), what `Start` has made at each label (`StartedInv`), and that
what is closed, cancelled or inactive, or about to be, is of a lost connection (`LostInv`).
Evictions are allowed; the run has none.

### World

`WorldProofs` proves for any clients, grid, moves and number of packets, with every client
free to close and return, from `WorldAssumption` only:

* `WorldTypeCorrect`: `Spec => []TypeOK`
* `OneBroadcast`: `Spec => []OneWriter` (proved only: no run checks it)
* `BroadcastsInOrder`: `Spec => []SameOrder`
* `EveryoneIsKnown`: `Spec => []KnowsEveryone`
* `LastMoveCounts`: `Spec => []LastMoveIsPosition`

The inductive invariant is `WorldInv`, found with TLC on the instance of `World`:

* A broadcast may append to a stream only if its number is above all that stand there.
  `CastInv` says so of every stream the broadcast has yet to come to, and that no number
  sent is above the count of broadcasts begun, so that the next one is new. Between two
  steps of a broadcast only `OneWriter` keeps another from counting on: that is where the
  mutex is used.
* `Greet` and `SendList` write messages without a number, which leave the order alone.
* `TypeOK` needs to know that a thread at the mutex has a message in hand (`CastInv`) and
  that a loop about to write X or Y knows where to (`GoalInv`).
* `FreshInv` is why the handler of a first login is not in the middle of a broadcast.

`ToldInv` is a second invariant on top of `WorldInv`, about what clients are told:

* `NewsInv`: the message a thread broadcasts is about its own client, and a move says
  where the player is now. Nothing moves a player between `SetY` and the end of its broadcast.
* `UnseenInv`: who is yet to be inserted is unknown to everybody and was told nothing;
  without it an insert could make a position differ from a move that was sent before.
* `KnowsInv`: a client that collects its list knows every player, has it in the list it is
  about to be sent, or is still waited for by the broadcast of that player's connect. This
  is where it matters that `Connect` inserts before it broadcasts and collects after.
* `MoveInv`: but while a player's loop is between its writes and its broadcast, the last
  move in an open stream is the position, or the next is on its way to that stream.

### Roster

Also in `WorldProofs`, from `WorldAssumption` only, for any order of every list:

* `MapLeadsHome`: `RosterSpec => []MapPointsHome`
* `EveryoneIsShown`: `RosterSpec => []ShowsEveryone`
* `NobodyElseLingers`: `RosterSpec => []OnlyFirstLingers`

`RosterInv` stands on `WorldInv` and `ToldInv` and was found with TLC on the instance of
`World`. Of what happens at the server it adds that a client in its join stays a player
(`JoinerInv`), that a player whose disconnect is broadcast is gone for good (`LeaverInv`),
that a list has the client it is for (`ListedInv`) and ends its join (`OneListInv`), and
that nobody was told of a player before its insert (`HeardInv`). Of the store:

* `StoreInv`: the map leads home, so two players never share an index and a move or a
  disconnect changes the entry of its own player only; and it has nobody who is yet to be
  inserted, so an insert finds no old entry of its player.
* `UserInv`: who was sent a connect has a user, so the next connect is pushed. Without it the
  first broadcast to come would be taken for the client's own, which is what `Clean`
  excludes.
* `MapInv`: a client has whoever it was told of after its own connect, and itself.
* `ShowInv`: a player at rest is where the store has it, or where the list under way will
  put it. Where a broadcast came in between (`JoinSendsCurrent`), the join was overlapped.
* `LingerInv`: who left is out of the map, or at its head, or the disconnect is on its way.

A lemma for each handler says what it does to a store whose map leads home (`PushHome`,
`DropHome`, `MoveHome`, `ListHome`); `GotNews` and `GotList` say which messages a client
may get at all and in which state, and each invariant has one step lemma over them.

### Login and codes

`LoginCodesProofs`, for any logins, verifications, names and lifetime. `LoginAssumption`
asks that logins and verifications have different names, as they are different goroutines.

* `LoginTypeCorrect`: `Spec => []TypeOK`
* `OneUserPerName`: `Spec => []OneIdPerName`
* `NoLateAccept`: `Spec => []AcceptedInTime`
* `LoginImplementsTicket`: `Spec => TicketSpec`

The invariant adds to the first two that a login past `GetUser` holds the id of its own
name and that its code names that id (`NameInv`), and that a verification at its lookup
asks for a code which, if it is still there, had not expired when it began (`AskInv`):
this carries the time of the prune over to the lookup, which does not look at it. The
refinement is step by step: of `Ticket`'s operations, `insert` issues a code, `lookup` admits
or refuses, the prunes drop codes, and every other step changes nothing that `Ticket` sees.

### Delivery

`DeliveryProofs`, for any number of connections, packets and kicks, and any capacity:

* `DeliveryTypeCorrect`: `Spec => []TypeOK`
* `PacketsKept`: `Spec => []NothingLost`
* `LoopsKeepOrder`: `Spec => InOrder`

`PlaceInv` says that a packet has been read exactly if it is at its reader, in the queue,
with a loop or handled, in one of these places and there once. `OrderInv` says that the
queue has each connection's packets in order, all behind those that were taken, and that a
loop has handled only what came before the packet it has; that is what an order of the
queue alone does not give when two loops take from it. `ActorInv` ties readers and loops to
connections there have been.

### Locks

`LocksProofs`, for any number of clients and whatever they do. `NoneAssumption` says that
`None` and `Leaked` name no thread.

* `LocksTypeCorrect`: `Spec => []TypeOK`
* `LocksInOrder`: `Spec => []LockOrder`
* `NoCircularWait`: `Spec => []NoDeadlock`
* `AllLocksReturned`: `Spec => []LocksReturned`

Since `prog[t]` is a program, its invariant is a program logic: `Legal(s, H)` says when a
thread that holds the locks `H` may come to the instruction `s`, `Leads(p, H, G)` that a
program `p` is legal from `H` on and ends with `G`. A lemma for each operation shows that
its sequence leads from nothing held to nothing held; the invariant says that what is left
of every thread's program leads from what it holds to nothing. `NilInv` and `LeakInv`
follow the greeting on a nil stream. `NoCircularWait` follows from `LockOrder`: in a set of
threads that wait for one another, one would wait for the highest lock any of them holds.

### Garbage

`GarbageProofs`, for any amounts, bases and batches:

* `GarbageTypeCorrect`: `Spec => []TypeOK`
* `AlwaysSomethingDue`: `Spec => []TotalIsDue`
* `StopAndWait`: `Spec => []FewInFlight`
* `OnlyRacesFail`: `Spec => []HonestNeverFails`

What is due is a multiple of the amount (`DueInv`). The others count tokens: a message
under way, a request being handled, and a sender that is about to write are one each.
`TokenInv` has at most two, the first request's and that of a tick which finds
`garbageWait` clear. `InStepInv` says that without a race there is one, and whoever has
it knows the server's last request: the message, the handler, or, when it may send,
the client's fields. That is what makes the next batch right.

### Go client

`ClientProofs`, for any number of packets and any queue:

* `ClientTypeCorrect`: `Spec => []TypeOK` (proved only; `TypeOK` is in the proof module)
* `PanicsOnlyAtTheEnd`: `Spec => []PanicsAtTheEnd`

The invariant says why a goroutine may write: before `AcceptStream` nothing came in, so no
loop answers and no ticker ticks (`QuietInv`), a reader that reads has a stream
(`StreamInv`); and who closed: `main`, or the reader of a session that is over
(`ClosedInv`, `LeavesInv`).

### Frames

`FramesProofs`, for any writers, any number and sizes of messages and any lengths:

* `FramesTypeCorrect`: `Spec => []TypeOK` (proved only; `TypeOK` is in the proof module)
* `FramesComeOutWhole`: `Spec => []FramesIntact`
* `AtMostTwoCalls`: `Spec => []TwoTries`

`FramesIntact` needs to know every byte between the writers' buffers and the readers'.
Where the n-th frame begins in the stream is a sum over the frames before it; rather than
compute it, `StreamInv` says that a function `off` exists with `off[i]` the end of frame `i`,
and that what is read and not handled, followed by what is under way, holds the bytes
from `off[Len(handled)]` on, each in its place. A write extends `off` by one frame; a read
and a parse leave it. `NameInv` is why a header is enough to find the size (no two frames
have one name), `WriterInv` why the whole frame is at the beginning of a reused buffer, and
that a second call finds room, `GoInv` that `need` is what the next frame asks for.

### Model-checked only

* Liveness (`LostClientLeaves`, `HeartbeatsEnd`, `ReadIsHandled`, `ReaderEnds`,
  `GarbageKeepsComing`, `PingIsAnswered`, `LoopsEnd`, `AllHandled`): the prover has no
  rules for fairness and ENABLED.
* `JoinSendsCurrent` is violated.

## 7. Not modelled

* Certificates (`tls.go`) and the HTTP middleware have no state after the start. Generated
  code is taken to do what its schema says.
* Of the web client: connecting and `reset`, the garbage store
  (`client.svelte.ts:7-89`), and when pages mount their handlers, which depends on
  Svelte's life cycle: a packet that comes before its page is dropped.
* Ticker periods: nothing counts missed pings, so the wait ticker never does anything.
* Names, chat text and what capnp puts into a message are data no property here tells
  apart; `Frames` knows a message by its size.
* The UDP socket, flags, and the life of the HTTP server.
* The QUIC library is modelled by what the code expects of it: reads and writes fail after
  a loss, a cancelled stream reports `ErrSessionStreamClosed`, a stream takes one `Write`
  after another.
