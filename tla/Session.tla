------------------------------- MODULE Session -------------------------------
(***************************************************************************)
(* The life of a server session: backend/session.go and the /wt handler of *)
(* backend/webtransport.go, at the granularity of the reads and writes its *)
(* goroutines make of a *Session that no mutex guards.                     *)
(*                                                                         *)
(* Everything a login creates is named by its handshake h, one run of the  *)
(* handler: the connection it upgrades, the stream and the Closing channel *)
(* its Start makes, and the reader, heartbeat ("beat") and Run ("run")     *)
(* goroutines it spawns.  A *Session is named by the handshake that        *)
(* created it; a reconnecting handshake works on somebody else's object.   *)
(***************************************************************************)
EXTENDS Naturals, FiniteSets

CONSTANTS
  Handshake,   \* requests to /wt whose code was verified
  User,        \* uuids of the database
  UserOf,      \* the uid verifyWT returns for a handshake
  IPOf,        \* the client IP of a handshake
  QueueCap,    \* capacity of Session.incoming (1024 in the code)
  Unreliable,  \* handshakes whose connection may be lost
  Events,      \* what else may happen: "packet", "kick", "prune", "stop"
  Sequential,  \* TRUE: a user logs in again only after its last handshake ended
  None

ASSUME SessionAssumption ==
  /\ UserOf \in [Handshake -> User]
  /\ IPOf \in [Handshake -> STRING]
  /\ QueueCap \in Nat \ {0}
  /\ Unreliable \subseteq Handshake
  /\ Events \subseteq {"packet", "kick", "prune", "stop"}
  /\ Sequential \in BOOLEAN
  /\ None \notin Handshake

VARIABLES
  pc,          \* control point of every goroutine
  seen,        \* the Closing channel a goroutine's select or loop is watching
  obj,         \* the *Session a handshake and its goroutines work on
  active, lapsed, conn, stream, closing, queued,  \* the fields of a *Session
  on,          \* the connection a stream was opened on
  reads,       \* the stream a reader was given
  lost,        \* connections whose peer or path is gone
  connClosed,  \* connections CloseWithError was called on
  cancelled,   \* streams CancelRead and CancelWrite were called on
  chanClosed,  \* Closing channels that were closed
  sessions,    \* SessionManager.sessions
  players,     \* the keys of GameWorld.Players
  joined,      \* handshakes for which the world called sendPlayers
  server,      \* how far WebTransportServer.Stop has come
  janitor,     \* control point of SessionManager.Run
  todo,        \* sessions pruneInactive has yet to look at
  victim,      \* session pruneInactive found idle and is about to remove
  crashed      \* a panic outside an HTTP handler ended the process

\* The groups of variables an action leaves alone together.
fields == <<active, lapsed, conn, stream, closing, queued>>
net    == <<on, reads, lost, connClosed, cancelled, chanClosed>>
world  == <<sessions, players, joined>>
manager == <<server, janitor, todo, victim>>
vars   == <<pc, seen, obj, fields, net, world, manager, crashed>>

Kind == {"handler", "reader", "beat", "run", "stop"}
Proc == Kind \X Handshake

CloseLabel ==
  {"markInactive", "stamp", "checkClosing", "closeChan", "clearChan", "teardown"}

HandlerLabel ==
  {"idle", "lookup", "create", "rebind", "open", "activate", "arm", "join",
   "joinFailed", "served", "unserved", "refused", "panicked"}

Label ==
  HandlerLabel \cup CloseLabel \cup
  {"start", "read", "push", "select", "wait", "send", "handle", "done"}

Ended == {"served", "unserved", "refused", "panicked"}

\* Start has returned without an error: its goroutines exist.
Started == {"join", "served", "unserved"}

Handler(h) == <<"handler", h>>
Reader(h)  == <<"reader", h>>
Beat(h)    == <<"beat", h>>
Run(h)     == <<"run", h>>
Stop(h)    == <<"stop", h>>

Mine(p) == obj[p[2]]
InClose(p) == pc[p] \in CloseLabel
InFlight(h) == pc[Handler(h)] \notin Ended \cup {"idle"}
Goto(p, l) == pc' = [pc EXCEPT ![p] = l]
Watch(p, ch) == seen' = [seen EXCEPT ![p] = ch]

\* A receive from ch in a select is ready; a nil channel never is.
Closed(ch) == ch # None /\ ch \in chanClosed

-----------------------------------------------------------------------------
\* WebTransportServer.handleWT

\* verifyWT accepted the code and Upgrade succeeded, or failed.
Begin(h) ==
  /\ pc[Handler(h)] = "idle"
  /\ Sequential => \A g \in Handshake : UserOf[g] = UserOf[h] => ~InFlight(g)
  /\ \/ Goto(Handler(h), "lookup")
     \/ Goto(Handler(h), "refused")
  /\ UNCHANGED <<seen, obj, fields, net, world, manager, crashed>>

\* Mutant: inactive sessions are not handed out.
ValidIfActive(h, s) == s # None /\ active[s] /\ IPOf[s] = IPOf[h]

\* GetValidSession hands out the session the manager has for the user unless
\* it is active and belongs to another IP.
Valid(h, s) ==
  /\ s # None
  /\ IPOf[s] # IPOf[h] => ~active[s]

\* SessionManager.mu is held over many steps by pruneInactive and Shutdown, and
\* over one by anybody else.
Unlocked == janitor # "prune" /\ server # "stop"

\* Mutant: Reconnect does not close the session first.
LookupWithoutClose(h) ==
  /\ pc[Handler(h)] = "lookup"
  /\ server # "nil" /\ Unlocked
  /\ LET s == sessions[UserOf[h]] IN
       IF Valid(h, s)
         THEN Goto(Handler(h), "rebind") /\ obj' = [obj EXCEPT ![h] = s]
         ELSE Goto(Handler(h), "create") /\ UNCHANGED obj
  /\ UNCHANGED <<seen, fields, net, world, manager, crashed>>

Lookup(h) ==
  /\ pc[Handler(h)] = "lookup"
  /\ server # "nil" /\ Unlocked
  /\ LET s == sessions[UserOf[h]] IN
       IF Valid(h, s)
         THEN Goto(Handler(h), "markInactive") /\ obj' = [obj EXCEPT ![h] = s]
         ELSE Goto(Handler(h), "create") /\ UNCHANGED obj
  /\ UNCHANGED <<seen, fields, net, world, manager, crashed>>

CreateSession(h) ==
  /\ pc[Handler(h)] = "create"
  /\ server # "nil" /\ Unlocked
  /\ obj' = [obj EXCEPT ![h] = h]
  /\ sessions' = [sessions EXCEPT ![UserOf[h]] = h]
  /\ lapsed' = [lapsed EXCEPT ![h] = FALSE]
  /\ conn' = [conn EXCEPT ![h] = h]
  /\ Goto(Handler(h), "open")
  /\ UNCHANGED <<seen, active, stream, closing, queued, net, players, joined,
                 manager, crashed>>

\* The method calls on a nil *SessionManager panic; net/http recovers them.
NilManager(h) ==
  /\ pc[Handler(h)] \in {"lookup", "create"}
  /\ server = "nil"
  /\ Goto(Handler(h), "panicked")
  /\ UNCHANGED <<seen, obj, fields, net, world, manager, crashed>>

\* Session.Reconnect, after a Close that returned no error.
Rebind(h) ==
  /\ pc[Handler(h)] = "rebind"
  /\ conn' = [conn EXCEPT ![obj[h]] = h]
  /\ Goto(Handler(h), "open")
  /\ UNCHANGED <<seen, obj, active, lapsed, stream, closing, queued, net, world,
                 manager, crashed>>

\* Session.Start up to OpenStream.
OpenStream(h) ==
  /\ pc[Handler(h)] = "open"
  /\ LET c == conn[obj[h]] IN
       \/ /\ c \notin connClosed \cup lost
          /\ on' = [on EXCEPT ![h] = c]
          /\ Goto(Handler(h), "activate")
          /\ UNCHANGED connClosed
       \/ /\ c \in connClosed \cup lost
          /\ connClosed' = connClosed \cup {c}
          /\ Goto(Handler(h), "joinFailed")
          /\ UNCHANGED on
  /\ UNCHANGED <<seen, obj, fields, reads, lost, cancelled, chanClosed, world,
                 manager, crashed>>

\* Mutant: Active is not set, and the goroutines find a session that is not active.
ActivateStreamOnly(h) ==
  /\ pc[Handler(h)] = "activate"
  /\ stream' = [stream EXCEPT ![obj[h]] = h]
  /\ Goto(Handler(h), "arm")
  /\ UNCHANGED <<seen, obj, lapsed, conn, active, closing, queued, net, world, manager,
                 crashed>>

Activate(h) ==
  /\ pc[Handler(h)] = "activate"
  /\ stream' = [stream EXCEPT ![obj[h]] = h]
  /\ active' = [active EXCEPT ![obj[h]] = TRUE]
  /\ Goto(Handler(h), "arm")
  /\ UNCHANGED <<seen, obj, lapsed, conn, closing, queued, net, world, manager,
                 crashed>>

\* Closing is made and the two goroutines start.  The heartbeat's first ping
\* changes nothing: its error is only logged.
Arm(h) ==
  /\ pc[Handler(h)] = "arm"
  /\ closing' = [closing EXCEPT ![obj[h]] = h]
  /\ pc' = [pc EXCEPT ![Handler(h)] = "join",
                      ![Reader(h)] = "start",
                      ![Beat(h)] = "select"]
  /\ reads' = [reads EXCEPT ![h] = stream[obj[h]]]
  /\ UNCHANGED <<seen, obj, active, lapsed, conn, stream, queued, on, lost,
                 connClosed, cancelled, chanClosed, world, manager, crashed>>

\* The world writes to the stream of each session in S.  On a session whose Start
\* failed the stream is a nil *webtransport.Stream: as an io.Writer it is not
\* nil, SendStream does not see it, and Write panics.
SendPanics(S) == \E s \in S : stream[s] = None

\* Mutant: GameWorld.Reconnect sends nothing.
JoinOnlyIfNew(h) ==
  /\ pc[Handler(h)] \in {"join", "joinFailed"}
  /\ IF obj[h] = h
       THEN players' = players \cup {h} /\ joined' = joined \cup {h}
       ELSE UNCHANGED <<players, joined>>
  /\ IF pc[Handler(h)] = "join"
       THEN pc' = [pc EXCEPT ![Handler(h)] = "served", ![Run(h)] = "start"]
       ELSE Goto(Handler(h), "refused")
  /\ UNCHANGED <<seen, obj, fields, net, sessions, manager, crashed>>

\* GameWorld.Connect for a new session, which tells all players; for a found one
\* GameWorld.Reconnect, which tells that session, if it has a player.  Only then
\* is the error of Start or Reconnect looked at.  A panic is net/http's to
\* recover: the handler ends and starts no Run.
Join(h) ==
  /\ pc[Handler(h)] \in {"join", "joinFailed"}
  /\ players' = IF obj[h] = h THEN players \cup {h} ELSE players
  /\ LET told == IF obj[h] = h THEN players' ELSE players \cap {obj[h]} IN
       \/ /\ SendPanics(told)
          /\ Goto(Handler(h), IF pc[Handler(h)] = "join" THEN "unserved" ELSE "panicked")
          /\ UNCHANGED joined
       \/ /\ ~SendPanics(told)
          /\ joined' = IF told = {} THEN joined ELSE joined \cup {h}
          /\ IF pc[Handler(h)] = "join"
               THEN pc' = [pc EXCEPT ![Handler(h)] = "served", ![Run(h)] = "start"]
               ELSE Goto(Handler(h), "refused")
  /\ UNCHANGED <<seen, obj, fields, net, sessions, manager, crashed>>

-----------------------------------------------------------------------------
\* Session.Close, run by any goroutine p on its session.

MarkInactive(p) ==
  /\ pc[p] = "markInactive"
  /\ active' = [active EXCEPT ![Mine(p)] = FALSE]
  /\ Goto(p, "stamp")
  /\ UNCHANGED <<seen, obj, lapsed, conn, stream, closing, queued, net, world,
                 manager, crashed>>

Stamp(p) ==
  /\ pc[p] = "stamp"
  /\ lapsed' = [lapsed EXCEPT ![Mine(p)] = FALSE]
  /\ Goto(p, "checkClosing")
  /\ UNCHANGED <<seen, obj, active, conn, stream, closing, queued, net, world,
                 manager, crashed>>

CheckClosing(p) ==
  /\ pc[p] = "checkClosing"
  /\ Goto(p, IF closing[Mine(p)] = None THEN "teardown" ELSE "closeChan")
  /\ UNCHANGED <<seen, obj, fields, net, world, manager, crashed>>

\* close panics on a nil and on a closed channel.  net/http recovers a panic of
\* the handler; in any other goroutine it ends the process.
CloseChan(p) ==
  /\ pc[p] = "closeChan"
  /\ LET ch == closing[Mine(p)] IN
       \/ /\ ch # None /\ ch \notin chanClosed
          /\ chanClosed' = chanClosed \cup {ch}
          /\ Goto(p, "clearChan")
          /\ UNCHANGED crashed
       \/ /\ ch = None \/ ch \in chanClosed
          /\ UNCHANGED chanClosed
          /\ IF p[1] = "handler"
               THEN Goto(p, "panicked") /\ UNCHANGED crashed
               ELSE Goto(p, "done") /\ crashed' = TRUE
  /\ UNCHANGED <<seen, obj, fields, on, reads, lost, connClosed, cancelled,
                 world, manager>>

\* Mutant: s.Closing = nil is missing.
ClearNothing(p) ==
  /\ pc[p] = "clearChan"
  /\ Goto(p, "teardown")
  /\ UNCHANGED <<seen, obj, fields, net, world, manager, crashed>>

ClearChan(p) ==
  /\ pc[p] = "clearChan"
  /\ closing' = [closing EXCEPT ![Mine(p)] = None]
  /\ Goto(p, "teardown")
  /\ UNCHANGED <<seen, obj, active, lapsed, conn, stream, queued, net, world,
                 manager, crashed>>

\* Mutant: the heartbeat does not return after it closed the session.
BeatGoesOn(p, err) ==
  CASE p[1] = "handler"        -> IF err THEN "joinFailed" ELSE "rebind"
    [] p[1] \in {"run", "beat"} -> "select"
    [] OTHER                   -> "done"

\* Where a goroutine goes when its Close returns: only Reconnect looks at the
\* error, and Run's loop goes round.
AfterClose(p, err) ==
  CASE p[1] = "handler" -> IF err THEN "joinFailed" ELSE "rebind"
    [] p[1] = "run"     -> "select"
    [] OTHER            -> "done"

\* The first CloseWithError of a connection whose peer is gone may fail; a
\* second one returns nil.
Teardown(p) ==
  /\ pc[p] = "teardown"
  /\ LET s == Mine(p)
         c == conn[s]
     IN /\ cancelled' = IF stream[s] = None THEN cancelled
                        ELSE cancelled \cup {stream[s]}
        /\ connClosed' = connClosed \cup {c}
        /\ \E err \in IF c \in lost \ connClosed THEN BOOLEAN ELSE {FALSE} :
             Goto(p, AfterClose(p, err))
  /\ UNCHANGED <<seen, obj, fields, on, reads, lost, chanClosed, world,
                 manager, crashed>>

CloseStep(p) ==
  \/ MarkInactive(p) \/ Stamp(p) \/ CheckClosing(p)
  \/ CloseChan(p) \/ ClearChan(p) \/ Teardown(p)

-----------------------------------------------------------------------------
\* The reader: Session.HandleStream around packet.go's HandleStream.

Cancelled(h) == reads[h] \in cancelled
Broken(h) == on[reads[h]] \in connClosed \cup lost

\* The argument s.Closing is read once, when the goroutine starts.
ReaderStart(h) ==
  /\ pc[Reader(h)] = "start"
  /\ Watch(Reader(h), closing[obj[h]])
  /\ Goto(Reader(h), IF Closed(closing[obj[h]]) THEN "done" ELSE "read")
  /\ UNCHANGED <<obj, fields, net, world, manager, crashed>>

ReadPacket(h) ==
  /\ "packet" \in Events
  /\ pc[Reader(h)] = "read"
  /\ ~Cancelled(h) /\ ~Broken(h)
  /\ Goto(Reader(h), "push")
  /\ UNCHANGED <<seen, obj, fields, net, world, manager, crashed>>

\* A read of a stream this side cancelled fails with ErrSessionStreamClosed,
\* which HandleStream takes for a clean end.
ReadCancelled(h) ==
  /\ pc[Reader(h)] = "read"
  /\ Cancelled(h)
  /\ Goto(Reader(h), "done")
  /\ Watch(Reader(h), None)
  /\ UNCHANGED <<obj, fields, net, world, manager, crashed>>

\* Any other error makes the session close itself.
ReadFails(h) ==
  /\ pc[Reader(h)] = "read"
  /\ ~Cancelled(h) /\ Broken(h)
  /\ Goto(Reader(h), "markInactive")
  /\ Watch(Reader(h), None)
  /\ UNCHANGED <<obj, fields, net, world, manager, crashed>>

\* Mutant: incoming has no capacity.
PushUnbounded(h) ==
  /\ pc[Reader(h)] = "push"
  /\ queued' = [queued EXCEPT ![obj[h]] = @ + 1]
  /\ Goto(Reader(h), IF Closed(seen[Reader(h)]) THEN "done" ELSE "read")
  /\ UNCHANGED <<seen, obj, active, lapsed, conn, stream, closing, net, world,
                 manager, crashed>>

\* The send to incoming blocks while the channel is full, whatever Closing does.
PushPacket(h) ==
  /\ pc[Reader(h)] = "push"
  /\ queued[obj[h]] < QueueCap
  /\ queued' = [queued EXCEPT ![obj[h]] = @ + 1]
  /\ Goto(Reader(h), IF Closed(seen[Reader(h)]) THEN "done" ELSE "read")
  /\ UNCHANGED <<seen, obj, active, lapsed, conn, stream, closing, net, world,
                 manager, crashed>>

ReaderStep(h) ==
  \/ ReaderStart(h) \/ ReadPacket(h) \/ ReadCancelled(h) \/ ReadFails(h)
  \/ PushPacket(h)

-----------------------------------------------------------------------------
\* StartHeartbeat and Run: loops around a select that reads s.Closing anew.

EnterSelect(p) ==
  /\ pc[p] = "select"
  /\ Watch(p, closing[Mine(p)])
  /\ Goto(p, "wait")
  /\ UNCHANGED <<obj, fields, net, world, manager, crashed>>

SeeClosing(p) ==
  /\ pc[p] = "wait"
  /\ Closed(seen[p])
  /\ Goto(p, "done")
  /\ Watch(p, None)
  /\ UNCHANGED <<obj, fields, net, world, manager, crashed>>

\* QueueMessage gives up on an inactive session and the heartbeat closes it.
BeatTick(h) ==
  /\ pc[Beat(h)] = "wait"
  /\ Goto(Beat(h), IF active[obj[h]] THEN "send" ELSE "markInactive")
  /\ Watch(Beat(h), None)
  /\ UNCHANGED <<obj, fields, net, world, manager, crashed>>

\* A write fails on a cancelled stream, on a stream its reader closed when it
\* returned, and on a connection that is gone.
WriteFails(st) ==
  \/ st \in cancelled
  \/ on[st] \in connClosed \cup lost
  \/ \E g \in Handshake :
       reads[g] = st /\ pc[Reader(g)] \notin {"start", "read", "push"}

BeatSend(h) ==
  /\ pc[Beat(h)] = "send"
  /\ Goto(Beat(h), IF WriteFails(stream[obj[h]]) THEN "markInactive" ELSE "select")
  /\ UNCHANGED <<seen, obj, fields, net, world, manager, crashed>>

BeatStep(h) ==
  \/ EnterSelect(Beat(h)) \/ SeeClosing(Beat(h)) \/ BeatTick(h) \/ BeatSend(h)

RunStart(h) ==
  /\ pc[Run(h)] = "start"
  /\ Goto(Run(h), IF active[obj[h]] THEN "select" ELSE "done")
  /\ UNCHANGED <<seen, obj, fields, net, world, manager, crashed>>

RunTake(h) ==
  /\ pc[Run(h)] = "wait"
  /\ queued[obj[h]] > 0
  /\ queued' = [queued EXCEPT ![obj[h]] = @ - 1]
  /\ Goto(Run(h), "handle")
  /\ Watch(Run(h), None)
  /\ UNCHANGED <<obj, active, lapsed, conn, stream, closing, net, world,
                 manager, crashed>>

\* A handler runs under reader.mu.  HandleClientGarbage closes the session of a
\* client that failed too often, inside the handler; moves and chats are
\* broadcast to all players.
RunHandle(h) ==
  /\ pc[Run(h)] = "handle"
  /\ \A g \in Handshake : InClose(Run(g)) => obj[g] # obj[h]
  /\ \/ Goto(Run(h), "select") /\ UNCHANGED crashed
     \/ "kick" \in Events /\ Goto(Run(h), "markInactive") /\ UNCHANGED crashed
     \/ /\ obj[h] \in players /\ SendPanics(players)
        /\ Goto(Run(h), "done")
        /\ crashed' = TRUE
  /\ UNCHANGED <<seen, obj, fields, net, world, manager>>

RunStep(h) ==
  \/ RunStart(h) \/ EnterSelect(Run(h)) \/ SeeClosing(Run(h)) \/ RunTake(h)
  \/ RunHandle(h)

-----------------------------------------------------------------------------
\* SessionManager.Run: pruneInactive holds mu from its first line to its last.

Registered == {sessions[u] : u \in User} \ {None}

\* The ticker fires.  A prune that is due when Shutdown runs still takes place.
Tick ==
  /\ "prune" \in Events
  /\ janitor = "select" /\ server = "up"
  /\ janitor' = "tick"
  /\ UNCHANGED <<pc, seen, obj, fields, net, world, server, todo, victim,
                 crashed>>

BeginPrune ==
  /\ janitor = "tick" /\ Unlocked
  /\ janitor' = "prune"
  /\ todo' = Registered
  /\ UNCHANGED <<pc, seen, obj, fields, net, world, server, victim, crashed>>

\* Mutant: the sense of Active is inverted.
CheckActive(s) ==
  /\ janitor = "prune"
  /\ victim = None
  /\ s \in todo
  /\ todo' = todo \ {s}
  /\ victim' = IF active[s] /\ lapsed[s] THEN s ELSE None
  /\ UNCHANGED <<pc, seen, obj, fields, net, world, server, janitor, crashed>>

CheckIdle(s) ==
  /\ janitor = "prune"
  /\ victim = None
  /\ s \in todo
  /\ todo' = todo \ {s}
  /\ victim' = IF ~active[s] /\ lapsed[s] THEN s ELSE None
  /\ UNCHANGED <<pc, seen, obj, fields, net, world, server, janitor, crashed>>

\* Mutant: the session is deleted, its player is not.
EvictSessionOnly ==
  /\ janitor = "prune"
  /\ victim # None
  /\ sessions' = [sessions EXCEPT ![UserOf[victim]] = None]
  /\ victim' = None
  /\ UNCHANGED <<pc, seen, obj, fields, net, players, joined, server, janitor,
                 todo, crashed>>

\* GameWorld.Disconnect, which tells the players that are left, and the delete;
\* no lookup can come between them.
Evict ==
  /\ janitor = "prune"
  /\ victim # None
  /\ players' = players \ {victim}
  /\ IF victim \in players /\ SendPanics(players')
       THEN crashed' = TRUE /\ UNCHANGED sessions
       ELSE /\ sessions' = [sessions EXCEPT ![UserOf[victim]] = None]
            /\ UNCHANGED crashed
  /\ victim' = None
  /\ UNCHANGED <<pc, seen, obj, fields, net, joined, server, janitor, todo>>

EndPrune ==
  /\ janitor = "prune"
  /\ victim = None
  /\ todo = {}
  /\ janitor' = "select"
  /\ UNCHANGED <<pc, seen, obj, fields, net, world, server, todo, victim,
                 crashed>>

Janitor ==
  \/ Tick \/ BeginPrune \/ (\E s \in Handshake : CheckIdle(s)) \/ Evict \/ EndPrune

-----------------------------------------------------------------------------
\* WebTransportServer.Stop

BeginShutdown ==
  /\ "stop" \in Events
  /\ server = "up" /\ Unlocked
  /\ server' = "stop"
  /\ UNCHANGED <<pc, seen, obj, fields, net, world, janitor, todo, victim,
                 crashed>>

\* Shutdown closes one registered session after the other, under mu.
ShutdownSession(s) ==
  /\ server = "stop"
  /\ s \in Registered
  /\ pc[Stop(s)] = "idle"
  /\ \A g \in Handshake : ~InClose(Stop(g))
  /\ Goto(Stop(s), "markInactive")
  /\ UNCHANGED <<seen, obj, fields, net, world, manager, crashed>>

EndShutdown ==
  /\ server = "stop"
  /\ \A s \in Registered : pc[Stop(s)] = "done"
  /\ server' = "stopped"
  /\ UNCHANGED <<pc, seen, obj, fields, net, world, janitor, todo, victim,
                 crashed>>

\* s.sessions is set to nil and the WebTransport server hard-stopped.
DropServer ==
  /\ server = "stopped"
  /\ server' = "nil"
  /\ lost' = Handshake
  /\ UNCHANGED <<pc, seen, obj, fields, on, reads, connClosed, cancelled,
                 chanClosed, world, janitor, todo, victim, crashed>>

Shutdown ==
  \/ BeginShutdown \/ (\E s \in Handshake : ShutdownSession(s))
  \/ EndShutdown \/ DropServer

-----------------------------------------------------------------------------
\* The environment

\* The peer closes the connection, or the path to it dies.
Lose(h) ==
  /\ h \in Unreliable
  /\ pc[Handler(h)] # "idle"
  /\ h \notin lost
  /\ lost' = lost \cup {h}
  /\ UNCHANGED <<pc, seen, obj, fields, on, reads, connClosed, cancelled,
                 chanClosed, world, manager, crashed>>

\* Five minutes pass after LastActive was set.  No handshake takes that long.
Lapse(s) ==
  /\ "prune" \in Events
  /\ obj[s] = s
  /\ ~lapsed[s]
  /\ \A h \in Handshake : ~InFlight(h)
  /\ lapsed' = [lapsed EXCEPT ![s] = TRUE]
  /\ UNCHANGED <<pc, seen, obj, active, conn, stream, closing, queued, net,
                 world, manager, crashed>>

-----------------------------------------------------------------------------
Init ==
  /\ pc = [p \in Proc |-> "idle"]
  /\ seen = [p \in Proc |-> None]
  /\ obj = [h \in Handshake |-> None]
  /\ active = [s \in Handshake |-> FALSE]
  /\ lapsed = [s \in Handshake |-> FALSE]
  /\ conn = [s \in Handshake |-> None]
  /\ stream = [s \in Handshake |-> None]
  /\ closing = [s \in Handshake |-> None]
  /\ queued = [s \in Handshake |-> 0]
  /\ on = [h \in Handshake |-> None]
  /\ reads = [h \in Handshake |-> None]
  /\ lost = {} /\ connClosed = {} /\ cancelled = {} /\ chanClosed = {}
  /\ sessions = [u \in User |-> None]
  /\ players = {} /\ joined = {}
  /\ server = "up" /\ janitor = "select" /\ todo = {} /\ victim = None
  /\ crashed = FALSE

HandshakeStep(h) ==
  \/ Lookup(h) \/ CreateSession(h) \/ NilManager(h) \/ Rebind(h)
  \/ OpenStream(h) \/ Activate(h) \/ Arm(h) \/ Join(h)

Next ==
  /\ ~crashed
  /\ \/ \E h \in Handshake :
          \/ Begin(h) \/ HandshakeStep(h) \/ ReaderStep(h) \/ BeatStep(h)
          \/ RunStep(h) \/ Lose(h) \/ Lapse(h)
     \/ \E p \in Proc : CloseStep(p)
     \/ Janitor
     \/ Shutdown

Spec == Init /\ [][Next]_vars

-----------------------------------------------------------------------------
\* Every goroutine the scheduler can run is run eventually, tickers tick and
\* time passes.  Logins, packets, failures and shutdown are nobody's duty; a
\* packet is read or not as the peer pleases, so a reader is only owed the
\* steps that do not wait for one.  A sync.RWMutex starves nobody: a handler
\* that waits for one prune to end is not kept out by the next.
Alive(A) == ~crashed /\ A

Fairness ==
  /\ \A h \in Handshake :
       /\ WF_vars(Alive(HandshakeStep(h)))
       /\ SF_vars(Alive(Lookup(h) \/ CreateSession(h)))
       /\ WF_vars(Alive(\/ ReaderStart(h) \/ ReadCancelled(h) \/ ReadFails(h)
                        \/ PushPacket(h)))
       /\ WF_vars(Alive(BeatStep(h)))
       /\ WF_vars(Alive(RunStep(h)))
       /\ WF_vars(Alive(Lapse(h)))
  /\ \A p \in Proc : WF_vars(Alive(CloseStep(p)))
  /\ WF_vars(Alive(Janitor))

FairSpec == Spec /\ Fairness

-----------------------------------------------------------------------------
\* Types of every variable.
TypeOK ==
  /\ pc \in [Proc -> Label]
  /\ seen \in [Proc -> Handshake \cup {None}]
  /\ obj \in [Handshake -> Handshake \cup {None}]
  /\ active \in [Handshake -> BOOLEAN]
  /\ lapsed \in [Handshake -> BOOLEAN]
  /\ conn \in [Handshake -> Handshake \cup {None}]
  /\ stream \in [Handshake -> Handshake \cup {None}]
  /\ closing \in [Handshake -> Handshake \cup {None}]
  /\ queued \in [Handshake -> 0..QueueCap]
  /\ on \in [Handshake -> Handshake \cup {None}]
  /\ reads \in [Handshake -> Handshake \cup {None}]
  /\ lost \subseteq Handshake
  /\ connClosed \subseteq Handshake
  /\ cancelled \subseteq Handshake
  /\ chanClosed \subseteq Handshake
  /\ sessions \in [User -> Handshake \cup {None}]
  /\ players \subseteq Handshake
  /\ joined \subseteq Handshake
  /\ server \in {"up", "stop", "stopped", "nil"}
  /\ janitor \in {"select", "tick", "prune"}
  /\ todo \subseteq Handshake
  /\ victim \in Handshake \cup {None}
  /\ crashed \in BOOLEAN

\* Handles are never dangling: a handshake that works on a *Session, and every
\* goroutine it spawned, works on one that CreateSession made and gave a
\* connection, and the manager has no other.
Unbound == {"idle", "lookup", "create", "refused", "panicked"}

ObjectInv ==
  /\ \A p \in Proc : Mine(p) = None => pc[p] \in Unbound
  /\ \A h \in Handshake : obj[h] # None =>
       /\ pc[Handler(h)] \notin {"idle", "lookup", "create"}
       /\ obj[obj[h]] = obj[h]
       /\ conn[obj[h]] # None
  /\ \A u \in User : sessions[u] # None => obj[sessions[u]] = sessions[u]

\* The goroutines of a handshake start where the code starts them: the reader
\* and the heartbeat at the end of Start, Run when the handler ends well.
SpawnInv ==
  \A h \in Handshake :
    /\ pc[Handler(h)] \notin Started =>
         pc[Reader(h)] = "idle" /\ pc[Beat(h)] = "idle"
    /\ pc[Handler(h)] # "served" => pc[Run(h)] = "idle"

\* The channel in s.Closing was made by a Start of that session which is over,
\* and so was every channel that was closed.
ChannelInv ==
  /\ \A s \in Handshake : closing[s] # None =>
       /\ obj[closing[s]] = s
       /\ pc[Handler(closing[s])] \in Started
  /\ \A h \in chanClosed : pc[Handler(h)] \in Started

\* A closed channel stays in s.Closing only while the goroutine that closed it
\* is between close(s.Closing) and s.Closing = nil (session.go:224-225): once
\* every Close of a session has returned, the next one cannot panic.
ClosedChannelHasCloser ==
  \A s \in Handshake : Closed(closing[s]) =>
    \E p \in Proc : pc[p] = "clearChan" /\ Mine(p) = s

\* What the proofs carry from step to step.
SessionInv ==
  TypeOK /\ ObjectInv /\ SpawnInv /\ ChannelInv /\ ClosedChannelHasCloser

\* Every player belongs to a session the manager still has, so pruneInactive,
\* which "removes sessions that have been inactive for 5 minutes"
\* (session.go:170), can reach it once its client has gone.
JanitorReachesPlayers == players \subseteq Registered

\* The manager and the game world know the same sessions: also, a registered
\* session has a player once the handshake that created it ended.  Connect,
\* Disconnect, CreateSession and pruneInactive keep the two maps in step.
RegistryMatchesWorld ==
  /\ JanitorReachesPlayers
  /\ \A s \in Registered : s \in players \/ InFlight(s)

\* A connection that was served and then replaced by a reconnect has been
\* closed: a session never talks to two live connections (Session.Reconnect).
SupersededIsClosed ==
  \A h \in Handshake :
    pc[Handler(h)] = "served" /\ conn[obj[h]] # h => h \in connClosed

\* Where every user logs in once and nobody is kicked or stopped, the server
\* closes only connections that are lost: no failure of one client, at whatever
\* step it comes, makes another's reader or heartbeat close its session.
OnlyLostAreClosed == connClosed \subseteq lost

\* A handshake that ends well has sent its client the players: "When a client
\* joins send other players current positions" (README.md:19).
JoinSendsPlayers ==
  \A h \in Handshake : pc[Handler(h)] = "served" => h \in joined

\* The player of a connection that is gone leaves the world, unless a reconnect
\* replaces the connection: the reader's error or the heartbeat's closes the
\* session and the janitor removes it.
LostClientLeaves ==
  \A h, s \in Handshake :
    (h \in lost /\ conn[s] = h) ~> (crashed \/ conn[s] # h \/ s \notin players)

\* The heartbeat goroutines of a session that stays inactive all end, whichever
\* channel they were watching when it was closed.
HeartbeatsEnd ==
  \A h \in Handshake :
    \/ []<>(obj[h] = None \/ active[obj[h]])
    \/ <>[](crashed \/ pc[Beat(h)] \in {"idle", "done"})


=============================================================================
