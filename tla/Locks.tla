-------------------------------- MODULE Locks ---------------------------------
(***************************************************************************)
(* Who waits for whom on the server: the mutexes of session.go, game.go,   *)
(* game_handlers.go and game_respond.go, and the streams that are written  *)
(* while they are held.                                                    *)
(*                                                                         *)
(* A thread runs one operation at a time, the sequence of what it may have *)
(* to wait for.  A critical section in which nothing can block is passed   *)
(* in one step with the lock that is taken next: the step waits for both.  *)
(* An operation that returns early waits for less.  reader.mu is left out: *)
(* it is the first lock a packet loop takes, and Loop(c) stands for all    *)
(* loops of a session, one of which holds it.                              *)
(***************************************************************************)
EXTENDS Naturals, Sequences

CONSTANTS
  Client,   \* sessions, named by their client
  Does,     \* what is done by or for a client: "return", "ping", or packets
  Events,   \* what the server does by itself: "sweep", "stop"
  Unreliable,  \* clients whose connection may be lost
  None, Leaked

\* Kinds of packets, by what the server does with them.
Packets == {"chat", "move", "batch", "last", "kick"}

ASSUME LocksAssumption ==
  /\ Does \in [Client -> SUBSET (Packets \cup {"return", "ping"})]
  /\ Events \subseteq {"sweep", "stop"}
  /\ Unreliable \subseteq Client

Join(c) == <<"join", c>>  \* handleWT
Loop(c) == <<"loop", c>>  \* Session.Run
Beat(c) == <<"beat", c>>  \* Session.StartHeartbeat
Janitor == <<"janitor", None>>
Stopper == <<"stop", None>>
Thread == ({"join", "loop", "beat"} \X Client) \cup {Janitor, Stopper}

ASSUME NoneAssumption == None # Leaked /\ None \notin Thread /\ Leaked \notin Thread

Sessions == <<"sessions", None>>   \* SessionManager.mu
World == <<"world", None>>         \* GameWorld.writer.mu
Pmu == <<"pmu", None>>             \* GameWorld.pmu against new readers
Player(c) == <<"player", c>>       \* Player.mu
Session(c) == <<"session", c>>     \* Session.writer.mu
Lock == {Sessions, World, Pmu} \cup ({"player", "session"} \X Client)

VARIABLES
  prog,     \* what is left of the operation of a thread
  holder,   \* who has a lock
  left,     \* the streams a Broadcast has yet to write to
  stream,   \* of a session: "none" yet, "nil", "up" or "dead"
  full,     \* clients whose stream takes no more until they read
  players,  \* the keys of GameWorld.Players
  served,   \* sessions with a packet loop
  stopped,  \* Stop was called
  crashed   \* a panic outside an HTTP handler ended the process

sessionVars == <<stream, full, players, served, stopped>>
vars == <<prog, holder, left, sessionVars, crashed>>

-----------------------------------------------------------------------------
\* The operations.  A step passes the locks in "past", takes "on", or writes to its
\* stream, and in the end gives back "free".

Do(what, on, free) == [do |-> what, past |-> {}, on |-> on, free |-> free]
After(past, step) == [step EXCEPT !.past = past]
Take(past, l) == After(past, Do("take", l, {}))
Send(c, locks) == Do("send", c, locks)
Share == After({Pmu}, Do("share", None, {}))

\* Mutant: an early return keeps the writer.
AnnounceKept(past) ==
  <<Take(past, World), Share, Do("cast", None, {})>>

\* Under writer.mu, Broadcast holds pmu as a reader while it writes.
Announce(past) ==
  <<Take(past, World), Share, Do("cast", None, {World})>>

\* Mutant: the session's writer is taken before the world's.
GreetSessionFirst(c) ==
  <<Take({}, Session(c)), Take({}, World), Do("greet", c, {World, Session(c)})>>

\* playerConnectedSend to one: a write of the world's buffer under both mutexes.
Greet(c) == <<Take({}, World), Take({}, Session(c)), Do("greet", c, {World, Session(c)})>>

\* Mutant: pmu is locked, and kept while the players are sent.
SendPlayersUnderPmu(c) == <<Take({}, Pmu), Take({}, World), Send(c, {World, Pmu})>>

SendPlayers(c) == <<Take({Pmu}, World), Send(c, {World})>>

SendGarbage(c) ==
  <<Take({Pmu}, Player(c)), Take({}, Session(c)), Send(c, {Session(c), Player(c)})>>

SendGarbageAck(c) == <<Take({Pmu, Player(c)}, Session(c)), Send(c, {Session(c)})>>

\* CreateSession, Start, Connect.  A Lock of pmu keeps new readers out first and
\* then waits for those inside.
Connect(c) ==
  <<After({Sessions}, Do("start", c, {})), Take({}, Pmu), Do("insert", c, {Pmu})>>
    \o Announce({}) \o SendPlayers(c) \o SendGarbage(c) \o <<Do("serve", c, {})>>

\* Session.Reconnect, GameWorld.Reconnect.
Reconnect(c) ==
  <<Do("start", c, {}), Do("rejoin", c, {})>>
    \o Greet(c) \o SendPlayers(c) \o SendGarbage(c) \o <<Do("serve", c, {})>>

\* What a packet leads to.  A "batch" is acknowledged, the "last" answered with a
\* new request, as is one that fails; after too many failures the session is
\* closed under the player's mutex.
Handle(c, kind) ==
  CASE kind = "chat"  -> Announce({Pmu})
    [] kind = "move"  -> Announce({Pmu, Player(c)})
    [] kind = "batch" -> SendGarbageAck(c)
    [] kind = "last"  -> SendGarbage(c)
    [] kind = "kick"  -> <<Take({Pmu}, Player(c)), Do("kick", c, {Player(c)})>>
                           \o SendGarbage(c)

Ping(c) == <<Take({}, Session(c)), Send(c, {Session(c)})>>
Prune == <<Do("prune", None, {Sessions})>>

-----------------------------------------------------------------------------
\* Beginning an operation: not once Stop has closed the sessions, as main is about
\* to return.

Begin(t, p) ==
  /\ ~stopped /\ prog[t] = <<>>
  /\ prog' = [prog EXCEPT ![t] = p]
  /\ UNCHANGED <<holder, left, sessionVars, crashed>>

\* GetValidSession finds the session or not.  An evicted client is over.
Login(c) ==
  /\ holder[Sessions] = None
  /\ \/ stream[c] = "none" /\ Begin(Join(c), Connect(c))
     \/ "return" \in Does[c] /\ c \in players /\ Begin(Join(c), Reconnect(c))

Packet(c) ==
  /\ c \in served \cap players
  /\ \E kind \in Does[c] \cap Packets : Begin(Loop(c), Handle(c, kind))

\* QueueMessage refuses an inactive session.
Tick(c) == "ping" \in Does[c] /\ stream[c] = "up" /\ Begin(Beat(c), Ping(c))

Sweep == "sweep" \in Events /\ Begin(Janitor, <<Take({}, Sessions)>> \o Prune)

Stop == "stop" \in Events /\ Begin(Stopper, <<After({Sessions}, Do("stop", None, {}))>>)

-----------------------------------------------------------------------------
\* The steps of an operation

At(t, what) == prog[t] # <<>> /\ Head(prog[t]).do = what
On(t) == Head(prog[t]).on

\* The locks a thread is about to pass or take.
Wants(t) ==
  IF prog[t] = <<>> THEN {}
  ELSE Head(prog[t]).past \cup (IF At(t, "take") THEN {On(t)} ELSE {})
Ready(t) == \A l \in Wants(t) : holder[l] = None

Freed(locks) == [l \in Lock |-> IF l \in locks THEN None ELSE holder[l]]

\* The step is over.
Advance(t) ==
  /\ prog' = [prog EXCEPT ![t] = Tail(@)]
  /\ holder' = Freed(Head(prog[t]).free)

TakeStep(t) ==
  /\ At(t, "take") /\ Ready(t)
  /\ holder' = [holder EXCEPT ![On(t)] = t]
  /\ prog' = [prog EXCEPT ![t] = Tail(@)]
  /\ UNCHANGED <<left, sessionVars, crashed>>

\* Close cancels the stream there was; OpenStream makes another or fails.
StartStep(t) ==
  /\ At(t, "start") /\ Ready(t)
  /\ LET c == On(t) IN
       /\ \/ stream' = [stream EXCEPT ![c] = "up"]
          \/ /\ c \in Unreliable
             /\ stream' = [stream EXCEPT ![c] = IF @ \in {"none", "nil"} THEN "nil" ELSE "dead"]
       /\ full' = full \ {c}
  /\ Advance(t)
  /\ UNCHANGED <<left, players, served, stopped, crashed>>

\* The readers inside are the broadcasts under way.
InsertStep(t) ==
  /\ At(t, "insert") /\ \A u \in Thread : ~At(u, "cast")
  /\ players' = players \cup {On(t)}
  /\ Advance(t)
  /\ UNCHANGED <<left, stream, full, served, stopped, crashed>>

\* GameWorld.Reconnect looks the player up without pmu.
RejoinStep(t) ==
  /\ At(t, "rejoin")
  /\ prog' = [prog EXCEPT ![t] = IF On(t) \in players THEN Tail(@)
                                     ELSE <<Do("serve", On(t), {})>>]
  /\ UNCHANGED <<holder, left, sessionVars, crashed>>

\* Run is started unless Start failed, and returns if the session is not active.
ServeStep(t) ==
  /\ At(t, "serve")
  /\ served' = IF stream[On(t)] = "up" THEN served \cup {On(t)} ELSE served
  /\ Advance(t)
  /\ UNCHANGED <<left, stream, full, players, stopped, crashed>>

ShareStep(t) ==
  /\ At(t, "share") /\ Ready(t)
  /\ left' = [left EXCEPT ![t] = players]
  /\ Advance(t)
  /\ UNCHANGED <<sessionVars, crashed>>

\* Mutant: a stream that is closed is not cancelled.
WriteUncancelled(c) ==
  stream[c] \in {"up", "dead"} /\ c \notin full /\ full' = full \cup {c}

\* A write to an open stream waits for room, and fills it; to a stream that is
\* cancelled or whose connection is dead it returns at once.
Write(c) ==
  \/ stream[c] = "up" /\ c \notin full /\ full' = full \cup {c}
  \/ stream[c] = "dead" /\ UNCHANGED full

CastTo(t, c) ==
  /\ At(t, "cast") /\ c \in left[t] \cap players
  /\ Write(c)
  /\ left' = [left EXCEPT ![t] = @ \ {c}]
  /\ UNCHANGED <<prog, holder, stream, players, served, stopped, crashed>>

CastEnd(t) ==
  /\ At(t, "cast") /\ left[t] \cap players = {}
  /\ left' = [left EXCEPT ![t] = {}]
  /\ Advance(t)
  /\ UNCHANGED <<sessionVars, crashed>>

SendStep(t) ==
  /\ At(t, "send") \/ At(t, "greet")
  /\ Write(On(t))
  /\ Advance(t)
  /\ UNCHANGED <<left, stream, players, served, stopped, crashed>>

\* A write to a nil stream panics.  net/http recovers a handler, whose deferred
\* unlocks run; the session's writer in playerConnectedSend has none.
Panic(t) ==
  /\ \/ At(t, "send") /\ stream[On(t)] = "nil"
     \/ At(t, "greet") /\ stream[On(t)] = "nil"
     \/ At(t, "cast") /\ \E c \in left[t] \cap players : stream[c] = "nil"
  /\ crashed' = (t[1] # "join")
  /\ prog' = [prog EXCEPT ![t] = <<>>]
  /\ left' = [left EXCEPT ![t] = {}]
  /\ holder' = [l \in Lock |-> IF holder[l] # t THEN holder[l]
                               ELSE IF At(t, "greet") /\ l = Session(On(t)) THEN Leaked
                               ELSE None]
  /\ UNCHANGED sessionVars

KickStep(t) ==
  /\ At(t, "kick")
  /\ stream' = [stream EXCEPT ![On(t)] = "dead"]
  /\ full' = full \ {On(t)}
  /\ Advance(t)
  /\ UNCHANGED <<left, players, served, stopped, crashed>>

\* Disconnect, of a session that has been inactive long enough; then the next.
Evict(c) ==
  /\ At(Janitor, "prune")
  /\ c \in players /\ stream[c] \in {"nil", "dead"}
  /\ players' = players \ {c}
  /\ prog' = [prog EXCEPT ![Janitor] = Announce({}) \o Prune]
  /\ UNCHANGED <<holder, left, stream, full, served, stopped, crashed>>

PruneEnd ==
  /\ At(Janitor, "prune")
  /\ Advance(Janitor)
  /\ UNCHANGED <<left, sessionVars, crashed>>

\* Shutdown passes the manager's lock and closes every session.
StopStep ==
  /\ At(Stopper, "stop") /\ Ready(Stopper)
  /\ stream' = [c \in Client |-> IF stream[c] = "up" THEN "dead" ELSE stream[c]]
  /\ full' = {} /\ stopped' = TRUE
  /\ Advance(Stopper)
  /\ UNCHANGED <<left, players, served, crashed>>

-----------------------------------------------------------------------------
\* The other end

Read(c) ==
  /\ c \in full
  /\ full' = full \ {c}
  /\ UNCHANGED <<prog, holder, left, stream, players, served, stopped, crashed>>

\* The connection is closed or times out; its reader closes the session.
Die(c) ==
  /\ c \in Unreliable
  /\ stream[c] = "up"
  /\ stream' = [stream EXCEPT ![c] = "dead"]
  /\ full' = full \ {c}
  /\ UNCHANGED <<prog, holder, left, players, served, stopped, crashed>>

-----------------------------------------------------------------------------
Init ==
  /\ prog = [t \in Thread |-> <<>>]
  /\ holder = [l \in Lock |-> None]
  /\ left = [t \in Thread |-> {}]
  /\ stream = [c \in Client |-> "none"]
  /\ full = {} /\ players = {} /\ served = {}
  /\ stopped = FALSE /\ crashed = FALSE

Step(t) ==
  \/ TakeStep(t) \/ StartStep(t) \/ InsertStep(t) \/ RejoinStep(t)
  \/ ServeStep(t) \/ ShareStep(t) \/ (\E c \in Client : CastTo(t, c)) \/ CastEnd(t)
  \/ SendStep(t) \/ Panic(t) \/ KickStep(t)
  \/ t = Janitor /\ (PruneEnd \/ \E c \in Client : Evict(c))
  \/ t = Stopper /\ StopStep

Next ==
  /\ ~crashed
  /\ \/ \E t \in Thread : Step(t)
     \/ \E c \in Client : Login(c) \/ Packet(c) \/ Tick(c) \/ Read(c) \/ Die(c)
     \/ Sweep \/ Stop

Spec == Init /\ [][Next]_vars

-----------------------------------------------------------------------------
Kind == {"take", "start", "insert", "rejoin", "serve", "share", "cast", "send",
        "greet", "kick", "prune", "stop"}

\* Types of every variable.
TypeOK ==
  /\ \A t \in Thread : \A i \in DOMAIN prog[t] :
       /\ prog[t][i].do \in Kind
       /\ prog[t][i].on \in Lock \cup Client \cup {None}
       /\ prog[t][i].past \cup prog[t][i].free \subseteq Lock
  /\ holder \in [Lock -> Thread \cup {None, Leaked}]
  /\ left \in [Thread -> SUBSET Client]
  /\ stream \in [Client -> {"none", "nil", "up", "dead"}]
  /\ full \subseteq {c \in Client : stream[c] = "up"}
  /\ players \subseteq Client /\ served \subseteq Client
  /\ stopped \in BOOLEAN /\ crashed \in BOOLEAN

Rank(l) ==
  CASE l = Sessions -> 0
    [] l = World -> 1
    [] l = Pmu -> 2
    [] l[1] = "player" -> 3
    [] l[1] = "session" -> 4

\* Locks are taken in one order: the manager's, the world's writer, pmu, a player,
\* a session's writer.  No code writes this order down; it is spread over five files.
LockOrder ==
  \A t \in Thread : \A l \in Lock :
    holder[l] = t => \A k \in Wants(t) : Rank(l) < Rank(k)

\* Those a thread waits for: who has the lock it wants or, in a Lock of pmu, who is
\* inside as a reader.
WaitsFor(t) ==
  ({holder[l] : l \in Wants(t)} \cap Thread)
    \cup {u \in Thread : At(t, "insert") /\ At(u, "cast")}

\* There is no deadlock: of any threads that wait for a lock, one waits for a
\* thread that is not among them.
NoDeadlock ==
  LET waiting == {t \in Thread : WaitsFor(t) # {}} IN
    \A S \in SUBSET waiting : S # {} => \E t \in S : WaitsFor(t) \cap S = {}

\* An operation that is over, by whichever way, holds no lock; only the writer of
\* a session whose stream is nil stays locked (game_respond.go:40-42).
LocksReturned ==
  \A l \in Lock :
    /\ holder[l] \in Thread => prog[holder[l]] # <<>>
    /\ holder[l] = Leaked => \E c \in Unreliable : l = Session(c)


===============================================================================
