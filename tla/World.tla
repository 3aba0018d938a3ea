-------------------------------- MODULE World ---------------------------------
(***************************************************************************)
(* The game world (game.go, game_respond.go): who is in Players, where     *)
(* they are, and what the world has written to each client's stream.       *)
(*                                                                         *)
(* The world's writer is guarded by writer.mu, the map Players by pmu, but *)
(* not everywhere.  A handler connects a client (Join), its packet loop    *)
(* moves it and sends its chats (Loop), and the janitor disconnects it.    *)
(* reader.mu lets one packet of a session be handled at a time, so one     *)
(* Loop stands for all of a session's.  pmu is held over several steps     *)
(* only by Broadcast.  A session is named by its client.                   *)
(***************************************************************************)
EXTENDS Integers, Sequences, FiniteSets, SequencesExt

CONSTANTS
  Client,      \* sessions whose Start succeeded
  Edge,        \* the largest coordinate (100)
  Spawn,       \* where players start: rand.IntN(100) twice
  Step,        \* the int8 pairs of the clients' moves
  MaxPackets,  \* bound on the packets of a client that are handled
  Sends,       \* what packets a client sends: "chat", "move"
  Fickle,      \* clients whose session may close
  Loyal,       \* those of them that may come back
  None

Join(c) == <<"join", c>>
Loop(c) == <<"loop", c>>
Janitor == <<"janitor", None>>
Thread == ({"join", "loop"} \X Client) \cup {Janitor}

ASSUME WorldAssumption ==
  /\ Edge \in Nat \ {0}
  /\ Spawn \subseteq (0..(Edge - 1)) \X (0..(Edge - 1))
  /\ Step \subseteq (-128..127) \X (-128..127)
  /\ MaxPackets \in Nat
  /\ Sends \in [Client -> SUBSET {"chat", "move"}]
  /\ Fickle \subseteq Client /\ Loyal \subseteq Fickle
  /\ None \notin Client \cup Thread

VARIABLES
  pc,        \* control point of every thread
  state,     \* of the session: "new", "open" or "closed"
  back,      \* clients that have come back (history)
  packets,   \* packets handled for a client (history)
  players,   \* the keys of Players
  at,        \* X and Y of the Player made for a client
  goal,      \* nx and ny of movePlayer, while it runs
  news,      \* the message a thread broadcasts or is about to
  todo,      \* players its Broadcast has yet to write to
  list,      \* the players sendPlayers collected
  writer,    \* the thread that holds the world's writer.mu
  sent,      \* what was written to the client's stream
  casts,     \* number of broadcasts begun (history)
  crashed

session == <<state, back, packets>>
vars == <<pc, session, players, at, goal, news, todo, list, writer, sent,
          casts, crashed>>

Position == (0..Edge) \X (0..Edge)

\* nr tells broadcasts apart; what is written to one stream only has number 0.
News ==
  [kind : {"connect", "disconnect", "chat"}, who : Client, nr : Nat]
    \cup [kind : {"move"}, who : Client, at : Position, nr : Nat]

Message ==
  News \cup [kind : {"players"}, all : SUBSET (Client \X Position), nr : {0}]

Label == {"idle", "insert", "announce", "cast", "rejoin", "greet", "collect",
          "sendList", "stay", "setX", "setY"}

Goto(t, l) == pc' = [pc EXCEPT ![t] = l]

\* A write to the stream of a closed session fails; nobody looks at the error.
Written(s, m) ==
  [c \in Client |-> IF c \in s /\ state[c] = "open" THEN Append(sent[c], m) ELSE sent[c]]

-----------------------------------------------------------------------------
\* Broadcast, under writer.mu

\* Mutant: the writer's mutex is not taken.
AnnounceUnlocked(t) ==
  /\ pc[t] = "announce"
  /\ writer' = t
  /\ casts' = casts + 1
  /\ news' = [news EXCEPT ![t].nr = casts']
  /\ todo' = [todo EXCEPT ![t] = players]
  /\ Goto(t, "cast")
  /\ UNCHANGED <<session, players, at, goal, list, sent, crashed>>

\* The mutex is taken, the message made, and pmu read-locked.
Announce(t) ==
  /\ pc[t] = "announce"
  /\ writer = None
  /\ writer' = t
  /\ casts' = casts + 1
  /\ news' = [news EXCEPT ![t].nr = casts']
  /\ todo' = [todo EXCEPT ![t] = players]
  /\ Goto(t, "cast")
  /\ UNCHANGED <<session, players, at, goal, list, sent, crashed>>

\* The range over Players does not come to a key that was deleted meanwhile.
CastTo(t, c) ==
  /\ pc[t] = "cast"
  /\ c \in todo[t] \cap players
  /\ todo' = [todo EXCEPT ![t] = @ \ {c}]
  /\ sent' = Written({c}, news[t])
  /\ UNCHANGED <<pc, session, players, at, goal, news, list, writer, casts,
                 crashed>>

CastEnd(t) ==
  /\ pc[t] = "cast"
  /\ todo[t] \cap players = {}
  /\ todo' = [todo EXCEPT ![t] = {}]
  /\ news' = [news EXCEPT ![t] = None]
  /\ writer' = None
  /\ Goto(t, IF t[1] = "join" THEN "collect" ELSE "idle")
  /\ UNCHANGED <<session, players, at, goal, list, sent, casts, crashed>>

BroadcastStep(t) == Announce(t) \/ (\E c \in Client : CastTo(t, c)) \/ CastEnd(t)

\* A Lock of pmu waits for every Broadcast.
Iterating == \E t \in Thread : pc[t] = "cast"

-----------------------------------------------------------------------------
\* Connect and Reconnect

\* handleWT made a session, started it and calls Connect, which finds no player.
Arrive(c) ==
  /\ state[c] = "new"
  /\ state' = [state EXCEPT ![c] = "open"]
  /\ Goto(Join(c), "insert")
  /\ UNCHANGED <<back, packets, players, at, goal, news, todo, list, writer,
                 sent, casts, crashed>>

Insert(c) ==
  /\ pc[Join(c)] = "insert"
  /\ ~Iterating
  /\ players' = players \cup {c}
  /\ \E p \in Spawn : at' = [at EXCEPT ![c] = p]
  /\ news' = [news EXCEPT ![Join(c)] = [kind |-> "connect", who |-> c, nr |-> 0]]
  /\ Goto(Join(c), "announce")
  /\ UNCHANGED <<session, goal, todo, list, writer, sent, casts, crashed>>

\* A client whose session closed logs in again: a new connection and stream,
\* and Reconnect, which returns if the player is gone.
Return(c) ==
  /\ c \in Loyal \ back
  /\ state[c] = "closed" /\ pc[Join(c)] = "idle"
  /\ state' = [state EXCEPT ![c] = "open"]
  /\ back' = back \cup {c}
  /\ sent' = [sent EXCEPT ![c] = <<>>]
  /\ Goto(Join(c), "rejoin")
  /\ UNCHANGED <<packets, players, at, goal, news, todo, list, writer, casts,
                 crashed>>

Rejoin(c) ==
  /\ pc[Join(c)] = "rejoin"
  /\ Goto(Join(c), IF c \in players THEN "greet" ELSE "idle")
  /\ UNCHANGED <<session, players, at, goal, news, todo, list, writer, sent,
                 casts, crashed>>

\* playerConnectedSend without broadcast: only the client itself is told.
Greet(c) ==
  /\ pc[Join(c)] = "greet"
  /\ writer = None
  /\ sent' = Written({c}, [kind |-> "connect", who |-> c, nr |-> 0])
  /\ Goto(Join(c), "collect")
  /\ UNCHANGED <<session, players, at, goal, news, todo, list, writer, casts,
                 crashed>>

\* Mutant: players whose session is closed are left out.
CollectOpen(c) ==
  /\ pc[Join(c)] = "collect"
  /\ list' = [list EXCEPT ![c] = {<<p, at[p]>> : p \in {q \in players : state[q] = "open"}}]
  /\ Goto(Join(c), "sendList")
  /\ UNCHANGED <<session, players, at, goal, news, todo, writer, sent, casts,
                 crashed>>

\* sendPlayers collects the players under pmu and gives it back...
Collect(c) ==
  /\ pc[Join(c)] = "collect"
  /\ list' = [list EXCEPT ![c] = {<<p, at[p]>> : p \in players}]
  /\ Goto(Join(c), "sendList")
  /\ UNCHANGED <<session, players, at, goal, news, todo, writer, sent, casts,
                 crashed>>

\* ... before it waits for writer.mu.
SendList(c) ==
  /\ pc[Join(c)] = "sendList"
  /\ writer = None
  /\ sent' = Written({c}, [kind |-> "players", all |-> list[c], nr |-> 0])
  /\ list' = [list EXCEPT ![c] = {}]
  /\ Goto(Join(c), "idle")
  /\ UNCHANGED <<session, players, at, goal, news, todo, writer, casts,
                 crashed>>

JoinStep(c) ==
  Insert(c) \/ Rejoin(c) \/ Greet(c) \/ Collect(c) \/ SendList(c)

-----------------------------------------------------------------------------
\* A packet of a client: movePlayer and sendChat

Sign(n) == IF n > 0 THEN 1 ELSE IF n < 0 THEN -1 ELSE 0

\* Mutant: only the far edge is looked at.
WrapAbove(n) == IF n > Edge THEN 0 ELSE n

\* The grid is a torus, with Edge on it.
Wrap(n) == IF n > Edge THEN 0 ELSE IF n < 0 THEN Edge ELSE n

\* Run takes packets of a session that was served, and goes on with those that
\* are queued when it has closed or reconnects.  A client that is no player is
\* ignored.
Packet(c) ==
  /\ state[c] # "new" /\ pc[Loop(c)] = "idle"
  /\ c \in back \/ pc[Join(c)] = "idle"
  /\ packets[c] < MaxPackets
  /\ c \in players
  /\ packets' = [packets EXCEPT ![c] = @ + 1]
  /\ \/ /\ "chat" \in Sends[c]
        /\ news' = [news EXCEPT ![Loop(c)] =
                      [kind |-> "chat", who |-> c, nr |-> 0]]
        /\ Goto(Loop(c), "announce")
        /\ UNCHANGED goal
     \/ /\ "move" \in Sends[c]
        /\ \E m \in Step :
             LET to == <<Wrap(at[c][1] + Sign(m[1])), Wrap(at[c][2] + Sign(m[2]))>> IN
               /\ goal' = [goal EXCEPT ![c] = to]
               /\ Goto(Loop(c), IF to = at[c] THEN "stay" ELSE "setX")
        /\ UNCHANGED news
  /\ UNCHANGED <<state, back, players, at, todo, list, writer, sent, casts,
                 crashed>>

\* Players is indexed anew without pmu, for each of the lock, X, Y and the unlock; a player
\* that is gone is a nil pointer.  At the last of them Y is written.
NoPlayer(c) ==
  /\ pc[Loop(c)] \in {"stay", "setX", "setY"}
  /\ c \notin players
  /\ crashed' = TRUE
  /\ \/ UNCHANGED at
     \/ pc[Loop(c)] = "setY" /\ at' = [at EXCEPT ![c] = <<@[1], goal[c][2]>>]
  /\ UNCHANGED <<pc, session, players, goal, news, todo, list, writer, sent, casts>>

\* A move that leads nowhere writes back what it read and is not broadcast.
Stay(c) ==
  /\ pc[Loop(c)] = "stay"
  /\ c \in players
  /\ goal' = [goal EXCEPT ![c] = None]
  /\ Goto(Loop(c), "idle")
  /\ UNCHANGED <<session, players, at, news, todo, list, writer, sent, casts,
                 crashed>>

SetX(c) ==
  /\ pc[Loop(c)] = "setX"
  /\ c \in players
  /\ at' = [at EXCEPT ![c] = <<goal[c][1], @[2]>>]
  /\ Goto(Loop(c), "setY")
  /\ UNCHANGED <<session, players, goal, news, todo, list, writer, sent, casts,
                 crashed>>

\* Mutant: the message is made before Y is written.
SetYLate(c) ==
  /\ pc[Loop(c)] = "setY"
  /\ c \in players
  /\ at' = [at EXCEPT ![c] = <<@[1], goal[c][2]>>]
  /\ goal' = [goal EXCEPT ![c] = None]
  /\ news' = [news EXCEPT ![Loop(c)] =
                [kind |-> "move", who |-> c, at |-> at[c], nr |-> 0]]
  /\ Goto(Loop(c), "announce")
  /\ UNCHANGED <<session, players, todo, list, writer, sent, casts, crashed>>

\* The message is made of the Player read first, which nobody else moves.
SetY(c) ==
  /\ pc[Loop(c)] = "setY"
  /\ c \in players
  /\ at' = [at EXCEPT ![c] = <<@[1], goal[c][2]>>]
  /\ goal' = [goal EXCEPT ![c] = None]
  /\ news' = [news EXCEPT ![Loop(c)] =
                [kind |-> "move", who |-> c, at |-> at'[c], nr |-> 0]]
  /\ Goto(Loop(c), "announce")
  /\ UNCHANGED <<session, players, todo, list, writer, sent, casts, crashed>>

LoopStep(c) == NoPlayer(c) \/ Stay(c) \/ SetX(c) \/ SetY(c)

-----------------------------------------------------------------------------
\* The session closes; the janitor evicts it and calls Disconnect.

Close(c) ==
  /\ c \in Fickle
  /\ state[c] = "open"
  /\ state' = [state EXCEPT ![c] = "closed"]
  /\ UNCHANGED <<pc, back, packets, players, at, goal, news, todo, list,
                 writer, sent, casts, crashed>>

\* Who may be reading or writing the map Players at this moment.
InMap ==
  \E t \in Thread : pc[t] \in {"insert", "rejoin", "collect", "cast", "stay", "setX",
                             "setY"}

\* No handshake takes the five minutes, but a packet may be in hand when Close has
\* cleared Active and not yet set LastActive (session.go:221-222).  The delete
\* takes no pmu: if the map is in use the runtime may end the process.
Disconnect(c) ==
  /\ pc[Janitor] = "idle"
  /\ state[c] = "closed" /\ pc[Join(c)] = "idle"
  /\ c \in players
  /\ players' = players \ {c}
  /\ news' = [news EXCEPT ![Janitor] =
                [kind |-> "disconnect", who |-> c, nr |-> 0]]
  /\ Goto(Janitor, "announce")
  /\ crashed' \in {FALSE, InMap}
  /\ UNCHANGED <<session, at, goal, todo, list, writer, sent, casts>>

-----------------------------------------------------------------------------
Init ==
  /\ pc = [t \in Thread |-> "idle"]
  /\ state = [c \in Client |-> "new"]
  /\ back = {} /\ packets = [c \in Client |-> 0]
  /\ players = {}
  /\ at = [c \in Client |-> <<0, 0>>]
  /\ goal = [c \in Client |-> None]
  /\ news = [t \in Thread |-> None]
  /\ todo = [t \in Thread |-> {}]
  /\ list = [c \in Client |-> {}]
  /\ writer = None
  /\ sent = [c \in Client |-> <<>>]
  /\ casts = 0
  /\ crashed = FALSE

ThreadStep(t) ==
  \/ BroadcastStep(t)
  \/ \E c \in Client : t = Join(c) /\ JoinStep(c)
  \/ \E c \in Client : t = Loop(c) /\ LoopStep(c)

Next ==
  /\ ~crashed
  /\ \/ \E t \in Thread : ThreadStep(t)
     \/ \E c \in Client :
          Arrive(c) \/ Return(c) \/ Packet(c) \/ Close(c) \/ Disconnect(c)

Spec == Init /\ [][Next]_vars

-----------------------------------------------------------------------------
\* Types of every variable.
TypeOK ==
  /\ pc \in [Thread -> Label]
  /\ state \in [Client -> {"new", "open", "closed"}]
  /\ back \subseteq Client
  /\ packets \in [Client -> 0..MaxPackets]
  /\ players \subseteq Client
  /\ at \in [Client -> Position]
  /\ goal \in [Client -> Position \cup {None}]
  /\ news \in [Thread -> News \cup {None}]
  /\ todo \in [Thread -> SUBSET Client]
  /\ list \in [Client -> SUBSET (Client \X Position)]
  /\ writer \in Thread \cup {None}
  /\ sent \in [Client -> Seq(Message)]
  /\ casts \in Nat
  /\ crashed \in BOOLEAN

\* A client that is served: its session is open and the world is done with its
\* login.
Served(c) == c \in players /\ state[c] = "open" /\ pc[Join(c)] = "idle"

\* Broadcasts reach every client in one order: the writer's mutex is held until
\* the last stream was written.
SameOrder ==
  \A c \in Client : \A i, j \in DOMAIN sent[c] :
    i < j /\ sent[c][i].nr # 0 /\ sent[c][j].nr # 0 => sent[c][i].nr < sent[c][j].nr

Names(m, p) ==
  \/ m.kind = "connect" /\ m.who = p
  \/ m.kind = "players" /\ \E q \in m.all : q[1] = p

\* However logins overlap, every served client was told of every player whose
\* connect is over, by its list or by a broadcast: "Broadcast when another
\* client joins" (README.md:15).
KnowsEveryone ==
  \A c, p \in Client :
    Served(c) /\ p \in players /\ pc[Join(p)] \notin {"insert", "announce", "cast"}
      => \E i \in DOMAIN sent[c] : Names(sent[c][i], p)

\* The i-th message to c is the last that moves p.
Moves(m, p) == m.kind = "move" /\ m.who = p
LastMove(c, p, i) ==
  Moves(sent[c][i], p) /\ \A j \in DOMAIN sent[c] : j > i => ~Moves(sent[c][j], p)

\* The last move of a player that a client was sent is where the player is,
\* unless a move is under way: "Broadcast clients position when they move"
\* (README.md:18).
LastMoveIsPosition ==
  \A c, p \in Client : Served(c) /\ pc[Loop(p)] = "idle" =>
    \A i \in DOMAIN sent[c] : LastMove(c, p, i) => sent[c][i].at = at[p]

\* At most one broadcast is under way, and a call that returned, by whichever
\* way, has given the world's writer back: nobody waits for it for ever.
OneWriter == \A t \in Thread : pc[t] = "cast" <=> writer = t

\* What a thread that waits for the mutex or broadcasts has in hand: a message,
\* which when it is broadcast has the latest number and is new to whoever has
\* yet to get it.  Numbers that were sent are numbers of broadcasts begun.
CastInv ==
  /\ \A t \in Thread : pc[t] \in {"announce", "cast"} => news[t] \in News
  /\ \A c \in Client : \A i \in DOMAIN sent[c] : sent[c][i].nr <= casts
  /\ \A t \in Thread : pc[t] = "cast" =>
       /\ news[t].nr = casts
       /\ \A c \in todo[t] : \A i \in DOMAIN sent[c] : sent[c][i].nr < casts

\* A loop that is about to move its player knows where to.
GoalInv ==
  \A c \in Client : pc[Loop(c)] \in {"setX", "setY"} => goal[c] \in Position

\* Nobody connects a client before its session is made.
FreshInv == \A c \in Client : state[c] = "new" => pc[Join(c)] = "idle"

\* What the proofs carry from step to step.
WorldInv == TypeOK /\ GoalInv /\ FreshInv /\ OneWriter /\ CastInv /\ SameOrder

\* Where a client was last told that a player is, in its list or by a move.
Told(c, p) ==
  LET tells == SelectSeq(sent[c], LAMBDA m :
                 \/ m.kind = "move" /\ m.who = p
                 \/ m.kind = "players" /\ \E q \in m.all : q[1] = p)
  IN IF tells = <<>> THEN {}
     ELSE IF Last(tells).kind = "move" THEN {Last(tells).at}
     ELSE {q[2] : q \in {r \in Last(tells).all : r[1] = p}}

\* "When a client joins send other players current positions" (README.md:19):
\* of a player that is not moving, a served client was told where it is, or nothing.
JoinSendsCurrent ==
  \A c, p \in Client :
    Served(c) /\ p \in players \ {c} /\ pc[Loop(p)] = "idle" => Told(c, p) \subseteq {at[p]}

===============================================================================
