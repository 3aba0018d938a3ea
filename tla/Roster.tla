-------------------------------- MODULE Roster --------------------------------
(***************************************************************************)
(* What a web client makes of the world's messages: ClientStore            *)
(* (frontend/src/lib/stores/client.svelte.ts) keeps an array of players    *)
(* and a map from a player's id to its index, and the handlers             *)
(* (frontend/src/lib/handlers/handlers.ts) change both.  The store is the  *)
(* one the client has when it has handled all that World has written.      *)
(*                                                                         *)
(* Index 1 here is the array's index 0.                                    *)
(***************************************************************************)
EXTENDS World

VARIABLE roster  \* the ClientStore of every client

Hole == [id |-> None]
NewRoster == [user |-> None, map |-> <<>>, players |-> <<>>]

\* The connect message has no coordinates (game_respond.go:23-29).
Newcomer(p) == [id |-> p, at |-> <<0, 0>>]

Set(map, p, i) == [q \in DOMAIN map \cup {p} |-> IF q = p THEN i ELSE map[q]]

\* Mutant: the index is taken after the push.
PushThenMap(r, p) ==
  [r EXCEPT !.map = Set(@, p, Len(r.players) + 2), !.players = Append(@, Newcomer(p))]

Push(r, p) ==
  [r EXCEPT !.map = Set(@, p, Len(r.players) + 1), !.players = Append(@, Newcomer(p))]

\* Mutant: who leaves stays where it was.
Forget(r, p) == r

\* "if (idx)" does not hold of the array's first index, nor of none.
Drop(r, p) ==
  IF p \in DOMAIN r.map /\ r.map[p] # 1
    THEN [r EXCEPT !.map = [q \in DOMAIN @ \ {p} |-> @[q]], !.players[r.map[p]] = Hole]
    ELSE r

\* HandleBConnect: the first who is named is the user.
HandleBConnect(r, m) ==
  IF r.user = None THEN [r EXCEPT !.user = m.who]
  ELSE IF m.kind = "connect" THEN Push(r, m.who)
  ELSE Drop(r, m.who)

HandleBPlayerMoved(r, m) ==
  IF m.who \in DOMAIN r.map
    THEN [r EXCEPT !.players[r.map[m.who]] = [id |-> m.who, at |-> m.at]]
    ELSE r

\* Mutant: the map is built from the second player on.
MapFromSecond(ids) == {i \in DOMAIN ids : i > 1}

Mapped(ids) == DOMAIN ids

\* HandleServerList: the list, in the order it came, replaces what there was.
HandleServerList(r, ids) ==
  [r EXCEPT !.players = [i \in DOMAIN ids |-> [id |-> ids[i][1], at |-> ids[i][2]]],
            !.map = [p \in {ids[i][1] : i \in Mapped(ids)} |->
                       CHOOSE i \in DOMAIN ids : ids[i][1] = p]]

\* The server's range over Players has no order.
Arrangements(S) == Bijection(1..Cardinality(S), S)

Handle(r, m) ==
  CASE m.kind \in {"connect", "disconnect"} -> {HandleBConnect(r, m)}
    [] m.kind = "move" -> {HandleBPlayerMoved(r, m)}
    [] m.kind = "players" -> {HandleServerList(r, ids) : ids \in Arrangements(m.all)}
    [] m.kind = "chat" -> {r}

\* What a client has when it has handled what a step wrote: one message, or none.
\* Client.reset() comes before the streams of a connection.
Read(c) ==
  IF sent'[c] = sent[c] THEN {roster[c]}
  ELSE IF sent'[c] = <<>> THEN {NewRoster}
  ELSE Handle(roster[c], Last(sent'[c]))

RosterInit == Init /\ roster = [c \in Client |-> NewRoster]

RosterNext ==
  /\ Next
  /\ roster' \in {r \in [Client -> UNION {Read(c) : c \in Client}] :
                    \A c \in Client : r[c] \in Read(c)}

RosterSpec == RosterInit /\ [][RosterNext]_<<vars, roster>>

-----------------------------------------------------------------------------
\* Nothing was broadcast between a client's own connect and its list: what came in
\* between would be overwritten, or give it another user.
Clean(c) ==
  /\ Len(sent[c]) >= 2
  /\ sent[c][1].kind = "connect" /\ sent[c][1].who = c
  /\ sent[c][2].kind = "players"

Settled(p) == pc[Join(p)] \notin {"insert", "announce", "cast"} /\ pc[Loop(p)] = "idle"

\* The map leads to the player it is asked for, so a move never moves another.
MapPointsHome ==
  \A c \in Client : \A p \in DOMAIN roster[c].map :
    LET i == roster[c].map[p] IN i \in DOMAIN roster[c].players /\ roster[c].players[i].id = p

Where(r, p) == r.players[r.map[p]].at

\* The i-th message to c is the last that tells of p.
Tells(m, p) == Names(m, p) \/ Moves(m, p)
LastTell(c, p, i) ==
  Tells(sent[c][i], p) /\ \A j \in DOMAIN sent[c] : j > i => ~Tells(sent[c][j], p)

\* A served client whose join was not overlapped has every player in its map, and has it
\* where it is ("When a client joins send other players current positions",
\* README.md:19), unless the player's connect came last: that puts it at the origin.
ShowsEveryone ==
  \A c \in Client : Served(c) /\ Clean(c) => \A p \in players : Settled(p) =>
    /\ p \in DOMAIN roster[c].map
    /\ \A i \in DOMAIN sent[c] : LastTell(c, p, i) =>
         sent[c][i].kind = "connect" \/ Where(roster[c], p) = at[p]

\* Of the players that left, its map has the one at the head of the array, and no other.
OnlyFirstLingers ==
  \A c \in Client : Served(c) /\ Clean(c) /\ pc[Janitor] = "idle" =>
    \A p \in DOMAIN roster[c].map \ players : roster[c].map[p] = 1

===============================================================================
