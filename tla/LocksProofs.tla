----------------------------- MODULE LocksProofs ------------------------------
(***************************************************************************)
(* Theorems about Locks, for any number of clients and whatever they do:   *)
(* types, the order in which locks are taken, that no threads wait for one *)
(* another in a circle, and that an operation gives its locks back.        *)
(***************************************************************************)
EXTENDS Locks, SequenceTheorems, TLAPS

-----------------------------------------------------------------------------
\* What an operation does to the locks of its thread

Instruction ==
  [do : Kind, past : SUBSET Lock, on : Lock \cup Client \cup {None}, free : SUBSET Lock]

Takes(s) == IF s.do = "take" THEN {s.on} ELSE {}

\* A thread that holds H may come to the instruction s: it waits only for locks above
\* those in H, and gives back only what it holds.
Legal(s, H) ==
  /\ s \in Instruction
  /\ s.do = "take" => s.on \in Lock /\ s.free = {}
  /\ s.do \notin {"take", "share", "cast", "prune", "stop"} => s.on \in Client
  /\ \A l \in H : \A k \in s.past \cup Takes(s) : Rank(l) < Rank(k)
  /\ s.free \subseteq H
  /\ s.do = "cast" => s.past = {}
  /\ s.do = "rejoin" => H = {} /\ s.free = {}
  /\ s.do = "prune" => H = {Sessions} /\ s.free = {Sessions}

HeldAfter(s, H) == (H \cup Takes(s)) \ s.free

\* The program p is legal for a thread that holds H, and it holds G when p is over.
Leads(p, H, G) ==
  \E h \in [1..(Len(p) + 1) -> SUBSET Lock] :
    /\ h[1] = H /\ h[Len(p) + 1] = G
    /\ \A i \in 1..Len(p) : Legal(p[i], h[i]) /\ h[i + 1] = HeldAfter(p[i], h[i])

LEMMA LeadsEmpty ==
  ASSUME NEW H \in SUBSET Lock, NEW G
  PROVE  Leads(<<>>, H, G) <=> H = G
<1>1. ASSUME H = G PROVE Leads(<<>>, H, G)
  <2> DEFINE h == [i \in 1..1 |-> H]
  <2>1. h \in [1..1 -> SUBSET Lock] /\ h[1] = H
    OBVIOUS
  <2>2. Len(<<>>) = 0 /\ 1..0 = {} /\ 0 + 1 = 1
    OBVIOUS
  <2> HIDE DEF h
  <2> QED
    BY <1>1, <2>1, <2>2 DEF Leads
<1>2. ASSUME Leads(<<>>, H, G) PROVE H = G
  BY <1>2 DEF Leads
<1> QED
  BY <1>1, <1>2

LEMMA LeadsOne ==
  ASSUME NEW s, NEW H \in SUBSET Lock, Legal(s, H)
  PROVE  Leads(<<s>>, H, HeldAfter(s, H))
<1> DEFINE h == [i \in 1..2 |-> IF i = 1 THEN H ELSE HeldAfter(s, H)]
<1>1. HeldAfter(s, H) \in SUBSET Lock
  BY DEF HeldAfter, Takes, Legal
<1>2. h \in [1..2 -> SUBSET Lock] /\ h[1] = H /\ h[2] = HeldAfter(s, H)
  BY <1>1
<1>3. Len(<<s>>) = 1 /\ <<s>>[1] = s
  OBVIOUS
<1> HIDE DEF h
<1>4. \A i \in 1..1 : Legal(<<s>>[i], h[i]) /\ h[i + 1] = HeldAfter(<<s>>[i], h[i])
  BY <1>2, <1>3
<1> QED
  BY <1>2, <1>3, <1>4 DEF Leads

LEMMA LeadsConcat ==
  ASSUME NEW p \in Seq(Instruction), NEW q \in Seq(Instruction),
         NEW H, NEW G, NEW K, Leads(p, H, G), Leads(q, G, K)
  PROVE  Leads(p \o q, H, K)
<1>1. PICK f \in [1..(Len(p) + 1) -> SUBSET Lock] :
        /\ f[1] = H /\ f[Len(p) + 1] = G
        /\ \A i \in 1..Len(p) : Legal(p[i], f[i]) /\ f[i + 1] = HeldAfter(p[i], f[i])
  BY DEF Leads
<1>2. PICK g \in [1..(Len(q) + 1) -> SUBSET Lock] :
        /\ g[1] = G /\ g[Len(q) + 1] = K
        /\ \A i \in 1..Len(q) : Legal(q[i], g[i]) /\ g[i + 1] = HeldAfter(q[i], g[i])
  BY DEF Leads
<1>3. /\ Len(p) \in Nat /\ Len(q) \in Nat /\ Len(p \o q) = Len(p) + Len(q)
      /\ \A i \in 1..Len(p) : (p \o q)[i] = p[i]
      /\ \A i \in 1..Len(q) : (p \o q)[Len(p) + i] = q[i]
  BY ConcatProperties, LenProperties
<1> DEFINE h == [i \in 1..(Len(p) + Len(q) + 1) |->
                   IF i <= Len(p) THEN f[i] ELSE g[i - Len(p)]]
<1>4. h \in [1..(Len(p) + Len(q) + 1) -> SUBSET Lock]
  BY <1>3
<1>5. \A i \in 1..(Len(p) + 1) : h[i] = f[i]
  BY <1>1, <1>2, <1>3
<1>6. \A i \in 1..(Len(q) + 1) : h[Len(p) + i] = g[i]
  BY <1>3
<1> HIDE DEF h
<1>7. ASSUME NEW i \in 1..(Len(p) + Len(q))
      PROVE  Legal((p \o q)[i], h[i]) /\ h[i + 1] = HeldAfter((p \o q)[i], h[i])
  <2>1. CASE i \in 1..Len(p)
    <3>1. (p \o q)[i] = p[i] /\ h[i] = f[i] /\ h[i + 1] = f[i + 1]
      BY <1>3, <1>5, <2>1
    <3> QED
      BY <1>1, <2>1, <3>1
  <2>2. CASE i \notin 1..Len(p)
    <3>1. PICK j \in 1..Len(q) : i = Len(p) + j
      <4>1. i - Len(p) \in 1..Len(q) /\ i = Len(p) + (i - Len(p))
        BY <1>3, <2>2
      <4> QED
        BY <4>1
    <3>2. j \in 1..(Len(q) + 1) /\ j + 1 \in 1..(Len(q) + 1) /\ i + 1 = Len(p) + (j + 1)
      BY <1>3, <3>1
    <3>3. (p \o q)[i] = q[j] /\ h[i] = g[j] /\ h[i + 1] = g[j + 1]
      BY <1>3, <1>6, <3>1, <3>2
    <3> QED
      BY <1>2, <3>1, <3>3
  <2> QED
    BY <2>1, <2>2
<1>8. h[1] = H /\ h[Len(p) + Len(q) + 1] = K
  <2>1. 1 \in 1..(Len(p) + 1) /\ Len(q) + 1 \in 1..(Len(q) + 1)
    BY <1>3
  <2>2. Len(p) + Len(q) + 1 = Len(p) + (Len(q) + 1)
    BY <1>3
  <2> QED
    BY <1>1, <1>2, <1>5, <1>6, <2>1, <2>2
<1> QED
  BY <1>3, <1>4, <1>7, <1>8 DEF Leads

\* The rest of a program leads on from what its head leaves.
LEMMA LeadsTail ==
  ASSUME NEW p \in Seq(Instruction), p # <<>>, NEW H, NEW G, Leads(p, H, G)
  PROVE  /\ Legal(Head(p), H)
         /\ Leads(Tail(p), HeldAfter(Head(p), H), G)
<1>1. PICK f \in [1..(Len(p) + 1) -> SUBSET Lock] :
        /\ f[1] = H /\ f[Len(p) + 1] = G
        /\ \A i \in 1..Len(p) : Legal(p[i], f[i]) /\ f[i + 1] = HeldAfter(p[i], f[i])
  BY DEF Leads
<1>2. /\ Len(p) \in Nat \ {0} /\ Head(p) = p[1] /\ Len(Tail(p)) = Len(p) - 1
      /\ \A i \in 1..Len(Tail(p)) : Tail(p)[i] = p[i + 1]
  BY HeadTailProperties, EmptySeq, LenProperties
<1> DEFINE h == [i \in 1..(Len(Tail(p)) + 1) |-> f[i + 1]]
<1>3. h \in [1..(Len(Tail(p)) + 1) -> SUBSET Lock] /\ \A i \in 1..Len(p) : h[i] = f[i + 1]
  BY <1>2
<1> HIDE DEF h
<1>4. 1 \in 1..Len(p) /\ h[1] = f[2] /\ h[Len(Tail(p)) + 1] = f[Len(p) + 1]
  BY <1>2, <1>3
<1>5. Legal(Head(p), H) /\ h[1] = HeldAfter(Head(p), H)
  BY <1>1, <1>2, <1>4
<1>6. ASSUME NEW i \in 1..Len(Tail(p))
      PROVE  Legal(Tail(p)[i], h[i]) /\ h[i + 1] = HeldAfter(Tail(p)[i], h[i])
  <2>1. i + 1 \in 1..Len(p) /\ i \in 1..Len(p)
    BY <1>2
  <2>2. Tail(p)[i] = p[i + 1] /\ h[i] = f[i + 1] /\ h[i + 1] = f[(i + 1) + 1]
    BY <1>2, <1>3, <2>1
  <2> QED
    BY <1>1, <2>1, <2>2
<1> QED
  BY <1>1, <1>3, <1>4, <1>5, <1>6 DEF Leads

LEMMA TwoAndOne ==
  ASSUME NEW S, NEW a \in S, NEW b \in S, NEW c \in S
  PROVE  <<a>> \o <<b>> = <<a, b>> /\ <<a, b>> \o <<c>> = <<a, b, c>>
<1>1. <<a>> \in Seq(S) /\ <<b>> \in Seq(S) /\ <<c>> \in Seq(S) /\ <<a, b>> \in Seq(S)
  OBVIOUS
<1>2. <<a>> \o <<b>> = <<a, b>>
  <2> DEFINE p == <<a>> \o <<b>>
  <2>1. p \in Seq(S) /\ Len(p) = 2 /\ p[1] = a /\ p[2] = b
    BY <1>1, ConcatProperties
  <2> HIDE DEF p
  <2>2. <<a, b>> \in Seq(S) /\ Len(<<a, b>>) = 2 /\ <<a, b>>[1] = a /\ <<a, b>>[2] = b
    OBVIOUS
  <2>3. \A i \in 1..Len(p) : p[i] = <<a, b>>[i]
    BY <2>1, <2>2
  <2>4. p = <<a, b>>
    BY <2>1, <2>2, <2>3, SeqEqual
  <2> QED
    BY <2>4 DEF p
<1>3. <<a, b>> \o <<c>> = <<a, b, c>>
  <2> DEFINE p == <<a, b>> \o <<c>>
  <2>1. p \in Seq(S) /\ Len(p) = 3 /\ p[1] = a /\ p[2] = b /\ p[3] = c
    BY <1>1, ConcatProperties
  <2> HIDE DEF p
  <2>2. /\ <<a, b, c>> \in Seq(S) /\ Len(<<a, b, c>>) = 3
        /\ <<a, b, c>>[1] = a /\ <<a, b, c>>[2] = b /\ <<a, b, c>>[3] = c
    OBVIOUS
  <2>3. \A i \in 1..Len(p) : p[i] = <<a, b, c>>[i]
    BY <2>1, <2>2
  <2>4. p = <<a, b, c>>
    BY <2>1, <2>2, <2>3, SeqEqual
  <2> QED
    BY <2>4 DEF p
<1> QED
  BY <1>2, <1>3

LEMMA LeadsTwo ==
  ASSUME NEW a, NEW b, NEW H \in SUBSET Lock, NEW G \in SUBSET Lock, NEW K,
         Legal(a, H), G = HeldAfter(a, H), Legal(b, G), K = HeldAfter(b, G)
  PROVE  <<a, b>> \in Seq(Instruction) /\ Leads(<<a, b>>, H, K)
<1>1. a \in Instruction /\ b \in Instruction
  BY DEF Legal
<1>2. Leads(<<a>>, H, G) /\ Leads(<<b>>, G, K)
  BY LeadsOne
<1>3. <<a>> \in Seq(Instruction) /\ <<b>> \in Seq(Instruction)
  BY <1>1
<1>4. Leads(<<a>> \o <<b>>, H, K)
  BY <1>2, <1>3, LeadsConcat
<1>5. <<a>> \o <<b>> = <<a, b>>
  BY <1>1, TwoAndOne
<1>6. <<a, b>> \in Seq(Instruction)
  BY <1>1
<1> QED
  BY <1>4, <1>5, <1>6, Zenon

LEMMA LeadsThree ==
  ASSUME NEW a, NEW b, NEW c, NEW H \in SUBSET Lock, NEW G \in SUBSET Lock,
         NEW K \in SUBSET Lock, NEW M,
         Legal(a, H), G = HeldAfter(a, H), Legal(b, G), K = HeldAfter(b, G),
         Legal(c, K), M = HeldAfter(c, K)
  PROVE  <<a, b, c>> \in Seq(Instruction) /\ Leads(<<a, b, c>>, H, M)
<1>1. a \in Instruction /\ b \in Instruction /\ c \in Instruction
  BY DEF Legal
<1>2. Leads(<<a, b>>, H, K) /\ Leads(<<c>>, K, M)
  BY LeadsTwo, LeadsOne
<1>3. <<a, b>> \in Seq(Instruction) /\ <<c>> \in Seq(Instruction)
  BY <1>1
<1>4. Leads(<<a, b>> \o <<c>>, H, M)
  BY <1>2, <1>3, LeadsConcat
<1>5. <<a, b>> \o <<c>> = <<a, b, c>>
  BY <1>1, TwoAndOne, ZenonT(40)
<1>6. <<a, b, c>> \in Seq(Instruction)
  BY <1>1
<1> QED
  BY <1>4, <1>5, <1>6, Zenon

-----------------------------------------------------------------------------
\* The locks and their order

LEMMA Ranks ==
  /\ Sessions \in Lock /\ World \in Lock /\ Pmu \in Lock
  /\ Rank(Sessions) = 0 /\ Rank(World) = 1 /\ Rank(Pmu) = 2
  /\ Sessions # World /\ Sessions # Pmu /\ World # Pmu
  /\ \A c \in Client :
       /\ Player(c) \in Lock /\ Session(c) \in Lock
       /\ Rank(Player(c)) = 3 /\ Rank(Session(c)) = 4
       /\ Player(c) # Session(c)
  /\ \A l \in Lock : Rank(l) \in 0..4
<1>1. Sessions \in Lock /\ World \in Lock /\ Pmu \in Lock
  BY DEF Lock
<1>2. Rank(Sessions) = 0 /\ Rank(World) = 1 /\ Rank(Pmu) = 2
  BY DEF Rank, Sessions, World, Pmu
<1>3. ASSUME NEW c \in Client
      PROVE  Player(c) \in Lock /\ Session(c) \in Lock
  BY DEF Lock, Player, Session
<1>4. ASSUME NEW c \in Client
      PROVE  Rank(Player(c)) = 3 /\ Rank(Session(c)) = 4
  BY DEF Rank, Sessions, World, Pmu, Player, Session
<1>5. ASSUME NEW l \in Lock PROVE Rank(l) \in 0..4
  <2>1. l \in {Sessions, World, Pmu} \/ \E c \in Client : l = Player(c) \/ l = Session(c)
    BY DEF Lock, Player, Session
  <2> QED
    BY <1>2, <1>4, <2>1
<1>6. \A c \in Client : Player(c) # Session(c)
  BY DEF Player, Session
<1> QED
  BY <1>1, <1>2, <1>3, <1>4, <1>5, <1>6

-----------------------------------------------------------------------------
\* Every operation is legal, and holds no lock when it is over

LEMMA AnnounceLeads ==
  ASSUME NEW past \in SUBSET Lock, NEW H \in SUBSET {Sessions},
         \A l \in H : \A k \in past : Rank(l) < Rank(k)
  PROVE  Announce(past) \in Seq(Instruction) /\ Leads(Announce(past), H, H)
<1> DEFINE a == Take(past, World)
           c == Do("cast", None, {World})
           G == H \cup {World}
<1> USE DEF Do, After, Take, Share
<1>1. a = [do |-> "take", past |-> past, on |-> World, free |-> {}]
  OBVIOUS
<1>2. Share = [do |-> "share", past |-> {Pmu}, on |-> None, free |-> {}]
  OBVIOUS
<1>3. H \in SUBSET Lock /\ G \in SUBSET Lock
  BY Ranks
<1>4. Legal(a, H) /\ HeldAfter(a, H) = G
  <2>1. Legal(a, H)
    BY <1>1, <1>3, Ranks DEF Legal, Instruction, Kind, Takes
  <2> QED
    BY <2>1, <1>1 DEF HeldAfter, Takes
<1>5. Legal(Share, G) /\ HeldAfter(Share, G) = G
  BY <1>2, <1>3, Ranks DEF Legal, Instruction, Kind, Takes, HeldAfter
<1>6. Legal(c, G) /\ HeldAfter(c, G) = H
  BY <1>3, Ranks DEF Legal, Instruction, Kind, Takes, HeldAfter
<1> HIDE DEF a, c, G
<1>7. Announce(past) = <<a, Share, c>>
  BY DEF Announce, a, c
<1> QED
  BY <1>3, <1>4, <1>5, <1>6, <1>7, LeadsThree

LEMMA GreetLeads ==
  ASSUME NEW c \in Client
  PROVE  /\ Greet(c) \in Seq(Instruction)
         /\ Leads(Greet(c), {}, {})
<1> DEFINE x == Take({}, World)
           y == Take({}, Session(c))
           z == Do("greet", c, {World, Session(c)})
<1>1. x = [do |-> "take", past |-> {}, on |-> World, free |-> {}]
  BY DEF Do, After, Take, Send
<1>2. y = [do |-> "take", past |-> {}, on |-> Session(c), free |-> {}]
  BY DEF Do, After, Take, Send
<1>3. z = [do |-> "greet", past |-> {}, on |-> c, free |-> {World, Session(c)}]
  BY DEF Do, After, Take, Send
<1>4. {} \in SUBSET Lock /\ {World} \in SUBSET Lock /\ {World, Session(c)} \in SUBSET Lock
  BY Ranks
<1>5. Legal(x, {}) /\ HeldAfter(x, {}) = {World}
  <2>1. Legal(x, {})
    BY <1>1, <1>4, Ranks DEF Legal, Instruction, Kind, Takes
  <2> QED
    BY <2>1, <1>1, Ranks DEF HeldAfter, Takes
<1>6. Legal(y, {World}) /\ HeldAfter(y, {World}) = {World, Session(c)}
  <2>1. Legal(y, {World})
    BY <1>2, <1>4, Ranks DEF Legal, Instruction, Kind, Takes
  <2> QED
    BY <2>1, <1>2, Ranks DEF HeldAfter, Takes
<1>7. Legal(z, {World, Session(c)}) /\ HeldAfter(z, {World, Session(c)}) = {}
  <2>1. Legal(z, {World, Session(c)})
    BY <1>3, <1>4, Ranks DEF Legal, Instruction, Kind, Takes
  <2> QED
    BY <2>1, <1>3, Ranks DEF HeldAfter, Takes
<1> HIDE DEF x, y, z
<1>8. Greet(c) = <<x, y, z>>
  BY DEF Greet, x, y, z
<1>9. <<x, y, z>> \in Seq(Instruction) /\ Leads(<<x, y, z>>, {}, {})
  BY <1>4, <1>5, <1>6, <1>7, LeadsThree, Zenon
<1> QED
  BY <1>8, <1>9, Zenon

LEMMA SendPlayersLeads ==
  ASSUME NEW c \in Client
  PROVE  /\ SendPlayers(c) \in Seq(Instruction)
         /\ Leads(SendPlayers(c), {}, {})
<1> DEFINE x == Take({Pmu}, World)
           y == Send(c, {World})
<1>1. x = [do |-> "take", past |-> {Pmu}, on |-> World, free |-> {}]
  BY DEF Do, After, Take, Send
<1>2. y = [do |-> "send", past |-> {}, on |-> c, free |-> {World}]
  BY DEF Do, After, Take, Send
<1>3. {} \in SUBSET Lock /\ {World} \in SUBSET Lock
  BY Ranks
<1>4. Legal(x, {}) /\ HeldAfter(x, {}) = {World}
  <2>1. Legal(x, {})
    BY <1>1, <1>3, Ranks DEF Legal, Instruction, Kind, Takes
  <2> QED
    BY <2>1, <1>1, Ranks DEF HeldAfter, Takes
<1>5. Legal(y, {World}) /\ HeldAfter(y, {World}) = {}
  <2>1. Legal(y, {World})
    BY <1>2, <1>3, Ranks DEF Legal, Instruction, Kind, Takes
  <2> QED
    BY <2>1, <1>2, Ranks DEF HeldAfter, Takes
<1> HIDE DEF x, y
<1>6. SendPlayers(c) = <<x, y>>
  BY DEF SendPlayers, x, y
<1> QED
  BY <1>3, <1>4, <1>5, <1>6, LeadsTwo

LEMMA SendGarbageLeads ==
  ASSUME NEW c \in Client
  PROVE  /\ SendGarbage(c) \in Seq(Instruction)
         /\ Leads(SendGarbage(c), {}, {})
<1> DEFINE x == Take({Pmu}, Player(c))
           y == Take({}, Session(c))
           z == Send(c, {Session(c), Player(c)})
<1>1. x = [do |-> "take", past |-> {Pmu}, on |-> Player(c), free |-> {}]
  BY DEF Do, After, Take, Send
<1>2. y = [do |-> "take", past |-> {}, on |-> Session(c), free |-> {}]
  BY DEF Do, After, Take, Send
<1>3. z = [do |-> "send", past |-> {}, on |-> c, free |-> {Session(c), Player(c)}]
  BY DEF Do, After, Take, Send
<1>4. {} \in SUBSET Lock /\ {Player(c)} \in SUBSET Lock /\ {Session(c), Player(c)} \in SUBSET Lock
  BY Ranks
<1>5. Legal(x, {}) /\ HeldAfter(x, {}) = {Player(c)}
  <2>1. Legal(x, {})
    BY <1>1, <1>4, Ranks DEF Legal, Instruction, Kind, Takes
  <2> QED
    BY <2>1, <1>1, Ranks DEF HeldAfter, Takes
<1>6. Legal(y, {Player(c)}) /\ HeldAfter(y, {Player(c)}) = {Session(c), Player(c)}
  <2>1. Legal(y, {Player(c)})
    BY <1>2, <1>4, Ranks DEF Legal, Instruction, Kind, Takes
  <2> QED
    BY <2>1, <1>2, Ranks DEF HeldAfter, Takes
<1>7. Legal(z, {Session(c), Player(c)}) /\ HeldAfter(z, {Session(c), Player(c)}) = {}
  <2>1. Legal(z, {Session(c), Player(c)})
    BY <1>3, <1>4, Ranks DEF Legal, Instruction, Kind, Takes
  <2> QED
    BY <2>1, <1>3, Ranks DEF HeldAfter, Takes
<1> HIDE DEF x, y, z
<1>8. SendGarbage(c) = <<x, y, z>>
  BY DEF SendGarbage, x, y, z
<1>9. <<x, y, z>> \in Seq(Instruction) /\ Leads(<<x, y, z>>, {}, {})
  BY <1>4, <1>5, <1>6, <1>7, LeadsThree, Zenon
<1> QED
  BY <1>8, <1>9, Zenon

LEMMA SendGarbageAckLeads ==
  ASSUME NEW c \in Client
  PROVE  /\ SendGarbageAck(c) \in Seq(Instruction)
         /\ Leads(SendGarbageAck(c), {}, {})
<1> DEFINE x == Take({Pmu, Player(c)}, Session(c))
           y == Send(c, {Session(c)})
<1>1. x = [do |-> "take", past |-> {Pmu, Player(c)}, on |-> Session(c), free |-> {}]
  BY DEF Do, After, Take, Send
<1>2. y = [do |-> "send", past |-> {}, on |-> c, free |-> {Session(c)}]
  BY DEF Do, After, Take, Send
<1>3. {} \in SUBSET Lock /\ {Session(c)} \in SUBSET Lock
  BY Ranks
<1>4. Legal(x, {}) /\ HeldAfter(x, {}) = {Session(c)}
  <2>1. Legal(x, {})
    BY <1>1, <1>3, Ranks DEF Legal, Instruction, Kind, Takes
  <2> QED
    BY <2>1, <1>1, Ranks DEF HeldAfter, Takes
<1>5. Legal(y, {Session(c)}) /\ HeldAfter(y, {Session(c)}) = {}
  <2>1. Legal(y, {Session(c)})
    BY <1>2, <1>3, Ranks DEF Legal, Instruction, Kind, Takes
  <2> QED
    BY <2>1, <1>2, Ranks DEF HeldAfter, Takes
<1> HIDE DEF x, y
<1>6. SendGarbageAck(c) = <<x, y>>
  BY DEF SendGarbageAck, x, y
<1> QED
  BY <1>3, <1>4, <1>5, <1>6, LeadsTwo

LEMMA PingLeads ==
  ASSUME NEW c \in Client
  PROVE  /\ Ping(c) \in Seq(Instruction)
         /\ Leads(Ping(c), {}, {})
<1> DEFINE x == Take({}, Session(c))
           y == Send(c, {Session(c)})
<1>1. x = [do |-> "take", past |-> {}, on |-> Session(c), free |-> {}]
  BY DEF Do, After, Take, Send
<1>2. y = [do |-> "send", past |-> {}, on |-> c, free |-> {Session(c)}]
  BY DEF Do, After, Take, Send
<1>3. {} \in SUBSET Lock /\ {Session(c)} \in SUBSET Lock
  BY Ranks
<1>4. Legal(x, {}) /\ HeldAfter(x, {}) = {Session(c)}
  <2>1. Legal(x, {})
    BY <1>1, <1>3, Ranks DEF Legal, Instruction, Kind, Takes
  <2> QED
    BY <2>1, <1>1, Ranks DEF HeldAfter, Takes
<1>5. Legal(y, {Session(c)}) /\ HeldAfter(y, {Session(c)}) = {}
  <2>1. Legal(y, {Session(c)})
    BY <1>2, <1>3, Ranks DEF Legal, Instruction, Kind, Takes
  <2> QED
    BY <2>1, <1>2, Ranks DEF HeldAfter, Takes
<1> HIDE DEF x, y
<1>6. Ping(c) = <<x, y>>
  BY DEF Ping, x, y
<1> QED
  BY <1>3, <1>4, <1>5, <1>6, LeadsTwo

LEMMA KickLeads ==
  ASSUME NEW c \in Client
  PROVE  /\ <<Take({Pmu}, Player(c)), Do("kick", c, {Player(c)})>> \in Seq(Instruction)
         /\ Leads(<<Take({Pmu}, Player(c)), Do("kick", c, {Player(c)})>>, {}, {})
<1> DEFINE x == Take({Pmu}, Player(c))
           y == Do("kick", c, {Player(c)})
<1>1. x = [do |-> "take", past |-> {Pmu}, on |-> Player(c), free |-> {}]
  BY DEF Do, After, Take, Send
<1>2. y = [do |-> "kick", past |-> {}, on |-> c, free |-> {Player(c)}]
  BY DEF Do, After, Take, Send
<1>3. {} \in SUBSET Lock /\ {Player(c)} \in SUBSET Lock
  BY Ranks
<1>4. Legal(x, {}) /\ HeldAfter(x, {}) = {Player(c)}
  <2>1. Legal(x, {})
    BY <1>1, <1>3, Ranks DEF Legal, Instruction, Kind, Takes
  <2> QED
    BY <2>1, <1>1, Ranks DEF HeldAfter, Takes
<1>5. Legal(y, {Player(c)}) /\ HeldAfter(y, {Player(c)}) = {}
  <2>1. Legal(y, {Player(c)})
    BY <1>2, <1>3, Ranks DEF Legal, Instruction, Kind, Takes
  <2> QED
    BY <2>1, <1>2, Ranks DEF HeldAfter, Takes
<1> HIDE DEF x, y
<1>6. <<Take({Pmu}, Player(c)), Do("kick", c, {Player(c)})>> = <<x, y>>
  BY DEF x, y
<1> QED
  BY <1>3, <1>4, <1>5, <1>6, LeadsTwo

LEMMA InsertLeads ==
  ASSUME NEW c \in Client
  PROVE  /\ <<After({Sessions}, Do("start", c, {})), Take({}, Pmu), Do("insert", c, {Pmu})>> \in Seq(Instruction)
         /\ Leads(<<After({Sessions}, Do("start", c, {})), Take({}, Pmu), Do("insert", c, {Pmu})>>, {}, {})
<1> DEFINE x == After({Sessions}, Do("start", c, {}))
           y == Take({}, Pmu)
           z == Do("insert", c, {Pmu})
<1>1. x = [do |-> "start", past |-> {Sessions}, on |-> c, free |-> {}]
  BY DEF Do, After, Take, Send
<1>2. y = [do |-> "take", past |-> {}, on |-> Pmu, free |-> {}]
  BY DEF Do, After, Take, Send
<1>3. z = [do |-> "insert", past |-> {}, on |-> c, free |-> {Pmu}]
  BY DEF Do, After, Take, Send
<1>4. {} \in SUBSET Lock /\ {Pmu} \in SUBSET Lock
  BY Ranks
<1>5. Legal(x, {}) /\ HeldAfter(x, {}) = {}
  <2>1. Legal(x, {})
    BY <1>1, <1>4, Ranks DEF Legal, Instruction, Kind, Takes
  <2> QED
    BY <2>1, <1>1, Ranks DEF HeldAfter, Takes
<1>6. Legal(y, {}) /\ HeldAfter(y, {}) = {Pmu}
  <2>1. Legal(y, {})
    BY <1>2, <1>4, Ranks DEF Legal, Instruction, Kind, Takes
  <2> QED
    BY <2>1, <1>2, Ranks DEF HeldAfter, Takes
<1>7. Legal(z, {Pmu}) /\ HeldAfter(z, {Pmu}) = {}
  <2>1. Legal(z, {Pmu})
    BY <1>3, <1>4, Ranks DEF Legal, Instruction, Kind, Takes
  <2> QED
    BY <2>1, <1>3, Ranks DEF HeldAfter, Takes
<1> HIDE DEF x, y, z
<1>8. <<After({Sessions}, Do("start", c, {})), Take({}, Pmu), Do("insert", c, {Pmu})>> = <<x, y, z>>
  BY DEF x, y, z
<1>9. <<x, y, z>> \in Seq(Instruction) /\ Leads(<<x, y, z>>, {}, {})
  BY <1>4, <1>5, <1>6, <1>7, LeadsThree, Zenon
<1> QED
  BY <1>8, <1>9, Zenon

LEMMA ServeLeads ==
  ASSUME NEW c \in Client
  PROVE  /\ <<Do("serve", c, {})>> \in Seq(Instruction)
         /\ Leads(<<Do("serve", c, {})>>, {}, {})
<1> DEFINE x == Do("serve", c, {})
<1>1. x = [do |-> "serve", past |-> {}, on |-> c, free |-> {}]
  BY DEF Do, After, Take, Send
<1>2. {} \in SUBSET Lock
  BY Ranks
<1>3. Legal(x, {}) /\ HeldAfter(x, {}) = {}
  <2>1. Legal(x, {})
    BY <1>1, <1>2, Ranks DEF Legal, Instruction, Kind, Takes
  <2> QED
    BY <2>1, <1>1, Ranks DEF HeldAfter, Takes
<1> HIDE DEF x
<1>4. <<Do("serve", c, {})>> = <<x>>
  BY DEF x
<1>5. <<x>> \in Seq(Instruction)
  BY <1>3 DEF Legal
<1> QED
  BY <1>2, <1>3, <1>4, <1>5, LeadsOne

LEMMA RejoinLeads ==
  ASSUME NEW c \in Client
  PROVE  /\ <<Do("start", c, {}), Do("rejoin", c, {})>> \in Seq(Instruction)
         /\ Leads(<<Do("start", c, {}), Do("rejoin", c, {})>>, {}, {})
<1> DEFINE x == Do("start", c, {})
           y == Do("rejoin", c, {})
<1>1. x = [do |-> "start", past |-> {}, on |-> c, free |-> {}]
  BY DEF Do, After, Take, Send
<1>2. y = [do |-> "rejoin", past |-> {}, on |-> c, free |-> {}]
  BY DEF Do, After, Take, Send
<1>3. {} \in SUBSET Lock
  BY Ranks
<1>4. Legal(x, {}) /\ HeldAfter(x, {}) = {}
  <2>1. Legal(x, {})
    BY <1>1, <1>3, Ranks DEF Legal, Instruction, Kind, Takes
  <2> QED
    BY <2>1, <1>1, Ranks DEF HeldAfter, Takes
<1>5. Legal(y, {}) /\ HeldAfter(y, {}) = {}
  <2>1. Legal(y, {})
    BY <1>2, <1>3, Ranks DEF Legal, Instruction, Kind, Takes
  <2> QED
    BY <2>1, <1>2, Ranks DEF HeldAfter, Takes
<1> HIDE DEF x, y
<1>6. <<Do("start", c, {}), Do("rejoin", c, {})>> = <<x, y>>
  BY DEF x, y
<1> QED
  BY <1>3, <1>4, <1>5, <1>6, LeadsTwo

LEMMA PruneLeads ==
  /\ Prune \in Seq(Instruction)
  /\ Leads(Prune, {Sessions}, {})
<1> DEFINE x == Do("prune", None, {Sessions})
<1>1. x = [do |-> "prune", past |-> {}, on |-> None, free |-> {Sessions}]
  BY DEF Do, After, Take, Send
<1>2. {Sessions} \in SUBSET Lock /\ {} \in SUBSET Lock
  BY Ranks
<1>3. Legal(x, {Sessions}) /\ HeldAfter(x, {Sessions}) = {}
  <2>1. Legal(x, {Sessions})
    BY <1>1, <1>2, Ranks DEF Legal, Instruction, Kind, Takes
  <2> QED
    BY <2>1, <1>1, Ranks DEF HeldAfter, Takes
<1> HIDE DEF x
<1>4. Prune = <<x>>
  BY DEF Prune, x
<1>5. <<x>> \in Seq(Instruction)
  BY <1>3 DEF Legal
<1> QED
  BY <1>2, <1>3, <1>4, <1>5, LeadsOne

LEMMA StopLeads ==
  /\ <<After({Sessions}, Do("stop", None, {}))>> \in Seq(Instruction)
  /\ Leads(<<After({Sessions}, Do("stop", None, {}))>>, {}, {})
<1> DEFINE x == After({Sessions}, Do("stop", None, {}))
<1>1. x = [do |-> "stop", past |-> {Sessions}, on |-> None, free |-> {}]
  BY DEF Do, After, Take, Send
<1>2. {} \in SUBSET Lock
  BY Ranks
<1>3. Legal(x, {}) /\ HeldAfter(x, {}) = {}
  <2>1. Legal(x, {})
    BY <1>1, <1>2, Ranks DEF Legal, Instruction, Kind, Takes
  <2> QED
    BY <2>1, <1>1, Ranks DEF HeldAfter, Takes
<1> HIDE DEF x
<1>4. <<After({Sessions}, Do("stop", None, {}))>> = <<x>>
  BY DEF x
<1>5. <<x>> \in Seq(Instruction)
  BY <1>3 DEF Legal
<1> QED
  BY <1>2, <1>3, <1>4, <1>5, LeadsOne

LEMMA TakeSessionsLeads ==
  /\ <<Take({}, Sessions)>> \in Seq(Instruction)
  /\ Leads(<<Take({}, Sessions)>>, {}, {Sessions})
<1> DEFINE x == Take({}, Sessions)
<1>1. x = [do |-> "take", past |-> {}, on |-> Sessions, free |-> {}]
  BY DEF Do, After, Take, Send
<1>2. {} \in SUBSET Lock /\ {Sessions} \in SUBSET Lock
  BY Ranks
<1>3. Legal(x, {}) /\ HeldAfter(x, {}) = {Sessions}
  <2>1. Legal(x, {})
    BY <1>1, <1>2, Ranks DEF Legal, Instruction, Kind, Takes
  <2> QED
    BY <2>1, <1>1, Ranks DEF HeldAfter, Takes
<1> HIDE DEF x
<1>4. <<Take({}, Sessions)>> = <<x>>
  BY DEF x
<1>5. <<x>> \in Seq(Instruction)
  BY <1>3 DEF Legal
<1> QED
  BY <1>2, <1>3, <1>4, <1>5, LeadsOne

\* An operation that begins and ends with no lock.
Whole(p) == p \in Seq(Instruction) /\ Leads(p, {}, {})

LEMMA WholeConcat ==
  ASSUME NEW p, NEW q, Whole(p), Whole(q)
  PROVE  Whole(p \o q)
BY LeadsConcat, ConcatProperties DEF Whole

LEMMA AnnounceWhole ==
  ASSUME NEW past \in SUBSET Lock
  PROVE  Whole(Announce(past))
<1>1. {} \in SUBSET {Sessions} /\ \A l \in {} : \A k \in past : Rank(l) < Rank(k)
  OBVIOUS
<1> QED
  BY <1>1, AnnounceLeads, Zenon DEF Whole

LEMMA OperationsWhole ==
  ASSUME NEW c \in Client
  PROVE  /\ Whole(Connect(c)) /\ Whole(Reconnect(c)) /\ Whole(Ping(c))
         /\ \A kind \in Packets : Whole(Handle(c, kind))
<1>1. /\ Whole(Greet(c)) /\ Whole(SendPlayers(c)) /\ Whole(SendGarbage(c))
      /\ Whole(SendGarbageAck(c)) /\ Whole(Ping(c)) /\ Whole(<<Do("serve", c, {})>>)
  BY GreetLeads, SendPlayersLeads, SendGarbageLeads, SendGarbageAckLeads, PingLeads,
     ServeLeads, Zenon DEF Whole
<1>2. /\ Whole(Announce({})) /\ Whole(Announce({Pmu}))
      /\ Whole(Announce({Pmu, Player(c)}))
  BY AnnounceWhole, Ranks
<1>3. Whole(Connect(c))
  <2>1. Whole(<<After({Sessions}, Do("start", c, {})), Take({}, Pmu), Do("insert", c, {Pmu})>>)
    BY InsertLeads, Zenon DEF Whole
  <2> QED
    BY <1>1, <1>2, <2>1, WholeConcat, Zenon DEF Connect
<1>4. Whole(Reconnect(c))
  <2>1. Whole(<<Do("start", c, {}), Do("rejoin", c, {})>>)
    BY RejoinLeads, Zenon DEF Whole
  <2> QED
    BY <1>1, <2>1, WholeConcat, Zenon DEF Reconnect
<1>5. ASSUME NEW kind \in Packets PROVE Whole(Handle(c, kind))
  <2>1. CASE kind = "chat"
    <3>1. Handle(c, kind) = Announce({Pmu})
      BY <2>1 DEF Handle
    <3> QED
      BY <1>2, <3>1
  <2>2. CASE kind = "move"
    <3>1. Handle(c, kind) = Announce({Pmu, Player(c)})
      BY <2>2 DEF Handle
    <3> QED
      BY <1>2, <3>1
  <2>3. CASE kind = "batch"
    <3>1. Handle(c, kind) = SendGarbageAck(c)
      BY <2>3 DEF Handle
    <3> QED
      BY <1>1, <3>1
  <2>4. CASE kind = "last"
    <3>1. Handle(c, kind) = SendGarbage(c)
      BY <2>4 DEF Handle
    <3> QED
      BY <1>1, <3>1
  <2>5. CASE kind = "kick"
    <3>1. Handle(c, kind) =
            <<Take({Pmu}, Player(c)), Do("kick", c, {Player(c)})>> \o SendGarbage(c)
      BY <2>5 DEF Handle
    <3>2. Whole(<<Take({Pmu}, Player(c)), Do("kick", c, {Player(c)})>>)
      BY KickLeads, Zenon DEF Whole
    <3> QED
      BY <1>1, <3>1, <3>2, WholeConcat, Zenon
  <2> QED
    BY <2>1, <2>2, <2>3, <2>4, <2>5 DEF Packets
<1> QED
  BY <1>1, <1>3, <1>4, <1>5

\* A sweep, with one more player announced gone or not.
LEMMA SweepLeads ==
  /\ Whole(<<Take({}, Sessions)>> \o Prune)
  /\ Announce({}) \o Prune \in Seq(Instruction)
  /\ Leads(Announce({}) \o Prune, {Sessions}, {})
<1>1. Whole(<<Take({}, Sessions)>> \o Prune)
  BY TakeSessionsLeads, PruneLeads, LeadsConcat, ConcatProperties, Zenon DEF Whole
<1>2. Announce({}) \in Seq(Instruction) /\ Leads(Announce({}), {Sessions}, {Sessions})
  <2>1. /\ {} \in SUBSET Lock /\ {Sessions} \in SUBSET {Sessions}
        /\ \A l \in {Sessions} : \A k \in {} : Rank(l) < Rank(k)
    OBVIOUS
  <2> QED
    BY <2>1, AnnounceLeads, Zenon
<1>3. /\ Announce({}) \o Prune \in Seq(Instruction)
      /\ Leads(Announce({}) \o Prune, {Sessions}, {})
  BY <1>2, PruneLeads, LeadsConcat, ConcatProperties, Zenon
<1> QED
  BY <1>1, <1>3

-----------------------------------------------------------------------------
\* The inductive invariant

\* What a thread holds: all locks that name it.
Held(t) == {l \in Lock : holder[l] = t}

\* What is left of every operation is legal for what its thread holds, and gives all
\* of it back.
HoldInv ==
  /\ prog \in [Thread -> Seq(Instruction)]
  /\ \A t \in Thread : Leads(prog[t], Held(t), {})

\* Only a client whose connection may be lost has a session without a stream.
NilInv == \A c \in Client : stream[c] = "nil" => c \in Unreliable

LeakInv == \A l \in Lock : holder[l] = Leaked => \E c \in Unreliable : l = Session(c)

IInv == TypeOK /\ HoldInv /\ NilInv /\ LeakInv

\* The variables but for prog, as in TypeOK.
VarsOK ==
  /\ holder \in [Lock -> Thread \cup {None, Leaked}]
  /\ left \in [Thread -> SUBSET Client]
  /\ stream \in [Client -> {"none", "nil", "up", "dead"}]
  /\ full \subseteq {c \in Client : stream[c] = "up"}
  /\ players \subseteq Client /\ served \subseteq Client
  /\ stopped \in BOOLEAN /\ crashed \in BOOLEAN

LEMMA ProgTyped ==
  ASSUME NEW p \in [Thread -> Seq(Instruction)]
  PROVE  \A t \in Thread : \A i \in DOMAIN p[t] :
           /\ p[t][i].do \in Kind
           /\ p[t][i].on \in Lock \cup Client \cup {None}
           /\ p[t][i].past \cup p[t][i].free \subseteq Lock
<1> TAKE t \in Thread
<1>1. p[t] \in Seq(Instruction)
  OBVIOUS
<1>2. DOMAIN p[t] = 1..Len(p[t])
  BY <1>1, LenProperties
<1> TAKE i \in DOMAIN p[t]
<1>3. p[t][i] \in Instruction
  BY <1>1, <1>2, ElementOfSeq
<1> QED
  BY <1>3 DEF Instruction

\* The head of what is left, for a thread that keeps HoldInv.
LEMMA HeadLegal ==
  ASSUME HoldInv, NEW t \in Thread, prog[t] # <<>>
  PROVE  /\ Legal(Head(prog[t]), Held(t))
         /\ Tail(prog[t]) \in Seq(Instruction)
         /\ Leads(Tail(prog[t]), HeldAfter(Head(prog[t]), Held(t)), {})
<1>1. prog[t] \in Seq(Instruction) /\ Leads(prog[t], Held(t), {})
  BY DEF HoldInv
<1> QED
  BY <1>1, LeadsTail, HeadTailProperties

LEMMA DoneHoldsNothing ==
  ASSUME HoldInv, NEW t \in Thread, prog[t] = <<>>
  PROVE  Held(t) = {}
<1>1. Leads(<<>>, Held(t), {}) /\ Held(t) \in SUBSET Lock
  BY DEF HoldInv, Held
<1> QED
  BY <1>1, LeadsEmpty

\* A thread goes on with p; the others hold what they held.
LEMMA OneMoves ==
  ASSUME HoldInv, NEW t \in Thread, NEW p \in Seq(Instruction),
         prog' = [prog EXCEPT ![t] = p],
         Leads(p, Held(t)', {}),
         \A u \in Thread \ {t} : Held(u)' = Held(u)
  PROVE  HoldInv'
<1>1. prog' \in [Thread -> Seq(Instruction)]
  BY DEF HoldInv
<1>2. ASSUME NEW u \in Thread PROVE Leads(prog'[u], Held(u)', {})
  <2>1. CASE u = t
    <3>1. prog'[u] = p
      BY <2>1 DEF HoldInv
    <3> QED
      BY <2>1, <3>1, Zenon
  <2>2. CASE u # t
    <3>1. prog'[u] = prog[u] /\ Held(u)' = Held(u) /\ Leads(prog[u], Held(u), {})
      BY <2>2 DEF HoldInv
    <3> QED
      BY <3>1, Zenon
  <2> QED
    BY <2>1, <2>2
<1> QED
  BY <1>1, <1>2 DEF HoldInv

LEMMA AdvanceHolds ==
  ASSUME IInv, NEW t \in Thread, prog[t] # <<>>, Head(prog[t]).do # "take", Advance(t)
  PROVE  /\ HoldInv' /\ LeakInv'
         /\ holder' \in [Lock -> Thread \cup {None, Leaked}]
<1> DEFINE s == Head(prog[t])
<1>1. /\ Legal(s, Held(t)) /\ Tail(prog[t]) \in Seq(Instruction)
      /\ Leads(Tail(prog[t]), HeldAfter(s, Held(t)), {})
  BY HeadLegal DEF IInv
<1>2. /\ prog' = [prog EXCEPT ![t] = Tail(prog[t])]
      /\ holder' = [l \in Lock |-> IF l \in s.free THEN None ELSE holder[l]]
  BY DEF Advance, Freed
<1>3. s.free \subseteq Held(t) /\ HeldAfter(s, Held(t)) = Held(t) \ s.free
  BY <1>1 DEF Legal, HeldAfter, Takes
<1> HIDE DEF s
<1>4. Held(t)' = HeldAfter(s, Held(t))
  BY <1>2, <1>3, NoneAssumption DEF Held
<1>5. ASSUME NEW u \in Thread \ {t} PROVE Held(u)' = Held(u)
  BY <1>2, <1>3, NoneAssumption DEF Held
<1>6. HoldInv'
  BY <1>1, <1>2, <1>4, <1>5, OneMoves DEF IInv
<1>7. LeakInv'
  BY <1>2, NoneAssumption DEF IInv, LeakInv
<1>8. holder' \in [Lock -> Thread \cup {None, Leaked}]
  BY <1>2 DEF IInv, TypeOK
<1> QED
  BY <1>6, <1>7, <1>8

LEMMA TypesAgain ==
  ASSUME VarsOK', HoldInv'
  PROVE  TypeOK'
<1>1. prog' \in [Thread -> Seq(Instruction)]
  BY DEF HoldInv
<1>2. \A t \in Thread : \A i \in DOMAIN prog'[t] :
        /\ prog'[t][i].do \in Kind
        /\ prog'[t][i].on \in Lock \cup Client \cup {None}
        /\ prog'[t][i].past \cup prog'[t][i].free \subseteq Lock
  BY <1>1, ProgTyped
<1> QED
  BY <1>2 DEF TypeOK, VarsOK

\* What a thread is at tells what its instruction is about.
LEMMA OnClient ==
  ASSUME HoldInv, NEW t \in Thread, prog[t] # <<>>,
         Head(prog[t]).do \notin {"take", "share", "cast", "prune", "stop"}
  PROVE  On(t) \in Client
BY HeadLegal DEF Legal, On

LEMMA InitInv == Init => IInv
<1> SUFFICES ASSUME Init PROVE IInv
  OBVIOUS
<1>1. prog \in [Thread -> Seq(Instruction)]
  BY DEF Init
<1>2. ASSUME NEW t \in Thread PROVE Leads(prog[t], Held(t), {})
  <2>1. prog[t] = <<>> /\ Held(t) = {}
    BY NoneAssumption DEF Init, Held
  <2>2. Leads(<<>>, {}, {})
    BY LeadsEmpty
  <2> QED
    BY <2>1, <2>2, Zenon
<1>3. HoldInv
  BY <1>1, <1>2 DEF HoldInv
<1>4. NilInv /\ LeakInv
  BY NoneAssumption DEF Init, NilInv, LeakInv
<1>5. TypeOK
  BY <1>1, ProgTyped DEF Init, TypeOK
<1> QED
  BY <1>3, <1>4, <1>5 DEF IInv

\* Beginning an operation.
LEMMA BeginKeepsInv ==
  ASSUME IInv, NEW t \in Thread, NEW p, Whole(p), Begin(t, p)
  PROVE  IInv'
<1>1. Held(t) = {}
  BY DoneHoldsNothing DEF Begin, IInv
<1>2. \A u \in Thread : Held(u)' = Held(u)
  BY DEF Begin, Held
<1>3. p \in Seq(Instruction) /\ Leads(p, Held(t)', {})
  BY <1>1, <1>2, Zenon DEF Whole
<1>4. HoldInv'
  BY <1>2, <1>3, OneMoves DEF Begin, IInv
<1>5. VarsOK'
  BY DEF IInv, TypeOK, VarsOK, Begin, sessionVars
<1>6. NilInv' /\ LeakInv'
  BY DEF IInv, NilInv, LeakInv, Begin, sessionVars
<1> QED
  BY <1>4, <1>5, <1>6, TypesAgain DEF IInv

LEMMA OperationKeepsInv ==
  ASSUME IInv,
         \/ \E c \in Client : Login(c) \/ Packet(c) \/ Tick(c)
         \/ Sweep \/ Stop
  PROVE  IInv'
<1>1. /\ Janitor \in Thread /\ Stopper \in Thread
      /\ \A c \in Client : Join(c) \in Thread /\ Loop(c) \in Thread /\ Beat(c) \in Thread
  BY DEF Thread, Join, Loop, Beat
<1>2. ASSUME NEW c \in Client, Login(c) \/ Packet(c) \/ Tick(c)
      PROVE  IInv'
  BY <1>1, <1>2, OperationsWhole, BeginKeepsInv DEF Login, Packet, Tick
<1>3. ASSUME Sweep PROVE IInv'
  BY <1>1, <1>3, SweepLeads, BeginKeepsInv DEF Sweep
<1>4. ASSUME Stop PROVE IInv'
  <2>1. Whole(<<After({Sessions}, Do("stop", None, {}))>>)
    BY StopLeads, Zenon DEF Whole
  <2> QED
    BY <1>1, <1>4, <2>1, BeginKeepsInv DEF Stop
<1> QED
  BY <1>2, <1>3, <1>4

\* The other end reads, or its connection dies.
LEMMA ClientKeepsInv ==
  ASSUME IInv, NEW c \in Client, Read(c) \/ Die(c)
  PROVE  IInv'
<1>1. UNCHANGED <<prog, holder>>
  BY DEF Read, Die
<1>2. HoldInv' /\ LeakInv'
  BY <1>1 DEF IInv, HoldInv, LeakInv, Held
<1>3. VarsOK' /\ NilInv'
  BY DEF IInv, TypeOK, VarsOK, NilInv, Read, Die
<1> QED
  BY <1>2, <1>3, TypesAgain DEF IInv

\* The steps that end in Advance: what is left to say is about the other variables.
LEMMA AdvanceKeepsInv ==
  ASSUME IInv, NEW t \in Thread, prog[t] # <<>>, Head(prog[t]).do # "take", Advance(t),
         left' \in [Thread -> SUBSET Client],
         stream' \in [Client -> {"none", "nil", "up", "dead"}],
         full' \subseteq {c \in Client : stream'[c] = "up"},
         players' \subseteq Client, served' \subseteq Client,
         stopped' \in BOOLEAN, crashed' \in BOOLEAN,
         \A c \in Client : stream'[c] = "nil" => stream[c] = "nil" \/ c \in Unreliable
  PROVE  IInv'
<1>1. /\ HoldInv' /\ LeakInv'
      /\ holder' \in [Lock -> Thread \cup {None, Leaked}]
  BY AdvanceHolds
<1>2. NilInv'
  BY DEF IInv, NilInv
<1>3. VarsOK'
  BY <1>1 DEF VarsOK
<1> QED
  BY <1>1, <1>2, <1>3, TypesAgain DEF IInv

LEMMA TakeKeepsInv ==
  ASSUME IInv, NEW t \in Thread, TakeStep(t)
  PROVE  IInv'
<1> DEFINE s == Head(prog[t])
<1>1. prog[t] # <<>> /\ s.do = "take" /\ holder[s.on] = None
  BY DEF TakeStep, At, Ready, Wants, On
<1>2. /\ Legal(s, Held(t)) /\ Tail(prog[t]) \in Seq(Instruction)
      /\ Leads(Tail(prog[t]), HeldAfter(s, Held(t)), {})
  BY <1>1, HeadLegal DEF IInv
<1>3. /\ prog' = [prog EXCEPT ![t] = Tail(prog[t])]
      /\ holder' = [holder EXCEPT ![s.on] = t]
  BY DEF TakeStep, On
<1>4. s.on \in Lock /\ HeldAfter(s, Held(t)) = Held(t) \cup {s.on}
  BY <1>1, <1>2 DEF Legal, HeldAfter, Takes
<1>5. holder \in [Lock -> Thread \cup {None, Leaked}]
  BY DEF IInv, TypeOK
<1> HIDE DEF s
<1>6. Held(t)' = HeldAfter(s, Held(t))
  BY <1>3, <1>4, <1>5 DEF Held
<1>7. ASSUME NEW u \in Thread \ {t} PROVE Held(u)' = Held(u)
  BY <1>1, <1>3, <1>4, <1>5, NoneAssumption DEF Held
<1>8. HoldInv'
  BY <1>2, <1>3, <1>6, <1>7, OneMoves DEF IInv
<1>9. LeakInv' /\ holder' \in [Lock -> Thread \cup {None, Leaked}]
  BY <1>3, <1>4, <1>5, NoneAssumption DEF IInv, LeakInv
<1>10. VarsOK' /\ NilInv'
  BY <1>9 DEF IInv, TypeOK, VarsOK, NilInv, TakeStep, sessionVars
<1> QED
  BY <1>8, <1>9, <1>10, TypesAgain DEF IInv

LEMMA RejoinKeepsInv ==
  ASSUME IInv, NEW t \in Thread, RejoinStep(t)
  PROVE  IInv'
<1> DEFINE s == Head(prog[t])
<1>1. prog[t] # <<>> /\ s.do = "rejoin"
  BY DEF RejoinStep, At
<1>2. /\ Legal(s, Held(t)) /\ Tail(prog[t]) \in Seq(Instruction)
      /\ Leads(Tail(prog[t]), HeldAfter(s, Held(t)), {})
  BY <1>1, HeadLegal DEF IInv
<1>3. Held(t) = {} /\ HeldAfter(s, Held(t)) = {} /\ On(t) \in Client
  BY <1>1, <1>2 DEF Legal, HeldAfter, Takes, On
<1>4. \A u \in Thread : Held(u)' = Held(u)
  BY DEF RejoinStep, Held
<1>5. HoldInv'
  <2>1. CASE On(t) \in players
    <3>1. prog' = [prog EXCEPT ![t] = Tail(prog[t])]
      BY <2>1 DEF RejoinStep
    <3> HIDE DEF s
    <3>2. Leads(Tail(prog[t]), Held(t)', {})
      BY <1>2, <1>3, <1>4, Zenon
    <3> QED
      BY <1>2, <1>4, <3>1, <3>2, OneMoves DEF IInv
  <2>2. CASE On(t) \notin players
    <3>1. prog' = [prog EXCEPT ![t] = <<Do("serve", On(t), {})>>]
      BY <2>2 DEF RejoinStep
    <3>2. /\ <<Do("serve", On(t), {})>> \in Seq(Instruction)
          /\ Leads(<<Do("serve", On(t), {})>>, {}, {})
      BY <1>3, ServeLeads
    <3>3. Leads(<<Do("serve", On(t), {})>>, Held(t)', {})
      BY <1>3, <1>4, <3>2, Zenon
    <3> QED
      BY <1>4, <3>1, <3>2, <3>3, OneMoves DEF IInv
  <2> QED
    BY <2>1, <2>2
<1>6. VarsOK' /\ NilInv' /\ LeakInv'
  BY DEF IInv, TypeOK, VarsOK, NilInv, LeakInv, RejoinStep, sessionVars
<1> QED
  BY <1>5, <1>6, TypesAgain DEF IInv

\* A panic gives back everything, but for the session's writer of a greeting.
LEMMA PanicKeepsInv ==
  ASSUME IInv, NEW t \in Thread, Panic(t)
  PROVE  IInv'
<1>1. prog' = [prog EXCEPT ![t] = <<>>]
  BY DEF Panic
<1>2. holder' = [l \in Lock |-> IF holder[l] # t THEN holder[l]
                                ELSE IF At(t, "greet") /\ l = Session(On(t)) THEN Leaked
                                ELSE None]
  BY DEF Panic
<1>3. Held(t)' = {}
  BY <1>2, NoneAssumption DEF Held
<1>4. ASSUME NEW u \in Thread \ {t} PROVE Held(u)' = Held(u)
  BY <1>2, NoneAssumption DEF Held
<1>5. HoldInv'
  <2>1. <<>> \in Seq(Instruction) /\ Leads(<<>>, {}, {})
    BY LeadsEmpty
  <2>2. Leads(<<>>, Held(t)', {})
    BY <1>3, <2>1, Zenon
  <2> QED
    BY <1>1, <1>4, <2>1, <2>2, OneMoves DEF IInv
<1>6. At(t, "greet") => On(t) \in Unreliable
  <2>1. SUFFICES ASSUME At(t, "greet") PROVE On(t) \in Unreliable
    OBVIOUS
  <2>2. prog[t] # <<>> /\ Head(prog[t]).do = "greet"
    BY <2>1 DEF At
  <2>3. On(t) \in Client
    BY <2>2, OnClient DEF IInv
  <2>4. stream[On(t)] = "nil"
    BY <2>2 DEF Panic, At
  <2> QED
    BY <2>3, <2>4 DEF IInv, NilInv
<1>7. LeakInv'
  BY <1>2, <1>6, NoneAssumption DEF IInv, LeakInv
<1>8. holder' \in [Lock -> Thread \cup {None, Leaked}]
  BY <1>2 DEF IInv, TypeOK
<1>9. VarsOK' /\ NilInv'
  BY <1>8 DEF IInv, TypeOK, VarsOK, NilInv, Panic, sessionVars
<1> QED
  BY <1>5, <1>7, <1>9, TypesAgain DEF IInv

LEMMA EvictKeepsInv ==
  ASSUME IInv, NEW c \in Client, Evict(c)
  PROVE  IInv'
<1>1. Janitor \in Thread
  BY DEF Thread
<1>2. prog[Janitor] # <<>> /\ Head(prog[Janitor]).do = "prune"
  BY DEF Evict, At
<1>3. Held(Janitor) = {Sessions}
  BY <1>1, <1>2, HeadLegal DEF IInv, Legal
<1>4. \A u \in Thread : Held(u)' = Held(u)
  BY DEF Evict, Held
<1>5. /\ Announce({}) \o Prune \in Seq(Instruction)
      /\ Leads(Announce({}) \o Prune, Held(Janitor)', {})
  BY <1>1, <1>3, <1>4, SweepLeads, Zenon
<1>6. HoldInv'
  BY <1>1, <1>4, <1>5, OneMoves DEF IInv, Evict
<1>7. VarsOK' /\ NilInv' /\ LeakInv'
  BY DEF IInv, TypeOK, VarsOK, NilInv, LeakInv, Evict
<1> QED
  BY <1>6, <1>7, TypesAgain DEF IInv

\* A write keeps full within the streams that are up.
LEMMA WriteTyped ==
  ASSUME full \subseteq {c \in Client : stream[c] = "up"}, UNCHANGED stream,
         NEW c \in Client, Write(c)
  PROVE  full' \subseteq {d \in Client : stream'[d] = "up"}
BY DEF Write

LEMMA StepKeepsInv ==
  ASSUME IInv, NEW t \in Thread, Step(t)
  PROVE  IInv'
<1> USE DEF IInv, TypeOK
<1>1. CASE TakeStep(t)
  BY <1>1, TakeKeepsInv
<1>2. CASE StartStep(t)
  <2>1. prog[t] # <<>> /\ Head(prog[t]).do = "start" /\ Advance(t)
    BY <1>2 DEF StartStep, At
  <2>2. On(t) \in Client
    BY <2>1, OnClient
  <2>3. /\ stream' \in [Client -> {"none", "nil", "up", "dead"}]
        /\ full' \subseteq {c \in Client : stream'[c] = "up"}
        /\ \A c \in Client : stream'[c] = "nil" => stream[c] = "nil" \/ c \in Unreliable
    BY <1>2, <2>2 DEF StartStep
  <2> QED
    BY <1>2, <2>1, <2>3, AdvanceKeepsInv DEF StartStep
<1>3. CASE InsertStep(t)
  <2>1. prog[t] # <<>> /\ Head(prog[t]).do = "insert" /\ Advance(t)
    BY <1>3 DEF InsertStep, At
  <2>2. players' \subseteq Client
    BY <1>3, <2>1, OnClient DEF InsertStep
  <2> QED
    BY <1>3, <2>1, <2>2, AdvanceKeepsInv DEF InsertStep
<1>4. CASE RejoinStep(t)
  BY <1>4, RejoinKeepsInv
<1>5. CASE ServeStep(t)
  <2>1. prog[t] # <<>> /\ Head(prog[t]).do = "serve" /\ Advance(t)
    BY <1>5 DEF ServeStep, At
  <2>2. served' \subseteq Client
    BY <1>5, <2>1, OnClient DEF ServeStep
  <2> QED
    BY <1>5, <2>1, <2>2, AdvanceKeepsInv DEF ServeStep
<1>6. CASE ShareStep(t)
  <2>1. prog[t] # <<>> /\ Head(prog[t]).do = "share" /\ Advance(t)
    BY <1>6 DEF ShareStep, At
  <2>2. left' \in [Thread -> SUBSET Client]
    BY <1>6 DEF ShareStep
  <2> QED
    BY <1>6, <2>1, <2>2, AdvanceKeepsInv DEF ShareStep, sessionVars
<1>7. ASSUME NEW c \in Client, CastTo(t, c) PROVE IInv'
  <2>1. HoldInv' /\ LeakInv' /\ NilInv'
    BY <1>7 DEF HoldInv, LeakInv, NilInv, Held, CastTo
  <2>2. full' \subseteq {d \in Client : stream'[d] = "up"}
    BY <1>7, WriteTyped DEF CastTo
  <2>3. VarsOK'
    BY <1>7, <2>2 DEF VarsOK, CastTo
  <2> QED
    BY <2>1, <2>3, TypesAgain
<1>8. CASE CastEnd(t)
  <2>1. prog[t] # <<>> /\ Head(prog[t]).do = "cast" /\ Advance(t)
    BY <1>8 DEF CastEnd, At
  <2>2. left' \in [Thread -> SUBSET Client]
    BY <1>8 DEF CastEnd
  <2> QED
    BY <1>8, <2>1, <2>2, AdvanceKeepsInv DEF CastEnd, sessionVars
<1>9. CASE SendStep(t)
  <2>1. prog[t] # <<>> /\ Head(prog[t]).do \in {"send", "greet"} /\ Advance(t)
    BY <1>9 DEF SendStep, At
  <2>2. On(t) \in Client
    BY <2>1, OnClient
  <2>3. full' \subseteq {d \in Client : stream'[d] = "up"}
    BY <1>9, <2>2, WriteTyped DEF SendStep
  <2> QED
    BY <1>9, <2>1, <2>3, AdvanceKeepsInv DEF SendStep
<1>10. CASE Panic(t)
  BY <1>10, PanicKeepsInv
<1>11. CASE KickStep(t)
  <2>1. prog[t] # <<>> /\ Head(prog[t]).do = "kick" /\ Advance(t)
    BY <1>11 DEF KickStep, At
  <2>2. /\ stream' \in [Client -> {"none", "nil", "up", "dead"}]
        /\ full' \subseteq {c \in Client : stream'[c] = "up"}
        /\ \A c \in Client : stream'[c] = "nil" => stream[c] = "nil" \/ c \in Unreliable
    BY <1>11 DEF KickStep
  <2> QED
    BY <1>11, <2>1, <2>2, AdvanceKeepsInv DEF KickStep
<1>12. CASE t = Janitor /\ PruneEnd
  <2>1. prog[t] # <<>> /\ Head(prog[t]).do = "prune" /\ Advance(t)
    BY <1>12 DEF PruneEnd, At
  <2> QED
    BY <1>12, <2>1, AdvanceKeepsInv DEF PruneEnd, sessionVars
<1>13. ASSUME NEW c \in Client, Evict(c) PROVE IInv'
  BY <1>13, EvictKeepsInv
<1>14. CASE t = Stopper /\ StopStep
  <2>1. prog[t] # <<>> /\ Head(prog[t]).do = "stop" /\ Advance(t)
    BY <1>14 DEF StopStep, At
  <2>2. /\ stream' \in [Client -> {"none", "nil", "up", "dead"}]
        /\ full' \subseteq {c \in Client : stream'[c] = "up"}
        /\ \A c \in Client : stream'[c] = "nil" => stream[c] = "nil" \/ c \in Unreliable
        /\ stopped' \in BOOLEAN
    BY <1>14 DEF StopStep
  <2> QED
    BY <1>14, <2>1, <2>2, AdvanceKeepsInv DEF StopStep
<1> HIDE DEF IInv, TypeOK
<1> QED
  BY <1>1, <1>2, <1>3, <1>4, <1>5, <1>6, <1>7, <1>8, <1>9, <1>10, <1>11, <1>12, <1>13,
     <1>14 DEF Step

LEMMA NextKeepsInv == IInv /\ [Next]_vars => IInv'
<1> SUFFICES ASSUME IInv, [Next]_vars PROVE IInv'
  OBVIOUS
<1>1. ASSUME NEW t \in Thread, Step(t) PROVE IInv'
  BY <1>1, StepKeepsInv
<1>2. ASSUME NEW c \in Client, Read(c) \/ Die(c) PROVE IInv'
  BY <1>2, ClientKeepsInv
<1>3. CASE (\E c \in Client : Login(c) \/ Packet(c) \/ Tick(c)) \/ Sweep \/ Stop
  BY <1>3, OperationKeepsInv
<1>4. CASE UNCHANGED vars
  BY <1>4 DEF vars, sessionVars, IInv, TypeOK, HoldInv, NilInv, LeakInv, Held
<1> QED
  BY <1>1, <1>2, <1>3, <1>4 DEF Next

LEMMA AlwaysIInv == Spec => []IInv
BY InitInv, NextKeepsInv, PTL DEF Spec

\* Every variable keeps its type, whatever the clients do (session.go, game.go).
THEOREM LocksTypeCorrect == Spec => []TypeOK
<1>1. IInv => TypeOK
  BY DEF IInv
<1> QED
  BY <1>1, AlwaysIInv, PTL

-----------------------------------------------------------------------------
\* The order of the locks

LEMMA Ordered == IInv => LockOrder
<1> SUFFICES ASSUME IInv, NEW t \in Thread, NEW l \in Lock, holder[l] = t,
                    NEW k \in Wants(t)
             PROVE  Rank(l) < Rank(k)
  BY DEF LockOrder
<1>1. prog[t] # <<>>
  BY DEF Wants
<1>2. Legal(Head(prog[t]), Held(t))
  BY <1>1, HeadLegal DEF IInv
<1>3. k \in Head(prog[t]).past \cup Takes(Head(prog[t]))
  BY <1>1 DEF Wants, Takes, At, On
<1> QED
  BY <1>2, <1>3 DEF Legal, Held

\* All threads of the server take the locks in one order (session.go, game.go,
\* game_handlers.go, game_respond.go): what a thread waits for is above what it holds.
THEOREM LocksInOrder == Spec => []LockOrder
BY Ordered, AlwaysIInv, PTL

LEMMA WantsLocks ==
  ASSUME IInv, NEW t \in Thread
  PROVE  Wants(t) \subseteq Lock /\ (At(t, "cast") => WaitsFor(t) = {})
<1>1. CASE prog[t] = <<>>
  BY <1>1 DEF Wants, At
<1>2. CASE prog[t] # <<>>
  <2>1. Legal(Head(prog[t]), Held(t))
    BY <1>2, HeadLegal DEF IInv
  <2>2. Wants(t) \subseteq Lock
    BY <1>2, <2>1 DEF Wants, At, On, Legal, Instruction
  <2>3. ASSUME At(t, "cast") PROVE WaitsFor(t) = {}
    <3>1. Wants(t) = {} /\ ~At(t, "insert")
      BY <2>1, <2>3 DEF Wants, At, Legal
    <3> QED
      BY <3>1 DEF WaitsFor
  <2> QED
    BY <2>2, <2>3
<1> QED
  BY <1>1, <1>2

LEMMA Acyclic == IInv => NoDeadlock
<1> SUFFICES ASSUME IInv,
                    NEW S \in SUBSET {t \in Thread : WaitsFor(t) # {}}, S # {},
                    \A t \in S : WaitsFor(t) \cap S # {}
             PROVE  FALSE
  BY DEF NoDeadlock
\* The locks that some thread of S wants and some thread of S has.
<1> DEFINE Contended == {l \in Lock : holder[l] \in S /\ \E t \in S : l \in Wants(t)}
<1>1. ASSUME NEW t \in S PROVE \E l \in Contended : l \in Wants(t)
  <2>1. PICK u \in S : u \in WaitsFor(t)
    BY <1>1
  <2>2. ~At(u, "cast")
    BY <2>1, WantsLocks
  <2>3. PICK l \in Wants(t) : holder[l] = u
    BY <2>1, <2>2 DEF WaitsFor
  <2>4. l \in Lock
    BY <2>3, WantsLocks
  <2> QED
    BY <2>1, <2>3, <2>4
<1>2. ASSUME NEW l \in Contended PROVE \E k \in Contended : Rank(l) < Rank(k)
  <2>1. holder[l] \in S
    OBVIOUS
  <2>2. PICK k \in Contended : k \in Wants(holder[l])
    BY <1>1, <2>1
  <2>3. Rank(l) < Rank(k)
    BY <2>1, <2>2, Ordered DEF LockOrder
  <2> QED
    BY <2>2, <2>3
<1>3. PICK l0 \in Contended : TRUE
  BY <1>1
<1>4. \A l \in Contended : Rank(l) \in 0..4
  BY Ranks
<1> HIDE DEF Contended
<1>5. PICK l1 \in Contended : Rank(l0) < Rank(l1)
  BY <1>2, <1>3
<1>6. PICK l2 \in Contended : Rank(l1) < Rank(l2)
  BY <1>2, <1>5
<1>7. PICK l3 \in Contended : Rank(l2) < Rank(l3)
  BY <1>2, <1>6
<1>8. PICK l4 \in Contended : Rank(l3) < Rank(l4)
  BY <1>2, <1>7
<1>9. PICK l5 \in Contended : Rank(l4) < Rank(l5)
  BY <1>2, <1>8
<1> QED
  BY <1>4, <1>3, <1>5, <1>6, <1>7, <1>8, <1>9

\* No threads of the server wait for one another in a circle, whether for a mutex or,
\* in game.go's pmu, for the readers inside, however many clients there are.
THEOREM NoCircularWait == Spec => []NoDeadlock
BY Acyclic, AlwaysIInv, PTL

\* An operation that is over, also by an early return or a panic, has given back all
\* its locks; only a greeting's session writer stays locked (game_respond.go).
THEOREM AllLocksReturned == Spec => []LocksReturned
<1>1. IInv => LocksReturned
  <2> SUFFICES ASSUME IInv, NEW l \in Lock
               PROVE  /\ holder[l] \in Thread => prog[holder[l]] # <<>>
                      /\ holder[l] = Leaked => \E c \in Unreliable : l = Session(c)
    BY DEF LocksReturned
  <2>1. ASSUME holder[l] \in Thread, prog[holder[l]] = <<>> PROVE FALSE
    <3>1. Held(holder[l]) = {}
      BY <2>1, DoneHoldsNothing DEF IInv
    <3> QED
      BY <3>1 DEF Held
  <2> QED
    BY <2>1 DEF IInv, LeakInv
<1> QED
  BY <1>1, AlwaysIInv, PTL

===============================================================================
