----------------------------- MODULE SessionProofs -----------------------------
(***************************************************************************)
(* Theorems about Session, for every set of handshakes, users, addresses   *)
(* and events and every queue capacity.  SessionInv is inductive:          *)
(* TypeStep shows that types are kept, QuietSteps that all but seven       *)
(* actions leave alone what ObjectInv, ChannelInv and                      *)
(* ClosedChannelHasCloser speak of, and InvStep treats the seven.          *)
(*                                                                         *)
(* What depends on how users log in comes after it.  StepCases sorts the   *)
(* steps by what they do to logins and to the registry; with it TurnInv,   *)
(* RebindInv, PlayerInv and RegistryInv are carried from step to step      *)
(* where the logins of a user follow each other, and AloneInv where every  *)
(* user logs in once.                                                      *)
(***************************************************************************)
EXTENDS Session, TLAPS

\* The goroutines of a handshake are processes of that handshake.
LEMMA ProcNames ==
  ASSUME NEW h \in Handshake
  PROVE  /\ Handler(h) \in Proc /\ Reader(h) \in Proc /\ Beat(h) \in Proc
         /\ Run(h) \in Proc /\ Stop(h) \in Proc
         /\ Handler(h)[2] = h /\ Reader(h)[2] = h /\ Beat(h)[2] = h
         /\ Run(h)[2] = h /\ Stop(h)[2] = h
         /\ Handler(h)[1] = "handler" /\ Reader(h)[1] = "reader"
         /\ Beat(h)[1] = "beat" /\ Run(h)[1] = "run"
BY DEF Handler, Reader, Beat, Run, Stop, Proc, Kind

\* A process that has begun to work has a session to work on.
LEMMA Bound ==
  ASSUME TypeOK, ObjectInv, NEW p \in Proc, pc[p] \notin Unbound
  PROVE  /\ Mine(p) \in Handshake
         /\ conn[Mine(p)] \in Handshake
BY DEF TypeOK, ObjectInv, Mine, Proc

LEMMA GotoType ==
  ASSUME TypeOK, NEW p \in Proc, NEW l \in Label, Goto(p, l)
  PROVE  pc' \in [Proc -> Label]
BY DEF TypeOK, Goto

-----------------------------------------------------------------------------
\* Every step keeps every variable's type.
LEMMA TypeStep ==
  ASSUME TypeOK, ObjectInv, [Next]_vars
  PROVE  TypeOK'
<1> USE SessionAssumption
<1>1. ASSUME NEW h \in Handshake, Begin(h) PROVE TypeOK'
  <2>1. pc' \in [Proc -> Label]
    BY <1>1, ProcNames, GotoType DEF Begin, Label, HandlerLabel
  <2> QED
    BY <1>1, <2>1 DEF TypeOK, Begin, fields, net, world, manager
<1>2. ASSUME NEW h \in Handshake, Lookup(h) PROVE TypeOK'
  <2>1. sessions[UserOf[h]] \in Handshake \cup {None}
    BY DEF TypeOK
  <2>2. pc' \in [Proc -> Label]
    BY <1>2, ProcNames, GotoType DEF Lookup, Label, HandlerLabel, CloseLabel
  <2>3. obj' \in [Handshake -> Handshake \cup {None}]
    BY <1>2, <2>1 DEF Lookup, Valid, TypeOK
  <2> QED
    BY <1>2, <2>2, <2>3 DEF TypeOK, Lookup, fields, net, world, manager
<1>3. ASSUME NEW h \in Handshake, CreateSession(h) PROVE TypeOK'
  BY <1>3, ProcNames
     DEF TypeOK, CreateSession, Goto, net, manager, Label, HandlerLabel,
        CloseLabel
<1>4. ASSUME NEW h \in Handshake, NilManager(h) PROVE TypeOK'
  BY <1>4, ProcNames
     DEF TypeOK, NilManager, Goto, fields, net, world, manager, Label,
        HandlerLabel, CloseLabel
<1>5. ASSUME NEW h \in Handshake, Rebind(h) PROVE TypeOK'
  BY <1>5, ProcNames
     DEF TypeOK, Rebind, Goto, net, world, manager, Label, HandlerLabel,
        CloseLabel
<1>6. ASSUME NEW h \in Handshake, OpenStream(h) PROVE TypeOK'
  <2>1. Mine(Handler(h)) = obj[h] /\ conn[obj[h]] \in Handshake
    BY <1>6, ProcNames, Bound DEF OpenStream, Mine, Unbound
  <2>2. pc' \in [Proc -> Label]
    BY <1>6, ProcNames, GotoType DEF OpenStream, Label, HandlerLabel
  <2>3. on' \in [Handshake -> Handshake \cup {None}] /\ connClosed' \subseteq Handshake
    BY <1>6, <2>1 DEF OpenStream, TypeOK
  <2> QED
    BY <1>6, <2>2, <2>3 DEF TypeOK, OpenStream, fields, world, manager
<1>7. ASSUME NEW h \in Handshake, Activate(h) PROVE TypeOK'
  BY <1>7, ProcNames
     DEF TypeOK, Activate, Goto, net, world, manager, Label, HandlerLabel,
        CloseLabel
<1>8. ASSUME NEW h \in Handshake, Arm(h) PROVE TypeOK'
  <2>1. Mine(Handler(h)) = obj[h] /\ obj[h] \in Handshake
    BY <1>8, ProcNames, Bound DEF Arm, Mine, Unbound
  <2>2. pc' \in [Proc -> Label]
    BY <1>8, ProcNames DEF Arm, TypeOK, Label, HandlerLabel
  <2> QED
    BY <1>8, <2>1, <2>2 DEF TypeOK, Arm, world, manager
<1>9. ASSUME NEW h \in Handshake, Join(h) PROVE TypeOK'
  <2>0. \/ pc' = [pc EXCEPT ![Handler(h)] = "served", ![Run(h)] = "start"]
        \/ \E l \in {"refused", "unserved", "panicked"} :
             pc' = [pc EXCEPT ![Handler(h)] = l]
    BY <1>9 DEF Join, Goto
  <2>1. pc' \in [Proc -> Label]
    <3>1. pc \in [Proc -> Label] /\ "served" \in Label /\ "start" \in Label
          /\ {"refused", "unserved", "panicked"} \subseteq Label
      BY DEF TypeOK, Label, HandlerLabel
    <3> QED
      BY <2>0, <3>1, ProcNames
  <2> QED
    BY <1>9, <2>1 DEF TypeOK, Join, fields, net, manager
<1>10. ASSUME NEW h \in Handshake, ReaderStart(h) PROVE TypeOK'
  <2>1. Mine(Reader(h)) = obj[h] /\ obj[h] \in Handshake
    BY <1>10, ProcNames, Bound DEF ReaderStart, Mine, Unbound
  <2>2. pc' \in [Proc -> Label]
    BY <1>10, ProcNames, GotoType DEF ReaderStart, Label
  <2> QED
    BY <1>10, <2>1, <2>2, ProcNames
    DEF TypeOK, ReaderStart, Watch, fields, net, world, manager
<1>11. ASSUME NEW h \in Handshake, ReadPacket(h) PROVE TypeOK'
  BY <1>11, ProcNames
     DEF TypeOK, ReadPacket, Goto, fields, net, world, manager, Label,
        HandlerLabel, CloseLabel
<1>12. ASSUME NEW h \in Handshake, ReadCancelled(h) PROVE TypeOK'
  BY <1>12, ProcNames
     DEF TypeOK, ReadCancelled, Goto, Watch, fields, net, world, manager, Label,
        HandlerLabel, CloseLabel
<1>13. ASSUME NEW h \in Handshake, ReadFails(h) PROVE TypeOK'
  BY <1>13, ProcNames
     DEF TypeOK, ReadFails, Goto, Watch, fields, net, world, manager, Label,
        HandlerLabel, CloseLabel
<1>14. ASSUME NEW h \in Handshake, PushPacket(h) PROVE TypeOK'
  <2>1. Mine(Reader(h)) \in Handshake
    BY <1>14, ProcNames, Bound DEF PushPacket, Unbound
  <2> QED
    BY <1>14, <2>1, ProcNames
       DEF TypeOK, PushPacket, Goto, net, world, manager, Label, HandlerLabel,
          CloseLabel, Mine
<1>15. ASSUME NEW h \in Handshake, BeatTick(h) PROVE TypeOK'
  BY <1>15, ProcNames
     DEF TypeOK, BeatTick, Goto, Watch, fields, net, world, manager, Label,
        HandlerLabel, CloseLabel
<1>16. ASSUME NEW h \in Handshake, BeatSend(h) PROVE TypeOK'
  BY <1>16, ProcNames
     DEF TypeOK, BeatSend, Goto, fields, net, world, manager, Label,
        HandlerLabel, CloseLabel
<1>17. ASSUME NEW h \in Handshake, RunStart(h) PROVE TypeOK'
  BY <1>17, ProcNames
     DEF TypeOK, RunStart, Goto, fields, net, world, manager, Label,
        HandlerLabel, CloseLabel
<1>18. ASSUME NEW h \in Handshake, RunTake(h) PROVE TypeOK'
  <2>1. Mine(Run(h)) \in Handshake
    BY <1>18, ProcNames, Bound DEF RunTake, Unbound
  <2> QED
    BY <1>18, <2>1, ProcNames
       DEF TypeOK, RunTake, Goto, Watch, net, world, manager, Label,
          HandlerLabel, CloseLabel, Mine
<1>19. ASSUME NEW h \in Handshake, RunHandle(h) PROVE TypeOK'
  <2>1. pc' \in [Proc -> Label]
    BY <1>19, ProcNames, GotoType DEF RunHandle, Label, CloseLabel
  <2> QED
    BY <1>19, <2>1 DEF TypeOK, RunHandle, fields, net, world, manager
<1>20. ASSUME NEW h \in Handshake, Lose(h) PROVE TypeOK'
  BY <1>20, ProcNames DEF TypeOK, Lose, fields, world, manager
<1>21. ASSUME NEW h \in Handshake, Lapse(h) PROVE TypeOK'
  BY <1>21 DEF TypeOK, Lapse, net, world, manager
<1>22. ASSUME NEW p \in Proc, EnterSelect(p) PROVE TypeOK'
  <2>1. Mine(p) \in Handshake
    BY <1>22, ProcNames, Bound DEF EnterSelect, Unbound
  <2> QED
    BY <1>22, <2>1, ProcNames
       DEF TypeOK, EnterSelect, Goto, Watch, Mine, fields, net, world, manager,
          Label, HandlerLabel, CloseLabel
<1>23. ASSUME NEW p \in Proc, SeeClosing(p) PROVE TypeOK'
  BY <1>23
     DEF TypeOK, SeeClosing, Goto, Watch, fields, net, world, manager, Label,
        HandlerLabel, CloseLabel
<1>24. ASSUME NEW p \in Proc, MarkInactive(p) PROVE TypeOK'
  BY <1>24
     DEF TypeOK, MarkInactive, Goto, Mine, net, world, manager, Label,
        HandlerLabel, CloseLabel
<1>25. ASSUME NEW p \in Proc, Stamp(p) PROVE TypeOK'
  BY <1>25
     DEF TypeOK, Stamp, Goto, Mine, net, world, manager, Label, HandlerLabel,
        CloseLabel
<1>26. ASSUME NEW p \in Proc, CheckClosing(p) PROVE TypeOK'
  BY <1>26
     DEF TypeOK, CheckClosing, Goto, Mine, fields, net, world, manager, Label,
        HandlerLabel, CloseLabel
<1>27. ASSUME NEW p \in Proc, CloseChan(p) PROVE TypeOK'
  <2>1. Mine(p) \in Handshake
    BY <1>27, Bound DEF CloseChan, Unbound
  <2>2. pc' \in [Proc -> Label]
    BY <1>27, GotoType DEF CloseChan, Label, HandlerLabel, CloseLabel
  <2>3. chanClosed' \subseteq Handshake /\ crashed' \in BOOLEAN
    BY <1>27, <2>1 DEF CloseChan, TypeOK
  <2> QED
    BY <1>27, <2>2, <2>3 DEF TypeOK, CloseChan, fields, world, manager
<1>28. ASSUME NEW p \in Proc, ClearChan(p) PROVE TypeOK'
  BY <1>28
     DEF TypeOK, ClearChan, Goto, Mine, net, world, manager, Label,
        HandlerLabel, CloseLabel
<1>29. ASSUME NEW p \in Proc, Teardown(p) PROVE TypeOK'
  <2>1. Mine(p) \in Handshake /\ conn[Mine(p)] \in Handshake
    BY <1>29, Bound DEF Teardown, Unbound
  <2>2. \A err : AfterClose(p, err) \in Label
    BY DEF AfterClose, Label, HandlerLabel, CloseLabel
  <2>3. pc' \in [Proc -> Label]
    BY <1>29, <2>2, GotoType DEF Teardown
  <2>4. cancelled' \subseteq Handshake /\ connClosed' \subseteq Handshake
    BY <1>29, <2>1 DEF Teardown, TypeOK
  <2> QED
    BY <1>29, <2>3, <2>4 DEF TypeOK, Teardown, fields, world, manager
<1>30. CASE Tick
  BY <1>30 DEF TypeOK, Tick, fields, net, world
<1>31. CASE BeginPrune
  BY <1>31 DEF TypeOK, BeginPrune, Registered, fields, net, world
<1>32. CASE Evict
  BY <1>32 DEF TypeOK, Evict, fields, net
<1>33. CASE EndPrune
  BY <1>33 DEF TypeOK, EndPrune, fields, net, world
<1>34. CASE BeginShutdown
  BY <1>34 DEF TypeOK, BeginShutdown, fields, net, world
<1>35. CASE EndShutdown
  BY <1>35, ProcNames
     DEF TypeOK, EndShutdown, Registered, fields, net, world
<1>36. CASE DropServer
  BY <1>36 DEF TypeOK, DropServer, fields, world
<1>37. ASSUME NEW s \in Handshake, CheckIdle(s) PROVE TypeOK'
  BY <1>37 DEF TypeOK, CheckIdle, fields, net, world
<1>38. ASSUME NEW s \in Handshake, ShutdownSession(s) PROVE TypeOK'
  BY <1>38, ProcNames
     DEF TypeOK, ShutdownSession, Goto, Registered, fields, net, world, manager,
        Label, HandlerLabel, CloseLabel
<1>39. CASE UNCHANGED vars
  BY <1>39 DEF TypeOK, vars, fields, net, world, manager
<1> QED
  BY <1>1, <1>2, <1>3, <1>4, <1>5, <1>6, <1>7, <1>8, <1>9, <1>10, <1>11, <1>12,
     <1>13, <1>14, <1>15, <1>16, <1>17, <1>18, <1>19, <1>20, <1>21, <1>22,
     <1>23, <1>24, <1>25, <1>26, <1>27, <1>28, <1>29, <1>30, <1>31, <1>32,
     <1>33, <1>34, <1>35, <1>36, <1>37, <1>38, <1>39, ProcNames
  DEF Next, HandshakeStep, ReaderStep, BeatStep, RunStep, CloseStep, Janitor,
     Shutdown

-----------------------------------------------------------------------------
\* What most steps do to the state the other invariants speak of: goroutines
\* that have a session go on, and nothing but connections and registry entries
\* changes.
Quiet ==
  /\ \A p \in Proc : pc'[p] # pc[p] =>
       /\ Mine(p) # None
       /\ pc[p] = "idle" => p[1] = "stop"
       /\ pc'[p] \notin {"idle", "lookup", "create"}
       /\ pc[p] \notin {"clearChan"} \cup Started
  /\ \A s \in Handshake : conn[s] # None => conn'[s] # None
  /\ \A u \in User : sessions'[u] \in {sessions[u], None}
  /\ UNCHANGED <<obj, closing, chanClosed>>

LEMMA QuietKeeps ==
  ASSUME SessionInv, Quiet
  PROVE  ObjectInv' /\ SpawnInv' /\ ChannelInv' /\ ClosedChannelHasCloser'
<1> USE DEF Started
<1>1. ObjectInv'
  <2>1. \A p \in Proc : Mine(p)' = None => pc'[p] \in Unbound
    BY DEF SessionInv, ObjectInv, Quiet, Mine
  <2>2. ASSUME NEW h \in Handshake, obj'[h] # None
        PROVE  /\ pc'[Handler(h)] \notin {"idle", "lookup", "create"}
               /\ obj'[obj'[h]] = obj'[h]
               /\ conn'[obj'[h]] # None
    <3>1. obj[h] \in Handshake /\ obj[h] # None
      BY <2>2 DEF SessionInv, TypeOK, Quiet
    <3> QED
      BY <2>2, <3>1, ProcNames DEF SessionInv, ObjectInv, Quiet
  <2>3. \A u \in User : sessions'[u] # None => obj'[sessions'[u]] = sessions'[u]
    BY DEF SessionInv, ObjectInv, Quiet
  <2> QED
    BY <2>1, <2>2, <2>3 DEF ObjectInv, Handler
<1>2. ChannelInv'
  BY ProcNames DEF SessionInv, TypeOK, ChannelInv, Quiet, Handler
<1>3. SpawnInv'
  BY ProcNames DEF SessionInv, SpawnInv, Quiet
<1>4. ClosedChannelHasCloser'
  BY DEF SessionInv, ClosedChannelHasCloser, Closed, Quiet, Mine
<1> QED
  BY <1>1, <1>2, <1>3, <1>4

LEMMA QuietSteps ==
  ASSUME SessionInv, Next,
         \A h \in Handshake : ~Begin(h),
         \A h \in Handshake : ~Lookup(h),
         \A h \in Handshake : ~CreateSession(h),
         \A h \in Handshake : ~NilManager(h),
         \A h \in Handshake : ~Arm(h),
         \A h \in Handshake : ~Join(h),
         \A p \in Proc : ~CloseChan(p),
         \A p \in Proc : ~ClearChan(p)
  PROVE  Quiet
<1> USE DEF SessionInv, Started
<1>1. ASSUME NEW h \in Handshake, Rebind(h) PROVE Quiet
  <2>1. Handler(h) \in Proc /\ Mine(Handler(h)) # None
    BY <1>1, ProcNames, Bound, SessionAssumption DEF Rebind, Unbound
  <2> QED
    BY <1>1, <2>1, SessionAssumption
       DEF Quiet, TypeOK, Rebind, Goto, net, world, manager
<1>2. ASSUME NEW h \in Handshake, OpenStream(h) PROVE Quiet
  <2>1. Handler(h) \in Proc /\ Mine(Handler(h)) # None
    BY <1>2, ProcNames, Bound, SessionAssumption DEF OpenStream, Unbound
  <2> QED
    BY <1>2, <2>1
       DEF Quiet, TypeOK, OpenStream, Goto, fields, world, manager
<1>3. ASSUME NEW h \in Handshake, Activate(h) PROVE Quiet
  <2>1. Handler(h) \in Proc /\ Mine(Handler(h)) # None
    BY <1>3, ProcNames, Bound, SessionAssumption DEF Activate, Unbound
  <2> QED
    BY <1>3, <2>1
       DEF Quiet, TypeOK, Activate, Goto, net, world, manager
<1>4. ASSUME NEW h \in Handshake, ReaderStart(h) PROVE Quiet
  <2>1. Reader(h) \in Proc /\ Mine(Reader(h)) # None
    BY <1>4, ProcNames, Bound, SessionAssumption DEF ReaderStart, Unbound
  <2> QED
    BY <1>4, <2>1
       DEF Quiet, TypeOK, ReaderStart, Goto, Watch, fields, net, world, manager
<1>5. ASSUME NEW h \in Handshake, ReadPacket(h) PROVE Quiet
  <2>1. Reader(h) \in Proc /\ Mine(Reader(h)) # None
    BY <1>5, ProcNames, Bound, SessionAssumption DEF ReadPacket, Unbound
  <2> QED
    BY <1>5, <2>1
       DEF Quiet, TypeOK, ReadPacket, Goto, fields, net, world, manager
<1>6. ASSUME NEW h \in Handshake, ReadCancelled(h) PROVE Quiet
  <2>1. Reader(h) \in Proc /\ Mine(Reader(h)) # None
    BY <1>6, ProcNames, Bound, SessionAssumption DEF ReadCancelled, Unbound
  <2> QED
    BY <1>6, <2>1
       DEF Quiet, TypeOK, ReadCancelled, Goto, Watch, fields, net, world,
          manager
<1>7. ASSUME NEW h \in Handshake, ReadFails(h) PROVE Quiet
  <2>1. Reader(h) \in Proc /\ Mine(Reader(h)) # None
    BY <1>7, ProcNames, Bound, SessionAssumption DEF ReadFails, Unbound
  <2> QED
    BY <1>7, <2>1
       DEF Quiet, TypeOK, ReadFails, Goto, Watch, fields, net, world, manager
<1>8. ASSUME NEW h \in Handshake, PushPacket(h) PROVE Quiet
  <2>1. Reader(h) \in Proc /\ Mine(Reader(h)) # None
    BY <1>8, ProcNames, Bound, SessionAssumption DEF PushPacket, Unbound
  <2> QED
    BY <1>8, <2>1
       DEF Quiet, TypeOK, PushPacket, Goto, net, world, manager
<1>9. ASSUME NEW h \in Handshake, BeatTick(h) PROVE Quiet
  <2>1. Beat(h) \in Proc /\ Mine(Beat(h)) # None
    BY <1>9, ProcNames, Bound, SessionAssumption DEF BeatTick, Unbound
  <2> QED
    BY <1>9, <2>1
       DEF Quiet, TypeOK, BeatTick, Goto, Watch, fields, net, world, manager
<1>10. ASSUME NEW h \in Handshake, BeatSend(h) PROVE Quiet
  <2>1. Beat(h) \in Proc /\ Mine(Beat(h)) # None
    BY <1>10, ProcNames, Bound, SessionAssumption DEF BeatSend, Unbound
  <2> QED
    BY <1>10, <2>1
       DEF Quiet, TypeOK, BeatSend, Goto, fields, net, world, manager
<1>11. ASSUME NEW h \in Handshake, RunStart(h) PROVE Quiet
  <2>1. Run(h) \in Proc /\ Mine(Run(h)) # None
    BY <1>11, ProcNames, Bound, SessionAssumption DEF RunStart, Unbound
  <2> QED
    BY <1>11, <2>1
       DEF Quiet, TypeOK, RunStart, Goto, fields, net, world, manager
<1>12. ASSUME NEW h \in Handshake, RunTake(h) PROVE Quiet
  <2>1. Run(h) \in Proc /\ Mine(Run(h)) # None
    BY <1>12, ProcNames, Bound, SessionAssumption DEF RunTake, Unbound
  <2> QED
    BY <1>12, <2>1
       DEF Quiet, TypeOK, RunTake, Goto, Watch, net, world, manager
<1>13. ASSUME NEW h \in Handshake, RunHandle(h) PROVE Quiet
  <2>1. Run(h) \in Proc /\ Mine(Run(h)) # None
    BY <1>13, ProcNames, Bound, SessionAssumption DEF RunHandle, Unbound
  <2> QED
    BY <1>13, <2>1
       DEF Quiet, TypeOK, RunHandle, Goto, fields, net, world, manager
<1>14. ASSUME NEW h \in Handshake, Lose(h) PROVE Quiet
  BY <1>14 DEF Quiet, TypeOK, Lose, fields, world, manager
<1>15. ASSUME NEW h \in Handshake, Lapse(h) PROVE Quiet
  BY <1>15 DEF Quiet, TypeOK, Lapse, net, world, manager
<1>16. ASSUME NEW p \in Proc, EnterSelect(p) PROVE Quiet
  <2>1. p \in Proc /\ Mine(p) # None
    BY <1>16, ProcNames, Bound, SessionAssumption DEF EnterSelect, Unbound
  <2> QED
    BY <1>16, <2>1
       DEF Quiet, TypeOK, EnterSelect, Goto, Watch, Mine, fields, net, world,
          manager
<1>17. ASSUME NEW p \in Proc, SeeClosing(p) PROVE Quiet
  <2>1. p \in Proc /\ Mine(p) # None
    BY <1>17, ProcNames, Bound, SessionAssumption DEF SeeClosing, Unbound
  <2> QED
    BY <1>17, <2>1
       DEF Quiet, TypeOK, SeeClosing, Goto, Watch, fields, net, world, manager
<1>18. ASSUME NEW p \in Proc, MarkInactive(p) PROVE Quiet
  <2>1. p \in Proc /\ Mine(p) # None
    BY <1>18, ProcNames, Bound, SessionAssumption DEF MarkInactive, Unbound
  <2> QED
    BY <1>18, <2>1
       DEF Quiet, TypeOK, MarkInactive, Goto, Mine, net, world, manager
<1>19. ASSUME NEW p \in Proc, Stamp(p) PROVE Quiet
  <2>1. p \in Proc /\ Mine(p) # None
    BY <1>19, ProcNames, Bound, SessionAssumption DEF Stamp, Unbound
  <2> QED
    BY <1>19, <2>1
       DEF Quiet, TypeOK, Stamp, Goto, Mine, net, world, manager
<1>20. ASSUME NEW p \in Proc, CheckClosing(p) PROVE Quiet
  <2>1. p \in Proc /\ Mine(p) # None
    BY <1>20, ProcNames, Bound, SessionAssumption DEF CheckClosing, Unbound
  <2> QED
    BY <1>20, <2>1
       DEF Quiet, TypeOK, CheckClosing, Goto, Mine, fields, net, world, manager
<1>21. ASSUME NEW p \in Proc, Teardown(p) PROVE Quiet
  <2>1. p \in Proc /\ Mine(p) # None
    BY <1>21, ProcNames, Bound, SessionAssumption DEF Teardown, Unbound
  <2> QED
    BY <1>21, <2>1
       DEF Quiet, TypeOK, Teardown, Goto, Mine, AfterClose, fields, world,
          manager
<1>22. CASE Tick
  BY <1>22 DEF Quiet, TypeOK, Tick, fields, net, world
<1>23. CASE BeginPrune
  BY <1>23
     DEF Quiet, TypeOK, BeginPrune, Registered, fields, net, world
<1>24. CASE Evict
  BY <1>24 DEF Quiet, TypeOK, Evict, fields, net
<1>25. CASE EndPrune
  BY <1>25 DEF Quiet, TypeOK, EndPrune, fields, net, world
<1>26. CASE BeginShutdown
  BY <1>26 DEF Quiet, TypeOK, BeginShutdown, fields, net, world
<1>27. CASE EndShutdown
  BY <1>27
     DEF Quiet, TypeOK, EndShutdown, Registered, fields, net, world
<1>28. CASE DropServer
  BY <1>28 DEF Quiet, TypeOK, DropServer, fields, world
<1>29. ASSUME NEW s \in Handshake, CheckIdle(s) PROVE Quiet
  BY <1>29 DEF Quiet, TypeOK, CheckIdle, fields, net, world
<1>30. ASSUME NEW s \in Handshake, ShutdownSession(s) PROVE Quiet
  BY <1>30, ProcNames
     DEF ShutdownSession, Stop, Registered, Quiet, ObjectInv, TypeOK, Goto, Mine,
         fields, net, world, manager
<1> QED
  BY <1>1, <1>2, <1>3, <1>4, <1>5, <1>6, <1>7, <1>8, <1>9, <1>10, <1>11, <1>12,
     <1>13, <1>14, <1>15, <1>16, <1>17, <1>18, <1>19, <1>20, <1>21, <1>22,
     <1>23, <1>24, <1>25, <1>26, <1>27, <1>28, <1>29, <1>30, ProcNames
  DEF Next, HandshakeStep, ReaderStep, BeatStep, RunStep, CloseStep, Janitor,
     Shutdown

-----------------------------------------------------------------------------
\* The steps that bind a handshake to a session, arm or close a channel.
LEMMA BindSteps ==
  ASSUME SessionInv, NEW h \in Handshake,
         Begin(h) \/ Lookup(h) \/ CreateSession(h) \/ NilManager(h)
  PROVE  ObjectInv' /\ SpawnInv' /\ ChannelInv' /\ ClosedChannelHasCloser'
<1> USE SessionAssumption DEF SessionInv, Started
<1>1. Handler(h) \in Proc /\ Mine(Handler(h)) = obj[h]
  BY ProcNames DEF Mine
<1>2. /\ pc[Handler(h)] \in {"idle", "lookup", "create"}
      /\ \E l \in {"lookup", "refused", "markInactive", "create", "open", "panicked"} :
           Goto(Handler(h), l)
      /\ UNCHANGED <<closing, chanClosed>>
  BY DEF Begin, Lookup, CreateSession, NilManager, fields, net
<1>3. obj[h] = None
  BY <1>2 DEF ObjectInv
<1>4. \A p \in Proc : p # Handler(h) => pc'[p] = pc[p]
  BY <1>1, <1>2 DEF Goto, TypeOK
<1>5. \A g \in Handshake : g # h => obj'[g] = obj[g]
  BY DEF Begin, Lookup, CreateSession, NilManager, TypeOK
<1>6. pc[Handler(h)] \notin Started /\ pc'[Handler(h)] \notin Started
  BY <1>1, <1>2 DEF Goto, TypeOK
<1>7. \A g \in Handshake : g # h => Handler(g) # Handler(h)
  BY ProcNames
<1>8. ObjectInv'
  <2>1. /\ obj'[h] = None => pc'[Handler(h)] \in Unbound
        /\ obj'[h] # None => /\ pc'[Handler(h)] \notin {"idle", "lookup", "create"}
                             /\ obj'[h] \in Handshake
                             /\ obj'[obj'[h]] = obj'[h]
                             /\ conn'[obj'[h]] # None
    <3>1. CASE Begin(h) \/ NilManager(h)
      BY <1>1, <1>3, <3>1 DEF Begin, NilManager, Goto, TypeOK, Unbound
    <3>2. CASE Lookup(h)
      <4>1. CASE Valid(h, sessions[UserOf[h]])
        <5>1. sessions[UserOf[h]] \in Handshake
          BY <4>1 DEF Valid, TypeOK
        <5>2. /\ obj[sessions[UserOf[h]]] = sessions[UserOf[h]]
              /\ conn[sessions[UserOf[h]]] # None
          BY <5>1 DEF ObjectInv
        <5> QED
          BY <1>1, <1>3, <3>2, <4>1, <5>1, <5>2 DEF Lookup, Goto, TypeOK, fields
      <4>2. CASE ~Valid(h, sessions[UserOf[h]])
        BY <1>1, <1>3, <3>2, <4>2 DEF Lookup, Goto, TypeOK, Unbound
      <4> QED
        BY <4>1, <4>2
    <3>3. CASE CreateSession(h)
      BY <1>1, <3>3 DEF CreateSession, Goto, TypeOK
    <3> QED
      BY <3>1, <3>2, <3>3
  <2>2. \A s \in Handshake : s # h => conn'[s] = conn[s]
    BY DEF Begin, Lookup, CreateSession, NilManager, TypeOK, fields
  <2>3. ASSUME NEW p \in Proc, Mine(p)' = None
        PROVE  pc'[p] \in Unbound
    <3>1. CASE p = Handler(h)
      BY <2>1, <2>3, <3>1, ProcNames DEF Mine
    <3>2. CASE p # Handler(h)
      <4>1. p[2] \in Handshake /\ obj[p[2]] = None
        BY <1>3, <1>5, <2>3 DEF Mine, Proc
      <4> QED
        BY <1>4, <3>2, <4>1 DEF ObjectInv, Mine
    <3> QED
      BY <3>1, <3>2
  <2>4. ASSUME NEW g \in Handshake, g # h, obj'[g] # None
        PROVE  /\ pc'[Handler(g)] \notin {"idle", "lookup", "create"}
               /\ obj'[obj'[g]] = obj'[g]
               /\ conn'[obj'[g]] # None
    <3>1. obj[g] \in Handshake /\ obj'[g] = obj[g] /\ obj[g] # h
      BY <1>3, <1>5, <2>4 DEF TypeOK, ObjectInv
    <3> QED
      BY <1>4, <1>5, <1>7, <2>2, <2>4, <3>1, ProcNames DEF ObjectInv
  <2>5. ASSUME NEW u \in User, sessions'[u] # None
        PROVE  obj'[sessions'[u]] = sessions'[u]
    <3>1. CASE sessions'[u] = sessions[u]
      BY <1>3, <1>5, <2>5, <3>1 DEF ObjectInv, TypeOK
    <3>2. CASE sessions'[u] # sessions[u]
      BY <3>2, SessionAssumption DEF Begin, Lookup, CreateSession, NilManager, TypeOK, world
    <3> QED
      BY <3>1, <3>2
  <2> QED
    BY <2>1, <2>3, <2>4, <2>5 DEF ObjectInv, Handler
<1>9. SpawnInv'
  <2>1. ASSUME NEW g \in Handshake
        PROVE  /\ pc'[Reader(g)] = pc[Reader(g)]
               /\ pc'[Beat(g)] = pc[Beat(g)]
               /\ pc'[Run(g)] = pc[Run(g)]
    BY <1>4, ProcNames
  <2> QED
    BY <1>4, <1>6, <1>7, <2>1, ProcNames DEF SpawnInv
<1>10. ChannelInv'
  <2>1. ASSUME NEW g \in Handshake, pc[Handler(g)] \in Started
        PROVE  g # h /\ obj'[g] = obj[g] /\ pc'[Handler(g)] = pc[Handler(g)]
    BY <1>4, <1>5, <1>6, <1>7, <2>1, ProcNames
  <2> QED
    BY <1>2, <2>1 DEF ChannelInv, TypeOK
<1>11. ClosedChannelHasCloser'
  BY <1>1, <1>2, <1>3, <1>4, <1>5 DEF ClosedChannelHasCloser, Closed, Mine, Proc
<1> QED
  BY <1>8, <1>9, <1>10, <1>11

\* The end of Start and of the handler, where goroutines are spawned.
LEMMA SpawnSteps ==
  ASSUME SessionInv, NEW h \in Handshake, Arm(h) \/ Join(h)
  PROVE  ObjectInv' /\ SpawnInv' /\ ChannelInv' /\ ClosedChannelHasCloser'
<1> USE DEF SessionInv, Started
<1>1. /\ Handler(h) \in Proc /\ pc[Handler(h)] \in {"arm", "join", "joinFailed"}
      /\ obj[h] \in Handshake /\ obj[h] # None
  BY ProcNames, Bound, SessionAssumption DEF Arm, Join, Mine, Unbound
<1>2. /\ obj' = obj /\ conn' = conn /\ sessions' = sessions /\ chanClosed' = chanClosed
      /\ closing' = closing \/ closing' = [closing EXCEPT ![obj[h]] = h]
  BY DEF Arm, Join, fields, net, world
<1>3. \A p \in Proc : pc'[p] # pc[p] =>
        /\ p \in {Handler(h), Reader(h), Beat(h), Run(h)}
        /\ p # Handler(h) => pc[p] = "idle"
        /\ p = Handler(h) => pc'[p] \in Started \cup {"refused", "panicked"}
        /\ pc[p] \in Started => pc'[p] \in Started
  BY <1>1, ProcNames, SMTT(30) DEF Arm, Join, Goto, TypeOK, SpawnInv
<1>4. ObjectInv'
  <2>1. \A p \in Proc : Mine(p)' = None => pc'[p] \in Unbound
    BY <1>1, <1>2, <1>3, ProcNames DEF ObjectInv, Mine
  <2>2. \A g \in Handshake : pc'[Handler(g)] # pc[Handler(g)] =>
          pc'[Handler(g)] \notin {"idle", "lookup", "create"}
    BY <1>3, ProcNames
  <2> QED
    BY <1>2, <2>1, <2>2 DEF ObjectInv, Handler
<1>5. SpawnInv'
  <2>1. ASSUME NEW g \in Handshake, g # h
        PROVE  \A p \in {Handler(g), Reader(g), Beat(g), Run(g)} : pc'[p] = pc[p]
    BY <1>3, <2>1, ProcNames
  <2>2. CASE Arm(h)
    <3>1. pc'[Handler(h)] = "join" /\ pc'[Run(h)] = pc[Run(h)]
      BY <2>2, ProcNames DEF Arm, TypeOK
    <3> QED
      BY <1>1, <2>1, <2>2, <3>1 DEF SpawnInv, Arm
  <2>3. CASE Join(h) /\ pc[Handler(h)] = "join"
    <3>1. CASE pc'[Handler(h)] = "served"
      BY <2>1, <3>1 DEF SpawnInv
    <3>2. CASE pc' = [pc EXCEPT ![Handler(h)] = "unserved"]
      <4>1. pc'[Handler(h)] = "unserved" /\ pc'[Run(h)] = pc[Run(h)]
        BY <3>2, ProcNames DEF TypeOK
      <4> QED
        BY <2>1, <2>3, <4>1 DEF SpawnInv
    <3> QED
      BY <2>3, <3>1, <3>2, ProcNames DEF Join, Goto, TypeOK
  <2>4. CASE Join(h) /\ pc[Handler(h)] # "join"
    <3>1. pc[Handler(h)] = "joinFailed"
      BY <2>4 DEF Join
    <3>2. PICK l \in {"refused", "panicked"} : pc' = [pc EXCEPT ![Handler(h)] = l]
      BY <2>4, <3>1 DEF Join, Goto
    <3>3. /\ pc'[Handler(h)] = l
          /\ \A p \in {Reader(h), Beat(h), Run(h)} : pc'[p] = pc[p]
      BY <3>2, ProcNames DEF TypeOK
    <3> QED
      BY <2>1, <3>1, <3>3 DEF SpawnInv
  <2> QED
    BY <2>2, <2>3, <2>4
<1>6. ChannelInv'
  <2>1. \A g \in Handshake : pc[Handler(g)] \in Started =>
          pc'[Handler(g)] \in Started
    BY <1>3, ProcNames
  <2>2. closing' # closing => pc'[Handler(h)] = "join"
    BY ProcNames DEF Arm, Join, TypeOK, fields
  <2>3. ASSUME NEW s \in Handshake, closing'[s] # None
        PROVE  /\ obj'[closing'[s]] = s
               /\ pc'[Handler(closing'[s])] \in Started
    <3>1. CASE closing'[s] = closing[s]
      BY <1>2, <2>1, <2>3, <3>1 DEF ChannelInv, TypeOK
    <3>2. CASE closing'[s] # closing[s]
      BY <1>1, <1>2, <2>2, <3>2 DEF TypeOK
    <3> QED
      BY <3>1, <3>2
  <2> QED
    BY <1>2, <2>1, <2>3 DEF ChannelInv, TypeOK, Handler
<1>7. ClosedChannelHasCloser'
  <2>1. \A p \in Proc : pc[p] = "clearChan" => pc'[p] = "clearChan"
    BY <1>1, <1>3
  <2>2. closing' # closing => h \notin chanClosed
    BY <1>2 DEF Arm, Join, ChannelInv, fields
  <2> QED
    BY <1>1, <1>2, <2>1, <2>2 DEF ClosedChannelHasCloser, Closed, Mine, TypeOK
<1> QED
  BY <1>4, <1>5, <1>6, <1>7

\* close(s.Closing) and s.Closing = nil.
LEMMA CloseSteps ==
  ASSUME SessionInv, NEW p \in Proc, CloseChan(p) \/ ClearChan(p)
  PROVE  ObjectInv' /\ SpawnInv' /\ ChannelInv' /\ ClosedChannelHasCloser'
<1> USE DEF SessionInv, Started
<1>1. Mine(p) \in Handshake
  BY Bound DEF CloseChan, ClearChan, Unbound
<1>2. obj' = obj /\ conn' = conn /\ sessions' = sessions
  BY DEF CloseChan, ClearChan, fields, world
<1>3. /\ pc[p] \in {"closeChan", "clearChan"}
      /\ pc'[p] \in {"clearChan", "panicked", "done", "teardown"}
      /\ \A q \in Proc : q # p => pc'[q] = pc[q]
  BY DEF CloseChan, ClearChan, Goto, TypeOK
<1>4. ObjectInv'
  <2>1. \A q \in Proc : Mine(q)' = None => pc'[q] \in Unbound
    BY <1>1, <1>2, <1>3, SessionAssumption DEF ObjectInv, Mine
  <2>2. \A g \in Handshake : obj[g] # None =>
          pc'[Handler(g)] \notin {"idle", "lookup", "create"}
    BY <1>3, ProcNames DEF ObjectInv
  <2> QED
    BY <1>2, <2>1, <2>2 DEF ObjectInv, Handler
<1>5. SpawnInv'
  BY <1>3, ProcNames DEF SpawnInv
<1>6. ChannelInv'
  <2>1. \A g \in Handshake : pc[Handler(g)] \in Started =>
          pc'[Handler(g)] = pc[Handler(g)]
    BY <1>3, ProcNames
  <2>2. \A s \in Handshake : closing'[s] \in {closing[s], None}
    BY <1>1 DEF CloseChan, ClearChan, TypeOK, fields
  <2>3. \A g \in chanClosed' : g \in chanClosed \/ (g # None /\ g = closing[Mine(p)])
    BY DEF CloseChan, ClearChan, net
  <2> QED
    BY <1>1, <1>2, <2>1, <2>2, <2>3 DEF ChannelInv, TypeOK, Handler
<1>7. ClosedChannelHasCloser'
  <2>1. \A q \in Proc : Mine(q)' = Mine(q)
    BY <1>2 DEF Mine
  <2>2. CASE ClearChan(p)
    <3>1. /\ closing'[Mine(p)] = None /\ chanClosed' = chanClosed
          /\ \A s \in Handshake : s # Mine(p) => closing'[s] = closing[s]
      BY <1>1, <2>2 DEF ClearChan, TypeOK, net
    <3> QED
      BY <1>3, <2>1, <3>1 DEF ClosedChannelHasCloser, Closed
  <2>3. CASE CloseChan(p) /\ chanClosed' = chanClosed
    <3>1. closing' = closing /\ pc[p] # "clearChan"
      BY <2>3 DEF CloseChan, fields
    <3> QED
      BY <1>3, <2>1, <2>3, <3>1 DEF ClosedChannelHasCloser, Closed
  <2>4. CASE CloseChan(p) /\ chanClosed' # chanClosed
    <3>1. /\ closing' = closing /\ pc[p] # "clearChan" /\ pc'[p] = "clearChan"
          /\ chanClosed' = chanClosed \cup {closing[Mine(p)]}
          /\ closing[Mine(p)] # None
      BY <2>4 DEF CloseChan, Goto, TypeOK, fields
    <3>2. \A s \in Handshake : closing[s] = closing[Mine(p)] => s = Mine(p)
      BY <1>1, <3>1 DEF ChannelInv
    <3> QED
      BY <1>3, <2>1, <3>1, <3>2 DEF ClosedChannelHasCloser, Closed
  <2> QED
    BY <2>2, <2>3, <2>4
<1> QED
  BY <1>4, <1>5, <1>6, <1>7

-----------------------------------------------------------------------------
\* SessionInv is inductive.
LEMMA InvInit == Init => SessionInv
<1> SUFFICES ASSUME Init PROVE SessionInv
  OBVIOUS
<1> USE SessionAssumption DEF Init, Started
<1>1. TypeOK
  <2>1. pc \in [Proc -> Label] /\ seen \in [Proc -> Handshake \cup {None}]
    BY DEF Label, HandlerLabel
  <2>2. 0 \in 0..QueueCap
    OBVIOUS
  <2>3. queued \in [Handshake -> 0..QueueCap]
    BY <2>2
  <2> QED
    BY <2>1, <2>3 DEF TypeOK
<1>2. ObjectInv
  BY DEF ObjectInv, Unbound
<1>3. SpawnInv
  BY ProcNames DEF SpawnInv
<1>4. ChannelInv /\ ClosedChannelHasCloser
  BY DEF ChannelInv, ClosedChannelHasCloser, Closed
<1> QED
  BY <1>1, <1>2, <1>3, <1>4 DEF SessionInv

LEMMA InvStep == SessionInv /\ [Next]_vars => SessionInv'
<1> SUFFICES ASSUME SessionInv, [Next]_vars PROVE SessionInv'
  OBVIOUS
<1>1. TypeOK'
  BY TypeStep DEF SessionInv
<1>2. CASE UNCHANGED vars
  BY <1>1, <1>2 DEF SessionInv, ObjectInv, SpawnInv, ChannelInv,
     ClosedChannelHasCloser, Closed, Mine, vars, fields, net, world
<1>3. CASE Next /\ \E h \in Handshake :
        Begin(h) \/ Lookup(h) \/ CreateSession(h) \/ NilManager(h)
  BY <1>1, <1>3, BindSteps DEF SessionInv
<1>4. CASE \E h \in Handshake : Arm(h) \/ Join(h)
  BY <1>1, <1>4, SpawnSteps DEF SessionInv
<1>5. CASE \E p \in Proc : CloseChan(p) \/ ClearChan(p)
  BY <1>1, <1>5, CloseSteps DEF SessionInv
<1>6. CASE Next /\ ~(\/ \E h \in Handshake :
                         \/ Begin(h) \/ Lookup(h) \/ CreateSession(h)
                         \/ NilManager(h) \/ Arm(h) \/ Join(h)
                     \/ \E p \in Proc : CloseChan(p) \/ ClearChan(p))
  <2>1. Quiet
    BY <1>6, QuietSteps
  <2> QED
    BY <1>1, <2>1, QuietKeeps DEF SessionInv
<1> QED
  BY <1>2, <1>3, <1>4, <1>5, <1>6

\* Every variable keeps its type.
THEOREM TypeCorrect == Spec => []TypeOK
<1>1. SessionInv => TypeOK
  BY DEF SessionInv
<1> QED
  BY <1>1, InvInit, InvStep, PTL DEF Spec

\* However Close is run by reader, heartbeat, handler, packet loop and shutdown at
\* once, a closed channel is in s.Closing only until its closer's next assignment.
THEOREM OneCloser == Spec => []ClosedChannelHasCloser
<1>1. SessionInv => ClosedChannelHasCloser
  BY DEF SessionInv
<1> QED
  BY <1>1, InvInit, InvStep, PTL DEF Spec

-----------------------------------------------------------------------------
\* Logins of one user, one after the other.

\* A user logs in from one address.
OneAddress == \A g, h \in Handshake : UserOf[g] = UserOf[h] => IPOf[g] = IPOf[h]

\* Where a handshake is between having a session and being in the world.
Joining == {"open", "activate", "arm", "join", "joinFailed"}

\* Handshakes of a user do not overlap, and work on a session of that user; a
\* handshake that closes a session has found another's.
TurnInv ==
  /\ \A g, h \in Handshake :
       UserOf[g] = UserOf[h] /\ InFlight(g) /\ InFlight(h) => g = h
  /\ \A h \in Handshake : obj[h] # None => UserOf[obj[h]] = UserOf[h]
  /\ \A u \in User : sessions[u] # None => UserOf[sessions[u]] = u
  /\ \A h \in Handshake :
       pc[Handler(h)] \in CloseLabel \cup {"rebind"} => obj[h] # h

\* A handshake replaces only a connection it has closed.
RebindInv ==
  \A h \in Handshake :
    /\ pc[Handler(h)] = "rebind" => conn[obj[h]] \in connClosed
    /\ pc[Handler(h)] \in Joining \ {"joinFailed"} => conn[obj[h]] = h

\* Who made a session has a player from the end of the handshake on.
PlayerInv ==
  \A s \in Handshake : obj[s] = s => s \in players \/ pc[Handler(s)] \in Joining

\* The handlers of all handshakes but h stay where they are.
OthersStay(h) ==
  \A g \in Handshake : g # h =>
    pc'[Handler(g)] = pc[Handler(g)] /\ obj'[g] = obj[g]

\* What the steps of readers, heartbeats, packet loops and Stop leave alone, and
\* those of the network.
Calm ==
  /\ \A g \in Handshake : pc'[Handler(g)] = pc[Handler(g)]
  /\ UNCHANGED <<obj, conn, joined, sessions, players, victim, janitor, todo>>
  /\ connClosed \subseteq connClosed'
  /\ \A s \in Handshake : lapsed'[s] => lapsed[s]

\* A step of the Close that h makes in Reconnect.
Closing(h) ==
  /\ pc[Handler(h)] \in CloseLabel
  /\ pc'[Handler(h)] \in CloseLabel \cup {"rebind", "joinFailed", "panicked"}
  /\ pc'[Handler(h)] = "rebind" => conn[obj[h]] \in connClosed'
  /\ OthersStay(h)
  /\ UNCHANGED <<obj, conn, joined, sessions, players, victim, janitor, todo>>
  /\ connClosed \subseteq connClosed'
  /\ \A s \in Handshake : lapsed'[s] => lapsed[s]

\* A step of h in Start, or its last one: the world's Connect or Reconnect.
Finishing(h) ==
  /\ pc[Handler(h)] \in Joining
  /\ pc'[Handler(h)] \in Joining \cup Ended
  /\ pc[Handler(h)] = "joinFailed" => pc'[Handler(h)] \in Ended \ {"served"}
  /\ pc'[Handler(h)] = "served" /\ obj[h] \in players' => h \in joined'
  /\ pc'[Handler(h)] \in Ended /\ obj[h] = h => h \in players'
  /\ players \subseteq players'
  /\ \A s \in players' : s \in players \/ (s = h /\ obj[h] = h)
  /\ joined \subseteq joined'
  /\ OthersStay(h)
  /\ UNCHANGED <<obj, conn, lapsed, sessions, victim, janitor, todo>>
  /\ connClosed \subseteq connClosed'

-----------------------------------------------------------------------------
LEMMA HandlersDiffer ==
  ASSUME NEW g \in Handshake, NEW h \in Handshake, g # h
  PROVE  Handler(g) # Handler(h)
BY ProcNames

\* A goroutine that is no handler moves, and the handlers do not.
LEMMA HandlersStay ==
  ASSUME TypeOK, NEW p \in Proc, p[1] # "handler", NEW l, Goto(p, l)
  PROVE  \A g \in Handshake : pc'[Handler(g)] = pc[Handler(g)]
BY ProcNames DEF TypeOK, Goto

LEMMA CloseStepCases ==
  ASSUME SessionInv, NEW p \in Proc, CloseStep(p)
  PROVE  /\ UNCHANGED <<obj, conn, joined, sessions, players, victim, janitor, todo>>
         /\ connClosed \subseteq connClosed'
         /\ \A s \in Handshake : lapsed'[s] => lapsed[s]
         /\ pc[p] \in CloseLabel
         /\ \E l : Goto(p, l)
         /\ p[1] = "handler" =>
              \E l \in CloseLabel \cup {"rebind", "joinFailed", "panicked"} :
                 /\ Goto(p, l)
                 /\ l = "rebind" => conn[Mine(p)] \in connClosed'
<1> USE DEF SessionInv, TypeOK
<1>1. CASE MarkInactive(p)
  BY <1>1 DEF MarkInactive, net, world, manager, CloseLabel
<1>2. CASE Stamp(p)
  BY <1>2 DEF Stamp, net, world, manager, CloseLabel
<1>3. CASE CheckClosing(p)
  BY <1>3 DEF CheckClosing, fields, net, world, manager, CloseLabel
<1>4. CASE CloseChan(p)
  BY <1>4 DEF CloseChan, fields, world, manager, CloseLabel
<1>5. CASE ClearChan(p)
  BY <1>5 DEF ClearChan, net, world, manager, CloseLabel
<1>6. CASE Teardown(p)
  BY <1>6 DEF Teardown, AfterClose, fields, world, manager, CloseLabel
<1> QED
  BY <1>1, <1>2, <1>3, <1>4, <1>5, <1>6 DEF CloseStep

LEMMA ClosingSteps ==
  ASSUME SessionInv, NEW p \in Proc, CloseStep(p)
  PROVE  Calm \/ \E h \in Handshake : Closing(h)
<1>1. CASE p[1] # "handler"
  <2>1. PICK l : Goto(p, l)
    BY CloseStepCases
  <2>2. \A g \in Handshake : pc'[Handler(g)] = pc[Handler(g)]
    BY <1>1, <2>1, HandlersStay DEF SessionInv
  <2> QED
    BY <2>2, CloseStepCases DEF Calm
<1>2. CASE p[1] = "handler"
  <2>1. PICK h \in Handshake : p = Handler(h)
    BY <1>2 DEF Proc, Kind, Handler
  <2>2. PICK l \in CloseLabel \cup {"rebind", "joinFailed", "panicked"} :
          Goto(p, l) /\ (l = "rebind" => conn[Mine(p)] \in connClosed')
    BY <1>2, CloseStepCases
  <2>3. pc'[Handler(h)] = l /\ Mine(p) = obj[h]
    BY <2>1, <2>2, ProcNames DEF Goto, SessionInv, TypeOK, Mine
  <2>4. OthersStay(h)
    BY <2>1, <2>2, ProcNames, HandlersDiffer, CloseStepCases
    DEF OthersStay, Goto, SessionInv, TypeOK
  <2> QED
    BY <2>1, <2>2, <2>3, <2>4, CloseStepCases DEF Closing
<1> QED
  BY <1>1, <1>2

LEMMA FinishingSteps ==
  ASSUME SessionInv, NEW h \in Handshake,
         OpenStream(h) \/ Activate(h) \/ Arm(h) \/ Join(h)
  PROVE  Finishing(h)
<1> USE ProcNames, HandlersDiffer DEF SessionInv, TypeOK, OthersStay
<1>1. CASE OpenStream(h)
  BY <1>1 DEF OpenStream, Goto, Finishing, Joining, Ended, fields, world, manager
<1>2. CASE Activate(h)
  BY <1>2 DEF Activate, Goto, Finishing, Joining, Ended, net, world, manager
<1>3. CASE Arm(h)
  BY <1>3 DEF Arm, Finishing, Joining, Ended, world, manager
<1>4. CASE Join(h)
  <2>1. /\ pc[Handler(h)] \in {"join", "joinFailed"}
        /\ players' = IF obj[h] = h THEN players \cup {h} ELSE players
        /\ UNCHANGED <<obj, conn, lapsed, sessions, victim, janitor, todo, connClosed>>
    BY <1>4 DEF Join, fields, net, manager
  <2>2. \E l \in Ended :
          /\ \/ pc' = [pc EXCEPT ![Handler(h)] = l]
             \/ pc' = [pc EXCEPT ![Handler(h)] = l, ![Run(h)] = "start"]
          /\ l = "served" => pc[Handler(h)] = "join"
          /\ l = "served" /\ obj[h] \in players' => h \in joined'
          /\ joined \subseteq joined'
    BY <1>4 DEF Join, Goto, Ended
  <2>3. OthersStay(h)
    BY <2>1, <2>2
  <2>4. /\ pc'[Handler(h)] \in Ended
        /\ pc'[Handler(h)] = "served" => pc[Handler(h)] = "join"
        /\ pc'[Handler(h)] = "served" /\ obj[h] \in players' => h \in joined'
    BY <2>2
  <2> QED
    BY <2>1, <2>2, <2>3, <2>4 DEF Finishing, Joining, Ended
<1> QED
  BY <1>1, <1>2, <1>3, <1>4

\* The steps of the goroutines that a handshake spawned.
LEMMA SpawnedSteps ==
  ASSUME SessionInv, NEW h \in Handshake,
         ReaderStep(h) \/ BeatStep(h) \/ RunStep(h)
  PROVE  Calm
<1>1. /\ UNCHANGED <<obj, conn, joined, sessions, players, victim, janitor, todo>>
      /\ UNCHANGED <<connClosed, lapsed>>
  BY DEF ReaderStep, ReaderStart, ReadPacket, ReadCancelled, ReadFails, PushPacket,
     BeatStep, EnterSelect, SeeClosing, BeatTick, BeatSend,
     RunStep, RunStart, RunTake, RunHandle, fields, net, world, manager
<1>2. \E p \in {Reader(h), Beat(h), Run(h)} : \E l : Goto(p, l)
  BY DEF ReaderStep, ReaderStart, ReadPacket, ReadCancelled, ReadFails, PushPacket,
     BeatStep, EnterSelect, SeeClosing, BeatTick, BeatSend,
     RunStep, RunStart, RunTake, RunHandle
<1>3. \A g \in Handshake : pc'[Handler(g)] = pc[Handler(g)]
  BY <1>2, ProcNames, HandlersStay DEF SessionInv
<1> QED
  BY <1>1, <1>3 DEF Calm

LEMMA ShutdownSteps ==
  ASSUME SessionInv, Shutdown
  PROVE  Calm
<1>1. /\ UNCHANGED <<obj, conn, joined, sessions, players, victim, janitor, todo>>
      /\ UNCHANGED <<connClosed, lapsed>>
  BY DEF Shutdown, BeginShutdown, ShutdownSession, EndShutdown, DropServer,
     fields, net, world, manager
<1>2. \A g \in Handshake : pc'[Handler(g)] = pc[Handler(g)]
  <2>1. CASE \E s \in Handshake : ShutdownSession(s)
    <3>1. PICK s \in Handshake : ShutdownSession(s)
      BY <2>1
    <3>2. Stop(s) \in Proc /\ Stop(s)[1] = "stop" /\ Goto(Stop(s), "markInactive")
      BY <3>1, ProcNames DEF ShutdownSession, Stop
    <3> QED
      BY <3>2, HandlersStay DEF SessionInv
  <2> QED
    BY <2>1 DEF Shutdown, BeginShutdown, EndShutdown, DropServer
<1> QED
  BY <1>1, <1>2 DEF Calm

\* Every step is one of these, as far as logins and the registry are concerned.
LEMMA StepCases ==
  ASSUME SessionInv, [Next]_vars
  PROVE  \/ Calm
         \/ Janitor
         \/ \E h \in Handshake :
              \/ Begin(h) \/ Lookup(h) \/ CreateSession(h) \/ NilManager(h)
              \/ Rebind(h) \/ Closing(h) \/ Finishing(h) \/ Lapse(h)
<1>1. CASE UNCHANGED vars
  BY <1>1 DEF Calm, vars, fields, net, world, manager
<1>2. ASSUME NEW h \in Handshake, Lose(h) PROVE Calm
  BY <1>2 DEF Calm, Lose, fields, world, manager
<1> QED
  BY <1>1, <1>2, ClosingSteps, FinishingSteps, SpawnedSteps, ShutdownSteps
  DEF Next, HandshakeStep

-----------------------------------------------------------------------------
\* A handshake in flight is the only one of its user, so nobody else's step is about
\* its session.

LEMMA InFlightLabels ==
  ASSUME NEW h \in Handshake
  PROVE  /\ pc[Handler(h)] \in CloseLabel \cup Joining \cup {"lookup", "create", "rebind"}
              => InFlight(h)
         /\ pc[Handler(h)] \in Ended \cup {"idle"} => ~InFlight(h)
BY DEF InFlight, Ended, CloseLabel, Joining

\* A handshake that has looked for a session works on one.
LEMMA Working ==
  ASSUME SessionInv, NEW h \in Handshake, pc[Handler(h)] \notin Unbound
  PROVE  obj[h] \in Handshake
BY ProcNames, Bound DEF SessionInv, Mine

LEMMA TurnStep ==
  ASSUME Sequential, SessionInv, TurnInv, [Next]_vars
  PROVE  TurnInv'
<1> USE ProcNames, HandlersDiffer, SessionAssumption DEF SessionInv, TypeOK
<1>1. ASSUME NEW h \in Handshake, OthersStay(h),
             pc'[Handler(h)] \notin Ended \cup {"idle"} => InFlight(h),
             obj'[h] # None => UserOf[obj'[h]] = UserOf[h],
             pc'[Handler(h)] \in CloseLabel \cup {"rebind"} => obj'[h] # h,
             \A u \in User : sessions'[u] # None => UserOf[sessions'[u]] = u
      PROVE  TurnInv'
  <2>1. \A g \in Handshake : InFlight(g)' => InFlight(g)
    BY <1>1 DEF OthersStay, InFlight, Handler
  <2>2. \A g \in Handshake : obj'[g] # None => UserOf[obj'[g]] = UserOf[g]
    BY <1>1 DEF OthersStay, TurnInv
  <2>3. \A g \in Handshake :
          pc'[Handler(g)] \in CloseLabel \cup {"rebind"} => obj'[g] # g
    BY <1>1 DEF OthersStay, TurnInv
  <2> QED
    BY <1>1, <2>1, <2>2, <2>3 DEF TurnInv, Handler
<1>2. CASE Calm
  BY <1>2 DEF Calm, TurnInv, InFlight
<1>3. CASE Janitor
  <2>1. /\ UNCHANGED <<pc, obj>>
        /\ \A u \in User : sessions'[u] \in {sessions[u], None}
    BY <1>3 DEF Janitor, Tick, BeginPrune, CheckIdle, Evict, EndPrune, world, manager
  <2> QED
    BY <2>1 DEF TurnInv, InFlight
<1>4. ASSUME NEW h \in Handshake, Begin(h) PROVE TurnInv'
  <2>1. /\ UNCHANGED <<obj, sessions>>
        /\ \A g \in Handshake : UserOf[g] = UserOf[h] => ~InFlight(g)
        /\ pc'[Handler(h)] \in {"lookup", "refused"}
        /\ \A g \in Handshake : g # h => pc'[Handler(g)] = pc[Handler(g)]
    BY <1>4 DEF Begin, Goto, world
  <2>2. pc'[Handler(h)] \notin CloseLabel \cup {"rebind"}
    BY <2>1 DEF CloseLabel
  <2> QED
    BY <2>1, <2>2, SMTT(30) DEF TurnInv, InFlight, Handler
<1>5. ASSUME NEW h \in Handshake, Lookup(h) PROVE TurnInv'
  <2>1. /\ pc[Handler(h)] = "lookup" /\ obj[h] = None
        /\ UNCHANGED sessions /\ OthersStay(h)
        /\ \/ obj'[h] = obj[h] /\ pc'[Handler(h)] = "create"
           \/ obj'[h] = sessions[UserOf[h]] /\ sessions[UserOf[h]] # None
    BY <1>5 DEF Lookup, Goto, OthersStay, ObjectInv, Valid, world
  <2>2. sessions[UserOf[h]] # None => sessions[UserOf[h]] # h
    BY <2>1 DEF ObjectInv
  <2>3. InFlight(h) /\ "create" \notin CloseLabel \cup {"rebind"}
    BY <2>1, InFlightLabels DEF CloseLabel
  <2> QED
    BY <1>1, <2>1, <2>2, <2>3 DEF TurnInv
<1>6. ASSUME NEW h \in Handshake, CreateSession(h) PROVE TurnInv'
  <2>1. /\ pc[Handler(h)] = "create" /\ pc'[Handler(h)] = "open" /\ obj'[h] = h
        /\ OthersStay(h)
        /\ \A u \in User : sessions'[u] # None => UserOf[sessions'[u]] = u
    BY <1>6 DEF CreateSession, Goto, OthersStay, TurnInv
  <2>2. InFlight(h) /\ "open" \notin CloseLabel \cup {"rebind"}
    BY <2>1, InFlightLabels DEF CloseLabel
  <2> QED
    BY <1>1, <2>1, <2>2
<1>7. ASSUME NEW h \in Handshake, NilManager(h) PROVE TurnInv'
  <2>1. /\ pc'[Handler(h)] = "panicked" /\ OthersStay(h) /\ UNCHANGED <<obj, sessions>>
    BY <1>7 DEF NilManager, Goto, OthersStay, world
  <2>2. "panicked" \in Ended /\ "panicked" \notin CloseLabel \cup {"rebind"}
    BY DEF CloseLabel, Ended
  <2> QED
    BY <1>1, <2>1, <2>2, SMTT(30) DEF TurnInv
<1>8. ASSUME NEW h \in Handshake, Rebind(h) PROVE TurnInv'
  <2>1. /\ pc[Handler(h)] = "rebind" /\ pc'[Handler(h)] = "open"
        /\ OthersStay(h) /\ UNCHANGED <<obj, sessions>>
    BY <1>8 DEF Rebind, Goto, OthersStay, world
  <2>2. InFlight(h) /\ "open" \notin CloseLabel \cup {"rebind"}
    BY <2>1, InFlightLabels DEF CloseLabel
  <2> QED
    BY <1>1, <2>1, <2>2 DEF TurnInv
<1>9. ASSUME NEW h \in Handshake, Closing(h) PROVE TurnInv'
  <2>1. InFlight(h) /\ obj[h] # h
    BY <1>9, InFlightLabels DEF Closing, TurnInv
  <2> QED
    BY <1>1, <1>9, <2>1 DEF Closing, TurnInv
<1>10. ASSUME NEW h \in Handshake, Finishing(h) PROVE TurnInv'
  <2>1. InFlight(h) /\ pc'[Handler(h)] \notin CloseLabel \cup {"rebind"}
    BY <1>10, InFlightLabels DEF Finishing, Joining, Ended, CloseLabel
  <2> QED
    BY <1>1, <1>10, <2>1 DEF Finishing, TurnInv
<1>11. ASSUME NEW h \in Handshake, Lapse(h) PROVE TurnInv'
  BY <1>11 DEF Lapse, TurnInv, InFlight, world
<1> QED
  BY <1>2, <1>3, <1>4, <1>5, <1>6, <1>7, <1>8, <1>9, <1>10, <1>11, StepCases

\* While h works on a session nobody else does.
LEMMA Alone ==
  ASSUME TurnInv, SessionInv,
         NEW g \in Handshake, NEW h \in Handshake, g # h,
         obj[g] = obj[h], obj[h] # None, InFlight(h)
  PROVE  ~InFlight(g)
BY DEF TurnInv

\* The session a handshake creates is nobody's yet.
LEMMA FreshSession ==
  ASSUME SessionInv, NEW h \in Handshake, CreateSession(h)
  PROVE  \A g \in Handshake : obj[g] # h
BY ProcNames, SessionAssumption DEF SessionInv, ObjectInv, TypeOK, CreateSession

LEMMA RebindStep ==
  ASSUME Sequential, SessionInv, TurnInv, RebindInv, [Next]_vars
  PROVE  RebindInv'
<1> USE ProcNames, HandlersDiffer, SessionAssumption DEF SessionInv, TypeOK
<1>0. "create" \notin Joining /\ "rebind" \notin Joining
  BY DEF Joining
<1>1. ASSUME NEW h \in Handshake, OthersStay(h), conn' = conn,
             connClosed \subseteq connClosed', obj'[h] = obj[h],
             pc'[Handler(h)] = "rebind" => conn[obj[h]] \in connClosed',
             pc'[Handler(h)] \in Joining \ {"joinFailed"} => conn[obj[h]] = h
      PROVE  RebindInv'
  <2>1. \A g \in Handshake :
          /\ pc'[Handler(g)] = "rebind" => conn[obj'[g]] \in connClosed'
          /\ pc'[Handler(g)] \in Joining \ {"joinFailed"} => conn[obj'[g]] = g
    BY <1>1 DEF RebindInv, OthersStay
  <2> QED
    BY <1>1, <2>1 DEF RebindInv, Handler
<1>2. CASE Calm
  BY <1>2 DEF Calm, RebindInv
<1>3. CASE Janitor
  <2>1. UNCHANGED <<pc, obj, conn, connClosed>>
    BY <1>3 DEF Janitor, Tick, BeginPrune, CheckIdle, Evict, EndPrune, fields, net
  <2> QED
    BY <2>1 DEF RebindInv
<1>4. ASSUME NEW h \in Handshake, Begin(h) PROVE RebindInv'
  <2>1. /\ OthersStay(h) /\ UNCHANGED <<obj, conn, connClosed>>
        /\ pc'[Handler(h)] \in {"lookup", "refused"}
    BY <1>4 DEF Begin, Goto, OthersStay, fields, net
  <2>2. pc'[Handler(h)] \notin Joining \cup {"rebind"}
    BY <2>1 DEF Joining
  <2> QED
    BY <1>1, <2>1, <2>2
<1>5. ASSUME NEW h \in Handshake, Lookup(h) PROVE RebindInv'
  <2>1. /\ OthersStay(h) /\ UNCHANGED <<conn, connClosed>>
        /\ pc'[Handler(h)] \in {"markInactive", "create"}
    BY <1>5 DEF Lookup, Goto, OthersStay, fields, net
  <2>2. pc'[Handler(h)] \notin Joining \cup {"rebind"}
    BY <2>1 DEF Joining
  <2> QED
    BY <2>1, <2>2 DEF RebindInv, OthersStay
<1>6. ASSUME NEW h \in Handshake, CreateSession(h) PROVE RebindInv'
  <2>1. /\ OthersStay(h) /\ UNCHANGED connClosed /\ pc'[Handler(h)] = "open"
        /\ obj'[h] = h /\ conn'[h] = h
        /\ \A s \in Handshake : s # h => conn'[s] = conn[s]
    BY <1>6 DEF CreateSession, Goto, OthersStay, net
  <2>2. \A g \in Handshake : obj[g] # h
    BY <1>6, FreshSession
  <2>3. ASSUME NEW g \in Handshake, g # h,
               pc[Handler(g)] \in {"rebind"} \cup Joining
        PROVE  conn'[obj'[g]] = conn[obj[g]]
    <3>1. obj[g] \in Handshake
      BY <2>3, Working DEF Joining, Unbound
    <3> QED
      BY <2>1, <2>2, <2>3, <3>1 DEF OthersStay
  <2>4. \A g \in Handshake :
          /\ pc'[Handler(g)] = "rebind" => conn'[obj'[g]] \in connClosed'
          /\ pc'[Handler(g)] \in Joining \ {"joinFailed"} => conn'[obj'[g]] = g
    BY <2>1, <2>3 DEF RebindInv, OthersStay
  <2> QED
    BY <2>4 DEF RebindInv, Handler
<1>7. ASSUME NEW h \in Handshake, NilManager(h) PROVE RebindInv'
  BY <1>1, <1>7 DEF NilManager, Goto, OthersStay, fields, net, Joining
<1>8. ASSUME NEW h \in Handshake, Rebind(h) PROVE RebindInv'
  <2>1. /\ OthersStay(h) /\ UNCHANGED <<obj, connClosed>>
        /\ pc[Handler(h)] = "rebind" /\ pc'[Handler(h)] = "open"
        /\ obj[h] \in Handshake /\ obj[h] # None
    <3>1. pc[Handler(h)] = "rebind" /\ obj[h] \in Handshake
      BY <1>8, Working DEF Rebind, Unbound
    <3> QED
      BY <1>8, <3>1 DEF Rebind, Goto, OthersStay, net
  <2>2. /\ conn'[obj[h]] = h
        /\ \A s \in Handshake : s # obj[h] => conn'[s] = conn[s]
    BY <1>8, <2>1 DEF Rebind
  <2>3. ASSUME NEW g \in Handshake, g # h,
               pc[Handler(g)] \in {"rebind"} \cup Joining
        PROVE  conn'[obj'[g]] = conn[obj[g]]
    <3>1. InFlight(g) /\ InFlight(h)
      BY <2>1, <2>3, InFlightLabels
    <3>2. obj[g] # obj[h]
      BY <2>1, <2>3, <3>1, Alone
    <3>3. obj[g] \in Handshake
      BY <2>3, Working DEF Joining, Unbound
    <3> QED
      BY <2>1, <2>2, <3>2, <3>3
  <2>4. \A g \in Handshake :
          /\ pc'[Handler(g)] = "rebind" => conn'[obj'[g]] \in connClosed'
          /\ pc'[Handler(g)] \in Joining \ {"joinFailed"} => conn'[obj'[g]] = g
    BY <2>1, <2>2, <2>3, SMTT(30) DEF RebindInv, OthersStay
  <2> QED
    BY <2>4 DEF RebindInv, Handler
<1>9. ASSUME NEW h \in Handshake, Closing(h) PROVE RebindInv'
  <2>1. pc'[Handler(h)] \notin Joining \ {"joinFailed"}
    BY <1>9 DEF Closing, Joining, CloseLabel
  <2> QED
    BY <1>1, <1>9, <2>1 DEF Closing
<1>10. ASSUME NEW h \in Handshake, Finishing(h) PROVE RebindInv'
  <2>1. /\ pc'[Handler(h)] # "rebind"
        /\ pc'[Handler(h)] \in Joining => pc[Handler(h)] \in Joining \ {"joinFailed"}
    BY <1>10 DEF Finishing, Joining, Ended
  <2> QED
    BY <1>1, <1>10, <2>1 DEF Finishing, RebindInv
<1>11. ASSUME NEW h \in Handshake, Lapse(h) PROVE RebindInv'
  BY <1>11 DEF Lapse, RebindInv, net
<1> QED
  BY <1>2, <1>3, <1>4, <1>5, <1>6, <1>7, <1>8, <1>9, <1>10, <1>11, StepCases

\* A served handshake lost its session's connection to one that had closed it.
LEMMA SupersedeStep ==
  ASSUME SessionInv, TurnInv, RebindInv, SupersededIsClosed, [Next]_vars
  PROVE  SupersededIsClosed'
<1> USE ProcNames, HandlersDiffer, SessionAssumption DEF SessionInv, TypeOK
<1>1. ASSUME NEW h \in Handshake, OthersStay(h), conn' = conn,
             connClosed \subseteq connClosed', obj'[h] = obj[h],
             pc'[Handler(h)] = "served" => conn[obj[h]] = h \/ h \in connClosed
      PROVE  SupersededIsClosed'
  BY <1>1 DEF SupersededIsClosed, OthersStay
<1>2. CASE Calm
  BY <1>2 DEF Calm, SupersededIsClosed
<1>3. CASE Janitor
  <2>1. UNCHANGED <<pc, obj, conn, connClosed>>
    BY <1>3 DEF Janitor, Tick, BeginPrune, CheckIdle, Evict, EndPrune, fields, net
  <2> QED
    BY <2>1 DEF SupersededIsClosed
<1>4. ASSUME NEW h \in Handshake, Begin(h) PROVE SupersededIsClosed'
  BY <1>1, <1>4 DEF Begin, Goto, OthersStay, fields, net
<1>5. ASSUME NEW h \in Handshake, Lookup(h) PROVE SupersededIsClosed'
  <2>1. /\ OthersStay(h) /\ UNCHANGED <<conn, connClosed>>
        /\ pc'[Handler(h)] \in {"markInactive", "create"}
    BY <1>5 DEF Lookup, Goto, OthersStay, fields, net
  <2> QED
    BY <2>1 DEF SupersededIsClosed, OthersStay, Handler
<1>6. ASSUME NEW h \in Handshake, NEW s \in Handshake, pc'[Handler(h)] = "open",
             OthersStay(h), connClosed' = connClosed,
             conn' = [conn EXCEPT ![s] = h],
             \A g \in Handshake : g # h /\ obj[g] = s => conn[s] \in connClosed
      PROVE  SupersededIsClosed'
  <2>1. ASSUME NEW g \in Handshake, pc'[Handler(g)] = "served", conn'[obj'[g]] # g
        PROVE  g \in connClosed'
    <3>1. g # h /\ pc[Handler(g)] = "served" /\ obj'[g] = obj[g]
      BY <1>6, <2>1 DEF OthersStay
    <3>2. obj[g] \in Handshake
      BY <3>1, Working DEF Unbound
    <3>3. CASE conn[obj[g]] # g
      BY <1>6, <3>1, <3>3 DEF SupersededIsClosed
    <3>4. CASE conn[obj[g]] = g
      BY <1>6, <2>1, <3>1, <3>2, <3>4
    <3> QED
      BY <3>3, <3>4
  <2> QED
    BY <2>1 DEF SupersededIsClosed
<1>7. ASSUME NEW h \in Handshake, CreateSession(h) PROVE SupersededIsClosed'
  <2>1. /\ OthersStay(h) /\ UNCHANGED connClosed /\ pc'[Handler(h)] = "open"
        /\ conn' = [conn EXCEPT ![h] = h]
    BY <1>7 DEF CreateSession, Goto, OthersStay, net
  <2>2. \A g \in Handshake : g # h /\ obj[g] = h => conn[h] \in connClosed
    BY <1>7, FreshSession
  <2> QED
    BY <1>6, <2>1, <2>2, ZenonT(30)
<1>8. ASSUME NEW h \in Handshake, NilManager(h) PROVE SupersededIsClosed'
  BY <1>1, <1>8 DEF NilManager, Goto, OthersStay, fields, net
<1>9. ASSUME NEW h \in Handshake, Rebind(h) PROVE SupersededIsClosed'
  <2>1. pc[Handler(h)] = "rebind" /\ obj[h] \in Handshake
    BY <1>9, Working DEF Rebind, Unbound
  <2>2. conn[obj[h]] \in connClosed
    BY <2>1 DEF RebindInv
  <2>3. /\ OthersStay(h) /\ UNCHANGED connClosed /\ pc'[Handler(h)] = "open"
        /\ conn' = [conn EXCEPT ![obj[h]] = h]
    BY <1>9 DEF Rebind, Goto, OthersStay, net
  <2> QED
    BY <1>6, <2>1, <2>2, <2>3
<1>10. ASSUME NEW h \in Handshake, Closing(h) PROVE SupersededIsClosed'
  <2>1. pc'[Handler(h)] # "served"
    BY <1>10 DEF Closing, CloseLabel
  <2> QED
    BY <1>1, <1>10, <2>1 DEF Closing
<1>11. ASSUME NEW h \in Handshake, Finishing(h) PROVE SupersededIsClosed'
  <2>1. pc'[Handler(h)] = "served" => pc[Handler(h)] \in Joining \ {"joinFailed"}
    BY <1>11 DEF Finishing, Joining
  <2> QED
    BY <1>1, <1>11, <2>1 DEF Finishing, RebindInv
<1>12. ASSUME NEW h \in Handshake, Lapse(h) PROVE SupersededIsClosed'
  BY <1>12 DEF Lapse, SupersededIsClosed, net
<1> QED
  BY <1>2, <1>3, <1>4, <1>5, <1>7, <1>8, <1>9, <1>10, <1>11, <1>12, StepCases

LEMMA TurnInit == Init => TurnInv /\ RebindInv /\ SupersededIsClosed
<1> SUFFICES ASSUME Init PROVE TurnInv /\ RebindInv /\ SupersededIsClosed
  OBVIOUS
<1>1. /\ \A h \in Handshake : pc[Handler(h)] = "idle" /\ obj[h] = None
      /\ \A u \in User : sessions[u] = None
  BY ProcNames DEF Init
<1>2. "idle" \notin CloseLabel \cup {"rebind", "served"} \cup Joining
  BY DEF CloseLabel, Joining
<1>3. \A h \in Handshake : ~InFlight(h)
  BY <1>1, InFlightLabels
<1> QED
  BY <1>1, <1>2, <1>3 DEF TurnInv, RebindInv, SupersededIsClosed

\* A user's connection that a later login replaced has been closed, whatever the
\* readers, heartbeats, packet loops, janitor and Stop do meanwhile, as long as the
\* user's logins do not overlap.
THEOREM SupersededClosed ==
  ASSUME Sequential PROVE Spec => []SupersededIsClosed
<1> DEFINE I == SessionInv /\ TurnInv /\ RebindInv /\ SupersededIsClosed
<1>1. Init => I
  BY InvInit, TurnInit
<1>2. I /\ [Next]_vars => I'
  BY InvStep, TurnStep, RebindStep, SupersedeStep, Sequential
<1>3. I => SupersededIsClosed
  OBVIOUS
<1> QED
  BY <1>1, <1>2, <1>3, PTL DEF Spec

-----------------------------------------------------------------------------
\* The sessions of the manager and the players of the world.

\* Without a janitor nobody leaves the world.
NoPruneInv == PlayerInv /\ janitor = "select" /\ victim = None

LEMMA PlayerStep ==
  ASSUME "prune" \notin Events, SessionInv, TurnInv, NoPruneInv, [Next]_vars
  PROVE  NoPruneInv' /\ (JoinSendsPlayers => JoinSendsPlayers')
<1> USE ProcNames, HandlersDiffer, SessionAssumption DEF SessionInv, TypeOK
<1>0. "served" \notin Joining
  BY DEF Joining
<1>1. ASSUME NEW h \in Handshake, OthersStay(h), UNCHANGED <<janitor, victim>>,
             players \subseteq players', joined \subseteq joined',
             obj'[h] = h => h \in players' \/ pc'[Handler(h)] \in Joining,
             pc'[Handler(h)] = "served" => h \in joined'
      PROVE  NoPruneInv' /\ (JoinSendsPlayers => JoinSendsPlayers')
  <2>1. \A s \in Handshake : obj'[s] = s => s \in players' \/ pc'[Handler(s)] \in Joining
    BY <1>1 DEF NoPruneInv, PlayerInv, OthersStay
  <2>2. JoinSendsPlayers => JoinSendsPlayers'
    BY <1>1 DEF JoinSendsPlayers, OthersStay, Handler
  <2> QED
    BY <1>1, <2>1, <2>2 DEF NoPruneInv, PlayerInv, Handler
<1>2. CASE Calm
  BY <1>2 DEF Calm, NoPruneInv, PlayerInv, JoinSendsPlayers, Handler
<1>3. ~Janitor
  BY DEF NoPruneInv, Janitor, Tick, BeginPrune, CheckIdle, Evict, EndPrune
<1>4. ASSUME NEW h \in Handshake, Begin(h) \/ NilManager(h)
      PROVE  NoPruneInv' /\ (JoinSendsPlayers => JoinSendsPlayers')
  <2>1. /\ OthersStay(h) /\ UNCHANGED <<obj, players, joined, janitor, victim>>
        /\ pc[Handler(h)] \in {"idle", "lookup", "create"}
        /\ pc'[Handler(h)] # "served"
    BY <1>4 DEF Begin, NilManager, Goto, OthersStay, world, manager
  <2>2. obj[h] = None
    BY <2>1 DEF ObjectInv
  <2> QED
    BY <1>1, <2>1, <2>2
<1>5. ASSUME NEW h \in Handshake, Lookup(h)
      PROVE  NoPruneInv' /\ (JoinSendsPlayers => JoinSendsPlayers')
  <2>1. /\ OthersStay(h) /\ UNCHANGED <<players, joined, janitor, victim>>
        /\ pc[Handler(h)] = "lookup" /\ pc'[Handler(h)] # "served"
        /\ obj'[h] \in {obj[h], sessions[UserOf[h]]}
    BY <1>5 DEF Lookup, Goto, OthersStay, world, manager
  <2>2. obj[h] = None /\ sessions[UserOf[h]] # h
    BY <2>1 DEF ObjectInv
  <2> QED
    BY <1>1, <2>1, <2>2
<1>6. ASSUME NEW h \in Handshake, CreateSession(h)
      PROVE  NoPruneInv' /\ (JoinSendsPlayers => JoinSendsPlayers')
  <2>1. /\ OthersStay(h) /\ UNCHANGED <<players, joined, janitor, victim>>
        /\ pc'[Handler(h)] = "open"
    BY <1>6 DEF CreateSession, Goto, OthersStay, manager
  <2>2. "open" \in Joining
    BY DEF Joining
  <2> QED
    BY <1>1, <2>1, <2>2
<1>7. ASSUME NEW h \in Handshake, Rebind(h)
      PROVE  NoPruneInv' /\ (JoinSendsPlayers => JoinSendsPlayers')
  <2>1. /\ OthersStay(h) /\ UNCHANGED <<obj, players, joined, janitor, victim>>
        /\ pc[Handler(h)] = "rebind" /\ pc'[Handler(h)] # "served"
    BY <1>7 DEF Rebind, Goto, OthersStay, world, manager
  <2>2. obj[h] # h
    BY <2>1 DEF TurnInv
  <2> QED
    BY <1>1, <2>1, <2>2
<1>8. ASSUME NEW h \in Handshake, Closing(h)
      PROVE  NoPruneInv' /\ (JoinSendsPlayers => JoinSendsPlayers')
  <2>1. obj[h] # h /\ pc'[Handler(h)] # "served"
    BY <1>8 DEF Closing, TurnInv, CloseLabel
  <2> QED
    BY <1>1, <1>8, <2>1 DEF Closing
<1>9. ASSUME NEW h \in Handshake, Finishing(h)
      PROVE  NoPruneInv' /\ (JoinSendsPlayers => JoinSendsPlayers')
  <2>1. pc[Handler(h)] \in Joining /\ pc[Handler(h)] \notin Unbound /\ InFlight(h)
    BY <1>9, InFlightLabels DEF Finishing, Joining, Unbound
  <2>2. obj[h] \in Handshake /\ obj[h] # None
    BY <2>1, Working
  <2>3. obj[h] # h => obj[h] \in players
    <3>1. SUFFICES ASSUME obj[h] # h PROVE obj[h] \in players
      OBVIOUS
    <3>2. obj[obj[h]] = obj[h]
      BY <2>2 DEF ObjectInv
    <3>3. ~InFlight(obj[h])
      BY <2>1, <2>2, <3>1, <3>2, Alone
    <3> QED
      BY <2>2, <3>2, <3>3, InFlightLabels DEF NoPruneInv, PlayerInv
  <2>4. /\ OthersStay(h) /\ UNCHANGED <<obj, janitor, victim>>
        /\ players \subseteq players' /\ joined \subseteq joined'
        /\ pc'[Handler(h)] \in Joining \cup Ended
        /\ pc'[Handler(h)] \in Ended /\ obj[h] = h => h \in players'
        /\ pc'[Handler(h)] = "served" /\ obj[h] \in players' => h \in joined'
    BY <1>9 DEF Finishing
  <2>5. pc'[Handler(h)] = "served" => h \in joined'
    <3>1. "served" \in Ended
      BY DEF Ended
    <3> QED
      BY <2>3, <2>4, <3>1
  <2> QED
    BY <1>1, <2>4, <2>5
<1>10. ASSUME NEW h \in Handshake, Lapse(h)
       PROVE  NoPruneInv' /\ (JoinSendsPlayers => JoinSendsPlayers')
  BY <1>10 DEF Lapse
<1> QED
  BY <1>2, <1>3, <1>4, <1>5, <1>6, <1>7, <1>8, <1>9, <1>10, StepCases

\* Where no janitor runs and a user's logins do not overlap, a login that ends well has
\* sent its client the players, be its session a new or a found one.
THEOREM JoinersAreTold ==
  ASSUME Sequential, "prune" \notin Events
  PROVE  Spec => []JoinSendsPlayers
<1> DEFINE I == SessionInv /\ TurnInv /\ NoPruneInv /\ JoinSendsPlayers
<1>1. Init => I
  <2>1. ASSUME Init PROVE NoPruneInv /\ JoinSendsPlayers
    BY <2>1, ProcNames, SessionAssumption
    DEF Init, NoPruneInv, PlayerInv, JoinSendsPlayers
  <2> QED
    BY <2>1, InvInit, TurnInit
<1>2. I /\ [Next]_vars => I'
  BY InvStep, TurnStep, PlayerStep, Sequential
<1>3. I => JoinSendsPlayers
  OBVIOUS
<1> QED
  BY <1>1, <1>2, <1>3, PTL DEF Spec

\* Whom the manager creates a session for has none.  Who is not in the world yet is
\* not idle long enough to be evicted.  pruneInactive looks at sessions that the
\* manager has, and it has them until it removes them.
RegistryInv ==
  /\ \A h \in Handshake : pc[Handler(h)] = "create" => sessions[UserOf[h]] = None
  /\ \A s \in Handshake : obj[s] = s /\ pc[Handler(s)] \in Joining =>
       ~lapsed[s] /\ sessions[UserOf[s]] = s
  /\ \A s \in Registered : s \in players \/ pc[Handler(s)] \in Joining
  /\ players \subseteq Registered
  /\ janitor # "prune" => victim = None
  /\ janitor = "prune" => todo \subseteq Registered \ {victim}
  /\ victim # None => victim \in Registered /\ pc[Handler(victim)] \notin Joining

\* A panic in the middle of an eviction leaves the two maps apart.
AliveRegistryInv == ~crashed => RegistryInv

LEMMA RegisteredSessions ==
  ASSUME SessionInv, TurnInv, NEW s \in Registered
  PROVE  /\ s \in Handshake /\ obj[s] = s /\ sessions[UserOf[s]] = s
         /\ UserOf[s] \in User
BY SessionAssumption DEF SessionInv, TypeOK, Registered, TurnInv, ObjectInv

\* A step of h that leaves the maps and the janitor alone.
LEMMA RegistryKept ==
  ASSUME SessionInv, TurnInv, RegistryInv, NEW h \in Handshake, OthersStay(h),
         UNCHANGED <<sessions, players, victim, janitor, todo>>,
         \A s \in Handshake : lapsed'[s] => lapsed[s],
         pc'[Handler(h)] = "create" => sessions[UserOf[h]] = None,
         obj[h] # None => obj'[h] = obj[h],
         obj'[h] = h => obj[h] = h /\ (pc'[Handler(h)] \in Joining <=> pc[Handler(h)] \in Joining)
  PROVE  RegistryInv'
<1>1. Registered' = Registered
  BY DEF Registered
<1>2. \A s \in Handshake : obj'[s] = s =>
        obj[s] = s /\ (pc'[Handler(s)] \in Joining <=> pc[Handler(s)] \in Joining)
  BY DEF OthersStay
<1>3. \A s \in Registered : s \in Handshake /\ obj'[s] = s
  BY RegisteredSessions, SessionAssumption DEF OthersStay
<1> QED
  BY <1>1, <1>2, <1>3 DEF RegistryInv, OthersStay, Handler

LEMMA RegistryStep ==
  ASSUME OneAddress, SessionInv, TurnInv, RegistryInv, Next, ~crashed'
  PROVE  RegistryInv'
<1> USE ProcNames, HandlersDiffer, SessionAssumption DEF SessionInv, TypeOK
<1>0. /\ "create" \notin Joining /\ "lookup" \notin Joining /\ "open" \in Joining
      /\ "panicked" \notin Joining /\ "rebind" \notin Joining
  BY DEF Joining
<1>1. CASE Calm
  <2>1. Registered' = Registered
    BY <1>1 DEF Calm, Registered
  <2>2. \A g \in Handshake : pc'[Handler(g)] = pc[Handler(g)]
    BY <1>1 DEF Calm
  <2>3. /\ UNCHANGED <<obj, sessions, players, victim, janitor, todo>>
        /\ \A g \in Handshake : lapsed'[g] => lapsed[g]
    BY <1>1 DEF Calm
  <2>4. \A s \in Registered : s \in Handshake
    BY RegisteredSessions
  <2>5. victim # None => pc'[Handler(victim)] = pc[Handler(victim)]
    BY <2>2, <2>4 DEF RegistryInv
  <2> QED
    BY <2>1, <2>2, <2>3, <2>4, <2>5 DEF RegistryInv, Handler
<1>2. ASSUME NEW h \in Handshake, Begin(h) \/ NilManager(h) PROVE RegistryInv'
  <2>1. /\ OthersStay(h) /\ pc[Handler(h)] \in {"idle", "lookup", "create"}
        /\ UNCHANGED <<obj, sessions, players, victim, janitor, todo, lapsed>>
        /\ pc'[Handler(h)] # "create"
    BY <1>2 DEF Begin, NilManager, Goto, OthersStay, world, manager, fields
  <2>2. obj[h] = None
    BY <2>1 DEF ObjectInv
  <2> QED
    BY <2>1, <2>2, RegistryKept
<1>3. ASSUME NEW h \in Handshake, Lookup(h) PROVE RegistryInv'
  <2>1. /\ OthersStay(h) /\ pc[Handler(h)] = "lookup"
        /\ UNCHANGED <<sessions, players, victim, janitor, todo, lapsed>>
        /\ obj'[h] \in {obj[h], sessions[UserOf[h]]}
        /\ pc'[Handler(h)] = "create" => ~Valid(h, sessions[UserOf[h]])
    BY <1>3 DEF Lookup, Goto, OthersStay, world, manager, fields
  <2>2. obj[h] = None /\ sessions[UserOf[h]] # h
    BY <2>1 DEF ObjectInv
  <2>3. ~Valid(h, sessions[UserOf[h]]) => sessions[UserOf[h]] = None
    BY DEF Valid, OneAddress, TurnInv
  <2> QED
    BY <2>1, <2>2, <2>3, RegistryKept
<1>4. ASSUME NEW h \in Handshake, Closing(h) PROVE RegistryInv'
  <2>1. obj[h] # h /\ pc'[Handler(h)] # "create"
    BY <1>4 DEF Closing, TurnInv, CloseLabel
  <2> QED
    BY <1>4, <2>1, RegistryKept DEF Closing
<1>5. ASSUME NEW h \in Handshake, Rebind(h) PROVE RegistryInv'
  <2>1. /\ OthersStay(h) /\ pc[Handler(h)] = "rebind" /\ pc'[Handler(h)] = "open"
        /\ UNCHANGED <<obj, sessions, players, victim, janitor, todo, lapsed>>
    BY <1>5 DEF Rebind, Goto, OthersStay, world, manager
  <2>2. obj[h] # h
    BY <2>1 DEF TurnInv
  <2> QED
    BY <2>1, <2>2, RegistryKept
<1>6. ASSUME NEW h \in Handshake, CreateSession(h) PROVE RegistryInv'
  <2>1. /\ OthersStay(h) /\ pc[Handler(h)] = "create" /\ pc'[Handler(h)] = "open"
        /\ obj'[h] = h /\ sessions' = [sessions EXCEPT ![UserOf[h]] = h]
        /\ lapsed' = [lapsed EXCEPT ![h] = FALSE]
        /\ UNCHANGED <<players, victim, janitor, todo>> /\ janitor # "prune"
    BY <1>6 DEF CreateSession, Unlocked, Goto, OthersStay, manager
  <2>2. sessions[UserOf[h]] = None /\ InFlight(h) /\ obj[h] = None
    BY <2>1, InFlightLabels DEF RegistryInv, ObjectInv
  <2>3. Registered' = Registered \cup {h}
    <3>1. \A u \in User : sessions'[u] = IF u = UserOf[h] THEN h ELSE sessions[u]
      BY <2>1
    <3>2. UserOf[h] \in User /\ sessions[UserOf[h]] = None /\ h # None
      BY <2>2
    <3>3. h \in Registered'
      BY <3>1, <3>2 DEF Registered
    <3>4. ASSUME NEW s \in Registered PROVE s \in Registered'
      <4>1. PICK u \in User : sessions[u] = s /\ s # None
        BY <3>4 DEF Registered
      <4>2. sessions'[u] = s
        BY <3>1, <3>2, <4>1
      <4> QED
        BY <4>1, <4>2 DEF Registered
    <3>5. ASSUME NEW s \in Registered' PROVE s \in Registered \cup {h}
      <4>1. PICK u \in User : sessions'[u] = s /\ s # None
        BY <3>5 DEF Registered
      <4> QED
        BY <3>1, <4>1 DEF Registered
    <3> QED
      BY <3>3, <3>4, <3>5
  <2>4. ASSUME NEW g \in Handshake, pc'[Handler(g)] = "create"
        PROVE  sessions'[UserOf[g]] = None
    <3>1. g # h /\ pc[Handler(g)] = "create"
      BY <2>1, <2>4 DEF OthersStay
    <3>2. InFlight(g)
      BY <3>1, InFlightLabels
    <3>3. UserOf[g] # UserOf[h] /\ sessions[UserOf[g]] = None
      BY <2>2, <3>1, <3>2 DEF TurnInv, RegistryInv
    <3> QED
      BY <2>1, <3>3
  <2>5. ASSUME NEW s \in Handshake, obj'[s] = s, pc'[Handler(s)] \in Joining
        PROVE  ~lapsed'[s] /\ sessions'[UserOf[s]] = s
    <3>1. CASE s = h
      BY <2>1, <3>1
    <3>2. CASE s # h
      <4>1. obj[s] = s /\ pc[Handler(s)] \in Joining
        BY <2>1, <2>5, <3>2 DEF OthersStay
      <4>2. InFlight(s)
        BY <4>1, InFlightLabels
      <4>3. UserOf[s] # UserOf[h] /\ ~lapsed[s] /\ sessions[UserOf[s]] = s
        BY <2>2, <3>2, <4>1, <4>2 DEF TurnInv, RegistryInv
      <4> QED
        BY <2>1, <3>2, <4>3
    <3> QED
      BY <3>1, <3>2
  <2>6. \A s \in Registered' : s \in players' \/ pc'[Handler(s)] \in Joining
    BY <1>0, <2>1, <2>3, RegisteredSessions DEF RegistryInv, OthersStay
  <2>7. victim = None /\ players \subseteq Registered
    BY <2>1 DEF RegistryInv
  <2> QED
    BY <2>1, <2>3, <2>4, <2>5, <2>6, <2>7 DEF RegistryInv, Handler
<1>7. ASSUME NEW h \in Handshake, Finishing(h) PROVE RegistryInv'
  <2>1. /\ OthersStay(h) /\ pc[Handler(h)] \in Joining
        /\ pc'[Handler(h)] \in Joining \cup Ended
        /\ pc'[Handler(h)] \in Ended /\ obj[h] = h => h \in players'
        /\ players \subseteq players'
        /\ \A s \in players' : s \in players \/ (s = h /\ obj[h] = h)
        /\ UNCHANGED <<obj, lapsed, sessions, victim, janitor, todo>>
    BY <1>7 DEF Finishing
  <2>2. Registered' = Registered
    BY <2>1 DEF Registered
  <2>3. "create" \notin Joining \cup Ended
    BY DEF Joining, Ended
  <2>4. \A g \in Handshake : pc'[Handler(g)] = "create" => pc[Handler(g)] = "create"
    <3>1. pc'[Handler(h)] # "create"
      BY <2>1, <2>3
    <3> QED
      BY <2>1, <3>1 DEF OthersStay
  <2>5. \A g \in Handshake : pc'[Handler(g)] \in Joining => pc[Handler(g)] \in Joining
    BY <2>1 DEF OthersStay
  <2>6. \A s \in Registered : s \in players' \/ pc'[Handler(s)] \in Joining
    <3>1. ASSUME NEW s \in Registered, s # h
          PROVE  s \in players' \/ pc'[Handler(s)] \in Joining
      BY <2>1, <3>1, RegisteredSessions DEF RegistryInv, OthersStay
    <3>2. h \in Registered => h \in players' \/ pc'[Handler(h)] \in Joining
      BY <2>1, RegisteredSessions
    <3> QED
      BY <3>1, <3>2
  <2>7. obj[h] = h => h \in Registered
    BY <2>1 DEF RegistryInv, Registered
  <2>8. players' \subseteq Registered
    BY <2>1, <2>7 DEF RegistryInv
  <2>9. victim # None => victim \in Registered /\ pc'[Handler(victim)] \notin Joining
    BY <2>5, RegisteredSessions DEF RegistryInv
  <2> QED
    BY <2>1, <2>2, <2>4, <2>5, <2>6, <2>8, <2>9 DEF RegistryInv, Handler
<1>8. ASSUME NEW s \in Handshake, Lapse(s) PROVE RegistryInv'
  <2>1. /\ UNCHANGED <<pc, obj, sessions, players, victim, janitor, todo>>
        /\ \A g \in Handshake : ~InFlight(g)
    BY <1>8 DEF Lapse, world, manager
  <2>2. \A g \in Handshake : pc[Handler(g)] \notin Joining
    BY <2>1, InFlightLabels
  <2>3. Registered' = Registered
    BY <2>1 DEF Registered
  <2> QED
    BY <2>1, <2>2, <2>3 DEF RegistryInv, Handler
<1>9. CASE Tick \/ BeginPrune \/ EndPrune
  <2>1. UNCHANGED <<pc, obj, sessions, players, lapsed, victim>>
    BY <1>9 DEF Tick, BeginPrune, EndPrune, fields, world
  <2>2. Registered' = Registered
    BY <2>1 DEF Registered
  <2>3. /\ janitor' # "prune" => victim = None
        /\ janitor' = "prune" => todo' \subseteq Registered \ {victim}
    <3>1. None \notin Registered
      BY DEF Registered
    <3> QED
      BY <1>9, <3>1 DEF Tick, BeginPrune, EndPrune, RegistryInv
  <2> QED
    BY <2>1, <2>2, <2>3 DEF RegistryInv, Handler
<1>10. ASSUME NEW s \in Handshake, CheckIdle(s) PROVE RegistryInv'
  <2>1. /\ UNCHANGED <<pc, obj, sessions, players, lapsed, janitor>>
        /\ janitor = "prune" /\ s \in todo /\ todo' = todo \ {s}
        /\ victim = None
        /\ victim' # None => victim' = s /\ lapsed[s]
    BY <1>10 DEF CheckIdle, fields, world
  <2>2. Registered' = Registered
    BY <2>1 DEF Registered
  <2>3. s \in Registered
    BY <2>1 DEF RegistryInv
  <2>4. lapsed[s] => pc[Handler(s)] \notin Joining
    BY <2>3, RegisteredSessions DEF RegistryInv
  <2>5. /\ todo' \subseteq Registered \ {victim'}
        /\ victim' # None => victim' \in Registered /\ pc[Handler(victim')] \notin Joining
    <3>1. todo \subseteq Registered /\ None \notin Registered
      BY <2>1 DEF RegistryInv, Registered
    <3>2. CASE victim' = None
      BY <2>1, <3>1, <3>2
    <3>3. CASE victim' # None
      BY <2>1, <2>3, <2>4, <3>1, <3>3
    <3> QED
      BY <3>2, <3>3
  <2> QED
    BY <2>1, <2>2, <2>5 DEF RegistryInv, Handler
<1>11. CASE Evict
  <2>1. /\ UNCHANGED <<pc, obj, lapsed, janitor, todo>> /\ janitor = "prune"
        /\ victim # None /\ victim' = None /\ players' = players \ {victim}
        /\ sessions' = [sessions EXCEPT ![UserOf[victim]] = None]
    BY <1>11 DEF Evict, fields, Next
  <2>2. /\ victim \in Registered /\ sessions[UserOf[victim]] = victim
        /\ victim \in Handshake /\ UserOf[victim] \in User
        /\ pc[Handler(victim)] \notin Joining
    BY <2>1, RegisteredSessions DEF RegistryInv
  <2>3. Registered' = Registered \ {victim}
    <3>1. \A u \in User : sessions'[u] = IF u = UserOf[victim] THEN None ELSE sessions[u]
      BY <2>1
    <3>2. \A u \in User : sessions[u] = victim => u = UserOf[victim]
      BY <2>2 DEF TurnInv
    <3> QED
      BY <2>2, <3>1, <3>2 DEF Registered
  <2>4. \A h \in Handshake :
          pc[Handler(h)] = "create" => sessions'[UserOf[h]] = None
    BY <2>1 DEF RegistryInv
  <2>5. ASSUME NEW s \in Handshake, obj[s] = s, pc[Handler(s)] \in Joining
        PROVE  ~lapsed[s] /\ sessions'[UserOf[s]] = s
    <3>1. ~lapsed[s] /\ sessions[UserOf[s]] = s /\ s # victim
      BY <2>2, <2>5 DEF RegistryInv
    <3>2. UserOf[s] # UserOf[victim]
      BY <2>2, <3>1
    <3> QED
      BY <2>1, <3>1, <3>2
  <2>6. /\ \A s \in Registered' : s \in players' \/ pc[Handler(s)] \in Joining
        /\ players' \subseteq Registered'
        /\ todo \subseteq Registered' \ {victim'}
    <3>1. None \notin Registered
      BY DEF Registered
    <3> QED
      BY <2>1, <2>3, <3>1 DEF RegistryInv
  <2> QED
    BY <2>1, <2>4, <2>5, <2>6 DEF RegistryInv, Handler
<1> QED
  BY <1>1, <1>2, <1>3, <1>4, <1>5, <1>6, <1>7, <1>8, <1>9, <1>10, <1>11, StepCases
  DEF Janitor

\* As long as no panic has ended the process: the players of the world are those of
\* the sessions the manager has, and all of them but for handshakes on their way, if a
\* user logs in from one address and not twice at once.  pruneInactive and Stop may
\* come between any two steps of a login.
THEOREM RegistryAndWorld ==
  ASSUME Sequential, OneAddress
  PROVE  Spec => [](~crashed => RegistryMatchesWorld)
<1> DEFINE I == SessionInv /\ TurnInv /\ AliveRegistryInv
<1>1. Init => I
  <2>1. ASSUME Init PROVE RegistryInv
    <3>1. Registered = {}
      BY <2>1 DEF Init, Registered
    <3>2. "idle" \notin Joining
      BY DEF Joining
    <3> QED
      BY <2>1, <3>1, <3>2, ProcNames, SessionAssumption DEF Init, RegistryInv
  <2> QED
    BY <2>1, InvInit, TurnInit DEF AliveRegistryInv
<1>2. I /\ [Next]_vars => I'
  <2>1. ASSUME I, UNCHANGED vars PROVE AliveRegistryInv'
    BY <2>1 DEF AliveRegistryInv, RegistryInv, Registered, Handler, vars, fields,
       world, manager
  <2>2. ASSUME I, Next PROVE AliveRegistryInv'
    <3>1. ~crashed
      BY <2>2 DEF Next
    <3> QED
      BY <2>2, <3>1, OneAddress, RegistryStep DEF AliveRegistryInv
  <2> QED
    BY <2>1, <2>2, InvStep, TurnStep, Sequential
<1>3. I => (~crashed => RegistryMatchesWorld)
  <2>1. ASSUME I, ~crashed PROVE RegistryMatchesWorld
    <3>1. \A s \in Registered : s \in Handshake
      BY <2>1, RegisteredSessions
    <3> QED
      BY <2>1, <3>1, InFlightLabels
      DEF AliveRegistryInv, RegistryInv, RegistryMatchesWorld, JanitorReachesPlayers
  <2> QED
    BY <2>1
<1> QED
  BY <1>1, <1>2, <1>3, PTL DEF Spec

-----------------------------------------------------------------------------
\* Users who log in once each.

OneLogin ==
  \A g, h \in Handshake : UserOf[g] = UserOf[h] => g = h

\* A handshake and its goroutines touch what that handshake created, and nothing else.
OwnInv ==
  /\ \A u \in User : sessions[u] # None => UserOf[sessions[u]] = u
  /\ \A p \in Proc : seen[p] \in {None, p[2]}
  /\ \A h \in Handshake :
       /\ obj[h] \in {None, h} /\ conn[h] \in {None, h} /\ stream[h] \in {None, h}
       /\ closing[h] \in {None, h} /\ on[h] \in {None, h} /\ reads[h] \in {None, h}

\* What Start has made by the time the handler is at a label.
StartedInv ==
  \A h \in Handshake :
    /\ pc[Handler(h)] \in {"activate", "arm"} \cup Started => on[h] = h
    /\ pc[Handler(h)] \in {"arm"} \cup Started => stream[h] = h
    /\ pc[Handler(h)] \in Started => reads[h] = h
    /\ pc[Handler(h)] # "rebind"

\* What is closed, cancelled or inactive, or is about to be, is of a lost connection.
LostInv ==
  /\ server = "up"
  /\ connClosed \subseteq lost /\ cancelled \subseteq lost /\ chanClosed \subseteq lost
  /\ \A p \in Proc : pc[p] \in CloseLabel => p[1] \in {"reader", "beat"} /\ p[2] \in lost
  /\ \A h \in Handshake \ lost :
       /\ pc[Handler(h)] \in {"arm"} \cup Started => active[h]
       /\ pc[Handler(h)] \in Started => pc[Reader(h)] \in {"start", "read", "push"}

AloneInv == OwnInv /\ StartedInv /\ LostInv

LEMMA OwnSession ==
  ASSUME SessionInv, OwnInv, NEW p \in Proc, pc[p] \notin Unbound
  PROVE  p[2] \in Handshake /\ Mine(p) = p[2] /\ obj[p[2]] = p[2] /\ conn[p[2]] = p[2]
BY Bound, SessionAssumption DEF SessionInv, OwnInv, Mine, Proc

LEMMA SpawnedAreStarted ==
  ASSUME SessionInv, OwnInv, NEW p \in Proc, pc[p] # "idle",
         p[1] \in {"reader", "beat", "run"}
  PROVE  /\ p[2] \in Handshake /\ pc[Handler(p[2])] \in Started
         /\ Mine(p) = p[2] /\ obj[p[2]] = p[2] /\ conn[p[2]] = p[2]
<1>1. PICK h \in Handshake : p \in {Reader(h), Beat(h), Run(h)}
  BY DEF Proc, Kind, Reader, Beat, Run
<1>2. p[2] = h
  BY <1>1, ProcNames
<1>3. pc[Handler(h)] \in Started
  BY <1>1 DEF SessionInv, SpawnInv, Started
<1>4. pc[Handler(h)] \notin Unbound
  BY <1>3 DEF Started, Unbound
<1>5. obj[h] = h /\ conn[h] = h
  BY <1>4, ProcNames, OwnSession
<1> QED
  BY <1>2, <1>3, <1>5 DEF Mine

\* A step of a reader, a heartbeat or a packet loop on its own: it starts a Close only
\* if its connection is lost, and a reader ends only then.
Stroll(p) ==
  /\ p[1] \in {"reader", "beat", "run"}
  /\ pc[p] # "idle"
  /\ \E l : /\ Goto(p, l)
            /\ l \in CloseLabel => p[1] \in {"reader", "beat"} /\ p[2] \in lost
            /\ p[1] = "reader" => l \in {"read", "push"} \/ p[2] \in lost
  /\ seen' = seen \/ \E ch \in {None, p[2]} : Watch(p, ch)
  /\ UNCHANGED <<obj, active, conn, stream, closing, on, reads, lost>>
  /\ UNCHANGED <<connClosed, cancelled, chanClosed, sessions, server>>

LEMMA StrollKeeps ==
  ASSUME SessionInv, AloneInv, NEW p \in Proc, Stroll(p)
  PROVE  AloneInv'
<1> USE DEF SessionInv, TypeOK
<1>1. /\ \A g \in Handshake : pc'[Handler(g)] = pc[Handler(g)]
      /\ \A q \in Proc : q # p => pc'[q] = pc[q]
      /\ \A q \in Proc : seen'[q] \in {seen[q], None, q[2]}
  BY HandlersStay DEF Stroll, Goto, Watch
<1>2. \A q \in Proc : pc'[q] \in CloseLabel =>
        q[1] \in {"reader", "beat"} /\ q[2] \in lost
  BY <1>1 DEF Stroll, Goto, AloneInv, LostInv
<1>3. \A h \in Handshake \ lost : pc[Handler(h)] \in Started =>
        pc'[Reader(h)] \in {"start", "read", "push"}
  BY <1>1, ProcNames DEF Stroll, Goto, AloneInv, LostInv
<1>4. OwnInv'
  BY <1>1 DEF Stroll, AloneInv, OwnInv
<1>5. StartedInv'
  BY <1>1 DEF Stroll, AloneInv, StartedInv, Handler
<1>6. LostInv'
  <2>1. UNCHANGED <<active, lost, connClosed, cancelled, chanClosed, server>>
    BY DEF Stroll
  <2> QED
    BY <1>1, <1>2, <1>3, <2>1 DEF AloneInv, LostInv, Handler, Reader
<1> QED
  BY <1>4, <1>5, <1>6 DEF AloneInv

\* A stream whose reader is at work, that nobody cancelled and whose connection
\* is there takes a write.
LEMMA WritesGoThrough ==
  ASSUME SessionInv, AloneInv, NEW h \in Handshake, pc[Handler(h)] \in Started,
         WriteFails(stream[obj[h]]), obj[h] = h
  PROVE  h \in lost
<1>1. stream[h] = h /\ on[h] = h /\ reads[h] = h
  BY DEF AloneInv, StartedInv
<1>2. \A g \in Handshake : reads[g] = h => g = h
  BY SessionAssumption DEF AloneInv, OwnInv
<1> QED
  BY <1>1, <1>2 DEF WriteFails, AloneInv, LostInv

LEMMA StrollSteps ==
  ASSUME SessionInv, AloneInv, "kick" \notin Events, NEW h \in Handshake,
         ReaderStep(h) \/ BeatStep(h) \/ RunStep(h)
  PROVE  AloneInv'
<1> USE ProcNames DEF SessionInv, TypeOK
<1>0. \A p \in {Reader(h), Beat(h), Run(h)} : pc[p] # "idle" =>
        /\ pc[Handler(h)] \in Started /\ Mine(p) = h /\ obj[h] = h
        /\ on[h] = h /\ reads[h] = h
        /\ closing[h] \in {None, h}
        /\ h \notin lost => active[h]
  <2>1. ASSUME NEW p \in {Reader(h), Beat(h), Run(h)}, pc[p] # "idle"
        PROVE  pc[Handler(h)] \in Started /\ Mine(p) = h /\ obj[h] = h
    <3>1. p \in Proc /\ p[1] \in {"reader", "beat", "run"} /\ p[2] = h
      OBVIOUS
    <3> QED
      BY <2>1, <3>1, SpawnedAreStarted DEF AloneInv
  <2>2. pc[Handler(h)] \in Started =>
          /\ on[h] = h /\ reads[h] = h
          /\ closing[h] \in {None, h}
          /\ h \notin lost => active[h]
    BY DEF AloneInv, StartedInv, LostInv, OwnInv
  <2> QED
    BY <2>1, <2>2
<1>1. connClosed \subseteq lost /\ cancelled \subseteq lost /\ chanClosed \subseteq lost
  BY DEF AloneInv, LostInv
<1>2. {"start", "read", "push", "select", "wait", "send", "handle", "done"}
        \cap CloseLabel = {}
  BY DEF CloseLabel
<1>3. \A p \in Proc : Closed(seen[p]) => p[2] \in lost
  BY <1>1 DEF Closed, AloneInv, OwnInv
<1>4. ReaderStep(h) => Stroll(Reader(h))
  <2>1. CASE ReaderStart(h)
    BY <1>0, <1>1, <1>2, <2>1 DEF ReaderStart, Closed, Stroll, fields, net, world, manager
  <2>2. CASE ReadPacket(h)
    BY <1>0, <1>1, <1>2, <2>2 DEF ReadPacket, Stroll, fields, net, world, manager
  <2>3. CASE ReadCancelled(h)
    BY <1>0, <1>1, <1>2, <2>3
    DEF ReadCancelled, Cancelled, Stroll, fields, net, world, manager
  <2>4. CASE ReadFails(h)
    BY <1>0, <1>1, <1>2, <2>4 DEF ReadFails, Broken, Stroll, fields, net, world, manager
  <2>5. CASE PushPacket(h)
    BY <1>0, <1>1, <1>2, <1>3, <2>5 DEF PushPacket, Stroll, net, world, manager
  <2> QED
    BY <2>1, <2>2, <2>3, <2>4, <2>5 DEF ReaderStep
<1>5. ASSUME NEW p \in {Beat(h), Run(h)}, EnterSelect(p) \/ SeeClosing(p)
      PROVE  Stroll(p)
  BY <1>0, <1>1, <1>2, <1>5 DEF EnterSelect, SeeClosing, Stroll, fields, net, world, manager
<1>6. BeatTick(h) => Stroll(Beat(h))
  BY <1>0, <1>1, <1>2 DEF BeatTick, Stroll, fields, net, world, manager
<1>7. BeatSend(h) => Stroll(Beat(h))
  BY <1>0, <1>1, <1>2, WritesGoThrough DEF BeatSend, Stroll, fields, net, world, manager
<1>8. RunStart(h) \/ RunTake(h) \/ RunHandle(h) => Stroll(Run(h))
  BY <1>0, <1>1, <1>2
  DEF RunStart, RunTake, RunHandle, Stroll, fields, net, world, manager
<1> QED
  BY <1>4, <1>5, <1>6, <1>7, <1>8, StrollKeeps DEF BeatStep, RunStep

\* A step of the janitor, of the network or of the clock.
LEMMA ElsewhereSteps ==
  ASSUME SessionInv, AloneInv,
         UNCHANGED vars \/ Janitor \/ \E h \in Handshake : Lose(h) \/ Lapse(h)
  PROVE  AloneInv'
<1>1. /\ UNCHANGED <<pc, seen, obj, active, conn, stream, closing, on, reads>>
      /\ UNCHANGED <<connClosed, cancelled, chanClosed, server>>
      /\ lost \subseteq lost'
      /\ \A u \in User : sessions'[u] \in {sessions[u], None}
  BY DEF Janitor, Tick, BeginPrune, CheckIdle, Evict, EndPrune, Lose, Lapse,
     SessionInv, TypeOK, vars, fields, net, world, manager
<1>2. OwnInv'
  BY <1>1 DEF AloneInv, OwnInv
<1>3. StartedInv'
  BY <1>1 DEF AloneInv, StartedInv, Handler
<1>4. LostInv'
  BY <1>1 DEF AloneInv, LostInv, Handler, Reader
<1> QED
  BY <1>2, <1>3, <1>4 DEF AloneInv

\* A step of the Close of a goroutine whose connection is lost.
LEMMA LostCloseSteps ==
  ASSUME SessionInv, AloneInv, NEW p \in Proc, CloseStep(p)
  PROVE  AloneInv'
<1> USE DEF SessionInv, TypeOK
<1>1. /\ pc[p] \in CloseLabel /\ p[1] \in {"reader", "beat"} /\ p[2] \in lost
      /\ pc[p] # "idle"
  BY CloseStepCases DEF AloneInv, LostInv, CloseLabel
<1>2. /\ p[2] \in Handshake /\ Mine(p) = p[2] /\ conn[p[2]] = p[2]
      /\ closing[p[2]] \in {None, p[2]} /\ stream[p[2]] \in {None, p[2]}
  BY <1>1, SpawnedAreStarted DEF AloneInv, OwnInv
<1>3. /\ UNCHANGED <<seen, obj, conn, stream, on, reads, lost, sessions, server>>
      /\ connClosed' \subseteq lost /\ cancelled' \subseteq lost /\ chanClosed' \subseteq lost
      /\ \A s \in Handshake : s # p[2] => active'[s] = active[s]
      /\ \A s \in Handshake : closing'[s] \in {closing[s], None}
      /\ \E l : Goto(p, l)
  <2>0. connClosed \subseteq lost /\ cancelled \subseteq lost /\ chanClosed \subseteq lost
    BY DEF AloneInv, LostInv
  <2>1. CASE MarkInactive(p)
    BY <1>2, <2>0, <2>1 DEF MarkInactive, net, world, manager
  <2>2. CASE Stamp(p) \/ CheckClosing(p)
    BY <2>0, <2>2 DEF Stamp, CheckClosing, fields, net, world, manager
  <2>3. CASE CloseChan(p)
    BY <1>1, <1>2, <2>0, <2>3 DEF CloseChan, fields, world, manager
  <2>4. CASE ClearChan(p)
    BY <1>2, <2>0, <2>4 DEF ClearChan, net, world, manager
  <2>5. CASE Teardown(p)
    BY <1>1, <1>2, <2>0, <2>5 DEF Teardown, fields, world, manager
  <2> QED
    BY <2>1, <2>2, <2>3, <2>4, <2>5 DEF CloseStep
<1>4. \A q \in Proc : q # p => pc'[q] = pc[q]
  BY <1>3 DEF Goto
<1>5. \A g \in Handshake : pc'[Handler(g)] = pc[Handler(g)]
  BY <1>1, <1>3, HandlersStay
<1>6. OwnInv'
  BY <1>3 DEF AloneInv, OwnInv
<1>7. StartedInv'
  BY <1>3, <1>5 DEF AloneInv, StartedInv, Handler
<1>8. LostInv'
  <2>1. \A q \in Proc : pc'[q] \in CloseLabel =>
          q[1] \in {"reader", "beat"} /\ q[2] \in lost
    BY <1>1, <1>4 DEF AloneInv, LostInv
  <2>2. \A h \in Handshake \ lost :
          pc'[Reader(h)] = pc[Reader(h)] /\ active'[h] = active[h]
    BY <1>1, <1>3, <1>4, ProcNames
  <2>3. server = "up"
    BY DEF AloneInv, LostInv
  <2> QED
    BY <1>3, <1>5, <2>1, <2>2, <2>3 DEF AloneInv, LostInv, Handler, Reader
<1> QED
  BY <1>6, <1>7, <1>8 DEF AloneInv

\* A step of the handler of h changes what h has made, closes no other connection than
\* a lost one and has made all that its next label calls for.
OwnMove(h) ==
  /\ UNCHANGED <<seen, lost, cancelled, chanClosed, server>>
  /\ connClosed' \subseteq lost
  /\ \A u \in User : sessions'[u] # None => UserOf[sessions'[u]] = u
  /\ \A g \in Handshake : g # h =>
       /\ obj'[g] = obj[g] /\ active'[g] = active[g] /\ conn'[g] = conn[g]
       /\ stream'[g] = stream[g] /\ closing'[g] = closing[g]
       /\ on'[g] = on[g] /\ reads'[g] = reads[g]
  /\ obj'[h] \in {None, h} /\ conn'[h] \in {None, h} /\ stream'[h] \in {None, h}
  /\ closing'[h] \in {None, h} /\ on'[h] \in {None, h} /\ reads'[h] \in {None, h}

OwnLabel(h) ==
  /\ \A q \in Proc : pc'[q] # pc[q] =>
       /\ q[1] \in {"handler", "reader", "beat", "run"} /\ q[2] = h
       /\ pc'[q] \notin CloseLabel
  /\ pc'[Handler(h)] \in {"activate", "arm"} \cup Started => on'[h] = h
  /\ pc'[Handler(h)] \in {"arm"} \cup Started => stream'[h] = h
  /\ pc'[Handler(h)] \in Started => reads'[h] = h
  /\ pc'[Handler(h)] # "rebind"
  /\ h \notin lost =>
       /\ pc'[Handler(h)] \in {"arm"} \cup Started => active'[h]
       /\ pc'[Handler(h)] \in Started => pc'[Reader(h)] \in {"start", "read", "push"}

LEMMA HandlerKeeps ==
  ASSUME SessionInv, AloneInv, NEW h \in Handshake, OwnMove(h), OwnLabel(h)
  PROVE  AloneInv'
<1>0. /\ \A g \in Handshake : g # h =>
           pc'[Handler(g)] = pc[Handler(g)] /\ pc'[Reader(g)] = pc[Reader(g)]
      /\ UNCHANGED <<seen, lost, cancelled, chanClosed, server>>
  BY ProcNames DEF OwnMove, OwnLabel
<1>1. OwnInv'
  BY DEF OwnMove, AloneInv, OwnInv
<1>2. StartedInv'
  <2>1. \A g \in Handshake :
          /\ pc'[Handler(g)] \in {"activate", "arm"} \cup Started => on'[g] = g
          /\ pc'[Handler(g)] \in {"arm"} \cup Started => stream'[g] = g
          /\ pc'[Handler(g)] \in Started => reads'[g] = g
          /\ pc'[Handler(g)] # "rebind"
    BY <1>0 DEF OwnMove, OwnLabel, AloneInv, StartedInv
  <2> QED
    BY <2>1 DEF StartedInv, Handler
<1>3. LostInv'
  <2>1. \A q \in Proc : pc'[q] \in CloseLabel =>
          q[1] \in {"reader", "beat"} /\ q[2] \in lost
    BY DEF OwnLabel, AloneInv, LostInv
  <2>3. \A g \in Handshake \ lost :
          /\ pc'[Handler(g)] \in {"arm"} \cup Started => active'[g]
          /\ pc'[Handler(g)] \in Started => pc'[Reader(g)] \in {"start", "read", "push"}
    BY <1>0 DEF OwnMove, OwnLabel, AloneInv, LostInv
  <2>4. server = "up" /\ cancelled \subseteq lost /\ chanClosed \subseteq lost
    BY DEF AloneInv, LostInv
  <2>5. connClosed' \subseteq lost
    BY DEF OwnMove
  <2> QED
    BY <1>0, <2>1, <2>3, <2>4, <2>5 DEF LostInv, Handler, Reader
<1> QED
  BY <1>1, <1>2, <1>3 DEF AloneInv

LEMMA HandlerSteps ==
  ASSUME OneLogin, SessionInv, AloneInv, NEW h \in Handshake, Begin(h) \/ HandshakeStep(h)
  PROVE  AloneInv'
<1> USE ProcNames, SessionAssumption DEF SessionInv, TypeOK, Started
<1>1. /\ conn[h] \in {None, h} /\ stream[h] \in {None, h} /\ closing[h] \in {None, h}
      /\ on[h] \in {None, h} /\ reads[h] \in {None, h} /\ obj[h] \in {None, h}
      /\ \A u \in User : sessions[u] # None => UserOf[sessions[u]] = u
  BY DEF AloneInv, OwnInv
<1>2. connClosed \subseteq lost
  BY DEF AloneInv, LostInv
<1>3. pc[Handler(h)] \notin Unbound => obj[h] = h /\ conn[h] = h
  BY OwnSession DEF AloneInv
<1>4. /\ pc[Handler(h)] \in {"activate", "arm"} \cup Started => on[h] = h
      /\ pc[Handler(h)] \in {"arm"} \cup Started => stream[h] = h
      /\ pc[Handler(h)] \in Started => reads[h] = h
      /\ pc[Handler(h)] # "rebind"
  BY DEF AloneInv, StartedInv
<1>5. h \notin lost =>
        /\ pc[Handler(h)] \in {"arm"} \cup Started => active[h]
        /\ pc[Handler(h)] \in Started => pc[Reader(h)] \in {"start", "read", "push"}
  BY DEF AloneInv, LostInv
<1>6. ASSUME NEW l \in {"lookup", "create", "open", "activate", "arm", "joinFailed",
                         "refused", "panicked"},
             Goto(Handler(h), l),
             l \in {"activate", "arm"} => on'[h] = h,
             l = "arm" => stream'[h] = h /\ active'[h]
      PROVE  OwnLabel(h)
  BY <1>6 DEF OwnLabel, Goto, CloseLabel
<1>7. CASE Begin(h)
  <2>1. OwnMove(h)
    BY <1>1, <1>2, <1>7 DEF Begin, OwnMove, fields, net, world, manager
  <2> QED
    BY <1>6, <1>7, <2>1, HandlerKeeps DEF Begin
<1>8. CASE Lookup(h)
  <2>1. sessions[UserOf[h]] # h
    BY <1>8 DEF Lookup, ObjectInv
  <2>2. sessions[UserOf[h]] = None
    BY <1>1, <2>1 DEF OneLogin
  <2>3. Goto(Handler(h), "create") /\ UNCHANGED <<obj, seen, fields, net, world, manager>>
    BY <1>8, <2>2 DEF Lookup, Valid
  <2>4. OwnMove(h)
    BY <1>1, <1>2, <2>3 DEF OwnMove, fields, net, world, manager
  <2> QED
    BY <1>6, <2>3, <2>4, HandlerKeeps
<1>9. CASE CreateSession(h)
  <2>1. OwnMove(h)
    BY <1>1, <1>2, <1>9 DEF CreateSession, OwnMove, net, manager
  <2> QED
    BY <1>6, <1>9, <2>1, HandlerKeeps DEF CreateSession
<1>10. CASE NilManager(h)
  <2>1. OwnMove(h)
    BY <1>1, <1>2, <1>10 DEF NilManager, OwnMove, fields, net, world, manager
  <2> QED
    BY <1>6, <1>10, <2>1, HandlerKeeps DEF NilManager
<1>11. CASE OpenStream(h)
  <2>1. obj[h] = h /\ conn[h] = h
    BY <1>3, <1>11 DEF OpenStream, Unbound
  <2>2. OwnMove(h)
    BY <1>1, <1>2, <1>11, <2>1 DEF OpenStream, OwnMove, fields, world, manager
  <2>3. \/ Goto(Handler(h), "activate") /\ on'[h] = h
        \/ Goto(Handler(h), "joinFailed")
    BY <1>11, <2>1 DEF OpenStream
  <2> QED
    BY <1>6, <2>2, <2>3, HandlerKeeps
<1>12. CASE Activate(h)
  <2>1. obj[h] = h /\ on[h] = h
    BY <1>3, <1>4, <1>12 DEF Activate, Unbound
  <2>2. OwnMove(h)
    BY <1>1, <1>2, <1>12, <2>1 DEF Activate, OwnMove, net, world, manager
  <2>3. Goto(Handler(h), "arm") /\ on'[h] = h /\ stream'[h] = h /\ active'[h]
    BY <1>12, <2>1 DEF Activate, net
  <2> QED
    BY <1>6, <2>2, <2>3, HandlerKeeps
<1>13. CASE Arm(h)
  <2>1. obj[h] = h /\ on[h] = h /\ stream[h] = h /\ (h \notin lost => active[h])
    BY <1>3, <1>4, <1>5, <1>13 DEF Arm, Unbound
  <2>2. OwnMove(h)
    BY <1>1, <1>2, <1>13, <2>1 DEF Arm, OwnMove, world, manager
  <2>3. reads'[h] = h /\ UNCHANGED <<on, stream, active>>
    BY <1>13, <2>1 DEF Arm
  <2>4. OwnLabel(h)
    <3>1. /\ pc'[Handler(h)] = "join" /\ pc'[Reader(h)] = "start"
          /\ \A q \in Proc : pc'[q] # pc[q] =>
               /\ q \in {Handler(h), Reader(h), Beat(h)}
               /\ pc'[q] \in {"join", "start", "select"}
      BY <1>13 DEF Arm
    <3>2. \A q \in {Handler(h), Reader(h), Beat(h)} :
            q[1] \in {"handler", "reader", "beat", "run"} /\ q[2] = h
      OBVIOUS
    <3>3. {"join", "start", "select"} \cap CloseLabel = {}
      BY DEF CloseLabel
    <3>4. ASSUME NEW q \in Proc, pc'[q] # pc[q]
          PROVE  /\ q[1] \in {"handler", "reader", "beat", "run"} /\ q[2] = h
                 /\ pc'[q] \notin CloseLabel
      <4>1. /\ q \in {Handler(h), Reader(h), Beat(h)}
            /\ pc'[q] \in {"join", "start", "select"}
        BY <3>1, <3>4
      <4> QED
        BY <3>2, <3>3, <4>1
    <3> QED
      BY <2>1, <2>3, <3>1, <3>4 DEF OwnLabel
  <2> QED
    BY <2>2, <2>4, HandlerKeeps
<1>14. CASE Join(h)
  <2>1. UNCHANGED <<obj, fields, net, sessions, server, seen>>
    BY <1>14 DEF Join, manager
  <2>2. OwnMove(h)
    BY <1>1, <1>2, <2>1 DEF OwnMove, fields, net
  <2>3. \/ \E l \in {"refused", "panicked"} : Goto(Handler(h), l)
        \/ /\ pc[Handler(h)] = "join"
           /\ \/ Goto(Handler(h), "unserved")
              \/ pc' = [pc EXCEPT ![Handler(h)] = "served", ![Run(h)] = "start"]
    BY <1>14 DEF Join
  <2>4. CASE pc[Handler(h)] = "join" /\ pc'[Reader(h)] = pc[Reader(h)]
             /\ pc'[Handler(h)] \in {"unserved", "served"}
    <3>1. /\ on'[h] = h /\ stream'[h] = h /\ reads'[h] = h
          /\ h \notin lost => active'[h] /\ pc'[Reader(h)] \in {"start", "read", "push"}
      BY <1>4, <1>5, <2>1, <2>4 DEF fields, net
    <3>2. \A q \in Proc : pc'[q] # pc[q] =>
            /\ q[1] \in {"handler", "run"} /\ q[2] = h
            /\ pc'[q] \notin CloseLabel
      <4>1. \E l \in {"unserved", "served"} :
              \/ pc' = [pc EXCEPT ![Handler(h)] = l]
              \/ pc' = [pc EXCEPT ![Handler(h)] = l, ![Run(h)] = "start"]
        BY <2>3, <2>4 DEF Goto
      <4>2. /\ \A q \in {Handler(h), Run(h)} : q[1] \in {"handler", "run"} /\ q[2] = h
            /\ {"unserved", "served", "start"} \cap CloseLabel = {}
        BY DEF CloseLabel
      <4> SUFFICES ASSUME NEW q \in Proc, pc'[q] # pc[q]
                   PROVE  /\ q[1] \in {"handler", "run"} /\ q[2] = h
                          /\ pc'[q] \notin CloseLabel
        OBVIOUS
      <4>3. /\ q \in {Handler(h), Run(h)}
            /\ pc'[q] \in {"unserved", "served", "start"}
        BY <4>1
      <4> QED
        BY <4>2, <4>3
    <3>3. OwnLabel(h)
      BY <2>4, <3>1, <3>2 DEF OwnLabel
    <3> QED
      BY <2>2, <3>3, HandlerKeeps
  <2>5. CASE \E l \in {"refused", "panicked"} : Goto(Handler(h), l)
    BY <1>6, <2>2, <2>5, HandlerKeeps
  <2>6. CASE /\ pc[Handler(h)] = "join"
             /\ \E l \in {"unserved", "served"} :
                  \/ pc' = [pc EXCEPT ![Handler(h)] = l]
                  \/ pc' = [pc EXCEPT ![Handler(h)] = l, ![Run(h)] = "start"]
    <3>1. /\ pc'[Reader(h)] = pc[Reader(h)]
          /\ pc'[Handler(h)] \in {"unserved", "served"}
      BY <2>6
    <3> QED
      BY <2>4, <2>6, <3>1
  <2> QED
    BY <2>3, <2>5, <2>6 DEF Goto
<1>15. ~Rebind(h)
  BY <1>4 DEF Rebind
<1> QED
  BY <1>6, <1>7, <1>8, <1>9, <1>10, <1>11, <1>12, <1>13, <1>14, <1>15
  DEF HandshakeStep

\* Where every user logs in once, nobody is kicked and the server runs on, the server
\* closes a connection only when it is lost, whatever happens to the other
\* connections and whomever the janitor removes.
THEOREM OnlyLostCloses ==
  ASSUME OneLogin, "kick" \notin Events, "stop" \notin Events
  PROVE  Spec => []OnlyLostAreClosed
<1> DEFINE I == SessionInv /\ AloneInv
<1>1. Init => I
  <2>1. ASSUME Init PROVE AloneInv
    <3>1. "idle" \notin CloseLabel \cup Started
      BY DEF CloseLabel, Started
    <3> QED
      BY <2>1, <3>1, ProcNames DEF Init, AloneInv, OwnInv, StartedInv, LostInv
  <2> QED
    BY <2>1, InvInit
<1>2. I /\ [Next]_vars => I'
  <2>1. ASSUME I, [Next]_vars PROVE AloneInv'
    <3>1. ~Shutdown
      BY <2>1 DEF AloneInv, LostInv, Shutdown, BeginShutdown, ShutdownSession,
         EndShutdown, DropServer
    <3> QED
      BY <2>1, <3>1, OneLogin, HandlerSteps, StrollSteps, ElsewhereSteps, LostCloseSteps
      DEF Next
  <2> QED
    BY <2>1, InvStep
<1>3. I => OnlyLostAreClosed
  BY DEF AloneInv, LostInv, OnlyLostAreClosed
<1> QED
  BY <1>1, <1>2, <1>3, PTL DEF Spec
================================================================================
