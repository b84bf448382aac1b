--------------------------- MODULE SlotPool_proofs ---------------------------
(***************************************************************************)
(* WorkerManager implements SlotPool, for every set of cells, countries,   *)
(* servers and keys and every pool size.                                   *)
(***************************************************************************)
EXTENDS WorkerManager_proofs

USE DEF kernel, objects, pool, signals, procs, health, main

\* The refinement mapping.
slotMap ==
    [i \in Index |-> IF workers[i] # None THEN "live"
                     ELSE IF i \in usedIndexes THEN "held" ELSE "free"]
isOpen == ~RootCancelled

SlotStep == [Slots!SlotNext]_(Slots!slotVars)

-----------------------------------------------------------------------------
(***************************************************************************)
(* What the mapping sees of a step.                                        *)
(***************************************************************************)

\* A step that leaves the pool, the indexes and rootCtx alone is a stutter.
LEMMA StutterStep ==
    ASSUME UNCHANGED <<workers, usedIndexes>>, isOpen' = isOpen
    PROVE  SlotStep
  BY DEF SlotStep, Slots!slotVars, isOpen

\* acquireIndex reserves the lowest free slot.
LEMMA ReserveStep ==
    ASSUME IInv, NEW p \in Proc, AcquireIndex(p)
    PROVE  SlotStep
<1>1. PICK i \in Index \ usedIndexes :
         /\ \A j \in Index \ usedIndexes : i <= j
         /\ usedIndexes' = usedIndexes \cup {i}
  BY DEF AcquireIndex
<1>2. UNCHANGED workers /\ isOpen' = isOpen
  BY DEF AcquireIndex, isOpen, RootCancelled
<1>3. \A j \in Index : workers[j] # None => j \in usedIndexes
  BY DEF IInv, IndexInv
<1>4. {j \in Index : slotMap[j] = "free"} = Index \ usedIndexes
  BY <1>3 DEF slotMap
<1>5. slotMap' = [j \in Index |-> IF j \in {i} THEN "held" ELSE slotMap[j]]
  BY <1>1, <1>2, <1>3 DEF slotMap
<1>6. Slots!Reserve
  BY <1>1, <1>2, <1>4, <1>5 DEF Slots!Reserve, Slots!In, Slots!Move, slotMap, isOpen
<1>7. QED
  BY <1>6 DEF SlotStep, Slots!SlotNext

\* releaseIndex, by the goroutine that holds the index, gives a held slot back.
LEMMA GiveBackStep ==
    ASSUME IInv, NEW p \in Proc, pc[p] \in Holding,
           usedIndexes' = usedIndexes \ {held[p]}, UNCHANGED workers, isOpen' = isOpen
    PROVE  SlotStep
<1>1. held[p] \in Index /\ workers[held[p]] = None /\ held[p] \in usedIndexes
  BY DEF IInv, TypeOK, CreatorInv, IndexInv
<1>2. slotMap[held[p]] = "held"
  BY <1>1 DEF slotMap
<1>3. slotMap' = [j \in Index |-> IF j \in {held[p]} THEN "free" ELSE slotMap[j]]
  BY <1>1 DEF slotMap
<1>4. Slots!GiveBack
  BY <1>1, <1>2, <1>3 DEF Slots!GiveBack, Slots!In, Slots!Move, slotMap, isOpen
<1>5. QED
  BY <1>4 DEF SlotStep, Slots!SlotNext

\* A publication under the lock makes a held slot live, while the pool is open.
LEMMA GoLiveStep ==
    ASSUME IInv, NEW p \in Proc, pc[p] = "made", ~RootCancelled,
           workers' = [workers EXCEPT ![held[p]] = made[p]],
           UNCHANGED usedIndexes, isOpen' = isOpen
    PROVE  SlotStep
<1>1. /\ held[p] \in Index /\ workers[held[p]] = None
      /\ held[p] \in usedIndexes /\ made[p] # None
  BY DEF IInv, TypeOK, CreatorInv, IndexInv, Holding, Making
<1>2. slotMap[held[p]] = "held"
  BY <1>1 DEF slotMap
<1>3. slotMap' = [j \in Index |-> IF j \in {held[p]} THEN "live" ELSE slotMap[j]]
  BY <1>1 DEF slotMap, IInv, TypeOK
<1>4. Slots!GoLive
  BY <1>1, <1>2, <1>3 DEF Slots!GoLive, Slots!In, Slots!Move, slotMap, isOpen
<1>5. QED
  BY <1>4 DEF SlotStep, Slots!SlotNext

\* The workers the health check or Shutdown takes leave live slots, and only those.
LEMMA RetireStep ==
    ASSUME IInv, NEW gone \in SUBSET Mapped,
           workers' = [i \in Index |-> IF workers[i] \in gone THEN None ELSE workers[i]],
           usedIndexes' = usedIndexes \ {index[c] : c \in gone}, isOpen' = isOpen
    PROVE  SlotStep
<1> DEFINE ids == {i \in Index : workers[i] \in gone}
<1>1. \A i \in ids : workers[i] # None
  BY DEF Mapped
<1>2. {index[c] : c \in gone} = ids
  <2>1. ASSUME NEW c \in gone
        PROVE  index[c] \in ids
    BY DEF Mapped, IInv, IndexInv
  <2>2. ASSUME NEW i \in ids
        PROVE  workers[i] \in gone /\ index[workers[i]] = i
    BY <1>1 DEF IInv, IndexInv
  <2>3. QED
    BY <2>1, <2>2
<1>3. ids \in SUBSET {i \in Index : slotMap[i] = "live"}
  BY <1>1 DEF slotMap
<1>4. slotMap' = [j \in Index |-> IF j \in ids THEN "free" ELSE slotMap[j]]
  BY <1>1, <1>2 DEF slotMap
<1> HIDE DEF ids
<1>5. Slots!Retire
  BY <1>3, <1>4 DEF Slots!Retire, Slots!In, Slots!Move, slotMap, isOpen
<1>6. QED
  BY <1>5 DEF SlotStep, Slots!SlotNext

-----------------------------------------------------------------------------
(***************************************************************************)
(* Every step of the manager is a step of the slot pool, or a stutter.     *)
(***************************************************************************)

\* Steps that touch neither m.workers nor m.usedIndexes nor rootCtx.
LEMMA OtherStep ==
    ASSUME \/ \E p \in Proc :
                 \/ TryCreateGivesUp(p) \/ Launch(p) \/ LaunchFails(p) \/ TunReady(p)
                 \/ TunFails(p) \/ StopUnpublished(p)
           \/ WarmerStep \/ (\E k \in Keys : RequestWorker(k)) \/ DispatchPending
           \/ \E c \in Cell :
                 \/ PreconnectGate(c) \/ PreconnectSem(c) \/ PreconnectCheck(c)
                 \/ PreconnectSwap(c) \/ StopStaged(c) \/ PreconnectRetry(c)
                 \/ StopVictim(c) \/ ShutdownStops(c) \/ ProcessExits(c) \/ GraceElapses(c)
           \/ CheckWorkersSignals \/ Cancel \/ ShutdownWaits \/ Exit
           \/ \E i \in Index : TrackConn(i) \/ UntrackConn(i)
    PROVE  SlotStep
<1>1. UNCHANGED <<workers, usedIndexes>>
  BY DEF TryCreateGivesUp, Launch, LaunchFails, TunReady, TunFails, StopUnpublished,
     WarmerStep, WarmerWakes, WarmerCounts, RequestWorker, DispatchPending,
     PreconnectGate, PreconnectSem, PreconnectCheck, PreconnectSwap, StopStaged,
     PreconnectRetry, StopVictim, ShutdownStops, ProcessExits, GraceElapses,
     CheckWorkersSignals, Cancel, ShutdownWaits, Exit, TrackConn, UntrackConn
<1>2. \/ UNCHANGED phase
      \/ phase = "running" /\ phase' = "ctx"
      \/ phase = "root" /\ phase' = "waited"
      \/ phase = "cleared" /\ phase' = "exited"
  BY DEF TryCreateGivesUp, Launch, LaunchFails, TunReady, TunFails, StopUnpublished,
     WarmerStep, WarmerWakes, WarmerCounts, RequestWorker, DispatchPending,
     PreconnectGate, PreconnectSem, PreconnectCheck, PreconnectSwap, StopStaged,
     PreconnectRetry, StopVictim, ShutdownStops, ProcessExits, GraceElapses,
     CheckWorkersSignals, Cancel, ShutdownWaits, Exit, TrackConn, UntrackConn
<1>3. isOpen' = isOpen
  BY <1>2 DEF isOpen, RootCancelled
<1>4. QED
  BY <1>1, <1>3, StutterStep

\* Each action of the manager, as the slot pool sees it.
LEMMA SimulationStep == IInv /\ [Next]_vars => SlotStep
<1> SUFFICES ASSUME IInv, [Next]_vars
             PROVE  SlotStep
  OBVIOUS
<1>1. CASE UNCHANGED vars
  BY <1>1, StutterStep DEF vars, isOpen, RootCancelled
<1>2. ASSUME NEW p \in Proc, ReleaseAfterFailure(p) \/ ReleaseStaged(p)
      PROVE  SlotStep
  <2>1. /\ pc[p] \in Holding /\ usedIndexes' = usedIndexes \ {held[p]}
        /\ UNCHANGED workers /\ isOpen' = isOpen
    BY <1>2 DEF ReleaseAfterFailure, ReleaseStaged, Holding, isOpen, RootCancelled
  <2>2. QED
    BY <2>1, GiveBackStep
<1>3. ASSUME NEW p \in Proc, PublishWorker(p)
      PROVE  SlotStep
  <2>1. pc[p] = "made" /\ pc[p] \in Holding /\ isOpen' = isOpen
    BY <1>3 DEF PublishWorker, Holding, isOpen, RootCancelled
  <2>2. CASE RootCancelled
    BY <1>3, <2>1, <2>2, GiveBackStep DEF PublishWorker
  <2>3. CASE ~RootCancelled
    BY <1>3, <2>1, <2>3, GoLiveStep DEF PublishWorker
  <2>4. QED
    BY <2>2, <2>3
<1>4. ASSUME NEW c \in Cell, PreconnectPublish(c)
      PROVE  SlotStep
  <2>1. c \in Proc /\ pc[c] = "made" /\ UNCHANGED usedIndexes /\ isOpen' = isOpen
    BY <1>4 DEF PreconnectPublish, isOpen, RootCancelled, Proc
  <2>2. CASE ~RootCancelled /\ StillOurs(c)
    BY <1>4, <2>1, <2>2, GoLiveStep DEF PreconnectPublish
  <2>3. CASE ~(~RootCancelled /\ StillOurs(c))
    BY <1>4, <2>1, <2>3, StutterStep DEF PreconnectPublish
  <2>4. QED
    BY <2>2, <2>3
<1>5. ASSUME NEW aged, NEW unused, CheckWorkers(aged, unused)
      PROVE  SlotStep
  <2>1. PICK gone \in SUBSET Mapped :
           /\ workers' = [i \in Index |-> IF workers[i] \in gone THEN None ELSE workers[i]]
           /\ usedIndexes' = usedIndexes \ {index[c] : c \in gone}
    BY <1>5 DEF CheckWorkers
  <2>2. isOpen' = isOpen
    BY <1>5 DEF CheckWorkers, isOpen, RootCancelled
  <2>3. QED
    BY <2>1, <2>2, RetireStep
<1>6. CASE ShutdownTakesAll
  <2>1. workers' = [i \in Index |-> IF workers[i] \in Mapped THEN None ELSE workers[i]]
    BY <1>6 DEF ShutdownTakesAll, Mapped
  <2>2. isOpen' = isOpen
    BY <1>6 DEF ShutdownTakesAll, isOpen, RootCancelled
  <2>3. QED
    BY <1>6, <2>1, <2>2, RetireStep DEF ShutdownTakesAll
<1>7. CASE RootCancel
  <2>1. UNCHANGED <<workers, usedIndexes>> /\ RootCancelled'
    BY <1>7 DEF RootCancel, RootCancelled
  <2>2. Slots!Close
    BY <2>1 DEF Slots!Close
  <2>3. QED
    BY <2>2 DEF SlotStep, Slots!SlotNext
<1>8. QED
  BY <1>1, <1>2, <1>3, <1>4, <1>5, <1>6, <1>7, ReserveStep, OtherStep
     DEF Next, Terminated, Creator, TryCreate, Preconnect, HealthStep, ShutdownStep,
         Environment, Proc

\* acquireIndex, releaseIndex, publishWorker, preconnectWorker's swap, checkWorkers and
\* Shutdown, from all goroutines together, implement the slot pool: what SlotPool
\* promises holds of the manager.
THEOREM ManagerImplementsSlotPool == Spec => ImplementsSlotPool
<1>1. Init => Slots!SlotInit
  BY DEF Init, Slots!SlotInit, RootCancelled
<1>2. IInv /\ [Next]_vars => [Slots!SlotNext]_(Slots!slotVars)
  BY SimulationStep DEF SlotStep
<1>3. QED
  BY OwnershipInvariant, <1>1, <1>2, PTL DEF Spec, ImplementsSlotPool, Slots!SlotSpec
=============================================================================
