--------------------------- MODULE Rotation_proofs ---------------------------
(***************************************************************************)
(* The rotation of workers, for every set of cells, countries, servers and *)
(* keys and every pool size: the coordinator keeps to its footprint, and   *)
(* its one-slot signal loses no worker.                                    *)
(***************************************************************************)
EXTENDS WorkerManager_proofs

USE DEF kernel, objects, pool, signals, procs, health, main

-----------------------------------------------------------------------------
(***************************************************************************)
(* The inductive invariant.  How many workers are being replaced depends   *)
(* on which workers have a goroutine: only ones that were told to wait, so *)
(* that none of them comes due again, and none that is still being built.  *)
(***************************************************************************)

\* A worker that is being built has no replacement goroutine and does not wait for
\* replacement.
MadeInv ==
    \A p \in Proc : made[p] # None => pc[made[p]] = "done" /\ state[made[p]] # "awaiting"

\* A worker with a replacement goroutine waits to be replaced or is closing.
InflightInv == \A c \in Cell : pc[c] # "done" => state[c] \in {"awaiting", "closing"}

\* A goroutine that discards a replacement because its worker does not need one ends
\* without that worker waiting.
UnstageInv ==
    phase = "running" =>
       \A c \in Cell : pc[c] \in {"unstage", "unhold"} => c \notin Awaiting

\* The workers that count against the footprint, or did while they had connections.
Rotating == {c \in Mapped : \/ state[c] = "closing"
                            \/ state[c] = "awaiting" /\ c \in Inflight}

RotationInv ==
    MadeInv /\ InflightInv /\ UnstageInv /\ RotationFootprint /\ NoLostRotationSignal

RInv == IInv /\ RotationInv

\* Workers are finitely many, so subsets have no more of them.
LEMMA CellsFinite ==
    ASSUME NEW S \in SUBSET Cell, NEW T \in SUBSET S
    PROVE  /\ IsFiniteSet(S) /\ Cardinality(S) \in Nat
           /\ IsFiniteSet(T) /\ Cardinality(T) \in Nat
           /\ Cardinality(T) <= Cardinality(S)
<1>1. IsFiniteSet(S) /\ Cardinality(S) \in Nat
  BY CellAssumption, FS_Subset, FS_CardinalityType
<1>2. IsFiniteSet(T) /\ Cardinality(T) \in Nat /\ Cardinality(T) <= Cardinality(S)
  BY <1>1, FS_Subset, FS_CardinalityType
<1>3. QED
  BY <1>1, <1>2

\* What is in the pool is a worker, before and after a step.
LEMMA MappedType ==
    ASSUME IInv, IInv'
    PROVE  /\ Mapped \subseteq Cell /\ Mapped' \subseteq Cell
           /\ \A p \in Proc : made[p] \in Cell \cup {None} /\ made'[p] \in Cell \cup {None}
           /\ \A p \in Proc : made[p] # None => made[p] \notin Mapped
  BY DEF IInv, TypeOK, Mapped, OwnerInv

-----------------------------------------------------------------------------
(***************************************************************************)
(* Steps that start no replacement and take no worker out of the pool.     *)
(***************************************************************************)

\* No worker starts to wait, and one that waits goes on or closes.
StateCalm ==
    \A c \in Cell :
       \/ state'[c] = state[c]
       \/ state'[c] = "closing"
       \/ /\ pc[c] = "done" /\ state'[c] # "awaiting"
          /\ c \notin Mapped \/ state[c] \notin {"awaiting", "closing"}

\* No replacement goroutine starts, and one that ends or discards its replacement
\* leaves no waiting worker behind.
PcCalm ==
    \A c \in Cell :
       \/ pc'[c] = pc[c]
       \/ /\ pc[c] # "done"
          /\ pc'[c] = "done" /\ phase' = "running" => c \notin Awaiting'
          /\ pc'[c] \in {"unstage", "unhold"} /\ phase' = "running" =>
                pc[c] = "unstage" \/ c \notin Awaiting

\* Only a worker that was just built enters the pool; one that is being built is
\* not being replaced.
PoolCalm ==
    /\ Mapped \subseteq Mapped'
    /\ \A c \in Mapped' : c \in Mapped \/ (pc[c] = "done" /\ state'[c] # "awaiting")
    /\ \A p \in Proc :
          \/ made'[p] \in {made[p], None}
          \/ pc[made'[p]] = "done" /\ state'[made'[p]] # "awaiting"

\* Signals are kept, and nothing runs again.
SignalCalm ==
    /\ phase' = "running" => phase = "running"
    /\ preconnectSignal => preconnectSignal'
    /\ "preconnect" \in pending => "preconnect" \in pending' \/ preconnectSignal'

\* Such a step keeps the invariant.
LEMMA CalmStep ==
    ASSUME RInv, IInv', StateCalm, PcCalm, PoolCalm, SignalCalm
    PROVE  RotationInv'
<1> USE DEF RInv, RotationInv
<1>1. /\ Mapped \subseteq Cell /\ Mapped' \subseteq Cell
      /\ \A p \in Proc : made[p] \in Cell \cup {None} /\ made'[p] \in Cell \cup {None}
  BY MappedType
<1>2. ASSUME NEW c \in Cell, pc'[c] # "done"
      PROVE  pc[c] # "done" /\ state'[c] \in {state[c], "closing"}
  BY <1>2 DEF PcCalm, StateCalm
<1>3. MadeInv'
  BY <1>1, <1>2 DEF MadeInv, PoolCalm, StateCalm
<1>4. InflightInv'
  BY <1>2 DEF InflightInv
<1>5. ASSUME NEW c \in Awaiting', pc'[c] # "done"
      PROVE  c \in Awaiting /\ pc[c] # "done"
  <2>1. c \in Cell /\ c \in Mapped' /\ state'[c] = "awaiting"
    BY <1>1 DEF Awaiting
  <2>2. pc[c] # "done" /\ state[c] = "awaiting"
    BY <1>2, <1>5, <2>1
  <2>3. QED
    BY <2>1, <2>2 DEF Awaiting, PoolCalm
<1>6. UnstageInv'
  <2> SUFFICES ASSUME phase' = "running", NEW c \in Cell,
                      pc'[c] \in {"unstage", "unhold"}, c \in Awaiting'
               PROVE  FALSE
    BY DEF UnstageInv
  <2>1. c \in Awaiting /\ phase = "running"
    BY <1>5 DEF SignalCalm
  <2>2. pc[c] \in {"unstage", "unhold"}
    BY <2>1 DEF PcCalm
  <2>3. QED
    BY <2>1, <2>2 DEF UnstageInv
<1>7. RotationFootprint'
  <2>1. (Awaiting \cap Inflight)' \in SUBSET (Awaiting \cap Inflight)
    BY <1>5 DEF Inflight
  <2>2. Awaiting \cap Inflight \in SUBSET Cell
    BY DEF Inflight
  <2>3. Cardinality((Awaiting \cap Inflight)') <= Cardinality(Awaiting \cap Inflight)
        /\ Cardinality((Awaiting \cap Inflight)') \in Nat
        /\ Cardinality(Awaiting \cap Inflight) \in Nat
    BY <2>1, <2>2, CellsFinite
  <2>4. QED
    BY <2>3, PoolAssumption DEF RotationFootprint
<1>8. NoLostRotationSignal'
  <2> SUFFICES ASSUME phase' = "running", NEW c \in (Awaiting \ Inflight)'
               PROVE  \/ preconnectSignal' \/ "preconnect" \in pending'
                      \/ MinPoolSize > 0 /\ MinPoolSize <= Cardinality(Rotating')
    BY DEF NoLostRotationSignal, Rotating
  <2>1. c \in Cell /\ c \in Mapped' /\ state'[c] = "awaiting" /\ pc'[c] = "done"
    BY <1>1 DEF Awaiting, Inflight
  <2>2. pc[c] = "done" /\ state[c] = "awaiting"
    BY <2>1 DEF PcCalm, StateCalm
  <2>3. c \in Awaiting \ Inflight /\ phase = "running"
    BY <2>1, <2>2 DEF Awaiting, Inflight, PoolCalm, SignalCalm
  <2>4. ASSUME NEW x \in Rotating
        PROVE  x \in Rotating'
    <3>1. x \in Cell /\ x \in Mapped' /\ x \in Mapped
      BY <1>1 DEF Rotating, PoolCalm
    <3>2. CASE state[x] = "closing"
      BY <3>1, <3>2 DEF StateCalm, Rotating
    <3>3. CASE state[x] = "awaiting" /\ x \in Inflight
      <4>1. state'[x] \in {"awaiting", "closing"} /\ pc[x] # "done"
        BY <3>1, <3>3 DEF StateCalm, Inflight
      <4>2. state'[x] = "awaiting" => pc'[x] # "done"
        BY <3>1, <4>1 DEF PcCalm, Awaiting
      <4>3. QED
        BY <3>1, <4>1, <4>2 DEF Rotating, Inflight
    <3>4. QED
      BY <3>2, <3>3 DEF Rotating
  <2>5. Rotating \in SUBSET Rotating' /\ Rotating' \in SUBSET Cell
    BY <1>1, <2>4 DEF Rotating
  <2>6. /\ Cardinality(Rotating) <= Cardinality(Rotating')
        /\ Cardinality(Rotating) \in Nat /\ Cardinality(Rotating') \in Nat
    BY <2>5, CellsFinite
  <2>7. \/ preconnectSignal \/ "preconnect" \in pending
        \/ MinPoolSize > 0 /\ MinPoolSize <= Cardinality(Rotating)
    BY <2>3 DEF NoLostRotationSignal, Rotating
  <2>8. QED
    BY <2>6, <2>7, PoolAssumption DEF SignalCalm
<1>9. QED
  BY <1>3, <1>4, <1>6, <1>7, <1>8

\* A goroutine moves on.
LEMMA GotoCalm ==
    ASSUME RInv, NEW p \in Proc, NEW l, Goto(p, l), UNCHANGED phase,
           p \in Cell => pc[p] # "done",
           p \in Cell /\ l = "done" /\ phase = "running" => p \notin Awaiting',
           p \in Cell /\ l \in {"unstage", "unhold"} /\ phase = "running" =>
              pc[p] = "unstage" \/ p \notin Awaiting
    PROVE  PcCalm
<1>1. pc \in [Proc -> PCs] /\ Cell \subseteq Proc
  BY DEF RInv, IInv, TypeOK, Proc
<1>2. pc'[p] = l /\ \A c \in Cell : c # p => pc'[c] = pc[c]
  BY <1>1 DEF Goto
<1>3. QED
  BY <1>2 DEF PcCalm

\* Neither the pool nor a creator's worker changes.
LEMMA PoolKept ==
    ASSUME UNCHANGED workers, \A p \in Proc : made'[p] \in {made[p], None}
    PROVE  PoolCalm
  BY DEF PoolCalm, Mapped

\* Worker.Stop only closes.
LEMMA StopCalm ==
    ASSUME RInv, NEW c, Stop(c)
    PROVE  StateCalm
  BY DEF Stop, StateCalm, RInv, IInv, TypeOK

\* The steps of tryCreate and createWorker: a worker is built in an object that is
\* neither in the pool nor being replaced.
LEMMA TryCreateRotation ==
    ASSUME RInv, IInv', NEW p \in Proc, TryCreate(p)
    PROVE  RotationInv'
<1>1. SignalCalm /\ UNCHANGED <<workers, phase>>
  BY DEF TryCreate, TryCreateGivesUp, AcquireIndex, Launch, LaunchFails, TunReady, TunFails,
     ReleaseAfterFailure, SignalCalm
<1>2. PICK l : Goto(p, l) /\ (p \in Cell => l \notin {"done", "unstage", "unhold"})
  BY ProcAssumption DEF TryCreate, TryCreateGivesUp, AcquireIndex, Launch, LaunchFails,
     TunReady, TunFails, ReleaseAfterFailure, AfterFailure
<1>3. pc[p] # "done"
  BY DEF TryCreate, TryCreateGivesUp, AcquireIndex, Launch, LaunchFails, TunReady, TunFails,
     ReleaseAfterFailure
<1>4. PcCalm
  BY <1>1, <1>2, <1>3, GotoCalm
<1>5. CASE UNCHANGED <<state, made>>
  BY <1>1, <1>4, <1>5, CalmStep, PoolKept DEF StateCalm
<1>6. CASE Launch(p)
  <2>1. PICK c \in Cell : /\ index[c] = NoIndex /\ pc[c] = "done"
                          /\ state' = [state EXCEPT ![c] = "creating"]
                          /\ made' = [made EXCEPT ![p] = c]
    BY <1>6 DEF Launch
  <2>2. c \notin Mapped
    BY <2>1, PoolAssumption DEF Mapped, RInv, IInv, IndexInv, Index, NoIndex
  <2>3. state'[c] = "creating" /\ \A x \in Cell : x # c => state'[x] = state[x]
    BY <2>1 DEF RInv, IInv, TypeOK
  <2>4. made'[p] = c /\ \A q \in Proc : q # p => made'[q] = made[q]
    BY <2>1 DEF RInv, IInv, TypeOK
  <2>5. StateCalm
    BY <2>1, <2>2, <2>3 DEF StateCalm
  <2>6. PoolCalm
    BY <1>1, <2>1, <2>3, <2>4 DEF PoolCalm, Mapped
  <2>7. QED
    BY <1>1, <1>4, <2>5, <2>6, CalmStep
<1>7. CASE TunReady(p)
  <2>1. state' = [state EXCEPT ![made[p]] = "ready"] /\ UNCHANGED made /\ pc[p] = "tun"
    BY <1>7 DEF TunReady
  <2>2. made[p] # None /\ made[p] \in Cell
    BY <2>1 DEF RInv, IInv, CreatorInv, Making, TypeOK
  <2>3. made[p] \notin Mapped /\ pc[made[p]] = "done"
    BY <2>2, MappedType DEF RInv, RotationInv, MadeInv
  <2>4. StateCalm
    BY <2>1, <2>2, <2>3 DEF StateCalm, RInv, IInv, TypeOK
  <2>5. QED
    BY <1>1, <1>4, <2>1, <2>4, CalmStep, PoolKept
<1>8. CASE TunFails(p)
  <2>1. Stop(made[p]) /\ made' = [made EXCEPT ![p] = None]
    BY <1>8 DEF TunFails
  <2>2. \A q \in Proc : made'[q] \in {made[q], None}
    BY <2>1 DEF RInv, IInv, TypeOK
  <2>3. QED
    BY <1>1, <1>4, <2>1, <2>2, CalmStep, PoolKept, StopCalm
<1>9. QED
  BY <1>5, <1>6, <1>7, <1>8
     DEF TryCreate, TryCreateGivesUp, AcquireIndex, LaunchFails, ReleaseAfterFailure

\* A publication brings a new worker into the pool, which does not wait and has no
\* replacement goroutine.
LEMMA PublishRotation ==
    ASSUME RInv, IInv', NEW p \in Proc, pc[p] = "made",
           workers' = [workers EXCEPT ![held[p]] = made[p]],
           made' = [made EXCEPT ![p] = None], UNCHANGED state, PcCalm, SignalCalm
    PROVE  RotationInv'
<1>1. /\ held[p] \in Index /\ workers[held[p]] = None
      /\ made[p] # None /\ pc[made[p]] = "done" /\ state[made[p]] # "awaiting"
  BY DEF RInv, IInv, TypeOK, CreatorInv, IndexInv, Holding, Making, RotationInv, MadeInv
<1>2. Mapped' = Mapped \cup {made[p]}
  BY <1>1 DEF Mapped, RInv, IInv, TypeOK
<1>3. \A q \in Proc : made'[q] \in {made[q], None}
  BY DEF RInv, IInv, TypeOK
<1>4. PoolCalm /\ StateCalm
  BY <1>1, <1>2, <1>3 DEF PoolCalm, StateCalm
<1>5. QED
  BY <1>4, CalmStep

\* publishWorker, and the warmer's and the requests' own steps.
LEMMA PoolRotation ==
    ASSUME RInv, IInv',
           \/ WarmerStep \/ (\E k \in Keys : RequestWorker(k))
           \/ \E p \in Proc : PublishWorker(p) \/ StopUnpublished(p)
    PROVE  RotationInv'
<1>1. ASSUME NEW p \in Proc \ Cell, NEW l, Goto(p, l), UNCHANGED phase
      PROVE  PcCalm
  BY <1>1, GotoCalm
<1>2. CASE WarmerStep
  <2>1. Warmer \in Proc \ Cell
    BY ProcAssumption DEF Proc
  <2>2. PcCalm
    BY <1>1, <1>2, <2>1 DEF WarmerStep, WarmerWakes, WarmerCounts
  <2>3. SignalCalm /\ UNCHANGED <<workers, made, state>>
    BY <1>2 DEF WarmerStep, WarmerWakes, WarmerCounts, SignalCalm
  <2>4. QED
    BY <2>2, <2>3, CalmStep, PoolKept DEF StateCalm
<1>3. ASSUME NEW k \in Keys, RequestWorker(k)
      PROVE  RotationInv'
  <2>1. k \in Proc \ Cell
    BY ProcAssumption DEF Proc
  <2>2. PcCalm
    BY <1>1, <1>3, <2>1 DEF RequestWorker
  <2>3. SignalCalm /\ UNCHANGED <<workers, made, state>>
    BY <1>3 DEF RequestWorker, SignalCalm
  <2>4. QED
    BY <2>2, <2>3, CalmStep, PoolKept DEF StateCalm
<1>4. ASSUME NEW p \in Proc, PublishWorker(p)
      PROVE  RotationInv'
  <2>1. PcCalm /\ SignalCalm /\ UNCHANGED state
    BY <1>1, <1>4 DEF PublishWorker, SignalCalm
  <2>2. CASE RootCancelled
    BY <1>4, <2>1, <2>2, CalmStep, PoolKept DEF PublishWorker, StateCalm
  <2>3. CASE ~RootCancelled
    BY <1>4, <2>1, <2>3, PublishRotation DEF PublishWorker
  <2>4. QED
    BY <2>2, <2>3
<1>5. ASSUME NEW p \in Proc, StopUnpublished(p)
      PROVE  RotationInv'
  <2>1. /\ pc[p] = "discard" /\ Stop(made[p]) /\ made' = [made EXCEPT ![p] = None]
        /\ Goto(p, AfterFailure(p)) /\ UNCHANGED <<workers, phase>> /\ SignalCalm
    BY <1>5 DEF StopUnpublished, SignalCalm
  <2>2. p \in Cell => AfterFailure(p) = "backoff"
    BY DEF AfterFailure
  <2>3. PcCalm
    BY <2>1, <2>2, GotoCalm
  <2>4. \A q \in Proc : made'[q] \in {made[q], None}
    BY <2>1 DEF RInv, IInv, TypeOK
  <2>5. QED
    BY <2>1, <2>3, <2>4, CalmStep, PoolKept, StopCalm
<1>6. QED
  BY <1>2, <1>3, <1>4, <1>5

\* preconnectWorker: the goroutine ends when it is cancelled or its worker no longer
\* waits, or closes the worker.
LEMMA PreconnectRotation ==
    ASSUME RInv, IInv', NEW c \in Cell, Preconnect(c)
    PROVE  RotationInv'
<1>1. SignalCalm /\ UNCHANGED phase
  BY DEF Preconnect, PreconnectGate, PreconnectSem, PreconnectCheck, PreconnectPublish,
     PreconnectSwap, StopStaged, ReleaseStaged, PreconnectRetry, SignalCalm
<1>2. c \in Proc /\ c \notin Keys /\ pc[c] # "done"
  BY ProcAssumption DEF Proc, Preconnect, PreconnectGate, PreconnectSem, PreconnectCheck,
     PreconnectPublish, PreconnectSwap, StopStaged, ReleaseStaged, PreconnectRetry
<1>3. Cancelled(c) => phase # "running"
  BY <1>2 DEF Cancelled
<1>4. CASE /\ UNCHANGED <<state, workers, made>>
           /\ \E l : /\ Goto(c, l)
                     /\ l = "done" => phase # "running" \/ c \notin Awaiting
                     /\ l \in {"unstage", "unhold"} => phase # "running" \/ c \notin Awaiting
  <2>1. UNCHANGED Awaiting
    BY <1>4 DEF Awaiting, Mapped
  <2>2. PcCalm
    BY <1>1, <1>2, <1>4, <2>1, GotoCalm
  <2>3. StateCalm /\ PoolCalm
    BY <1>4, PoolKept DEF StateCalm
  <2>4. QED
    BY <1>1, <2>2, <2>3, CalmStep
<1>5. CASE markClosingFromAwaiting(c) /\ Goto(c, "done") /\ UNCHANGED <<workers, made>>
  <2>1. state'[c] # "awaiting" /\ \A x \in Cell : state'[x] \in {state[x], "closing"}
    BY <1>5 DEF markClosingFromAwaiting, RInv, IInv, TypeOK
  <2>2. PcCalm
    BY <1>1, <1>2, <1>5, <2>1, GotoCalm DEF Awaiting
  <2>3. StateCalm /\ PoolCalm
    BY <1>5, <2>1, PoolKept DEF StateCalm
  <2>4. QED
    BY <1>1, <2>2, <2>3, CalmStep
<1>6. CASE PreconnectGate(c) \/ PreconnectSem(c) \/ PreconnectRetry(c)
  BY <1>3, <1>4, <1>6 DEF PreconnectGate, PreconnectSem, PreconnectRetry
<1>7. CASE PreconnectCheck(c)
  BY <1>3, <1>4, <1>5, <1>7 DEF PreconnectCheck, StillOurs
<1>8. CASE PreconnectSwap(c)
  BY <1>5, <1>8 DEF PreconnectSwap
<1>9. CASE PreconnectPublish(c)
  <2>1. pc[c] = "made" /\ UNCHANGED state
    BY <1>9 DEF PreconnectPublish
  <2>2. CASE ~RootCancelled /\ StillOurs(c)
    <3>1. Goto(c, "swap")
      BY <1>9, <2>2 DEF PreconnectPublish
    <3>2. PcCalm
      BY <1>1, <1>2, <3>1, GotoCalm
    <3>3. QED
      BY <1>1, <1>2, <1>9, <2>1, <2>2, <3>2, PublishRotation DEF PreconnectPublish
  <2>3. CASE ~(~RootCancelled /\ StillOurs(c))
    BY <1>4, <1>9, <2>1, <2>3 DEF PreconnectPublish, RootCancelled, StillOurs
  <2>4. QED
    BY <2>2, <2>3
<1>10. CASE StopStaged(c)
  <2>1. /\ pc[c] = "unstage" /\ Stop(made[c]) /\ made' = [made EXCEPT ![c] = None]
        /\ Goto(c, "unhold") /\ UNCHANGED workers
    BY <1>10 DEF StopStaged
  <2>2. PcCalm
    BY <1>1, <1>2, <2>1, GotoCalm
  <2>3. \A q \in Proc : made'[q] \in {made[q], None}
    BY <2>1 DEF RInv, IInv, TypeOK
  <2>4. QED
    BY <1>1, <2>1, <2>2, <2>3, CalmStep, PoolKept, StopCalm
<1>11. CASE ReleaseStaged(c)
  <2>1. phase = "running" => c \notin Awaiting
    BY <1>11 DEF ReleaseStaged, RInv, RotationInv, UnstageInv
  <2>2. QED
    BY <1>4, <1>11, <2>1 DEF ReleaseStaged
<1>12. QED
  BY <1>6, <1>7, <1>8, <1>9, <1>10, <1>11 DEF Preconnect

\* dispatchPending: what it starts fits into the footprint, and a worker is left
\* waiting without a signal only if the footprint is full.
LEMMA DispatchRotation ==
    ASSUME RInv, IInv', DispatchPending
    PROVE  RotationInv'
<1> USE DEF RInv, RotationInv
<1> DEFINE forced == Awaiting \cap overdue
           closing == forced \cup {c \in Mapped : state[c] = "closing"}
           candidates == (Awaiting \ forced) \ Inflight
           replacing == (Awaiting \ forced) \cap Inflight
           draining == {c \in closing : conns[c] > 0}
           footprint == Footprint(closing, replacing)
<1>1. PICK dispatched \in SUBSET candidates :
         /\ MinPoolSize > 0 /\ dispatched # {} =>
               footprint + Cardinality(dispatched) <= MinPoolSize
         /\ dispatched # candidates =>
               /\ MinPoolSize > 0
               /\ footprint + Cardinality(dispatched) >= MinPoolSize
         /\ pc' = [p \in Proc |-> IF p \in dispatched THEN "gate" ELSE pc[p]]
  BY DEF DispatchPending
<1>2. /\ state' = [c \in Cell |-> IF c \in forced THEN "closing" ELSE state[c]]
      /\ UNCHANGED <<workers, made, phase>>
  BY DEF DispatchPending
<1>3. Mapped \subseteq Cell /\ Cell \subseteq Proc /\ Mapped' = Mapped
  BY <1>2, MappedType DEF Proc, Mapped
<1>4. /\ forced \subseteq Awaiting /\ dispatched \subseteq candidates
      /\ Awaiting \subseteq Mapped /\ \A c \in Awaiting : state[c] = "awaiting"
  BY DEF Awaiting
<1>5. Awaiting' = Awaiting \ forced
  BY <1>2, <1>3, <1>4 DEF Awaiting
<1>6. Inflight' = Inflight \cup dispatched
  BY <1>1, <1>3, <1>4 DEF Inflight
<1>7. /\ (Awaiting \cap Inflight)' = replacing \cup dispatched
      /\ replacing \cap dispatched = {}
      /\ (Awaiting \ Inflight)' = candidates \ dispatched
  BY <1>4, <1>5, <1>6
<1>8. Rotating' = closing \cup (replacing \cup dispatched)
  <2>1. \A c \in Cell : state'[c] = "closing" <=> c \in forced \/ state[c] = "closing"
    BY <1>2
  <2>2. {c \in Mapped : state'[c] = "closing"} = closing
    BY <1>3, <1>4, <2>1
  <2>3. {c \in Mapped : state'[c] = "awaiting" /\ c \in Inflight'} = replacing \cup dispatched
    BY <1>3, <1>7 DEF Awaiting
  <2>4. QED
    BY <1>3, <2>2, <2>3 DEF Rotating
<1>9. /\ IsFiniteSet(draining) /\ IsFiniteSet(closing) /\ IsFiniteSet(replacing)
      /\ IsFiniteSet(dispatched)
      /\ Cardinality(draining) \in Nat /\ Cardinality(closing) \in Nat
      /\ Cardinality(replacing) \in Nat /\ Cardinality(dispatched) \in Nat
      /\ Cardinality(draining) <= Cardinality(closing)
  <2>1. closing \in SUBSET Cell /\ replacing \in SUBSET Cell /\ dispatched \in SUBSET Cell
    BY <1>3, <1>4
  <2>2. draining \in SUBSET closing
    OBVIOUS
  <2>3. QED
    BY <2>1, <2>2, CellsFinite
<1>10. footprint = Cardinality(draining) + Cardinality(replacing)
  BY DEF Footprint
<1>11. closing \cap (replacing \cup dispatched) = {}
  BY <1>4 DEF Awaiting
<1> HIDE DEF forced, closing, candidates, replacing, draining, footprint
<1>12. /\ IsFiniteSet(replacing \cup dispatched)
       /\ Cardinality(replacing \cup dispatched) =
             Cardinality(replacing) + Cardinality(dispatched)
  <2>1. Cardinality(replacing \cap dispatched) = 0
    BY <1>7, FS_EmptySet
  <2>2. /\ IsFiniteSet(replacing \cup dispatched)
        /\ Cardinality(replacing \cup dispatched) =
              Cardinality(replacing) + Cardinality(dispatched)
                 - Cardinality(replacing \cap dispatched)
    BY <1>9, FS_Union
  <2>3. QED
    BY <1>9, <2>1, <2>2
<1>13. Cardinality(Rotating') =
          Cardinality(closing) + Cardinality(replacing) + Cardinality(dispatched)
  <2>1. Cardinality(closing \cap (replacing \cup dispatched)) = 0
    BY <1>11, FS_EmptySet
  <2>2. Cardinality(closing \cup (replacing \cup dispatched)) =
           Cardinality(closing) + Cardinality(replacing \cup dispatched)
              - Cardinality(closing \cap (replacing \cup dispatched))
    BY <1>9, <1>12, FS_Union
  <2>3. QED
    BY <1>8, <1>9, <1>12, <2>1, <2>2
<1>14. RotationFootprint'
  <2> SUFFICES ASSUME MinPoolSize > 0
               PROVE  Cardinality((Awaiting \cap Inflight)') <= MinPoolSize
    BY DEF RotationFootprint
  <2>0. MinPoolSize \in Nat
    BY PoolAssumption
  <2>1. CASE dispatched # {}
    <3>1. footprint + Cardinality(dispatched) <= MinPoolSize
      BY <1>1, <2>1
    <3>2. Cardinality((Awaiting \cap Inflight)') =
             Cardinality(replacing) + Cardinality(dispatched)
      BY <1>7, <1>12
    <3>3. QED
      BY <1>9, <1>10, <2>0, <3>1, <3>2
  <2>2. CASE dispatched = {}
    <3>1. /\ replacing \in SUBSET (Awaiting \cap Inflight)
          /\ Awaiting \cap Inflight \in SUBSET Cell
      BY DEF replacing, Inflight
    <3>2. /\ Cardinality(replacing) <= Cardinality(Awaiting \cap Inflight)
          /\ Cardinality(Awaiting \cap Inflight) \in Nat
      BY <3>1, CellsFinite
    <3>3. (Awaiting \cap Inflight)' = replacing
      BY <1>7, <2>2
    <3>4. Cardinality(Awaiting \cap Inflight) <= MinPoolSize
      BY DEF RotationFootprint
    <3>5. QED
      BY <1>9, <2>0, <3>2, <3>3, <3>4
  <2>3. QED
    BY <2>1, <2>2
<1>15. NoLostRotationSignal'
  <2> SUFFICES ASSUME (Awaiting \ Inflight)' # {}
               PROVE  MinPoolSize > 0 /\ MinPoolSize <= Cardinality(Rotating')
    BY DEF NoLostRotationSignal, Rotating
  <2>1. dispatched # candidates
    BY <1>7
  <2>2. QED
    BY <1>1, <1>9, <1>10, <1>13, <2>1, PoolAssumption
<1>16. InflightInv'
  <2> SUFFICES ASSUME NEW c \in Cell, pc'[c] # "done"
               PROVE  state'[c] \in {"awaiting", "closing"}
    BY DEF InflightInv
  <2>1. pc[c] # "done" \/ c \in dispatched
    BY <1>1, <1>3
  <2>2. state[c] \in {"awaiting", "closing"}
    BY <1>4, <2>1 DEF InflightInv, candidates
  <2>3. QED
    BY <1>2, <2>2
<1>17. MadeInv'
  <2> SUFFICES ASSUME NEW p \in Proc, made[p] # None
               PROVE  pc'[made[p]] = "done" /\ state'[made[p]] # "awaiting"
    BY <1>2 DEF MadeInv
  <2>1. made[p] \in Cell /\ made[p] \notin Mapped
    BY MappedType
  <2>2. made[p] \notin dispatched
    BY <1>4, <2>1 DEF candidates
  <2>3. QED
    BY <1>1, <1>2, <1>3, <2>1, <2>2 DEF MadeInv
<1>18. UnstageInv'
  <2> SUFFICES ASSUME phase = "running", NEW c \in Cell, pc'[c] \in {"unstage", "unhold"}
               PROVE  c \notin Awaiting'
    BY <1>2 DEF UnstageInv
  <2>1. pc[c] \in {"unstage", "unhold"}
    BY <1>1, <1>3
  <2>2. QED
    BY <1>5, <2>1 DEF UnstageInv
<1>19. QED
  BY <1>14, <1>15, <1>16, <1>17, <1>18

\* checkWorkers: the workers it tells to wait have no replacement goroutine, and it
\* always signals the coordinator.
LEMMA CheckRotation ==
    ASSUME RInv, IInv', NEW aged, NEW unused, CheckWorkers(aged, unused)
    PROVE  RotationInv'
<1> USE DEF RInv, RotationInv
<1>1. PICK gone \in SUBSET Mapped, expired \in SUBSET Mapped :
         /\ gone \cup expired # {}
         /\ \A c \in expired : state[c] \in {"ready", "idle"}
         /\ state' = [c \in Cell |-> IF c \in expired THEN "awaiting" ELSE state[c]]
         /\ workers' = [i \in Index |-> IF workers[i] \in gone THEN None ELSE workers[i]]
         /\ pending' = SignalsDue(gone, expired)
  BY DEF CheckWorkers
<1>2. UNCHANGED <<pc, made, phase>>
  BY DEF CheckWorkers
<1>3. Mapped \subseteq Cell /\ Mapped' \subseteq Mapped
  BY <1>1, MappedType DEF Mapped
<1>4. ASSUME NEW c \in Cell, pc[c] # "done"
      PROVE  state'[c] = state[c]
  BY <1>1, <1>4 DEF InflightInv
<1>5. MadeInv'
  BY <1>1, <1>2, MappedType DEF MadeInv
<1>6. InflightInv'
  BY <1>2, <1>4 DEF InflightInv
<1>7. UnstageInv'
  BY <1>2, <1>3, <1>4 DEF UnstageInv, Awaiting
<1>8. RotationFootprint'
  <2>1. (Awaiting \cap Inflight)' \in SUBSET (Awaiting \cap Inflight)
    BY <1>2, <1>3, <1>4 DEF Awaiting, Inflight
  <2>2. Awaiting \cap Inflight \in SUBSET Cell
    BY DEF Inflight
  <2>3. /\ Cardinality((Awaiting \cap Inflight)') <= Cardinality(Awaiting \cap Inflight)
        /\ Cardinality((Awaiting \cap Inflight)') \in Nat
        /\ Cardinality(Awaiting \cap Inflight) \in Nat
    BY <2>1, <2>2, CellsFinite
  <2>4. QED
    BY <2>3, PoolAssumption DEF RotationFootprint
<1>9. NoLostRotationSignal'
  BY <1>1 DEF NoLostRotationSignal, SignalsDue
<1>10. QED
  BY <1>5, <1>6, <1>7, <1>8, <1>9

\* The other steps of the health check, Shutdown, clients and the environment.
LEMMA OtherRotation ==
    ASSUME RInv, IInv',
           \/ CheckWorkersSignals \/ ShutdownStep \/ Environment \/ UNCHANGED vars
           \/ \E c \in Cell : StopVictim(c)
    PROVE  RotationInv'
<1>1. CASE ShutdownTakesAll
  <2>1. UNCHANGED <<state, pc, made>> /\ phase' # "running" /\ Mapped' = {}
    BY <1>1 DEF ShutdownTakesAll, Mapped
  <2>2. Awaiting' = {}
    BY <2>1 DEF Awaiting
  <2>3. (Awaiting \cap Inflight)' = {}
    BY <2>2
  <2>4. Cardinality((Awaiting \cap Inflight)') = 0
    BY <2>3, FS_EmptySet
  <2>5. MadeInv' /\ InflightInv'
    BY <2>1 DEF MadeInv, InflightInv, RInv, RotationInv
  <2>6. QED
    BY <2>1, <2>4, <2>5, PoolAssumption
       DEF RotationInv, UnstageInv, RotationFootprint, NoLostRotationSignal
<1>2. ASSUME UNCHANGED <<workers, pc, made>>, SignalCalm, StateCalm
      PROVE  RotationInv'
  BY <1>2, CalmStep, PoolKept DEF PcCalm
<1>3. ASSUME NEW c \in Cell, StopVictim(c) \/ ShutdownStops(c)
      PROVE  RotationInv'
  BY <1>2, <1>3, StopCalm DEF StopVictim, ShutdownStops, SignalCalm
<1>4. CASE \/ CheckWorkersSignals \/ ShutdownWaits \/ Exit \/ Cancel \/ RootCancel
           \/ UNCHANGED vars
           \/ \E c \in Cell : ProcessExits(c) \/ GraceElapses(c)
  <2>1. UNCHANGED <<workers, pc, made, state>>
    BY <1>4 DEF CheckWorkersSignals, ShutdownWaits, Exit, Cancel, RootCancel, vars,
       ProcessExits, GraceElapses
  <2>2. SignalCalm
    <3>1. CASE CheckWorkersSignals
      BY <3>1, Zenon DEF CheckWorkersSignals, SignalCalm
    <3>2. CASE ~CheckWorkersSignals
      BY <1>4, <3>2 DEF ShutdownWaits, Exit, Cancel, RootCancel, vars,
         ProcessExits, GraceElapses, SignalCalm
    <3>3. QED
      BY <3>1, <3>2
  <2>3. QED
    BY <1>2, <2>1, <2>2 DEF StateCalm
<1>5. ASSUME NEW i \in Index, TrackConn(i) \/ UntrackConn(i)
      PROVE  RotationInv'
  <2>1. UNCHANGED <<workers, pc, made>> /\ SignalCalm
    BY <1>5 DEF TrackConn, UntrackConn, SignalCalm
  <2>2. ASSUME NEW x \in Cell
        PROVE  \/ state'[x] = state[x]
               \/ state[x] \in {"ready", "idle"} /\ state'[x] \in {"ready", "idle"}
    BY <1>5 DEF TrackConn, UntrackConn, IncrConns, DecrConns, RInv, IInv, TypeOK
  <2>3. StateCalm
    BY <2>2 DEF StateCalm, RInv, RotationInv, InflightInv
  <2>4. QED
    BY <1>2, <2>1, <2>3
<1>6. QED
  BY <1>1, <1>3, <1>4, <1>5 DEF ShutdownStep, Environment

\* The invariant holds in every interleaving.
LEMMA RotationInvariant == Spec => []RInv
<1>1. Init => RInv
  <2> SUFFICES ASSUME Init
               PROVE  RInv
    OBVIOUS
  <2>1. Awaiting = {}
    BY DEF Init, Awaiting, Mapped
  <2>2. Cardinality(Awaiting \cap Inflight) = 0
    <3>1. Awaiting \cap Inflight = {}
      BY <2>1
    <3>2. QED
      BY <3>1, FS_EmptySet
  <2>3. MadeInv /\ InflightInv
    BY DEF Init, MadeInv, InflightInv, Proc
  <2>4. QED
    BY <2>1, <2>2, <2>3, InitIInv, PoolAssumption
       DEF RInv, RotationInv, UnstageInv, RotationFootprint, NoLostRotationSignal
<1>2. RInv /\ [Next]_vars => RInv'
  <2> SUFFICES ASSUME RInv, [Next]_vars
               PROVE  RInv'
    OBVIOUS
  <2>1. IInv'
    BY IInvStep DEF RInv
  <2>2. RotationInv'
    BY <2>1, TryCreateRotation, PoolRotation, PreconnectRotation, DispatchRotation,
       CheckRotation, OtherRotation DEF Next, Terminated, Creator, HealthStep
  <2>3. QED
    BY <2>1, <2>2 DEF RInv
<1>3. QED
  BY <1>1, <1>2, PTL DEF Spec

-----------------------------------------------------------------------------
\* At most MIN_POOL_SIZE waiting workers are being replaced at a time, however
\* dispatchPending, the replacement goroutines, the health check and clients interleave.
THEOREM FootprintKept == Spec => []RotationFootprint
<1>1. RInv => RotationFootprint
  BY DEF RInv, RotationInv
<1>2. QED
  BY RotationInvariant, <1>1, PTL

\* The one-slot preconnectSignal loses no worker: one that waits and is not being
\* replaced has a signal under way, or the footprint is full (dispatchPending,
\* checkWorkers).
THEOREM SignalNotLost == Spec => []NoLostRotationSignal
<1>1. RInv => NoLostRotationSignal
  BY DEF RInv, RotationInv
<1>2. QED
  BY RotationInvariant, <1>1, PTL
=============================================================================
