------------------------ MODULE WorkerManager_proofs ------------------------
(***************************************************************************)
(* Proofs about WorkerManager, for every set of cells, countries, servers  *)
(* and keys and every pool size.                                           *)
(***************************************************************************)
EXTENDS WorkerManager, FiniteSetTheorems, TLAPS

-----------------------------------------------------------------------------
\* serverCandidates and tryCreate: the number of attempts is a number between 0
\* and createMaxAttempts, whatever country is asked for.
LEMMA AttemptsType ==
    ASSUME NEW k
    PROVE  Attempts(k) \in 0 .. CreateMaxAttempts
<1>1. Len(Servers) \in Nat
  BY ServersAssumption
<1>2. NumCandidates(k) \in Nat
  <2>1. CASE k = AnyCountry
    BY <1>1, <2>1 DEF NumCandidates
  <2>2. CASE k # AnyCountry
    <3> DEFINE S == {n \in 1 .. Len(Servers) : Servers[n] = k}
    <3>1. IsFiniteSet(1 .. Len(Servers))
      BY <1>1, FS_Interval
    <3>2. IsFiniteSet(S)
      BY <3>1, FS_Subset
    <3>3. Cardinality(S) \in Nat
      BY <3>2, FS_CardinalityType
    <3>4. QED
      BY <2>2, <3>3 DEF NumCandidates
  <2>3. QED
    BY <2>1, <2>2
<1>3. QED
  BY <1>2, BoundAssumption DEF Attempts

\* tryCreate: the server an attempt uses is in a discovered country.
LEMMA ServerCountryType ==
    ASSUME NEW p \in Proc, NEW i \in Index \cup {NoIndex},
           NEW n \in 0 .. CreateMaxAttempts
    PROVE  ServerCountry(Wanted(p), i, n) \in Country
<1>1. CASE Wanted(p) = AnyCountry
  <2>1. Len(Servers) \in Nat /\ Len(Servers) > 0
    BY ServersAssumption
  <2>2. i + n \in Int
    BY PoolAssumption, BoundAssumption DEF Index, NoIndex
  <2>3. ((i + n) % Len(Servers)) + 1 \in 1 .. Len(Servers)
    BY <2>1, <2>2
  <2>4. QED
    BY <1>1, <2>3, ServersAssumption DEF ServerCountry
<1>2. CASE Wanted(p) # AnyCountry
  BY <1>2, ProcAssumption DEF ServerCountry, Wanted
<1>3. QED
  BY <1>1, <1>2

-----------------------------------------------------------------------------
(***************************************************************************)
(* Type correctness.  TypeOK is inductive by itself.                       *)
(***************************************************************************)
USE DEF kernel, objects, pool, signals, procs, health, main

\* The labels at which a creating goroutine holds an index, refers to a worker,
\* and holds the index of that worker.
Holding == {"create", "tun", "release", "made", "unstage", "unhold"}
Making == {"tun", "made", "unstage", "discard"}
Staged == {"tun", "made", "unstage"}

\* New and StartPoolWarmer start with the right types.
LEMMA InitType == Init => TypeOK
<1> SUFFICES ASSUME Init
             PROVE  TypeOK
  OBVIOUS
<1>1. grow \in BOOLEAN /\ preconnectSignal \in BOOLEAN
  BY DEF Init
<1>2. pc \in [Proc -> PCs]
  BY DEF Init, PCs
<1>3. /\ held \in [Proc -> Index \cup {NoIndex}]
      /\ attempt \in [Proc -> 0 .. CreateMaxAttempts]
      /\ conns \in [Cell -> 0 .. MaxConns]
  BY BoundAssumption DEF Init
<1>4. QED
  BY <1>1, <1>2, <1>3 DEF Init, TypeOK, States, Phases

\* The label a goroutine continues at is one at which it holds nothing.
LEMMA AfterType ==
    ASSUME NEW p
    PROVE  /\ AfterFailure(p) \in PCs \ (Holding \cup Making)
           /\ AfterPublish(p) \in PCs \ (Holding \cup Making)
           /\ StartAttempt(p) \in PCs \ (Holding \cup Making)
BY DEF AfterFailure, AfterPublish, StartAttempt, PCs, Holding, Making

\* Worker.Stop keeps the types of what it changes.
LEMMA StopType ==
    ASSUME TypeOK, NEW c, Stop(c)
    PROVE  /\ ns' \in [Index -> Cell \cup {None}]
           /\ alive' \subseteq Cell
           /\ state' \in [Cell -> States]
           /\ index' \in [Cell -> Index \cup {NoIndex}]
           /\ country' \in [Cell -> Country \cup {None}]
           /\ conns' \in [Cell -> 0 .. MaxConns]
           /\ overdue' \subseteq Cell
<1>1. ns' \in [Index -> Cell \cup {None}]
  BY DEF TypeOK, Stop, Destroy
<1>2. state' \in [Cell -> States]
  BY DEF TypeOK, Stop, States
<1>3. index' \in [Cell -> Index \cup {NoIndex}]
  BY DEF TypeOK, Stop
<1>4. conns' \in [Cell -> 0 .. MaxConns]
  <2>1. 0 \in 0 .. MaxConns
    BY BoundAssumption
  <2>2. QED
    BY <2>1 DEF TypeOK, Stop
<1>5. country' \in [Cell -> Country \cup {None}]
  BY DEF TypeOK, Stop
<1>6. alive' \subseteq Cell /\ overdue' \subseteq Cell
  BY DEF TypeOK, Stop
<1>7. QED
  BY <1>1, <1>2, <1>3, <1>4, <1>5, <1>6

\* The steps of tryCreate and createWorker.
LEMMA TryCreateType ==
    ASSUME TypeOK, NEW p \in Proc, TryCreate(p)
    PROVE  TypeOK'
<1> USE DEF TypeOK
<1>1. CASE TryCreateGivesUp(p)
  BY <1>1, AfterType, BoundAssumption DEF TryCreateGivesUp, Goto
<1>2. CASE AcquireIndex(p)
  BY <1>2 DEF AcquireIndex, Goto, PCs
<1>3. CASE Launch(p)
  <2>1. PICK c \in Cell :
          /\ ns' = [ns EXCEPT ![held[p]] = c]
          /\ alive' = alive \cup {c}
          /\ state' = [state EXCEPT ![c] = "creating"]
          /\ index' = [index EXCEPT ![c] = held[p]]
          /\ country' = [country EXCEPT
                ![c] = ServerCountry(Wanted(p), held[p], attempt[p])]
          /\ made' = [made EXCEPT ![p] = c]
    BY <1>3 DEF Launch
  <2>2. ServerCountry(Wanted(p), held[p], attempt[p]) \in Country
    BY ServerCountryType
  <2>3. QED
    BY <1>3, <2>1, <2>2 DEF Launch, Goto, PCs, States
<1>4. CASE LaunchFails(p)
  BY <1>4 DEF LaunchFails, Goto, PCs, Destroy
<1>5. CASE TunReady(p)
  BY <1>5, BoundAssumption DEF TunReady, Goto, PCs, States
<1>6. CASE TunFails(p)
  BY <1>6, StopType DEF TunFails, Goto, PCs
<1>7. CASE ReleaseAfterFailure(p)
  BY <1>7, AfterType, AttemptsType, BoundAssumption
     DEF ReleaseAfterFailure, Goto, PCs
<1>8. QED
  BY <1>1, <1>2, <1>3, <1>4, <1>5, <1>6, <1>7 DEF TryCreate

\* The steps of the warmer and of a request, around tryCreate.
LEMMA PublishType ==
    ASSUME TypeOK, NEW p \in Proc,
           PublishWorker(p) \/ StopUnpublished(p) \/ WarmerStep
              \/ (p \in Keys /\ RequestWorker(p))
    PROVE  TypeOK'
<1> USE DEF TypeOK
<1>1. CASE PublishWorker(p)
  BY <1>1, AfterType DEF PublishWorker, Goto, PCs
<1>2. CASE StopUnpublished(p)
  BY <1>2, StopType, AfterType DEF StopUnpublished, Goto
<1>3. CASE WarmerWakes
  BY <1>3 DEF WarmerWakes, Goto, PCs
<1>4. CASE WarmerCounts
  BY <1>4, AfterType DEF WarmerCounts, Goto, PCs
<1>5. CASE RequestWorker(p)
  BY <1>5, AfterType DEF RequestWorker, Goto
<1>6. QED
  BY <1>1, <1>2, <1>3, <1>4, <1>5 DEF WarmerStep

\* The coordinator's step.
LEMMA DispatchType ==
    ASSUME TypeOK, DispatchPending
    PROVE  TypeOK'
<1> USE DEF TypeOK
<1>1. state' \in [Cell -> States]
  BY DEF DispatchPending, States
<1>2. pc' \in [Proc -> PCs]
  BY DEF DispatchPending, PCs
<1>3. grow' \in BOOLEAN /\ preconnectSignal' \in BOOLEAN
  BY Zenon DEF DispatchPending
<1>4. QED
  BY <1>1, <1>2, <1>3 DEF DispatchPending

\* The steps of a preconnect goroutine.
LEMMA PreconnectType ==
    ASSUME TypeOK, NEW c \in Cell, Preconnect(c)
    PROVE  TypeOK'
<1> USE DEF TypeOK
<1>1. CASE PreconnectGate(c)
  BY <1>1 DEF PreconnectGate, Goto, PCs
<1>2. CASE PreconnectSem(c)
  BY <1>2 DEF PreconnectSem, Goto, PCs
<1>3. CASE PreconnectCheck(c)
  BY <1>3 DEF PreconnectCheck, markClosingFromAwaiting, Goto, PCs, States
<1>4. CASE PreconnectPublish(c)
  BY <1>4 DEF PreconnectPublish, Goto, PCs, Proc
<1>5. CASE PreconnectSwap(c)
  BY <1>5 DEF PreconnectSwap, markClosingFromAwaiting, Goto, PCs, States
<1>6. CASE StopStaged(c)
  BY <1>6, StopType DEF StopStaged, Goto, PCs
<1>7. CASE ReleaseStaged(c)
  BY <1>7 DEF ReleaseStaged, Goto, PCs
<1>8. CASE PreconnectRetry(c)
  BY <1>8 DEF PreconnectRetry, Goto, PCs
<1>9. QED
  BY <1>1, <1>2, <1>3, <1>4, <1>5, <1>6, <1>7, <1>8 DEF Preconnect

\* The steps of the health check and of Shutdown.
LEMMA HealthShutdownType ==
    ASSUME TypeOK, HealthStep \/ ShutdownStep
    PROVE  TypeOK'
<1> USE DEF TypeOK
<1>1. ASSUME NEW aged, NEW unused, CheckWorkers(aged, unused)
      PROVE  TypeOK'
  BY <1>1 DEF CheckWorkers, SignalsDue, Mapped, States
<1>2. ASSUME NEW c \in Cell, StopVictim(c)
      PROVE  TypeOK'
  BY <1>2, StopType DEF StopVictim
<1>3. CASE CheckWorkersSignals
  BY <1>3 DEF CheckWorkersSignals
<1>4. CASE ShutdownWaits \/ Exit
  BY <1>4 DEF ShutdownWaits, Exit, Phases
<1>5. CASE ShutdownTakesAll
  BY <1>5 DEF ShutdownTakesAll, Mapped, Phases
<1>6. ASSUME NEW c \in Cell, ShutdownStops(c)
      PROVE  TypeOK'
  BY <1>6, StopType DEF ShutdownStops
<1>7. QED
  BY <1>1, <1>2, <1>3, <1>4, <1>5, <1>6 DEF HealthStep, ShutdownStep

\* The steps of the environment.
LEMMA EnvironmentType ==
    ASSUME TypeOK, Environment
    PROVE  TypeOK'
<1> USE DEF TypeOK
<1>1. CASE Cancel \/ RootCancel
  BY <1>1 DEF Cancel, RootCancel, Phases
<1>2. ASSUME NEW i \in Index, TrackConn(i)
      PROVE  TypeOK'
  BY <1>2, BoundAssumption DEF TrackConn, IncrConns, States
<1>3. ASSUME NEW i \in Index, UntrackConn(i)
      PROVE  TypeOK'
  BY <1>3, BoundAssumption DEF UntrackConn, DecrConns, States
<1>4. ASSUME NEW c \in Cell, ProcessExits(c) \/ GraceElapses(c)
      PROVE  TypeOK'
  BY <1>4 DEF ProcessExits, GraceElapses
<1>5. QED
  BY <1>1, <1>2, <1>3, <1>4 DEF Environment

\* Every step keeps the types.
LEMMA TypeStep == TypeOK /\ [Next]_vars => TypeOK'
<1> SUFFICES ASSUME TypeOK, [Next]_vars
             PROVE  TypeOK'
  OBVIOUS
<1>1. CASE UNCHANGED vars
  BY <1>1 DEF vars, TypeOK
<1>2. ASSUME NEW p \in Proc, Creator(p)
      PROVE  TypeOK'
  BY <1>2, TryCreateType, PublishType DEF Creator
<1>3. CASE WarmerStep
  <2>1. Warmer \in Proc
    BY DEF Proc
  <2>2. QED
    BY <1>3, <2>1, PublishType
<1>4. ASSUME NEW k \in Keys, RequestWorker(k)
      PROVE  TypeOK'
  <2>1. k \in Proc
    BY DEF Proc
  <2>2. QED
    BY <1>4, <2>1, PublishType
<1>5. CASE DispatchPending
  BY <1>5, DispatchType
<1>6. ASSUME NEW c \in Cell, Preconnect(c)
      PROVE  TypeOK'
  BY <1>6, PreconnectType
<1>7. CASE HealthStep \/ ShutdownStep
  BY <1>7, HealthShutdownType
<1>8. CASE Environment
  BY <1>8, EnvironmentType
<1>9. QED
  BY <1>1, <1>2, <1>3, <1>4, <1>5, <1>6, <1>7, <1>8 DEF Next, Terminated

\* Every variable of the manager keeps its type for every pool size, server
\* list and set of concurrent requests; in particular ActiveConns never goes
\* below zero and the attempt counter never passes createMaxAttempts.
THEOREM TypeCorrect == Spec => []TypeOK
BY InitType, TypeStep, PTL DEF Spec

-----------------------------------------------------------------------------
(***************************************************************************)
(* Ownership of indexes, workers, processes and namespaces.                *)
(*                                                                         *)
(* IndexOwnership and SingleOwner are not inductive: whether a release or  *)
(* a Stop is the right one depends on where the goroutine is.  The         *)
(* strengthening ties the program counters to what the goroutines hold.    *)
(***************************************************************************)

\* Each creating goroutine holds an index and a worker exactly at the labels
\* where the code does, and the worker it builds is at the index it holds.
CreatorInv ==
    \A p \in Proc :
       /\ held[p] # NoIndex <=> pc[p] \in Holding
       /\ made[p] # None <=> pc[p] \in Making
       /\ pc[p] \in Staged => index[made[p]] = held[p]
       /\ pc[p] \in Making => index[made[p]] # NoIndex

\* IndexOwnership, by element.
IndexInv ==
    /\ \A p, q \in Proc : p # q /\ held[p] = held[q] => held[p] = NoIndex
    /\ \A i \in Index : workers[i] # None => index[workers[i]] = i
    /\ \A i \in Index, p \in Proc : workers[i] # None => held[p] # i
    /\ \A i \in Index : i \in usedIndexes <=>
          workers[i] # None \/ \E p \in Proc : held[p] = i

\* SingleOwner, by element; and what is to be stopped has not been stopped.
OwnerInv ==
    /\ \A p, q \in Proc : p # q /\ made[p] = made[q] => made[p] = None
    /\ \A p \in Proc, i \in Index : made[p] = workers[i] => made[p] = None
    /\ \A p \in Proc : made[p] \notin victims /\ made[p] \notin stopping
    /\ \A i \in Index : workers[i] \notin victims /\ workers[i] \notin stopping
    /\ \A c \in Cell : ~(c \in victims /\ c \in stopping)
    /\ \A c \in Cell : c \in victims \/ c \in stopping => index[c] # NoIndex

\* The reaper and Shutdown start with nothing left over.
PhaseInv ==
    /\ pending = {} => victims = {}
    /\ phase # "cleared" => stopping = {}
    /\ phase \in {"cleared", "exited"} => \A i \in Index : workers[i] = None

\* What runs or stands in the kernel belongs to a worker that is not stopped.
KernelInv ==
    /\ \A c \in alive : index[c] # NoIndex
    /\ \A i \in Index : ns[i] # None => index[ns[i]] = i
    /\ \A c \in Cell : index[c] # NoIndex =>
          \/ \E i \in Index : workers[i] = c
          \/ \E p \in Proc : made[p] = c
          \/ c \in victims \/ c \in stopping

\* The namespace under an index in use is that of its user, or gone.
NsInv ==
    /\ \A i \in Index : workers[i] # None => ns[i] = workers[i] \/ ns[i] = None
    /\ \A p \in Proc : pc[p] \in Staged => ns[held[p]] = made[p] \/ ns[held[p]] = None

IInv ==
    /\ TypeOK
    /\ CreatorInv /\ IndexInv /\ OwnerInv /\ PhaseInv /\ KernelInv /\ NsInv

\* New starts without workers, and with nothing held.
LEMMA InitIInv == Init => IInv
<1> SUFFICES ASSUME Init
             PROVE  IInv
  OBVIOUS
<1>1. TypeOK
  BY InitType
<1>2. CreatorInv /\ NsInv
  BY DEF Init, CreatorInv, NsInv, Holding, Making, Staged
<1>3. IndexInv /\ OwnerInv /\ PhaseInv /\ KernelInv
  BY DEF Init, IndexInv, OwnerInv, PhaseInv, KernelInv, Index, NoIndex
<1>4. QED
  BY <1>1, <1>2, <1>3 DEF IInv

\* The steps that hand nothing over: at most labels between which a goroutine
\* holds nothing change.
LEMMA QuietStep ==
    ASSUME IInv, TypeOK',
           UNCHANGED <<ns, alive, index, workers, usedIndexes, held, made,
                       victims, stopping>>,
           \A p \in Proc : \/ pc'[p] = pc[p]
                           \/ /\ pc[p] \notin Holding \cup Making
                              /\ pc'[p] \notin Holding \cup Making,
           pending' = {} => victims = {},
           phase' = phase \/ {phase, phase'} \cap {"cleared", "exited"} = {}
    PROVE  IInv'
<1>1. CreatorInv' /\ NsInv'
  BY DEF IInv, CreatorInv, NsInv, Holding, Making, Staged
<1>2. IndexInv' /\ OwnerInv' /\ KernelInv'
  BY DEF IInv, IndexInv, OwnerInv, KernelInv
<1>3. PhaseInv'
  BY DEF IInv, PhaseInv
<1>4. QED
  BY <1>1, <1>2, <1>3 DEF IInv

-----------------------------------------------------------------------------
\* tryCreate takes an index nobody uses.
LEMMA AcquireIndexInv ==
    ASSUME IInv, TypeOK', NEW p \in Proc, AcquireIndex(p)
    PROVE  IInv'
<1> USE DEF IInv
<1>1. PICK i \in Index \ usedIndexes :
         /\ usedIndexes' = usedIndexes \cup {i}
         /\ held' = [held EXCEPT ![p] = i]
  BY DEF AcquireIndex
<1>2. /\ pc[p] = "acquire" /\ pc' = [pc EXCEPT ![p] = "create"]
      /\ UNCHANGED <<ns, alive, index, workers, made, victims, pending, phase, stopping>>
  BY DEF AcquireIndex, Goto
<1>3. CreatorInv'
  BY <1>1, <1>2 DEF TypeOK, CreatorInv, Holding, Making, Staged, Index, NoIndex
<1>4. IndexInv'
  <2>1. workers[i] = None /\ \A q \in Proc : held[q] # i
    BY DEF IndexInv
  <2>2. \A q \in Proc : held'[q] = IF q = p THEN i ELSE held[q]
    BY <1>1 DEF TypeOK
  <2>3. held[p] = NoIndex
    BY <1>2 DEF CreatorInv, Holding
  <2>4. /\ \A q, r \in Proc : q # r /\ held'[q] = held'[r] => held'[q] = NoIndex
        /\ \A j \in Index, q \in Proc : workers[j] # None => held'[q] # j
    BY <2>1, <2>2 DEF IndexInv
  <2>5. ASSUME NEW j \in Index
        PROVE  j \in usedIndexes' <=> workers[j] # None \/ \E q \in Proc : held'[q] = j
    <3>1. CASE j = i
      BY <1>1, <2>2, <3>1
    <3>2. CASE j # i
      <4>1. j # NoIndex
        BY DEF Index, NoIndex
      <4>2. (\E q \in Proc : held'[q] = j) <=> (\E q \in Proc : held[q] = j)
        BY <2>2, <2>3, <3>2, <4>1
      <4>3. QED
        BY <1>1, <3>2, <4>2 DEF IndexInv
    <3>3. QED
      BY <3>1, <3>2
  <2>6. QED
    BY <1>2, <2>4, <2>5 DEF IndexInv
<1>5. OwnerInv' /\ PhaseInv' /\ KernelInv'
  BY <1>2 DEF OwnerInv, PhaseInv, KernelInv
<1>6. NsInv'
  BY <1>1, <1>2 DEF TypeOK, NsInv, Staged
<1>7. QED
  BY <1>3, <1>4, <1>5, <1>6

\* createWorker starts openvpn for a fresh Worker object.
LEMMA LaunchInv ==
    ASSUME IInv, TypeOK', NEW p \in Proc, Launch(p)
    PROVE  IInv'
<1> USE DEF IInv
<1>1. PICK c \in Cell :
         /\ index[c] = NoIndex
         /\ ns' = [ns EXCEPT ![held[p]] = c]
         /\ alive' = alive \cup {c}
         /\ index' = [index EXCEPT ![c] = held[p]]
         /\ made' = [made EXCEPT ![p] = c]
  BY DEF Launch
<1>2. /\ pc[p] = "create" /\ pc' = [pc EXCEPT ![p] = "tun"]
      /\ ns[held[p]] = None
      /\ UNCHANGED <<workers, usedIndexes, held, victims, pending, phase, stopping>>
  BY DEF Launch, Goto, Creatable
<1>3. held[p] \in Index
  BY <1>2 DEF TypeOK, CreatorInv, Holding
<1>4. /\ c # None /\ held[p] # NoIndex /\ made[p] = None
      /\ \A i \in Index : workers[i] # c /\ ns[i] # c
      /\ \A q \in Proc : made[q] # c
      /\ c \notin victims /\ c \notin stopping /\ c \notin alive
  <2>1. c # None
    BY NoneAssumption
  <2>2. held[p] # NoIndex /\ made[p] = None
    BY <1>2 DEF CreatorInv, Holding, Making
  <2>3. \A i \in Index : workers[i] # c /\ ns[i] # c
    BY <1>1, <2>1 DEF IndexInv, KernelInv, Index, NoIndex
  <2>4. \A q \in Proc : made[q] # c
    BY <1>1, <2>1 DEF CreatorInv
  <2>5. c \notin victims /\ c \notin stopping /\ c \notin alive
    BY <1>1 DEF OwnerInv, KernelInv
  <2>6. QED
    BY <2>1, <2>2, <2>3, <2>4, <2>5
<1>5. CreatorInv'
  BY <1>1, <1>2, <1>3, <1>4 DEF TypeOK, CreatorInv, Holding, Making, Staged
<1>6. IndexInv'
  BY <1>1, <1>2, <1>4 DEF TypeOK, IndexInv
<1>7. OwnerInv' /\ PhaseInv'
  BY <1>1, <1>2, <1>4 DEF TypeOK, OwnerInv, PhaseInv
<1>8. KernelInv'
  <2>1. /\ \A d \in alive' : index'[d] # NoIndex
        /\ \A i \in Index : ns'[i] # None => index'[ns'[i]] = i
    BY <1>1, <1>3, <1>4 DEF TypeOK, KernelInv
  <2>2. ASSUME NEW d \in Cell, index'[d] # NoIndex
        PROVE  \/ \E i \in Index : workers'[i] = d
               \/ \E q \in Proc : made'[q] = d
               \/ d \in victims' \/ d \in stopping'
    <3>1. made'[p] = c /\ \A q \in Proc : q # p => made'[q] = made[q]
      BY <1>1 DEF TypeOK
    <3>2. CASE d = c
      BY <3>1, <3>2
    <3>3. CASE d # c
      <4>1. index[d] # NoIndex
        BY <1>1, <2>2, <3>3 DEF TypeOK
      <4>2. \A q \in Proc : made[q] = d => made'[q] = d
        BY <1>4, <3>1, NoneAssumption
      <4>3. QED
        BY <1>2, <4>1, <4>2 DEF KernelInv
    <3>4. QED
      BY <3>2, <3>3
  <2>3. QED
    BY <2>1, <2>2 DEF KernelInv
<1>9. NsInv'
  <2>1. \A i \in Index : workers[i] # None => i # held[p]
    BY DEF IndexInv
  <2>2. \A q \in Proc : q # p => held[q] # held[p]
    BY <1>4 DEF IndexInv
  <2>3. QED
    BY <1>1, <1>2, <1>3, <1>4, <2>1, <2>2 DEF TypeOK, NsInv, CreatorInv, Staged, Holding
<1>10. QED
  BY <1>5, <1>6, <1>7, <1>8, <1>9

\* createWorker fails before openvpn runs.
LEMMA LaunchFailsInv ==
    ASSUME IInv, TypeOK', NEW p \in Proc, LaunchFails(p)
    PROVE  IInv'
<1> USE DEF IInv
<1>1. /\ pc[p] = "create" /\ pc' = [pc EXCEPT ![p] = "release"]
      /\ ns' = [ns EXCEPT ![held[p]] = None] \/ ns' = ns
      /\ UNCHANGED <<alive, index, workers, usedIndexes, held, made, victims,
                     pending, phase, stopping>>
  BY DEF LaunchFails, Goto, Destroy
<1>2. CreatorInv'
  BY <1>1 DEF TypeOK, CreatorInv, Holding, Making, Staged
<1>3. IndexInv' /\ OwnerInv' /\ PhaseInv'
  BY <1>1 DEF IndexInv, OwnerInv, PhaseInv
<1>4. KernelInv' /\ NsInv'
  <2>1. CASE ns' = [ns EXCEPT ![held[p]] = None]
    BY <1>1, <2>1 DEF TypeOK, KernelInv, NsInv, Staged
  <2>2. CASE ns' = ns
    <3>1. KernelInv'
      BY <1>1, <2>2 DEF KernelInv
    <3>2. NsInv'
      BY <1>1, <2>2 DEF TypeOK, NsInv, Staged
    <3>3. QED
      BY <3>1, <3>2
  <2>3. QED
    BY <1>1, <2>1, <2>2
<1>5. QED
  BY <1>2, <1>3, <1>4

\* waitForTun succeeds.
LEMMA TunReadyInv ==
    ASSUME IInv, TypeOK', NEW p \in Proc, TunReady(p)
    PROVE  IInv'
<1> USE DEF IInv
<1>1. /\ pc[p] = "tun" /\ pc' = [pc EXCEPT ![p] = "made"]
      /\ UNCHANGED <<ns, alive, index, workers, usedIndexes, held, made, victims,
                     pending, phase, stopping>>
  BY DEF TunReady, Goto
<1>2. CreatorInv' /\ NsInv'
  BY <1>1 DEF TypeOK, CreatorInv, NsInv, Holding, Making, Staged
<1>3. IndexInv' /\ OwnerInv' /\ PhaseInv' /\ KernelInv'
  BY <1>1 DEF IndexInv, OwnerInv, PhaseInv, KernelInv
<1>4. QED
  BY <1>2, <1>3

\* releaseIndex by the goroutine that holds the index.
LEMMA ReleaseIndexInv ==
    ASSUME IInv, NEW p \in Proc, held[p] # NoIndex,
           usedIndexes' = usedIndexes \ {held[p]},
           held' = [held EXCEPT ![p] = NoIndex],
           UNCHANGED <<workers, index>>
    PROVE  IndexInv'
<1> USE DEF IInv
<1>1. \A q \in Proc : held'[q] = IF q = p THEN NoIndex ELSE held[q]
  BY DEF TypeOK
<1>2. NoIndex \notin Index
  BY DEF Index, NoIndex
<1>3. /\ \A q, r \in Proc : q # r /\ held'[q] = held'[r] => held'[q] = NoIndex
      /\ \A j \in Index, q \in Proc : workers[j] # None => held'[q] # j
  BY <1>1, <1>2 DEF IndexInv
<1>4. ASSUME NEW j \in Index
      PROVE  j \in usedIndexes' <=> workers[j] # None \/ \E q \in Proc : held'[q] = j
  <2>1. CASE j = held[p]
    BY <1>1, <1>2, <2>1 DEF IndexInv
  <2>2. CASE j # held[p]
    BY <1>1, <1>2, <2>2 DEF IndexInv
  <2>3. QED
    BY <2>1, <2>2
<1>5. QED
  BY <1>3, <1>4 DEF IndexInv

\* The failed attempt of tryCreate, and an unwanted replacement once stopped.
LEMMA ReleaseInv ==
    ASSUME IInv, TypeOK', NEW p \in Proc,
           ReleaseAfterFailure(p) \/ ReleaseStaged(p)
    PROVE  IInv'
<1> USE DEF IInv
<1>1. /\ pc[p] \in {"release", "unhold"}
      /\ usedIndexes' = usedIndexes \ {held[p]}
      /\ held' = [held EXCEPT ![p] = NoIndex]
      /\ UNCHANGED <<ns, alive, index, workers, made, victims, pending, phase, stopping>>
  BY DEF ReleaseAfterFailure, ReleaseStaged
<1>2. PICK l \in PCs \ (Holding \cup Making) : pc' = [pc EXCEPT ![p] = l]
  BY AfterType DEF ReleaseAfterFailure, ReleaseStaged, Goto, PCs, Holding, Making
<1>3. CreatorInv'
  BY <1>1, <1>2 DEF TypeOK, CreatorInv, Holding, Making, Staged
<1>4. IndexInv'
  BY <1>1, ReleaseIndexInv DEF CreatorInv, Holding
<1>5. OwnerInv' /\ PhaseInv' /\ KernelInv'
  BY <1>1 DEF OwnerInv, PhaseInv, KernelInv
<1>6. NsInv'
  BY <1>1, <1>2 DEF TypeOK, NsInv, Staged, Making
<1>7. QED
  BY <1>3, <1>4, <1>5, <1>6

\* A worker that is ready enters the pool.
LEMMA EnterPoolInv ==
    ASSUME IInv, TypeOK', NEW p \in Proc, NEW l \in PCs \ (Holding \cup Making),
           pc[p] = "made", pc' = [pc EXCEPT ![p] = l], ~RootCancelled,
           workers' = [workers EXCEPT ![held[p]] = made[p]],
           held' = [held EXCEPT ![p] = NoIndex],
           made' = [made EXCEPT ![p] = None],
           UNCHANGED <<ns, alive, index, usedIndexes, victims, pending, phase, stopping>>
    PROVE  IInv'
<1> USE DEF IInv
<1>1. /\ held[p] \in Index /\ made[p] \in Cell /\ made[p] # None
      /\ index[made[p]] = held[p]
  BY NoneAssumption DEF TypeOK, CreatorInv, Holding, Making, Staged
<1>2. /\ \A q \in Proc : held'[q] = IF q = p THEN NoIndex ELSE held[q]
      /\ \A q \in Proc : made'[q] = IF q = p THEN None ELSE made[q]
      /\ \A i \in Index : workers'[i] = IF i = held[p] THEN made[p] ELSE workers[i]
  BY DEF TypeOK
<1>3. workers[held[p]] = None /\ NoIndex \notin Index
  BY <1>1 DEF IndexInv, Index, NoIndex
<1>4. CreatorInv'
  BY <1>2 DEF TypeOK, CreatorInv, Holding, Making, Staged
<1>5. IndexInv'
  <2>1. \A q, r \in Proc : q # r /\ held'[q] = held'[r] => held'[q] = NoIndex
    BY <1>2 DEF IndexInv
  <2>2. \A i \in Index : workers'[i] # None => index[workers'[i]] = i
    BY <1>1, <1>2 DEF IndexInv
  <2>3. \A i \in Index, q \in Proc : workers'[i] # None => held'[q] # i
    BY <1>1, <1>2, <1>3 DEF IndexInv
  <2>4. \A i \in Index : i \in usedIndexes <=>
           workers'[i] # None \/ \E q \in Proc : held'[q] = i
    BY <1>1, <1>2, <1>3 DEF IndexInv
  <2>5. QED
    BY <2>1, <2>2, <2>3, <2>4 DEF IndexInv
<1>6. OwnerInv'
  <2>1. /\ \A q, r \in Proc : q # r /\ made'[q] = made'[r] => made'[q] = None
        /\ \A q \in Proc : made'[q] \notin victims /\ made'[q] \notin stopping
    BY <1>2, NoneAssumption DEF OwnerInv, TypeOK
  <2>2. \A q \in Proc, i \in Index : made'[q] = workers'[i] => made'[q] = None
    BY <1>1, <1>2 DEF OwnerInv
  <2>3. \A i \in Index : workers'[i] \notin victims /\ workers'[i] \notin stopping
    BY <1>2 DEF OwnerInv
  <2>4. QED
    BY <2>1, <2>2, <2>3 DEF OwnerInv
<1>7. PhaseInv'
  BY DEF PhaseInv, RootCancelled
<1>8. KernelInv'
  BY <1>1, <1>2, <1>3 DEF KernelInv, TypeOK
<1>9. NsInv'
  <2>1. ns[held[p]] = made[p] \/ ns[held[p]] = None
    BY DEF NsInv, Staged
  <2>2. \A q \in Proc : q # p => pc'[q] = pc[q]
    BY DEF TypeOK
  <2>3. pc'[p] \notin Staged
    BY DEF TypeOK, Staged, Making
  <2>4. QED
    BY <1>1, <1>2, <2>1, <2>2, <2>3 DEF NsInv
<1>10. QED
  BY <1>4, <1>5, <1>6, <1>7, <1>8, <1>9

\* publishWorker and its counterpart in preconnectWorker.
LEMMA PublishInv ==
    ASSUME IInv, TypeOK', NEW p \in Proc,
           PublishWorker(p) \/ (p \in Cell /\ PreconnectPublish(p))
    PROVE  IInv'
<1> USE DEF IInv
<1>1. CASE PublishWorker(p) /\ RootCancelled
  <2>1. /\ pc[p] = "made" /\ pc' = [pc EXCEPT ![p] = "discard"]
        /\ usedIndexes' = usedIndexes \ {held[p]}
        /\ held' = [held EXCEPT ![p] = NoIndex]
        /\ UNCHANGED <<ns, alive, index, workers, made, victims, pending, phase, stopping>>
    BY <1>1 DEF PublishWorker, Goto
  <2>2. CreatorInv'
    BY <2>1 DEF TypeOK, CreatorInv, Holding, Making, Staged
  <2>3. IndexInv'
    BY <2>1, ReleaseIndexInv DEF CreatorInv, Holding
  <2>4. OwnerInv' /\ PhaseInv' /\ KernelInv'
    BY <2>1 DEF OwnerInv, PhaseInv, KernelInv
  <2>5. NsInv'
    BY <2>1 DEF TypeOK, NsInv, Staged
  <2>6. QED
    BY <2>2, <2>3, <2>4, <2>5
<1>2. CASE PublishWorker(p) /\ ~RootCancelled
  <2>1. /\ pc[p] = "made" /\ pc' = [pc EXCEPT ![p] = AfterPublish(p)]
        /\ workers' = [workers EXCEPT ![held[p]] = made[p]]
        /\ held' = [held EXCEPT ![p] = NoIndex]
        /\ made' = [made EXCEPT ![p] = None]
        /\ UNCHANGED <<ns, alive, index, usedIndexes, victims, pending, phase, stopping>>
    BY <1>2 DEF PublishWorker, Goto
  <2>2. QED
    BY <1>2, <2>1, AfterType, EnterPoolInv
<1>3. CASE p \in Cell /\ PreconnectPublish(p) /\ ~RootCancelled /\ StillOurs(p)
  <2>1. "swap" \in PCs \ (Holding \cup Making)
    BY DEF PCs, Holding, Making
  <2>2. QED
    BY <1>3, <2>1, EnterPoolInv DEF PreconnectPublish, Goto
<1>4. CASE p \in Cell /\ PreconnectPublish(p) /\ ~(~RootCancelled /\ StillOurs(p))
  <2>1. /\ pc[p] = "made" /\ pc' = [pc EXCEPT ![p] = "unstage"]
        /\ UNCHANGED <<ns, alive, index, workers, usedIndexes, held, made, victims,
                       pending, phase, stopping>>
    BY <1>4 DEF PreconnectPublish, Goto
  <2>2. CreatorInv' /\ NsInv'
    BY <2>1 DEF TypeOK, CreatorInv, NsInv, Holding, Making, Staged
  <2>3. IndexInv' /\ OwnerInv' /\ PhaseInv' /\ KernelInv'
    BY <2>1 DEF IndexInv, OwnerInv, PhaseInv, KernelInv
  <2>4. QED
    BY <2>2, <2>3
<1>5. QED
  BY <1>1, <1>2, <1>3, <1>4

\* Worker.Stop of a worker its creator still refers to: after a failed
\* waitForTun, by publishWorker after Shutdown, or of an unwanted replacement.
LEMMA StopMadeInv ==
    ASSUME IInv, TypeOK', NEW p \in Proc,
           TunFails(p) \/ StopUnpublished(p) \/ StopStaged(p)
    PROVE  IInv'
<1> USE DEF IInv
<1> DEFINE c == made[p]
<1>1. /\ pc[p] \in {"tun", "discard", "unstage"}
      /\ ns' = [ns EXCEPT ![index[c]] = None]
      /\ alive' = alive \ {c}
      /\ index' = [index EXCEPT ![c] = NoIndex]
      /\ made' = [made EXCEPT ![p] = None]
      /\ UNCHANGED <<workers, usedIndexes, held, victims, pending, phase, stopping>>
  BY DEF TunFails, StopUnpublished, StopStaged, Stop, Destroy
<1>2. PICK l \in PCs \ Making :
         /\ pc' = [pc EXCEPT ![p] = l]
         /\ l \in Holding <=> pc[p] \in Holding
  BY AfterType DEF TunFails, StopUnpublished, StopStaged, Goto, PCs, Holding, Making
<1>3. c \in Cell /\ c # None /\ index[c] \in Index
  BY <1>1, NoneAssumption DEF TypeOK, CreatorInv, Making
<1> HIDE DEF c
<1>4. /\ \A q \in Proc : made'[q] = IF q = p THEN None ELSE made[q]
      /\ \A d \in Cell : index'[d] = IF d = c THEN NoIndex ELSE index[d]
      /\ \A i \in Index : ns'[i] = IF i = index[c] THEN None ELSE ns[i]
  BY <1>1, <1>3 DEF TypeOK
<1>5. /\ \A i \in Index : workers[i] # c
      /\ \A q \in Proc : q # p => made[q] # c
      /\ c \notin victims /\ c \notin stopping
  BY <1>3 DEF OwnerInv, c
<1>6. CreatorInv'
  BY <1>1, <1>2, <1>3, <1>4, <1>5 DEF TypeOK, CreatorInv, Holding, Making, Staged
<1>7. IndexInv'
  BY <1>1, <1>4, <1>5 DEF TypeOK, IndexInv
<1>8. OwnerInv' /\ PhaseInv'
  <2>1. /\ \A q, r \in Proc : q # r /\ made'[q] = made'[r] => made'[q] = None
        /\ \A q \in Proc, i \in Index : made'[q] = workers[i] => made'[q] = None
    BY <1>4 DEF OwnerInv
  <2>2. \A q \in Proc : made'[q] \notin victims /\ made'[q] \notin stopping
    BY <1>4, NoneAssumption DEF OwnerInv, TypeOK
  <2>3. \A d \in Cell : d \in victims \/ d \in stopping => index'[d] # NoIndex
    BY <1>4, <1>5 DEF OwnerInv
  <2>4. QED
    BY <1>1, <2>1, <2>2, <2>3 DEF OwnerInv, PhaseInv
<1>9. KernelInv'
  <2>1. /\ \A d \in alive' : index'[d] # NoIndex
        /\ \A i \in Index : ns'[i] # None => index'[ns'[i]] = i
    BY <1>1, <1>4 DEF TypeOK, KernelInv
  <2>2. \A d \in Cell : index'[d] # NoIndex =>
           \/ \E i \in Index : workers[i] = d
           \/ \E q \in Proc : made'[q] = d
           \/ d \in victims \/ d \in stopping
    BY <1>4 DEF KernelInv, c
  <2>3. QED
    BY <1>1, <2>1, <2>2 DEF KernelInv
<1>10. NsInv'
  BY <1>1, <1>2, <1>4 DEF TypeOK, NsInv, CreatorInv, Staged, Making, Holding
<1>11. QED
  BY <1>6, <1>7, <1>8, <1>9, <1>10

\* Worker.Stop of a worker that has left the pool, by the health check or by
\* Shutdown.
LEMMA StopRetiredInv ==
    ASSUME IInv, TypeOK', NEW c \in Cell, StopVictim(c) \/ ShutdownStops(c)
    PROVE  IInv'
<1> USE DEF IInv
<1>1. /\ ns' = [ns EXCEPT ![index[c]] = None]
      /\ alive' = alive \ {c}
      /\ index' = [index EXCEPT ![c] = NoIndex]
      /\ UNCHANGED <<workers, usedIndexes, pc, held, made, pending, phase>>
  BY DEF StopVictim, ShutdownStops, Stop, Destroy
<1>2. /\ c \in victims \/ c \in stopping
      /\ victims' = victims \ {c} /\ stopping' = stopping \ {c}
  BY DEF StopVictim, ShutdownStops, OwnerInv
<1>3. c # None /\ index[c] \in Index
  BY <1>2, NoneAssumption DEF TypeOK, OwnerInv
<1>4. /\ \A d \in Cell : index'[d] = IF d = c THEN NoIndex ELSE index[d]
      /\ \A i \in Index : ns'[i] = IF i = index[c] THEN None ELSE ns[i]
  BY <1>1, <1>3 DEF TypeOK
<1>5. /\ \A i \in Index : workers[i] # c
      /\ \A q \in Proc : made[q] # c
  BY <1>2 DEF OwnerInv
<1>6. CreatorInv'
  BY <1>1, <1>3, <1>4, <1>5 DEF TypeOK, CreatorInv, Making, Staged
<1>7. IndexInv'
  BY <1>1, <1>4, <1>5 DEF TypeOK, IndexInv
<1>8. OwnerInv' /\ PhaseInv'
  BY <1>1, <1>2, <1>4 DEF OwnerInv, PhaseInv
<1>9. KernelInv'
  <2>1. /\ \A d \in alive' : index'[d] # NoIndex
        /\ \A i \in Index : ns'[i] # None => index'[ns'[i]] = i
    BY <1>1, <1>4 DEF TypeOK, KernelInv
  <2>2. \A d \in Cell : index'[d] # NoIndex =>
           \/ \E i \in Index : workers[i] = d
           \/ \E q \in Proc : made[q] = d
           \/ d \in victims' \/ d \in stopping'
    BY <1>2, <1>4 DEF KernelInv
  <2>3. QED
    BY <1>1, <2>1, <2>2 DEF KernelInv
<1>10. NsInv'
  BY <1>1, <1>4 DEF TypeOK, NsInv, CreatorInv, Staged, Holding
<1>11. QED
  BY <1>6, <1>7, <1>8, <1>9, <1>10

\* Workers leave the pool and their indexes are released, in checkWorkers and
\* in Shutdown; they are stopped later.
LEMMA LeavePoolInv ==
    ASSUME IInv, TypeOK', NEW gone \in SUBSET Mapped,
           workers' = [i \in Index |-> IF workers[i] \in gone THEN None ELSE workers[i]],
           usedIndexes' = usedIndexes \ {index[c] : c \in gone},
           \/ victims' = victims \cup gone /\ UNCHANGED stopping
           \/ stopping' = stopping \cup gone /\ UNCHANGED victims,
           UNCHANGED <<ns, alive, index, pc, held, made>>
    PROVE  CreatorInv' /\ IndexInv' /\ OwnerInv' /\ KernelInv' /\ NsInv'
<1> USE DEF IInv
<1>1. \A i \in Index : workers'[i] = IF workers[i] \in gone THEN None ELSE workers[i]
  OBVIOUS
<1>2. /\ None \notin gone /\ gone \subseteq Cell
      /\ \A c \in gone : \E i \in Index : workers[i] = c /\ index[c] = i
  BY DEF Mapped, TypeOK, IndexInv
<1>3. CreatorInv' /\ NsInv'
  BY <1>1 DEF CreatorInv, NsInv
<1>4. \A i \in Index : i \in {index[c] : c \in gone} <=> workers[i] \in gone
  BY <1>2 DEF IndexInv
<1>5. IndexInv'
  <2>1. /\ \A i \in Index : workers'[i] # None => index[workers'[i]] = i
        /\ \A i \in Index, p \in Proc : workers'[i] # None => held[p] # i
    BY <1>1 DEF IndexInv
  <2>2. ASSUME NEW i \in Index
        PROVE  i \in usedIndexes' <=> workers'[i] # None \/ \E p \in Proc : held[p] = i
    BY <1>1, <1>2, <1>4 DEF IndexInv
  <2>3. QED
    BY <2>1, <2>2 DEF IndexInv
<1>6. OwnerInv'
  <2>1. /\ \A p \in Proc, i \in Index : made[p] = workers'[i] => made[p] = None
        /\ \A p \in Proc : made[p] \notin gone
    BY <1>1, <1>2 DEF OwnerInv
  <2>2. \A i \in Index : /\ workers'[i] \notin victims /\ workers'[i] \notin stopping
                         /\ workers'[i] \notin gone
    BY <1>1, <1>2, NoneAssumption DEF OwnerInv, TypeOK
  <2>3. \A c \in gone : /\ c \notin victims /\ c \notin stopping
                       /\ index[c] # NoIndex
    BY <1>2 DEF OwnerInv, Index, NoIndex
  <2>4. QED
    BY <2>1, <2>2, <2>3 DEF OwnerInv
<1>7. KernelInv'
  <2>1. \A c \in Cell : (\E i \in Index : workers[i] = c) =>
           c \in gone \/ \E i \in Index : workers'[i] = c
    BY <1>1
  <2>2. QED
    BY <2>1 DEF KernelInv
<1>8. QED
  BY <1>3, <1>5, <1>6, <1>7

\* checkWorkers under the lock.
LEMMA CheckWorkersInv ==
    ASSUME IInv, TypeOK', NEW aged, NEW unused, CheckWorkers(aged, unused)
    PROVE  IInv'
<1> USE DEF IInv
<1>1. victims = {}
  BY DEF CheckWorkers, PhaseInv
<1>2. PICK gone \in SUBSET Mapped :
         /\ workers' = [i \in Index |-> IF workers[i] \in gone THEN None ELSE workers[i]]
         /\ usedIndexes' = usedIndexes \ {index[c] : c \in gone}
         /\ victims' = gone
         /\ gone # {} => pending' # {}
  BY DEF CheckWorkers, SignalsDue
<1>3. UNCHANGED <<ns, alive, index, pc, held, made, phase, stopping>>
  BY DEF CheckWorkers
<1>4. CreatorInv' /\ IndexInv' /\ OwnerInv' /\ KernelInv' /\ NsInv'
  BY <1>1, <1>2, <1>3, LeavePoolInv
<1>5. PhaseInv'
  BY <1>2, <1>3 DEF PhaseInv
<1>6. QED
  BY <1>4, <1>5

\* Shutdown empties the pool.
LEMMA ShutdownTakesAllInv ==
    ASSUME IInv, TypeOK', ShutdownTakesAll
    PROVE  IInv'
<1> USE DEF IInv
<1>1. stopping = {}
  BY DEF ShutdownTakesAll, PhaseInv
<1>2. workers' = [i \in Index |-> IF workers[i] \in Mapped THEN None ELSE workers[i]]
  BY DEF ShutdownTakesAll, Mapped
<1>3. CreatorInv' /\ IndexInv' /\ OwnerInv' /\ KernelInv' /\ NsInv'
  BY <1>1, <1>2, LeavePoolInv DEF ShutdownTakesAll
<1>4. PhaseInv'
  BY DEF PhaseInv, ShutdownTakesAll
<1>5. QED
  BY <1>3, <1>4

\* openvpn ends by itself, or main returns.
LEMMA ExitInv ==
    ASSUME IInv, TypeOK', Exit \/ \E c \in Cell : ProcessExits(c)
    PROVE  IInv'
<1> USE DEF IInv
<1>1. /\ alive' \subseteq alive
      /\ UNCHANGED <<ns, index, workers, usedIndexes, pc, held, made, victims,
                     pending, stopping>>
      /\ phase' = phase \/ (phase = "cleared" /\ stopping = {} /\ phase' = "exited")
  BY DEF Exit, ProcessExits
<1>2. CreatorInv' /\ IndexInv' /\ NsInv'
  BY <1>1 DEF CreatorInv, IndexInv, NsInv
<1>3. OwnerInv' /\ PhaseInv' /\ KernelInv'
  BY <1>1 DEF OwnerInv, PhaseInv, KernelInv
<1>4. QED
  BY <1>2, <1>3

\* The steps of the warmer, of requests, of the coordinator, of clients and of
\* main that hand nothing over.
LEMMA QuietInv ==
    ASSUME IInv, TypeOK',
           \/ \E p \in Proc : TryCreateGivesUp(p)
           \/ WarmerStep \/ DispatchPending \/ CheckWorkersSignals
           \/ \E k \in Keys : RequestWorker(k)
           \/ \E c \in Cell : \/ PreconnectGate(c) \/ PreconnectSem(c)
                              \/ PreconnectCheck(c) \/ PreconnectSwap(c)
                              \/ PreconnectRetry(c) \/ GraceElapses(c)
           \/ \E i \in Index : TrackConn(i) \/ UntrackConn(i)
           \/ Cancel \/ RootCancel \/ ShutdownWaits
    PROVE  IInv'
<1> DEFINE Q(p) == \/ pc'[p] = pc[p]
                   \/ /\ pc[p] \notin Holding \cup Making
                      /\ pc'[p] \notin Holding \cup Making
<1> USE DEF IInv
<1>1. CASE \E p \in Proc : TryCreateGivesUp(p)
  <2>1. \A q \in Proc : Q(q)
    BY <1>1, AfterType DEF TryCreateGivesUp, Goto, TypeOK, Holding, Making
  <2>2. QED
    BY <1>1, <2>1, QuietStep DEF TryCreateGivesUp, PhaseInv
<1>2. CASE WarmerStep
  <2>1. \A q \in Proc : Q(q)
    BY <1>2, AfterType DEF WarmerStep, WarmerWakes, WarmerCounts, Goto, TypeOK,
                           Holding, Making
  <2>2. QED
    BY <1>2, <2>1, QuietStep DEF WarmerStep, WarmerWakes, WarmerCounts, PhaseInv
<1>3. CASE DispatchPending
  <2>1. \A q \in Proc : pc[q] # "done" => pc'[q] = pc[q]
    <3>1. PICK D \in SUBSET ((Awaiting \ (Awaiting \cap overdue)) \ Inflight) :
             pc' = [p \in Proc |-> IF p \in D THEN "gate" ELSE pc[p]]
      BY <1>3, Zenon DEF DispatchPending
    <3>2. Awaiting \subseteq Cell
      BY DEF Awaiting, Mapped, TypeOK
    <3>3. QED
      BY <3>1, <3>2 DEF Inflight
  <2>2. \A q \in Proc : pc'[q] = pc[q] \/ pc'[q] = "gate"
    BY <1>3 DEF DispatchPending
  <2>3. \A q \in Proc : Q(q)
    BY <2>1, <2>2 DEF Holding, Making
  <2>4. QED
    BY <1>3, <2>3, QuietStep DEF DispatchPending, PhaseInv
<1>4. CASE CheckWorkersSignals
  BY <1>4, QuietStep DEF CheckWorkersSignals, PhaseInv
<1>5. CASE \E k \in Keys : RequestWorker(k)
  <2>1. \A q \in Proc : Q(q)
    BY <1>5, AfterType DEF RequestWorker, Goto, TypeOK, Holding, Making
  <2>2. QED
    BY <1>5, <2>1, QuietStep DEF RequestWorker, PhaseInv
<1>6. ASSUME NEW c \in Cell,
             \/ PreconnectGate(c) \/ PreconnectSem(c) \/ PreconnectCheck(c)
             \/ PreconnectSwap(c) \/ PreconnectRetry(c)
      PROVE  IInv'
  <2>1. \A q \in Proc : Q(q)
    BY <1>6 DEF PreconnectGate, PreconnectSem, PreconnectCheck, PreconnectSwap,
                PreconnectRetry, Goto, TypeOK, Holding, Making
  <2>2. UNCHANGED <<ns, alive, index, workers, usedIndexes, held, made,
                    victims, pending, phase, stopping>>
    BY <1>6 DEF PreconnectGate, PreconnectSem, PreconnectCheck, PreconnectSwap,
                PreconnectRetry
  <2>3. QED
    BY <2>1, <2>2, QuietStep DEF PhaseInv
<1>7. CASE \/ \E c \in Cell : GraceElapses(c)
           \/ \E i \in Index : TrackConn(i) \/ UntrackConn(i)
  BY <1>7, QuietStep DEF GraceElapses, TrackConn, UntrackConn, PhaseInv
<1>8. CASE Cancel \/ RootCancel \/ ShutdownWaits
  BY <1>8, QuietStep DEF Cancel, RootCancel, ShutdownWaits, PhaseInv
<1>9. QED
  BY <1>1, <1>2, <1>3, <1>4, <1>5, <1>6, <1>7, <1>8

\* The ownership invariant is inductive.
LEMMA IInvStep == IInv /\ [Next]_vars => IInv'
<1> SUFFICES ASSUME IInv, [Next]_vars
             PROVE  IInv'
  OBVIOUS
<1>1. TypeOK'
  BY TypeStep DEF IInv
<1>2. CASE UNCHANGED vars
  BY <1>2 DEF vars, IInv, TypeOK, CreatorInv, IndexInv, OwnerInv, PhaseInv, KernelInv,
              NsInv
<1>3. ASSUME NEW p \in Proc, Creator(p)
      PROVE  IInv'
  BY <1>1, <1>3, QuietInv, AcquireIndexInv, LaunchInv, LaunchFailsInv, TunReadyInv,
     StopMadeInv, ReleaseInv, PublishInv DEF Creator, TryCreate
<1>4. CASE WarmerStep \/ (\E k \in Keys : RequestWorker(k)) \/ DispatchPending
  BY <1>1, <1>4, QuietInv
<1>5. ASSUME NEW c \in Cell, Preconnect(c)
      PROVE  IInv'
  <2>1. c \in Proc
    BY DEF Proc
  <2>2. QED
    BY <1>1, <1>5, <2>1, QuietInv, PublishInv, StopMadeInv, ReleaseInv DEF Preconnect
<1>6. CASE HealthStep
  BY <1>1, <1>6, QuietInv, CheckWorkersInv, StopRetiredInv DEF HealthStep
<1>7. CASE ShutdownStep
  BY <1>1, <1>7, QuietInv, ShutdownTakesAllInv, StopRetiredInv, ExitInv DEF ShutdownStep
<1>8. CASE Environment
  BY <1>1, <1>8, QuietInv, ExitInv DEF Environment
<1>9. QED
  BY <1>2, <1>3, <1>4, <1>5, <1>6, <1>7, <1>8 DEF Next, Terminated

\* The invariant holds in every interleaving of the goroutines.
LEMMA OwnershipInvariant == Spec => []IInv
BY InitIInv, IInvStep, PTL DEF Spec

-----------------------------------------------------------------------------
(***************************************************************************)
(* What follows from it.                                                   *)
(***************************************************************************)

\* No interleaving of the warmer, requests, replacements, the reaper and
\* Shutdown leaks a namespace index, releases one twice or lets two of them hold
\* the same one (acquireIndex, releaseIndex and all their callers).
THEOREM IndexesOwned == Spec => []IndexOwnership
<1>1. IInv => IndexOwnership
  <2> SUFFICES ASSUME IInv
               PROVE  IndexOwnership
    OBVIOUS
  <2>1. \A i \in Index : i \in HeldIndexes <=> \E p \in Proc : held[p] = i
    BY DEF HeldIndexes, Index, NoIndex
  <2>2. usedIndexes = {i \in Index : workers[i] # None} \cup HeldIndexes
    <3>1. HeldIndexes \subseteq Index /\ usedIndexes \subseteq Index
      BY DEF IInv, TypeOK, HeldIndexes
    <3>2. \A i \in Index : i \in usedIndexes <=> workers[i] # None \/ i \in HeldIndexes
      BY <2>1 DEF IInv, IndexInv
    <3>3. QED
      BY <3>1, <3>2
  <2>3. QED
    BY <2>1, <2>2 DEF IndexOwnership, IInv, IndexInv
<1>2. QED
  BY OwnershipInvariant, <1>1, PTL

\* Every worker has one owner: none is stopped while it is in the pool and none
\* is stopped by two goroutines (checkWorkers, Shutdown, publishWorker,
\* preconnectWorker).
THEOREM WorkersOwnedOnce == Spec => []SingleOwner
<1>1. IInv => SingleOwner
  BY DEF IInv, OwnerInv, SingleOwner, Made, Mapped, TypeOK
<1>2. QED
  BY OwnershipInvariant, <1>1, PTL

\* While the gateway runs no openvpn process and no namespace is orphaned, on
\* any error path of createWorker or any hand-over between goroutines.
THEOREM NothingOrphaned == Spec => []NothingLeaks
<1>1. IInv => NothingLeaks
  <2> SUFFICES ASSUME IInv
               PROVE  NothingLeaks
    OBVIOUS
  <2>1. \A c \in Cell : index[c] # NoIndex =>
           c \in Mapped \cup Made \cup victims \cup stopping
    BY NoneAssumption DEF IInv, KernelInv, Mapped, Made
  <2>2. \A i \in Index : ns[i] # None => ns[i] \in Cell /\ index[ns[i]] = i /\ i # NoIndex
    <3>1. \A i \in Index : i # NoIndex
      BY DEF Index, NoIndex
    <3>2. QED
      BY <3>1 DEF IInv, KernelInv, TypeOK
  <2>3. QED
    <3> DEFINE owned == Mapped \cup Made \cup victims \cup stopping
    <3>1. alive \subseteq owned
      BY <2>1 DEF IInv, KernelInv, TypeOK
    <3>2. \A i \in Index : ns[i] # None => ns[i] \in owned /\ index[ns[i]] = i
      BY <2>1, <2>2
    <3>3. QED
      BY <3>1, <3>2 DEF NothingLeaks
<1>2. QED
  BY OwnershipInvariant, <1>1, PTL

\* Once Shutdown has emptied the pool nothing is published into it, however many
\* creations were under way (publishWorker and preconnectWorker test rootCtx
\* under the lock).
THEOREM ShutdownKeepsPoolEmpty == Spec => []NoPublishAfterShutdown
<1>1. IInv => NoPublishAfterShutdown
  BY DEF IInv, PhaseInv, NoPublishAfterShutdown, Mapped
<1>2. QED
  BY OwnershipInvariant, <1>1, PTL

\* The namespace standing under the index of a pooled worker is its own or gone,
\* never that of another worker, although indexes are reused before the stop of
\* their last user (checkWorkers, netns.Create, Destroy).
THEOREM NamespaceExclusive == Spec => []NsExclusive
<1>1. IInv => NsExclusive
  BY DEF IInv, NsInv, NsExclusive
<1>2. QED
  BY OwnershipInvariant, <1>1, PTL

\* A step that leaves m.workers alone takes nothing out of the pool.
LEMMA PoolUntouched ==
    ASSUME UNCHANGED workers
    PROVE  RetiresUnused
BY DEF RetiresUnused, Mapped

\* No step of any goroutine takes a live worker that counts connections out of
\* the pool, except Shutdown: checkWorkers reaps drained and idle workers only,
\* and no publication overwrites a worker.
THEOREM ReapsUnused == Spec => ReapsOnlyUnused
<1>1. IInv /\ [Next]_vars => [RetiresUnused]_vars
  <2> SUFFICES ASSUME IInv, [Next]_vars
               PROVE  RetiresUnused
    OBVIOUS
  <2>1. CASE UNCHANGED vars
    BY <2>1, PoolUntouched DEF vars
  <2>2. ASSUME NEW p \in Proc, PublishWorker(p) \/ PreconnectPublish(p)
        PROVE  RetiresUnused
    <3>1. CASE UNCHANGED workers
      BY <3>1, PoolUntouched
    <3>2. CASE workers' = [workers EXCEPT ![held[p]] = made[p]]
      <4>1. pc[p] = "made" /\ held[p] \in Index /\ workers[held[p]] = None
        BY <2>2 DEF PublishWorker, PreconnectPublish, IInv, CreatorInv, Holding, TypeOK,
                    IndexInv
      <4>2. \A i \in Index : workers[i] # None => workers'[i] = workers[i]
        BY <3>2, <4>1 DEF IInv, TypeOK
      <4>3. QED
        BY <4>2 DEF RetiresUnused, Mapped
    <3>3. QED
      BY <2>2, <3>1, <3>2 DEF PublishWorker, PreconnectPublish
  <2>3. ASSUME NEW aged, NEW unused, CheckWorkers(aged, unused)
        PROVE  RetiresUnused
    <3>1. PICK gone \in SUBSET Mapped :
             /\ \A c \in gone : c \notin alive \/ conns[c] = 0
             /\ workers' = [i \in Index |-> IF workers[i] \in gone THEN None ELSE workers[i]]
      BY <2>3 DEF CheckWorkers, Drained
    <3>2. QED
      BY <3>1 DEF RetiresUnused, Mapped
  <2>4. CASE ShutdownTakesAll
    BY <2>4 DEF RetiresUnused, ShutdownTakesAll
  <2>5. ASSUME NEW p \in Proc, TryCreate(p) \/ StopUnpublished(p)
        PROVE  RetiresUnused
    BY <2>5, PoolUntouched DEF TryCreate, TryCreateGivesUp, AcquireIndex, Launch, LaunchFails,
       TunReady, TunFails, ReleaseAfterFailure, StopUnpublished
  <2>6. CASE WarmerStep \/ (\E k \in Keys : RequestWorker(k)) \/ DispatchPending
    BY <2>6, PoolUntouched DEF WarmerStep, WarmerWakes, WarmerCounts, RequestWorker,
       DispatchPending
  <2>7. ASSUME NEW c \in Cell, Preconnect(c), ~PreconnectPublish(c)
        PROVE  RetiresUnused
    BY <2>7, PoolUntouched DEF Preconnect, PreconnectGate, PreconnectSem, PreconnectCheck,
       PreconnectSwap, StopStaged, ReleaseStaged, PreconnectRetry
  <2>8. CASE (\E c \in Cell : StopVictim(c) \/ ShutdownStops(c)) \/ CheckWorkersSignals
                \/ ShutdownWaits \/ Exit
    BY <2>8, PoolUntouched DEF StopVictim, ShutdownStops, CheckWorkersSignals, ShutdownWaits,
       Exit
  <2>9. CASE Environment
    BY <2>9, PoolUntouched DEF Environment, Cancel, RootCancel, TrackConn, UntrackConn,
       ProcessExits, GraceElapses
  <2>10. QED
    BY <2>1, <2>2, <2>3, <2>4, <2>5, <2>6, <2>7, <2>8, <2>9
       DEF Next, Terminated, Creator, HealthStep, ShutdownStep, Proc
<1>2. QED
  BY OwnershipInvariant, <1>1, PTL DEF Spec, ReapsOnlyUnused

=============================================================================
