--------------------------- MODULE WorkerManager ---------------------------
(***************************************************************************)
(* The worker manager of the gateway (internal/worker): the pool of        *)
(* OpenVPN workers, the namespace indexes they occupy, and the goroutines  *)
(* that create, rotate, reap and shut them down.                           *)
(*                                                                         *)
(* The goroutines that can create a worker are the elements of Proc:       *)
(*   - Warmer, the pool warmer (StartPoolWarmer);                          *)
(*   - each key of Keys, the singleflight call RequestWorker has under     *)
(*     way for that country (AnyCountry stands for the key "__any__");     *)
(*   - each cell c of Cell, the goroutine preconnectWorker(ctx, c) that    *)
(*     replaces worker c.                                                  *)
(* The health check, the preconnect coordinator and main have one instance *)
(* each and their own variables.                                           *)
(*                                                                         *)
(* A Worker object is a cell; a cell whose object has been stopped and is  *)
(* no longer referenced stands for the next object allocated.  A worker's  *)
(* ID ("worker-N") and its index N determine each other, so m.workers is   *)
(* modelled as a function on indexes.  Clocks are modelled by what the     *)
(* code compares them with: the rotation grace of a worker is over when it *)
(* is in overdue; which workers are past their lifetime (aged) or their    *)
(* idle timeout (unused) is an input of the health check that reads it.    *)
(***************************************************************************)
EXTENDS Integers, Sequences, FiniteSets

CONSTANTS
    Cell,                  \* the Worker objects alive at one time (bound)
    None,                  \* "no worker", "no country"
    Country,               \* the countries for which servers were discovered
    AnyCountry,            \* the empty country of a request
    Warmer,                \* the pool warmer goroutine
    Keys,                  \* the singleflight keys requests use
    Servers,               \* the countries of all servers, in sorted order
    MaxNamespaceIndex,     \* maxNamespaceIndex (254)
    ReservedForOnDemand,   \* reservedForOnDemand (5)
    CreateMaxAttempts,     \* createMaxAttempts (3)
    MinPoolSize,           \* MIN_POOL_SIZE
    PreconnectConcurrency, \* capacity of preconnectSem
    RotationEnabled,       \* WORKER_MAX_LIFETIME > 0
    Faults,                \* what the environment may do: fail a creation
                           \* ("create"), end an openvpn ("exit"), have main
                           \* cancel its context ("signal")
    MaxConns               \* bound on ActiveConns of one worker

Index == 0 .. MaxNamespaceIndex
NoIndex == -1
Proc == {Warmer} \cup Keys \cup Cell

ASSUME ProcAssumption ==
    /\ Warmer \notin Keys \cup Cell
    /\ Keys \cap Cell = {}
    /\ Keys \subseteq Country \cup {AnyCountry}
    /\ AnyCountry \notin Country

ASSUME NoneAssumption == None \notin Cell \cup Country

ASSUME CellAssumption == IsFiniteSet(Cell)

\* main refuses to start without a server.
ASSUME ServersAssumption == Servers \in Seq(Country) /\ Servers # << >>

\* New panics when the rotation footprint exceeds the slot budget.
ASSUME PoolAssumption ==
    /\ MaxNamespaceIndex \in Nat
    /\ ReservedForOnDemand \in Nat
    /\ MinPoolSize \in Nat
    /\ 2 * MinPoolSize + ReservedForOnDemand <= MaxNamespaceIndex + 1

ASSUME BoundAssumption ==
    /\ CreateMaxAttempts \in Nat \ {0}
    /\ PreconnectConcurrency \in Nat \ {0}
    /\ MaxConns \in Nat
    /\ RotationEnabled \in BOOLEAN
    /\ Faults \subseteq {"create", "exit", "signal"}

VARIABLES
    ns,                \* kernel: the worker owning the netns and veth of an index
    alive,             \* the workers whose openvpn process runs
    state,             \* Worker.State
    index,             \* Worker.Index, NoIndex once the object is stopped
    country,           \* Worker.Server.Country
    conns,             \* Worker.ActiveConns
    overdue,           \* the workers whose rotation grace is over
    workers,           \* Manager.workers
    usedIndexes,       \* Manager.usedIndexes
    grow,              \* a value is buffered in Manager.grow
    preconnectSignal,  \* a value is buffered in Manager.preconnectSignal
    pc,                \* where each creating goroutine is
    held,              \* namespaceIndex of its tryCreate
    made,              \* the worker it is creating
    attempt,           \* attempt of its tryCreate
    victims,           \* checkWorkers: the victims still to be stopped
    pending,           \* checkWorkers: the signals it still has to send
    phase,             \* main: where shutdown is
    stopping           \* Shutdown: the workers still to be stopped

kernel == <<ns, alive>>
objects == <<state, index, country, conns, overdue>>
pool == <<workers, usedIndexes>>
signals == <<grow, preconnectSignal>>
procs == <<pc, held, made, attempt>>
health == <<victims, pending>>
main == <<phase, stopping>>
vars == <<kernel, objects, pool, signals, procs, health, main>>

States == {"creating", "ready", "idle", "awaiting", "closing"}
Phases == {"running", "ctx", "root", "waited", "cleared", "exited"}
PCs == {"off", "wait", "count",                                \* warmer
        "idle",                                                \* on demand
        "done", "gate", "sem", "check", "swap", "backoff",     \* preconnect
        "unstage", "unhold",
        "acquire", "create", "tun", "release", "made", "discard"}

TypeOK ==
    /\ ns \in [Index -> Cell \cup {None}]
    /\ alive \subseteq Cell
    /\ state \in [Cell -> States]
    /\ index \in [Cell -> Index \cup {NoIndex}]
    /\ country \in [Cell -> Country \cup {None}]
    /\ conns \in [Cell -> 0 .. MaxConns]
    /\ overdue \subseteq Cell
    /\ workers \in [Index -> Cell \cup {None}]
    /\ usedIndexes \subseteq Index
    /\ grow \in BOOLEAN /\ preconnectSignal \in BOOLEAN
    /\ pc \in [Proc -> PCs]
    /\ held \in [Proc -> Index \cup {NoIndex}]
    /\ made \in [Proc -> Cell \cup {None}]
    /\ attempt \in [Proc -> 0 .. CreateMaxAttempts]
    /\ victims \subseteq Cell
    /\ pending \subseteq {"grow", "preconnect"}
    /\ phase \in Phases
    /\ stopping \subseteq Cell

Init ==
    /\ ns = [i \in Index |-> None]
    /\ alive = {}
    /\ state = [c \in Cell |-> "closing"]
    /\ index = [c \in Cell |-> NoIndex]
    /\ country = [c \in Cell |-> None]
    /\ conns = [c \in Cell |-> 0]
    /\ overdue = {}
    /\ workers = [i \in Index |-> None]
    /\ usedIndexes = {}
    /\ grow \in BOOLEAN /\ (grow <=> MinPoolSize > 0)   \* StartPoolWarmer signals
    /\ preconnectSignal = FALSE
    /\ pc = [p \in Proc |-> IF p \in Cell THEN "done"
                            ELSE IF p \in Keys THEN "idle"
                            ELSE IF MinPoolSize > 0 THEN "wait" ELSE "off"]
    /\ held = [p \in Proc |-> NoIndex]
    /\ made = [p \in Proc |-> None]
    /\ attempt = [p \in Proc |-> 0]
    /\ victims = {}
    /\ pending = {}
    /\ phase = "running"
    /\ stopping = {}

----------------------------------------------------------------------------
(***************************************************************************)
(* What the goroutines read.                                               *)
(***************************************************************************)
Mapped == {workers[i] : i \in Index} \ {None}
Serving == {c \in Mapped : state[c] \in {"ready", "idle", "awaiting"}}
Awaiting == {c \in Mapped : state[c] = "awaiting"}
Inflight == {c \in Cell : pc[c] # "done"}      \* preconnectInflight

\* countReady() counts the workers that can serve, rotating ones included.
countReady == Cardinality(Serving)

\* The workers GetRoutableWorkers(k) chooses from: it falls back on rotating
\* ones, so it is empty only if nothing serves the country.
Routable(k) == {c \in Serving : k = AnyCountry \/ country[c] = k}

\* On-demand creations run under rootCtx, the background goroutines under a
\* context that main's cancel() ends as well.
RootCancelled == phase \notin {"running", "ctx"}

\* Mutant: background creations are given a context nobody cancels.
CancelledOnDemandOnly(p) == p \in Keys /\ phase \notin {"running", "ctx"}

Cancelled(p) == IF p \in Keys THEN RootCancelled ELSE phase # "running"

\* serverCandidates(country) and the candidate an attempt uses.
Wanted(p) == IF p \in Keys THEN p ELSE AnyCountry
NumCandidates(k) ==
    IF k = AnyCountry THEN Len(Servers)
    ELSE Cardinality({n \in 1 .. Len(Servers) : Servers[n] = k})
Attempts(k) ==
    IF NumCandidates(k) < CreateMaxAttempts THEN NumCandidates(k)
    ELSE CreateMaxAttempts
ServerCountry(k, i, n) ==
    IF k = AnyCountry THEN Servers[((i + n) % Len(Servers)) + 1] ELSE k

\* Goto(p, l) moves goroutine p; its other local variables are untouched.
Goto(p, l) == pc' = [pc EXCEPT ![p] = l]

\* Where a goroutine goes once its tryCreate has failed or published.
AfterFailure(p) ==
    IF p \in Cell THEN "backoff" ELSE IF p \in Keys THEN "idle" ELSE "wait"
AfterPublish(p) == IF p \in Keys THEN "idle" ELSE "count"

\* tryCreate looks at its context before each attempt, without the lock: once
\* past the check it takes an index even if it is cancelled in between.
StartAttempt(p) ==
    IF Cancelled(p) \/ Attempts(Wanted(p)) = 0 THEN AfterFailure(p) ELSE "acquire"

\* netns.Create(index) cleans up a stale netns of that name but fails, and
\* rolls back, while the veth of the index exists.
Creatable(i) == ns[i] = None

\* namespace.Destroy() removes the veth and the netns by their names: whoever
\* owns them at that moment loses them.
Destroy(i) == ns' = [ns EXCEPT ![i] = None]

\* Worker.Stop(): end the process, destroy the namespace.  The object is not
\* used again, so its fields are cleared for the next object of this cell.
Stop(c) ==
    /\ Destroy(index[c])
    /\ alive' = alive \ {c}
    /\ state' = [state EXCEPT ![c] = "closing"]
    /\ index' = [index EXCEPT ![c] = NoIndex]
    /\ country' = [country EXCEPT ![c] = None]
    /\ conns' = [conns EXCEPT ![c] = 0]
    /\ overdue' = overdue \ {c}

----------------------------------------------------------------------------
(***************************************************************************)
(* tryCreate and createWorker, the same for every creating goroutine.      *)
(***************************************************************************)

\* tryCreate gives up, the indexes being exhausted.
TryCreateGivesUp(p) ==
    /\ pc[p] = "acquire"
    /\ usedIndexes = Index
    /\ Goto(p, AfterFailure(p))
    /\ attempt' = [attempt EXCEPT ![p] = 0]
    /\ UNCHANGED <<kernel, objects, pool, signals, held, made, health, main>>

\* Mutants: the index is not marked; the highest free index is taken.
AcquireIndexUnmarked(p) ==
    /\ pc[p] = "acquire"
    /\ \E i \in Index \ usedIndexes :
          /\ \A j \in Index \ usedIndexes : i <= j
          /\ held' = [held EXCEPT ![p] = i]
    /\ Goto(p, "create")
    /\ UNCHANGED <<kernel, objects, pool, signals, made, attempt, health, main>>

AcquireIndexHighest(p) ==
    /\ pc[p] = "acquire"
    /\ \E i \in Index \ usedIndexes :
          /\ \A j \in Index \ usedIndexes : j <= i
          /\ usedIndexes' = usedIndexes \cup {i}
          /\ held' = [held EXCEPT ![p] = i]
    /\ Goto(p, "create")
    /\ UNCHANGED <<kernel, objects, workers, signals, made, attempt, health, main>>

\* acquireIndex() takes the lowest free index.
AcquireIndex(p) ==
    /\ pc[p] = "acquire"
    /\ \E i \in Index \ usedIndexes :
          /\ \A j \in Index \ usedIndexes : i <= j
          /\ usedIndexes' = usedIndexes \cup {i}
          /\ held' = [held EXCEPT ![p] = i]
    /\ Goto(p, "create")
    /\ UNCHANGED <<kernel, objects, workers, signals, made, attempt, health, main>>

\* createWorker up to the start of openvpn.
Launch(p) ==
    /\ pc[p] = "create"
    /\ ~Cancelled(p)
    /\ Creatable(held[p])
    /\ \E c \in Cell :
          /\ index[c] = NoIndex /\ pc[c] = "done"
          /\ ns' = [ns EXCEPT ![held[p]] = c]
          /\ alive' = alive \cup {c}
          /\ state' = [state EXCEPT ![c] = "creating"]
          /\ index' = [index EXCEPT ![c] = held[p]]
          /\ country' = [country EXCEPT
                ![c] = ServerCountry(Wanted(p), held[p], attempt[p])]
          /\ made' = [made EXCEPT ![p] = c]
    /\ Goto(p, "tun")
    /\ UNCHANGED <<conns, overdue, pool, signals, held, attempt,
                   health, main>>

\* createWorker fails before openvpn runs: the namespace cannot be set up, the
\* context is cancelled or the process does not start.  Nearly every path
\* destroys what stands under the name of the index; a Create that fails before
\* it has its namespace leaves the veth of an earlier worker.
LaunchFails(p) ==
    /\ pc[p] = "create"
    /\ "create" \in Faults \/ Cancelled(p) \/ ~Creatable(held[p])
    /\ Destroy(held[p]) \/ ("create" \in Faults /\ UNCHANGED ns)
    /\ Goto(p, "release")
    /\ UNCHANGED <<alive, objects, pool, signals, held, made, attempt, health, main>>

\* waitForTun sees the tun device of the process, in the namespace of that
\* name; markReady.
TunReady(p) ==
    /\ pc[p] = "tun"
    /\ ~Cancelled(p)
    /\ made[p] \in alive /\ ns[held[p]] = made[p]
    /\ state' = [state EXCEPT ![made[p]] = "ready"]
    /\ attempt' = [attempt EXCEPT ![p] = 0]
    /\ Goto(p, "made")
    /\ UNCHANGED <<kernel, index, country, conns, overdue, pool,
                   signals, held, made, health, main>>

\* Mutant: the worker whose tun device never came up is not stopped.
TunFailsNoStop(p) ==
    /\ pc[p] = "tun"
    /\ "create" \in Faults \/ Cancelled(p)
    /\ made' = [made EXCEPT ![p] = None]
    /\ Goto(p, "release")
    /\ UNCHANGED <<kernel, objects, pool, signals, held, attempt, health, main>>

\* waitForTun times out or the context is cancelled: the worker is stopped.
\* A process that died or lost its namespace never shows a tun device.
TunFails(p) ==
    /\ pc[p] = "tun"
    /\ "create" \in Faults \/ Cancelled(p) \/ made[p] \notin alive
          \/ ns[held[p]] # made[p]
    /\ Stop(made[p])
    /\ made' = [made EXCEPT ![p] = None]
    /\ Goto(p, "release")
    /\ UNCHANGED <<pool, signals, held, attempt, health, main>>

\* Mutant: the failed attempt keeps its index.
ReleaseAfterFailureLeaks(p) ==
    /\ pc[p] = "release"
    /\ held' = [held EXCEPT ![p] = NoIndex]
    /\ attempt' = [attempt EXCEPT ![p] = 0]
    /\ Goto(p, AfterFailure(p))
    /\ UNCHANGED <<kernel, objects, pool, signals, made, health, main>>

\* The failed attempt returns its index; the next one starts, if any is left
\* and the context is not cancelled.
ReleaseAfterFailure(p) ==
    /\ pc[p] = "release"
    /\ usedIndexes' = usedIndexes \ {held[p]}
    /\ held' = [held EXCEPT ![p] = NoIndex]
    /\ IF attempt[p] + 1 < Attempts(Wanted(p)) /\ ~Cancelled(p)
       THEN /\ attempt' = [attempt EXCEPT ![p] = @ + 1]
            /\ Goto(p, "acquire")
       ELSE /\ attempt' = [attempt EXCEPT ![p] = 0]
            /\ Goto(p, AfterFailure(p))
    /\ UNCHANGED <<kernel, objects, workers, signals, made, health, main>>

TryCreate(p) ==
    \/ TryCreateGivesUp(p) \/ AcquireIndex(p) \/ Launch(p) \/ LaunchFails(p)
    \/ TunReady(p) \/ TunFails(p) \/ ReleaseAfterFailure(p)

----------------------------------------------------------------------------
(***************************************************************************)
(* The pool warmer and on-demand requests: create, then publishWorker.     *)
(***************************************************************************)

\* The warmer receives from m.grow.
WarmerWakes ==
    /\ pc[Warmer] = "wait"
    /\ grow
    /\ grow' = FALSE
    /\ Goto(Warmer, "count")
    /\ UNCHANGED <<kernel, objects, pool, preconnectSignal, held, made, attempt,
                   health, main>>

\* The head of the warmer's loop: the pool is full, the context is cancelled,
\* or another worker is created.
WarmerCounts ==
    /\ pc[Warmer] = "count"
    /\ Goto(Warmer, IF countReady >= MinPoolSize THEN "wait" ELSE StartAttempt(Warmer))
    /\ UNCHANGED <<kernel, objects, pool, signals, held, made, attempt, health, main>>

\* RequestWorker(k): nothing routable, so the flight for k creates a worker, or
\* fails at once because there is no server or the manager is shut down.
\* (With something routable it returns that and changes nothing; a second
\* caller for k joins the flight.)
RequestWorker(k) ==
    /\ pc[k] = "idle"
    /\ Routable(k) = {}
    /\ Goto(k, StartAttempt(k))
    /\ UNCHANGED <<kernel, objects, pool, signals, held, made, attempt, health, main>>

\* Mutant: rootCtx is not checked under the lock.
PublishWorkerUnchecked(p) ==
    /\ p \notin Cell
    /\ pc[p] = "made"
    /\ held' = [held EXCEPT ![p] = NoIndex]
    /\ workers' = [workers EXCEPT ![held[p]] = made[p]]
    /\ made' = [made EXCEPT ![p] = None]
    /\ Goto(p, AfterPublish(p))
    /\ UNCHANGED <<kernel, objects, usedIndexes, signals, attempt, health, main>>

\* publishWorker: into the pool, unless Shutdown has begun, in which case the
\* index is released first and the worker stopped later.
PublishWorker(p) ==
    /\ p \notin Cell
    /\ pc[p] = "made"
    /\ held' = [held EXCEPT ![p] = NoIndex]
    /\ IF RootCancelled
       THEN /\ usedIndexes' = usedIndexes \ {held[p]}
            /\ Goto(p, "discard")
            /\ UNCHANGED <<workers, made>>
       ELSE /\ workers' = [workers EXCEPT ![held[p]] = made[p]]
            /\ made' = [made EXCEPT ![p] = None]
            /\ Goto(p, AfterPublish(p))
            /\ UNCHANGED usedIndexes
    /\ UNCHANGED <<kernel, objects, signals, attempt, health, main>>

\* publishWorker's Stop of a worker it did not publish.
StopUnpublished(p) ==
    /\ pc[p] = "discard"
    /\ Stop(made[p])
    /\ made' = [made EXCEPT ![p] = None]
    /\ Goto(p, AfterFailure(p))
    /\ UNCHANGED <<pool, signals, held, attempt, health, main>>

----------------------------------------------------------------------------
(***************************************************************************)
(* Rotation: the preconnect coordinator and the goroutine of each worker   *)
(* that waits to be replaced.                                              *)
(***************************************************************************)

\* Mutant: workers that are being replaced are not counted.
FootprintClosingOnly(closing, inflight) == Cardinality({c \in closing : conns[c] > 0})

\* The workers that count against the rotation footprint: rotating ones that
\* are being replaced and closing ones that still carry connections.
Footprint(closing, inflight) ==
    Cardinality({c \in closing : conns[c] > 0}) + Cardinality(inflight)

\* dispatchPending: close the workers whose grace is over, then start as many
\* replacements as the footprint allows, in the map's order (any).
DispatchPending ==
    LET forced == Awaiting \cap overdue
        closing == forced \cup {c \in Mapped : state[c] = "closing"}
        candidates == (Awaiting \ forced) \ Inflight
        footprint == Footprint(closing, (Awaiting \ forced) \cap Inflight)
    IN  /\ RotationEnabled
        /\ preconnectSignal
        /\ preconnectSignal' = FALSE
        /\ state' = [c \in Cell |-> IF c \in forced THEN "closing" ELSE state[c]]
        /\ \E dispatched \in SUBSET candidates :
              /\ MinPoolSize > 0 /\ dispatched # {} =>
                    footprint + Cardinality(dispatched) <= MinPoolSize
              /\ dispatched # candidates =>
                    /\ MinPoolSize > 0
                    /\ footprint + Cardinality(dispatched) >= MinPoolSize
              /\ pc' = [p \in Proc |-> IF p \in dispatched THEN "gate" ELSE pc[p]]
        /\ grow' = (grow \/ forced # {})
        /\ UNCHANGED <<kernel, index, country, conns, overdue,
                       pool, held, made, attempt, health, main>>

\* preconnectWorker waits until an index outside the reserve is free.
PreconnectGate(c) ==
    /\ pc[c] = "gate"
    /\ \/ Cancelled(c) /\ Goto(c, "done")
       \/ /\ ~Cancelled(c)
          /\ Cardinality(usedIndexes) < MaxNamespaceIndex + 1 - ReservedForOnDemand
          /\ Goto(c, "sem")
    /\ UNCHANGED <<kernel, objects, pool, signals, held, made, attempt, health, main>>

\* The goroutines that hold a token of preconnectSem.
SemHolders == {c \in Inflight : pc[c] \notin {"gate", "sem"}}

PreconnectSem(c) ==
    /\ pc[c] = "sem"
    /\ \/ Cancelled(c) /\ Goto(c, "done")
       \/ Cardinality(SemHolders) < PreconnectConcurrency /\ Goto(c, "check")
    /\ UNCHANGED <<kernel, objects, pool, signals, held, made, attempt, health, main>>

\* m.workers[worker.ID] == worker && worker.isAwaitingReplacement()
StillOurs(c) == c \in Awaiting

markClosingFromAwaiting(c) ==
    state' = [state EXCEPT ![c] = IF @ = "awaiting" THEN "closing" ELSE @]

\* The head of preconnectWorker's loop: give up, close the worker because its
\* grace is over, or create a replacement.
PreconnectCheck(c) ==
    /\ pc[c] = "check"
    /\ \/ /\ Cancelled(c) \/ ~StillOurs(c)
          /\ Goto(c, "done")
          /\ UNCHANGED <<state, grow>>
       \/ /\ ~Cancelled(c) /\ StillOurs(c) /\ c \in overdue
          /\ markClosingFromAwaiting(c)
          /\ grow' = TRUE
          /\ Goto(c, "done")
       \/ /\ ~Cancelled(c) /\ StillOurs(c) /\ c \notin overdue
          /\ Goto(c, "acquire")
          /\ UNCHANGED <<state, grow>>
    /\ UNCHANGED <<kernel, index, country, conns, overdue, pool,
                   preconnectSignal, held, made, attempt, health, main>>

\* Mutant: the replacement enters the pool and is then discarded as well.
PreconnectPublishTwice(c) ==
    /\ pc[c] = "made"
    /\ workers' = [workers EXCEPT ![held[c]] = made[c]]
    /\ Goto(c, "unstage")
    /\ UNCHANGED <<kernel, objects, usedIndexes, signals, held, made, attempt,
                   health, main>>

\* The replacement is ready: publish it if it is still wanted.
PreconnectPublish(c) ==
    /\ pc[c] = "made"
    /\ IF ~RootCancelled /\ StillOurs(c)
       THEN /\ workers' = [workers EXCEPT ![held[c]] = made[c]]
            /\ held' = [held EXCEPT ![c] = NoIndex]
            /\ made' = [made EXCEPT ![c] = None]
            /\ Goto(c, "swap")
       ELSE /\ Goto(c, "unstage")
            /\ UNCHANGED <<workers, held, made>>
    /\ UNCHANGED <<kernel, objects, usedIndexes, signals, attempt, health, main>>

\* The worker that has been replaced drains.
PreconnectSwap(c) ==
    /\ pc[c] = "swap"
    /\ markClosingFromAwaiting(c)
    /\ Goto(c, "done")
    /\ UNCHANGED <<kernel, index, country, conns, overdue, pool,
                   signals, held, made, attempt, health, main>>

\* An unwanted replacement is stopped, and only then its index released.
StopStaged(c) ==
    /\ pc[c] = "unstage"
    /\ Stop(made[c])
    /\ made' = [made EXCEPT ![c] = None]
    /\ Goto(c, "unhold")
    /\ UNCHANGED <<pool, signals, held, attempt, health, main>>

ReleaseStaged(c) ==
    /\ pc[c] = "unhold"
    /\ usedIndexes' = usedIndexes \ {held[c]}
    /\ held' = [held EXCEPT ![c] = NoIndex]
    /\ Goto(c, "done")
    /\ UNCHANGED <<kernel, objects, workers, signals, made, attempt, health, main>>

\* After a failed creation: wait for the backoff, unless cancelled.
PreconnectRetry(c) ==
    /\ pc[c] = "backoff"
    /\ Goto(c, IF Cancelled(c) THEN "done" ELSE "check")
    /\ UNCHANGED <<kernel, objects, pool, signals, held, made, attempt, health, main>>

Preconnect(c) ==
    \/ PreconnectGate(c) \/ PreconnectSem(c) \/ PreconnectCheck(c)
    \/ PreconnectPublish(c) \/ PreconnectSwap(c) \/ StopStaged(c)
    \/ ReleaseStaged(c) \/ PreconnectRetry(c)

----------------------------------------------------------------------------
(***************************************************************************)
(* The health check.                                                       *)
(***************************************************************************)

\* isClosingDrained()
\* (Mutant: a closing worker is taken for drained.)
DrainedIgnoresConns(c) == state[c] = "closing"
Drained(c) == state[c] = "closing" /\ conns[c] = 0

\* The signals a pass sends: both goroutines hear of victims, the coordinator
\* also of workers that have just come due.
\* (Mutants: victims do not wake the coordinator, or not the warmer.)
SignalsDueNoVictims(gone, expired) ==
    {s \in {"grow", "preconnect"} : IF s = "grow" THEN gone # {} ELSE expired # {}}
SignalsDueNoGrow(gone, expired) == {"preconnect"}
SignalsDue(gone, expired) ==
    {s \in {"grow", "preconnect"} : gone # {} \/ (s = "preconnect" /\ expired # {})}

\* The part of checkWorkers under the lock.  aged are the workers past their
\* effective lifetime, unused those past the idle timeout that no live sticky
\* session names.  The 30 s ticker lets it run at any time, so a buffered
\* wakeup adds no behaviour and is not modelled; a pass that finds nothing
\* changes nothing.
CheckWorkers(aged, unused) ==
    LET exited == Mapped \ alive
        expired == {c \in (Mapped \cap alive) \cap aged :
                       RotationEnabled /\ state[c] \in {"ready", "idle"}}
        drained == {c \in Mapped \cap alive : Drained(c)}
        idle == {c \in ((Mapped \cap alive) \cap unused) \ expired :
                    state[c] # "awaiting" /\ conns[c] = 0}
        gone == exited \cup drained \cup idle
    IN  /\ pending = {}
        /\ gone \cup expired # {}
        /\ state' = [c \in Cell |-> IF c \in expired THEN "awaiting" ELSE state[c]]
        /\ workers' = [i \in Index |-> IF workers[i] \in gone THEN None ELSE workers[i]]
        /\ usedIndexes' = usedIndexes \ {index[c] : c \in gone}
        /\ victims' = gone
        /\ pending' = SignalsDue(gone, expired)
        /\ UNCHANGED <<kernel, index, country, conns, overdue,
                       signals, procs, main>>

\* After the unlock every victim is stopped (and its sessions removed).
StopVictim(c) ==
    /\ c \in victims
    /\ Stop(c)
    /\ victims' = victims \ {c}
    /\ UNCHANGED <<pool, signals, procs, pending, main>>

\* Finally the warmer and the coordinator are signalled.
CheckWorkersSignals ==
    /\ pending # {} /\ victims = {}
    /\ grow' = (grow \/ "grow" \in pending)
    /\ preconnectSignal' = (preconnectSignal \/ "preconnect" \in pending)
    /\ pending' = {}
    /\ UNCHANGED <<kernel, objects, pool, procs, victims, main>>

----------------------------------------------------------------------------
(***************************************************************************)
(* main: cancel on a signal or a failed listener, then Shutdown.           *)
(***************************************************************************)
\* cancel() of main's context.
Cancel ==
    /\ "signal" \in Faults
    /\ phase = "running"
    /\ phase' = "ctx"
    /\ UNCHANGED <<kernel, objects, pool, signals, procs, health, stopping>>

\* Shutdown begins, which takes a signal: after a failed listener main goes on
\* waiting for one.
RootCancel ==
    /\ phase = "ctx"
    /\ phase' = "root"
    /\ UNCHANGED <<kernel, objects, pool, signals, procs, health, stopping>>

\* createWg counts the goroutines inside createWorker.  One that has an index
\* but has not entered yet ("create") is not counted.
ShutdownWaits ==
    /\ phase = "root"
    /\ \A p \in Proc : pc[p] # "tun"
    /\ phase' = "waited"
    /\ UNCHANGED <<kernel, objects, pool, signals, procs, health, stopping>>

ShutdownTakesAll ==
    /\ phase = "waited"
    /\ stopping' = Mapped
    /\ usedIndexes' = usedIndexes \ {index[c] : c \in Mapped}
    /\ workers' = [i \in Index |-> None]
    /\ phase' = "cleared"
    /\ UNCHANGED <<kernel, objects, signals, procs, health>>

ShutdownStops(c) ==
    /\ c \in stopping
    /\ Stop(c)
    /\ stopping' = stopping \ {c}
    /\ UNCHANGED <<pool, signals, procs, health, phase>>

\* Shutdown returns and so does main: every goroutine vanishes.
Exit ==
    /\ phase = "cleared" /\ stopping = {}
    /\ phase' = "exited"
    /\ UNCHANGED <<kernel, objects, pool, signals, procs, health, stopping>>

----------------------------------------------------------------------------
(***************************************************************************)
(* The proxies count connections by worker ID; openvpn dies; time passes.  *)
(***************************************************************************)

IncrConns(c) ==
    /\ conns' = [conns EXCEPT ![c] = @ + 1]
    /\ state' = [state EXCEPT ![c] = IF @ = "idle" THEN "ready" ELSE @]

\* TrackConn("worker-i"); MaxConns bounds the count.
TrackConn(i) ==
    /\ workers[i] # None
    /\ conns[workers[i]] < MaxConns
    /\ IncrConns(workers[i])
    /\ UNCHANGED <<kernel, index, country, overdue, pool, signals, procs,
                   health, main>>

\* Mutant: the count has no floor.
DecrConnsNoFloor(c) ==
    /\ conns' = [conns EXCEPT ![c] = @ - 1]
    /\ state' = [state EXCEPT
          ![c] = IF @ = "ready" /\ conns'[c] = 0 THEN "idle" ELSE @]

DecrConns(c) ==
    /\ conns' = [conns EXCEPT ![c] = IF @ = 0 THEN 0 ELSE @ - 1]
    /\ state' = [state EXCEPT
          ![c] = IF @ = "ready" /\ conns'[c] = 0 THEN "idle" ELSE @]

\* UntrackConn("worker-i"): the ID may meanwhile name a worker that never
\* counted the connection.
UntrackConn(i) ==
    /\ workers[i] # None
    /\ MaxConns > 0
    /\ DecrConns(workers[i])
    /\ UNCHANGED <<kernel, index, country, overdue, pool, signals, procs,
                   health, main>>

\* The openvpn process of a worker ends by itself.
ProcessExits(c) ==
    /\ "exit" \in Faults
    /\ c \in alive
    /\ alive' = alive \ {c}
    /\ UNCHANGED <<ns, objects, pool, signals, procs, health, main>>

GraceElapses(c) ==
    /\ c \notin overdue /\ state[c] = "awaiting"
    /\ overdue' = overdue \cup {c}
    /\ UNCHANGED <<kernel, state, index, country, conns, pool,
                   signals, procs, health, main>>

----------------------------------------------------------------------------
\* One step of goroutine p, whichever it is.
Creator(p) == TryCreate(p) \/ PublishWorker(p) \/ StopUnpublished(p)
WarmerStep == WarmerWakes \/ WarmerCounts
HealthStep ==
    \/ \E aged, unused \in SUBSET Mapped : CheckWorkers(aged, unused)
    \/ \E c \in Cell : StopVictim(c)
    \/ CheckWorkersSignals
ShutdownStep ==
    \/ ShutdownWaits \/ ShutdownTakesAll
    \/ \E c \in Cell : ShutdownStops(c)
    \/ Exit
Environment ==
    \/ Cancel \/ RootCancel
    \/ \E i \in Index : TrackConn(i) \/ UntrackConn(i)
    \/ \E c \in Cell : ProcessExits(c) \/ GraceElapses(c)

\* Nothing runs once main has returned.
Terminated == phase = "exited" /\ UNCHANGED vars

Next ==
    \/ /\ phase # "exited"
       /\ \/ \E p \in Proc : Creator(p)
          \/ WarmerStep
          \/ \E k \in Keys : RequestWorker(k)
          \/ DispatchPending
          \/ \E c \in Cell : Preconnect(c)
          \/ HealthStep
          \/ ShutdownStep
          \/ Environment
    \/ Terminated

Spec == Init /\ [][Next]_vars

\* Go schedules every goroutine that can run and a channel serves its blocked
\* senders in turn (SF for the semaphore); time passes.  The ticker keeps the
\* health check coming, and a closing worker is given only the connections that
\* were routed before it closed, so a drained worker meets the check (SF).
\* Nothing makes a client close a connection or call the gateway, or an
\* openvpn die.
Running(A) == phase # "exited" /\ A

Fairness ==
    /\ \A p \in Proc \ Cell : WF_vars(Running(Creator(p)))
    /\ WF_vars(Running(WarmerStep))
    /\ WF_vars(Running(DispatchPending))
    /\ \A c \in Cell : /\ WF_vars(Running(Creator(c) \/ Preconnect(c)))
                       /\ SF_vars(Running(PreconnectSem(c)))
                       /\ WF_vars(Running(GraceElapses(c)))
    /\ SF_vars(Running(HealthStep))
    /\ WF_vars(Running(ShutdownStep))

FairSpec == Spec /\ Fairness

\* Shutdown needs less: its own steps and those of a goroutine in createWorker.
ShutdownFairness ==
    /\ \A p \in Proc : WF_vars(Running(TryCreate(p)))
    /\ WF_vars(Running(ShutdownStep))

ShutdownFairSpec == Spec /\ ShutdownFairness

----------------------------------------------------------------------------
(***************************************************************************)
(* Safety.                                                                 *)
(***************************************************************************)

\* The workers under construction or about to be discarded by a creator.
Made == {made[p] : p \in Proc} \ {None}
HeldIndexes == {held[p] : p \in Proc} \ {NoIndex}

\* acquireIndex / releaseIndex: usedIndexes is exactly the indexes of the
\* workers in the pool and those the creating goroutines hold, and no index
\* is held twice.  No failure path of tryCreate, publishWorker,
\* preconnectWorker, checkWorkers or Shutdown leaks an index, releases it
\* twice or publishes over another worker.
IndexOwnership ==
    /\ \A p, q \in Proc : p # q /\ held[p] = held[q] => held[p] = NoIndex
    /\ \A i \in Index : workers[i] # None =>
          /\ index[workers[i]] = i
          /\ i \notin HeldIndexes
    /\ usedIndexes = {i \in Index : workers[i] # None} \cup HeldIndexes

\* Every worker object has one owner that will stop it: the pool, one creating
\* goroutine, the health check or Shutdown.  No worker is stopped while it is
\* in the pool, and none by two goroutines.
SingleOwner ==
    /\ \A p, q \in Proc : p # q /\ made[p] = made[q] => made[p] = None
    /\ Made \cap Mapped = {} /\ Made \cap victims = {} /\ Made \cap stopping = {}
    /\ Mapped \cap victims = {} /\ Mapped \cap stopping = {}
    /\ victims \cap stopping = {}

\* As long as the gateway runs, every openvpn process and every network
\* namespace belongs to a worker some goroutine still refers to: the error
\* paths of createWorker and the hand-over between the pool, the reaper and
\* Shutdown lose neither.
NothingLeaks ==
    LET owned == Mapped \cup Made \cup victims \cup stopping
    IN  /\ alive \subseteq owned
        /\ \A i \in Index : ns[i] # None => ns[i] \in owned /\ index[ns[i]] = i

\* Shutdown's second promise ("prevents new creations from being published
\* back into the pool"): once it has emptied the pool nothing enters it,
\* although creators that missed the cancellation are still running.
NoPublishAfterShutdown == phase \in {"cleared", "exited"} => Mapped = {}

\* GetWorkerNsHandle hands out the namespace of the worker's index: no other
\* worker's namespace ever stands under the index of a worker in the pool.
NsExclusive == \A i \in Index : workers[i] # None => ns[i] \in {workers[i], None}

\* dispatchPending's footprint: at most MIN_POOL_SIZE of the workers that wait for
\* replacement have one under way, over any number of dispatch rounds.
RotationFootprint ==
    MinPoolSize > 0 => Cardinality(Awaiting \cap Inflight) <= MinPoolSize

\* preconnectSignal holds one value and the coordinator looks only when it is
\* sent.  No worker is forgotten: one that waits for replacement and is not
\* being replaced has a signal under way, or the footprint is taken by workers
\* whose end will send one.
NoLostRotationSignal ==
    phase = "running" /\ Awaiting \ Inflight # {} =>
       \/ preconnectSignal \/ "preconnect" \in pending
       \/ /\ MinPoolSize > 0
          /\ MinPoolSize <= Cardinality({c \in Mapped :
                \/ state[c] = "closing"
                \/ state[c] = "awaiting" /\ c \in Inflight})

RetiresUnused ==
    \A c \in Mapped \ Mapped' : c \notin alive \/ conns[c] = 0 \/ phase' = "cleared"

\* checkWorkers takes a worker out of the pool only when its process is dead or
\* it counts no connection; only Shutdown cuts counted connections.
ReapsOnlyUnused == [][RetiresUnused]_vars

\* The abstract slot pool the manager implements: a slot is live when a worker
\* of the pool occupies it and held when only a creating goroutine does; the
\* pool is open until Shutdown cancels rootCtx.
Slots == INSTANCE SlotPool WITH
    Slot <- Index,
    slot <- [i \in Index |-> IF workers[i] # None THEN "live"
                             ELSE IF i \in usedIndexes THEN "held" ELSE "free"],
    open <- ~RootCancelled

\* acquireIndex, releaseIndex, the publications and the removals, from all
\* goroutines together, implement the slot pool: no step moves a slot from
\* live back to held, makes a free slot live, reserves any but the lowest free
\* slot, or publishes after Shutdown has begun.
ImplementsSlotPool == Slots!SlotSpec

----------------------------------------------------------------------------
(***************************************************************************)
(* What the documentation says and the code does not keep.                 *)
(***************************************************************************)

\* README.md:11: every worker has its own namespace and tunnels do not
\* interfere.  A worker in the pool keeps the namespace it was created with.
PoolNamespacesIntact == \A i \in Index : workers[i] # None => ns[i] = workers[i]

\* Shutdown's comment (manager_linux.go:657): "stops all workers".  When it
\* has returned no openvpn process and no namespace is left.
ShutdownStopsAll == phase = "exited" => alive = {} /\ \A i \in Index : ns[i] = None

----------------------------------------------------------------------------
(***************************************************************************)
(* Liveness.                                                               *)
(***************************************************************************)

\* WORKER_MAX_LIFETIME, "forced rotation": a worker that waits for replacement
\* is replaced, or forced to close when its grace is over, or dies.
RotationCompletes == \A c \in Cell : (c \in Awaiting) ~> (c \notin Awaiting)

\* MIN_POOL_SIZE: the pool is grown whenever it drops below the minimum.
PoolRefilled == (countReady < MinPoolSize) ~> (countReady >= MinPoolSize)

\* Shutdown ends: its wait for the creators and its stops terminate, whatever
\* the creators, the reaper and the coordinator were doing.
ShutdownTerminates == (phase = "root") ~> (phase = "exited")

============================================================================
