# A TLA+ model of the Surfshark VPN proxy gateway

The gateway runs one `openvpn` process per *worker*, each in its own Linux
network namespace, and routes SOCKS5 and HTTP proxy requests to them. This
directory models the parts of it where goroutines meet: the worker manager with
its pool warmer, preconnect (rotation) coordinator, health check and shutdown;
the path of a request through router, sessions and pool; the data path of a
connection through the namespace dialer; and the kernel objects behind a worker.
`PROJECT.json` maps every definition to the
lines it translates and lists the runs, mutants, findings, hazards and theorems.

## Inventory

| Component | State | Operations | Interacts with | What is hard |
|---|---|---|---|---|
| Worker manager `worker/manager_linux.go` | `workers`, `usedIndexes`, `createGroup`, one-slot channels `grow`, `preconnectSignal`, `wakeup`, `rootCtx`, `createWg` | `tryCreate`, `createWorker`, `publishWorker`, `RequestWorker`, `checkWorkers`, `TrackConn`/`UntrackConn`, `StartPoolWarmer`, `Shutdown` | netns, openvpn, sessions, router, proxies | an index is released before the worker is stopped; every error path gives back index, namespace and process; shutdown during a creation |
| Worker object `worker/worker_linux.go` | state, `ActiveConns`, timestamps, process | `IncrConns`, `DecrConns`, `mark...`, `Stop` | manager, proxies | state changed by clients, reaper and coordinator at once |
| Preconnect coordinator `worker/preconnect_linux.go` | `preconnectInflight`, `preconnectSem` | `dispatchPending`, `preconnectWorker` | manager, health check | coalesced signals, footprint, slot reserve, grace, replacement of a worker that vanishes meanwhile |
| Session manager `session/session.go` | `sessions` | `Lookup`, `Bind`, `Remove`, `RemoveByWorker`, `Cleanup`, `ActiveSessionsForWorker` | router, health check, main | the clock is read before the lock |
| Router `router/router.go` | round-robin counter | `Route`, `routeSticky`, `findReady`, `selectOrCreate` | sessions, manager | five critical sections per sticky request |
| Proxies `proxy/http.go`, `socks5.go` | open connections | authenticate, route, dial, track, copy | router, manager, dialer | connections are counted by worker ID, which is reused; two goroutines close a connection; half-closed tunnels |
| Dialer `proxy/dialer_linux.go` | thread namespaces, descriptors | `DialInNs` | proxies, manager | the caller gives up before the dial ends; a handle is a number that may be reused |
| Namespaces `netns/netns_linux.go` | netns, veth, NAT rule, kill-switch, resolv.conf, by name; the thread's namespace | `Create`, `Destroy` | manager | failure at every step, errors that are ignored, threads left inside, leftovers of a dead gateway, a late `Destroy` |
| Parser `parser/parser.go` | none | `Parse` | proxies, router | overflow of the TTL |
| Config, discovery, main | configuration | start-up, cancellation | all | a failed listener |

Correctness, by component:

* manager: indexes, processes and namespaces are neither leaked nor given back
  twice; every worker has one owner; nothing is published after shutdown; the
  pool is refilled; shutdown ends and leaves nothing behind;
* coordinator: a bounded number of rotations at a time, none forgotten, all
  completed;
* health check: only dead or unused workers leave the pool;
* sessions: only `Bind` pins a client, only expiry or a removal unpins it;
* router: a sticky client stays with its worker until the worker is replaced or
  dies, the session ends or the client asks for something else;
* proxies and dialer: every connection counts for its worker once and while it is
  open, every socket is closed, threads come back, dials leave through the tunnel;
* namespaces: a `Create` that fails leaves nothing over; what is returned is whole;
  leftovers do not keep an index from being used again.

## Modules

* **`WorkerManager`** — manager, worker objects, coordinator, health check, main.
  * *Goroutines.* The goroutines that create workers are `Proc`: the warmer, one
    singleflight call per country key, and one `preconnectWorker` per worker.
    `pc`, `held`, `made` and `attempt` are their position and their locals in
    `tryCreate`/`createWorker`. The health check (`victims`, `pending`) and main
    (`phase`, `stopping`) have one instance each. One action is one critical
    section, or one stretch of code between two points where another goroutine
    can matter.
  * *Objects.* A worker is a cell; a stopped worker nobody refers to stands for the
    next object allocated. A worker ID is `worker-<index>`, so `m.workers` is a
    function on indexes. The kernel is `ns` (who owns netns and veth of an index)
    and `alive` (whose openvpn runs).
  * *Creation.* `StartAttempt` is the unlocked look at the context before an
    attempt; `AcquireIndex`, `Launch`/`LaunchFails`, `TunReady`/`TunFails` and
    `ReleaseAfterFailure` are `tryCreate` and `createWorker`; `PublishWorker`/
    `StopUnpublished` are `publishWorker`; `PreconnectPublish`, `PreconnectSwap`,
    `StopStaged` and `ReleaseStaged` their counterpart for replacements.
  * *Time.* What is past its lifetime or its idle timeout is an input of
    `CheckWorkers`; the rotation grace is the set `overdue`. The 30 s ticker lets
    the health check run at any time, so the `wakeup` channel adds no behaviour
    and is left out.
  * *Environment.* `Faults` says what may go wrong: a creation fails, a process
    ends, main is told to stop.
* **`SlotPool`** — the abstract specification: slots are reserved lowest first, given
  back or made live, and retired in groups; nothing becomes live once closed.
  `WorkerManager!ImplementsSlotPool` is the refinement.
* **`Sessions`** — the session manager, for any callers. `Begin` reads the clock, the
  operation's own action is the critical section, possibly much later. `Cleanup` takes
  a clock reading of any age, and `Remove` and `RemoveByWorker` read no clock.
* **`Parser`** — `Parse` as an operator from the items of a username to the parameters;
  `Wrap` is the product of `time.Duration`, at a width the instance chooses.
* **`Gateway`** — `EXTENDS Sessions` and uses its operations unchanged. A request (`req`)
  walks through `lookup → find → remove → select → request → bind → handle → track → open`;
  every arrow is one call of the router or of a proxy into sessions or pool. `pool` is what
  requests see of `Manager.workers`: state, country and connection count per worker ID.
  `CheckWorkers` is the whole locked part of `checkWorkers`, `UnbindVictim` the
  `RemoveByWorker` after each `Stop`. `home` is a history variable: the worker the next
  request of a session may expect.
* **`Proxy`** — handlers (`conn`), dial goroutines (`dial`), OS threads (`threadNs`) and
  descriptors (`fds`). `LockAndGet`, `SetTarget`, `DialReturns` are the goroutine of
  `DialInNs`; `ReceiveResult`, `CtxDone` its select; `LateClose` the goroutine started
  for a late result; `TargetEof`, `ClientEof`, `DownFails`, `UpFails` the ends of the two
  copies; `TrackedClose` is `trackedConn.Close`. Conversations are reduced to who ends
  first, and a target ends with EOF, which closes the `trackedConn`, or with a reset, which
  does not (`TargetReset`). The `Set(origin)` after a dial may fail: the thread stays where
  it is (`astray`) for later dials to lock, and the socket, sent together with the error, is
  dropped unclosed until the garbage collector finds it (`dropped`, `GcCloses`). `astray`,
  `dropped` and `reused` (the descriptor number was taken by another open) are history.
* **`Netns`** — `Create` and `Destroy` of one index, one action per kernel operation whose
  failure or interruption leaves something different behind.
  * *Failures.* Every step of `Create` may fail and is rolled back as in the code. The steps
    of `Destroy` and of `cleanupStaleNamespace`, whose errors the code ignores, may fail too,
    and so may the `Set(origin)` of `Create` and the deferred one of `configurePeer`;
    `MaxFaults` bounds these errors and crashes together.
  * *Threads.* `LocksThread` takes any free thread and remembers where it was (`origin`),
    which is where `Restores` and `PutsBack` lead. A thread left inside is reused. veths and
    NAT rules are made in the namespace of the thread; the `Destroy` of a worker runs on
    any free thread.
  * *Kill-switch.* `rules` counts the commands a namespace has seen, so a `Create` may fail
    or be interrupted between two of them.
  * *Others.* The `Destroy` of the index's last worker overlaps the next `Create`, as
    `WorkerManager` allows (`Leaves`); the holder of the index may discard what it has
    created (`Discarded`); the gateway may die (`Crash`); the kernel removes a namespace
    nothing refers to.
  * *History.* `debt` is what a crash, an ignored error or a `Destroy` on a stray thread may
    have left, by kind; `astray` the threads left inside; `disturbed` says that another
    `Destroy` has run since a `Create` began, or that its own clean-up failed; `failed`
    counts the creations in a row that something in the way has refused.
* **`WorkerManager_proofs`**, **`SlotPool_proofs`**, **`Rotation_proofs`**, **`Netns_proofs`**,
  **`Proxy_proofs`**, **`Sessions_proofs`**, **`Gateway_proofs`** — the theorems below.
* `MCWorkerManager`, `MCGateway`, `MCProxy`, `MCNetns` — server lists, usernames, kinds of request
  and symmetry for TLC.

How they fit: `WorkerManager` treats `Create` and `Destroy` as single steps and clients
as arbitrary `IncrConns`/`DecrConns`; `Netns` opens the first, `Gateway` the second.
`Gateway` lets workers appear and be reaped as `WorkerManager` does but without the
reasons; `Proxy` opens the part of `Gateway` between `handle` and the end of `open`.

Operators introduced by "Mutant:" are deliberately wrong variants of the
definition that follows them. No specification uses them; `PROJECT.json` names the
property each of them breaks.

## Runs

| Run | Checks | Instance |
|---|---|---|
| `OnDemand` | `TypeOK`, `IndexOwnership`, `NothingLeaks`, `ImplementsSlotPool` | 3 cells, 2 slots, requests for one country and for any, two servers, all faults |
| `Shutdown` | `IndexOwnership`, `SingleOwner`, `NoPublishAfterShutdown`, `NsExclusive`, `ImplementsSlotPool`, `ShutdownTerminates` | 2 cells, 2 slots, warmer and rotation, creations fail, main stops |
| `Rotation` | `RotationFootprint`, `NoLostRotationSignal`, `ReapsOnlyUnused` | 3 cells, 2 slots, rotation with connections |
| `RotationLive` | `RotationCompletes` | 2 cells, 2 slots, no long-lived connection, faults |
| `PoolLive` | `PoolRefilled` | 3 cells, 2 slots, a request beside the warmer, creations succeed |
| `Gateway` | `GatewayTypeOK`, `NoPhantomConns`, `HomeIsKept`, `StickyWhenCalm`, `OnlyBindPins`, `DropsOnlyExpired` | 2 requests at a time, 1 session, 2 worker IDs, 2 countries, 3 instants, default TTL 1 |
| `Proxy` | `ProxyTypeOK`, `ThreadsHome`, `DialsInNamespace`, `NothingOutlives`, `CountedWhileOpen`, `TargetEndUncounts`, `BothEndsFreeHandler` | 1 connection of any kind, again and again, 2 threads, 3 namespaces, 3 descriptors |
| `Netns` | `NetnsTypeOK`, `NothingLeft`, `UpIntact`, `ThreadHome`, `StaleStateCostsOneTry` | 3 namespaces on one index, 2 threads, a kill-switch of 2 commands, 2 crashes or errors that leave something behind, up to 2 NAT rules in a place |

What the runs on the request path and the kernel show. `Gateway`: the promise "requests with
the same `sessid` land on the same worker" holds exactly up to the exceptions listed at
`StickyWhenCalm`, each of which is a behaviour of the code; in particular rotation, idling,
cleanup with old clock readings and everything that happens to other workers do not disturb
it. A reused worker ID never leaves a worker with a connection too many. `Proxy`: whichever
of client, target, dial and worker goes first, sockets and counts are settled once, a socket
that came with the error of `Set(origin)` apart. `Netns`: an index comes to rest with
nothing left of a kind unless one of three named causes has left it (a crash, a failure of
the step of `Destroy` that removes it, a `Destroy` on a stray thread); and while no thread
is astray such leftovers refuse one creation, not the three the manager tries.

Bounds. Two slots and three objects are enough for a predecessor that is still being
stopped, its namesake, and a third worker that competes for the slot. `MinPoolSize` 1 is the
smallest pool that rotates, and two workers awaiting at once exceed its footprint.
`MaxConns` bounds the connections of one worker; the code compares the count with zero only.
`Gateway` has the smallest instance in which two requests of a session meet, a worker is
replaced by a namesake while the other one serves, and a session expires; its time bound
lets a session outlive its TTL by one. The TTLs a username can ask for wrap around at
`MaxDuration` 1, as minutes do at 2^63 nanoseconds, to a negative one. `Proxy` has a
descriptor more than all dials and the worker can hold, so that the lowest free number is
both reused and passed over. In `Proxy`, one connection has a handler, a dial, a late closer
and two copies that run at the same time, and two threads let a dial run on a stray one or
on another; connections share nothing but threads and descriptors, and the theorems cover
any number of them. In `Netns` two faults let an error hit the clean-up after another, or a
crash a gateway that starts on the leftovers of one; three namespaces are a stray thread's,
a leftover and the one being made; two commands, for the nine of `applyKillSwitch`, have a
state between them. The theorems cover any number of each. Worker objects, namespaces and
threads are interchangeable, so the runs without a liveness property use symmetry on them.
Deadlock is not checked where nothing ends the gateway and everything may come to rest: an
idle gateway waits for clients and clocks, which the model lets stop. `OnDemand`,
`Shutdown`, `Gateway` and `Netns` check it.

A cell stays occupied until its worker is stopped. When all cells are in use `Launch`
waits, which the program never does; the safety runs merely stop exploring there, and
the liveness runs give a creation another outcome (`RotationLive`, by failing) or have
a cell to spare (`PoolLive`, which has no rotation).

Fairness (`FairSpec`). The Go scheduler runs every goroutine that can run: weak fairness for
each creator, the warmer, the coordinator and Shutdown. A channel serves blocked senders in
turn: strong fairness for `preconnectSem`. The ticker keeps the health check coming, and a
closing worker gets only the connections routed before it closed, so a drained worker meets
a check: strong fairness for the health check. Time passes (`GraceElapses`). Nothing is
assumed of clients and of openvpn, and nothing makes main stop. In `Proxy`, handlers and
copies that can run do, and go-socks5 is taken to return only once both copies have ended; a
dial may hang, the garbage collector need not run, and clients and targets may be silent for
ever. `ShutdownFairSpec` assumes only Shutdown's own steps and those of goroutines in
`tryCreate`.

### What the code does not keep

| Run | Documented | What TLC finds |
|---|---|---|
| `NamespaceClash` | README.md:11, tunnels do not interfere | `checkWorkers` releases the index before `Stop`; a worker created on it meanwhile loses its namespace to the old worker's `Destroy` |
| `RotationBlocked` | README.md:125, expired workers are replaced | a draining worker with a connection fills the footprint, and nothing looks at the grace of the worker left out |
| `PoolStuck` | README.md:122, the pool is grown whenever it drops | the warmer gives up at the first failed creation |
| `ShutdownLeak` | manager_linux.go:657, stops all workers | a worker created but not published is neither waited for nor stopped |

The liveness counterexamples are under `FairSpec`. `RotationCompletes` fails in a second
way, which `RotationBlocked` shows with `Keys = {us, de}`, two servers, `MaxNamespaceIndex`
2, `ReservedForOnDemand` 1 and `MaxConns` 0: the wait for a free slot in
`preconnectWorker` (105-122) checks neither the grace nor the worker, so awaiting workers
that use up the slots outside the reserve wait for each other.

Found while modelling, without a run of their own:

* README.md:97 says the TTL is "refreshed on every hit". `expired` (session.go:28) counts
  from `createdAt`, which no hit moves: a session in constant use ends at its TTL.
* README.md:96 says all requests of a session are pinned to one worker. Two first requests
  at the same time both miss in `Lookup` and may be sent to two workers; the later `Bind`
  wins. `StickyWhenCalm` excludes it: `home` is None while two requests of the session are
  routed at once.
* `UntrackConn` for a connection of a reaped worker takes one off the count of its namesake
  (the floor at zero hides it), which may then be reaped with a connection open.
  `NoPhantomConns` is the half of the count that holds.
* A request that holds the handle of a destroyed worker may enter whatever took the number:
  the next worker's namespace or, through the goroutine's own `Get`, the host's, where the
  dial leaves without a tunnel. `DialsInNamespace` excludes it with `reused`.
* `trackedConn` hides `CloseWrite` from `pipe` (http.go:202): when a client has sent its EOF
  the target is not told, and the tunnel stays, counted, until the target acts.
* When a target resets a CONNECT tunnel, `trackedConn.Read` closes nothing (socks5.go:129):
  with a silent client the tunnel stays counted. `TargetEndUncounts` therefore speaks of EOF,
  and of a reset only in a plain request, whose one copy ends the handler.
* When `Set(origin)` fails after a dial (dialer_linux.go:45-49) the thread stays in the
  tunnel's namespace, and the connection is returned beside the error, which the callers
  take without closing it. `ThreadsHome` and `NothingOutlives` exclude it with `astray` and
  `dropped`.
* `Destroy` ignores the errors of its steps (netns_linux.go:234-247), and so does
  `cleanupStaleNamespace` (271-272): the rule, veth, mount point or resolv.conf of the step
  that failed stays. Nothing tries again before the next worker of the index is destroyed;
  the NAT rule stays for good, since each `Destroy` deletes one. `NothingLeft` excludes it
  with `debt`.
* netns_linux.go:60 says the thread switches back so that the veth is made in the main
  namespace. When `NewNamed` fails after it has entered the new namespace (52-58), or the
  `Set(origin)` after it fails, `Create` unlocks the thread where it is. The next `Create` on
  it takes that place for its origin, makes its veth there and returns without error: a
  worker without a link to the host. `UpIntact` excludes it with `origin[i] = Host`, and
  without that premise TLC finds it on the instance of `Netns`.
* A `sessttl` may also wrap to a small positive TTL, which `Bind` takes as it is.

## Theorems

Every safety invariant, action property and refinement that a passing run checks is proved,
for all values of the constants that satisfy the named assumptions.

| Module | Theorem | States |
|---|---|---|
| `WorkerManager_proofs` | `TypeCorrect`, `IndexesOwned`, `WorkersOwnedOnce`, `NothingOrphaned`, `ShutdownKeepsPoolEmpty`, `NamespaceExclusive` | `[]TypeOK`, `[]IndexOwnership`, `[]SingleOwner`, `[]NothingLeaks`, `[]NoPublishAfterShutdown`, `[]NsExclusive` |
| | `ReapsUnused` | the action property `ReapsOnlyUnused` |
| `SlotPool_proofs` | `ManagerImplementsSlotPool` | the refinement `ImplementsSlotPool` |
| `Rotation_proofs` | `FootprintKept`, `SignalNotLost` | `[]RotationFootprint`, `[]NoLostRotationSignal` |
| `Netns_proofs` | `NetnsTypeCorrect`, `NothingLeftBehind`, `CreatedIntact`, `ThreadComesHome`, `LeftoversCostOneTry` | `[]NetnsTypeOK`, `[]NothingLeft`, `[]UpIntact`, `[]ThreadHome`, `[]StaleStateCostsOneTry` |
| `Proxy_proofs` | `ProxyTypeCorrect`, `ThreadsComeHome`, `DialsWhereRouted`, `NothingSurvives`, `CountedOnce` | `[]ProxyTypeOK`, `[]ThreadsHome`, `[]DialsInNamespace`, `[]NothingOutlives`, `[]CountedWhileOpen` |
| `Sessions_proofs` | `SessionTypeCorrect`, `PinnedByBindOnly` | `Sessions!TypeOK`, the action property `OnlyBindPins`, for any callers |
| `Gateway_proofs` | `GatewayTypeCorrect`, `NoConnsFromNowhere`, `HomesAreKept` | `[]GatewayTypeOK`, `[]NoPhantomConns`, `[]HomeIsKept` |
| | `StickyClientsReturn`, `OnlyExpiredDropped` | the action properties `StickyWhenCalm`, `DropsOnlyExpired` |
| | `GatewayPinsByBindOnly` | `OnlyBindPins`, from `PinnedByBindOnly` |

The inductive invariants, and why the properties alone are not inductive:

* **`WorkerManager_proofs!IInv`**. Whether `releaseIndex(held[p])` returns the right index
  depends on where goroutine `p` is. `CreatorInv` therefore ties each position to what the
  goroutine holds there, and the worker it builds to the index it holds. `IndexInv` and
  `OwnerInv` are `IndexOwnership` and `SingleOwner` stated element by element, with the fact
  that whatever waits to be stopped has not been stopped. `PhaseInv` says that the reaper and
  Shutdown start with nothing left over, `KernelInv` that whatever stands in the kernel
  belongs to a worker that is not stopped and every such worker has an owner, `NsInv` that
  the namespace under an index in use is its user's or gone. `IInv` needs all parts at once:
  `Launch` reuses a stopped object, which is sound because nothing refers to one. The proof
  has one lemma per kind of hand-over (take an index, build, release, enter the pool, leave
  it, stop); `QuietStep` covers the actions that hand nothing over.
* **`SlotPool_proofs`** needs no more than `IInv`: an index a goroutine holds is marked used
  and has no worker, so a release is a `GiveBack` and a publication a `GoLive`; the indexes
  of the workers a reaper takes are their slots, so it is a `Retire`. One lemma per action of
  `SlotPool`, then one step per action of the manager.
* **`Rotation_proofs!RInv`** adds to `IInv` that a worker with a replacement goroutine waits
  or is closing (so that it never comes due a second time, `InflightInv`), that one being
  built has no such goroutine (`MadeInv`), and that a goroutine which discards its
  replacement leaves no waiting worker (`UnstageInv`): without the last a worker could go on
  waiting with nobody to replace it and no signal. `CalmStep` covers every step that starts
  no replacement and takes no worker out of the pool; `DispatchRotation` counts.
* **`Netns_proofs!IInv`**: who holds the index and who may still be destroying (`OwnerInv`);
  that calls have threads of their own and where their origin is (`LockInv`, `ThreadHome`);
  how many NAT rules there can be (`NatInv`); that a part that stands belongs to a call
  which has yet to remove it, or to the debt (`LeftInv`); what an undisturbed `Create` has
  made so far (`IntactInv`); and when something in the way can still refuse a `Create`
  (`RefusedInv`).
* **`Proxy_proofs!IInv`**: which of handler, dial goroutine, late closer, copies and socket
  are alive together (`RequestInv`); that the open descriptors are the worker's handle and
  the origins of the locked dials, all different (`DescriptorInv`); that locked dials have
  threads of their own, locked at home or astray (`ThreadInv`); what a handle number stands
  for while nobody has reopened it (`HandleInv`). That the lowest free descriptor exists is
  a counting argument (`LowestIsFree`).
* **`Sessions_proofs!SessionInv`**: `TypeOK`, and a call's clock reading is in the past
  (`ReadBefore`).
* **`Gateway_proofs!GInv`** adds to it what a request holds at each point (`CallInv`), and
  `CalmInv`: a session with a home has at most one request being routed, which finds the
  session bound to the home. `HomeIsKept` and `CalmInv` need each other, and `ReadBefore`,
  since a `Lookup` or `Cleanup` with an old reading must not expire the session.
  `SessionStep` shows every step to be one of `Sessions`, so what `Sessions_proofs` says is
  used as it stands, in the invariant (`SessionInvStep`) and for `GatewayPinsByBindOnly`.

Assumptions. Those of `WorkerManager` are what `New` and `main` enforce, and that the labels
of goroutines are distinct. In `Netns`, `Proxy`, `Sessions` and `Gateway` they say that the
default TTL is positive, that there are as many threads as dials and more descriptors than
dials and workers (the runtime starts threads as needed, and a process out of descriptors is
not modelled), that connections, requests and descriptors are finitely many, that
`Usernames` yields parameters of the declared sets, and that `None` and the host's namespace
are different from every value they stand beside, and that the bounds and the number of
commands of `Netns` are naturals. TLC evaluates all of them in the runs. TLC agrees with
every inductive invariant on the instances of the runs.

Only model-checked: the liveness properties `ShutdownTerminates`, `RotationCompletes`,
`PoolRefilled`, `TargetEndUncounts` and `BothEndsFreeHandler` (fairness
and `ENABLED` are out of the prover's reach), and the four violations, which are single
behaviours. `Parse` is proved about only as far as `GatewayAssumption` states what it returns.

## Not modelled

* Listeners, authentication and headers of the proxies: a request in the model is one with
  good credentials. go-socks5 is modelled by how the code uses it.
* Name resolution and parallel dials inside `DialContext`, which Go may run on threads other
  than the locked one.
* That a thread left astray in `Netns` is the one a dial locks, and the other way round: each
  module has its own threads. That Go starts a new thread from a stray one, which inherits
  its namespace: the threads of both modules begin in the gateway's.
* What the commands of the kill-switch do: they are counted, not interpreted.
* The round-robin counter: any routable worker may be the next one.
* In `WorkerManager`, the inner steps of `netns.Create` and `Destroy`: each is one step, and
  `ns` is netns and veth together. `Netns` has the steps.
* Lengths of time: lifetimes, jitter, backoff and timeouts are "some time later".
* Configuration and discovery: read once, their results are constants. The stubs only return
  errors. Logging and diagnostics.

## Plan

1. `Parser`: that `Parse` yields a TTL of the declared width and the last item's value, as
   lemmas about its operators, in place of the part of `GatewayAssumption` that states it.
2. Action properties worth stating and proving once the invariants are there: how a worker's
   state may change (`WorkerManager`), and which steps may take a part from a namespace that
   is up (`Netns`).
3. The step from `WorkerManager` to what `Gateway` assumes of the pool.
