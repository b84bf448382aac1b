------------------------------ MODULE Gateway ------------------------------
(***************************************************************************)
(* Requests from their username to the end of their connection: the router *)
(* (internal/router), the part of both proxies that resolves a worker and  *)
(* counts connections (dialTarget, dialWithRequest, trackedConn), the      *)
(* sessions, and the worker pool these share with the health check.        *)
(*                                                                         *)
(* A request is a goroutine; each of its calls into the session manager's  *)
(* or the worker manager's critical sections is an action.  A request      *)
(* carries a worker ID, and an ID is worker-<index>: the next worker on    *)
(* the same index has the same one.  How workers are built and indexes are *)
(* kept is in WorkerManager and what a dial does in Proxy; here a worker   *)
(* enters the pool in one step and a dial is part of its connection.       *)
(* Sessions is used as it is, with the requests as its callers.            *)
(***************************************************************************)
EXTENDS Sessions

CONSTANTS
    Request,            \* goroutines that serve clients
    Country,            \* countries with a server
    AnyCountry,
    Usernames,          \* the parameters clients send, for Parse
    Folded, Minute, MaxDuration   \* see Parser

INSTANCE Parser

ASSUME GatewayAssumption ==
    /\ Caller = Request /\ IsFiniteSet(Request)
    /\ AnyCountry \notin Country
    /\ 0 \in Ttls
    /\ \A u \in Usernames : /\ Parse(u).ttl \in Ttls
                            /\ Parse(u).sessionID \in SessionId \cup {None}

VARIABLES
    pool,      \* Manager.workers: per worker ID the worker, or None
    victims,   \* IDs of workers checkWorkers has taken out, not yet unbound
    req,       \* the requests
    home       \* history: see StickyWhenCalm

gatewayVars == <<vars, pool, victims, req, home>>

\* The states Ready and Idle are "ready".
WorkerRecord == [state : {"ready", "awaiting", "closing"}, country : Country,
                 conns : 0 .. Cardinality(Request)]

ASSUME NoneIsNoWorker ==
    None \notin [state : {"ready", "awaiting", "closing"}, country : Country, conns : Nat]

\* pc is the next call of the request, "open" from the start of its dial to the
\* end of its connection; w is the chosen worker ID, on (history) is TRUE while
\* the worker that counted the connection is in the pool.
Positions == {"idle", "lookup", "find", "remove", "select", "request", "bind",
              "handle", "track", "open"}
Idle == [pc |-> "idle", id |-> None, want |-> AnyCountry, ttl |-> 0,
         w |-> None, on |-> FALSE]

RequestRecord ==
    [pc : Positions, id : SessionId \cup {None},
     want : {Parse(u).country : u \in Usernames} \cup {AnyCountry}, ttl : Ttls,
     w : Worker \cup {None}, on : BOOLEAN]

GatewayTypeOK ==
    /\ TypeOK
    /\ pool \in [Worker -> WorkerRecord \cup {None}]
    /\ victims \subseteq Worker
    /\ req \in [Request -> RequestRecord]
    /\ home \in [SessionId -> Worker \cup {None}]

GatewayInit ==
    /\ Init
    /\ pool = [w \in Worker |-> None]
    /\ victims = {}
    /\ req = [r \in Request |-> Idle]
    /\ home = [s \in SessionId |-> None]

----------------------------------------------------------------------------
(***************************************************************************)
(* The pool as requests see it.                                            *)
(***************************************************************************)
Mapped == {w \in Worker : pool[w] # None}
Matches(w, k) == w \in Mapped /\ k \in {AnyCountry, pool[w].country}

\* GetReadyWorkers includes workers that wait for replacement.
Ready(w) == w \in Mapped /\ pool[w].state \in {"ready", "awaiting"}

\* GetRoutableWorkers: those only when there are no others.
Routable(k) ==
    LET in(s) == {w \in Worker : Matches(w, k) /\ pool[w].state = s}
    IN  IF in("ready") # {} THEN in("ready") ELSE in("awaiting")

\* A worker is created for country k and published under a free ID.
Publish(w, k) ==
    /\ w \notin Mapped
    /\ pool' = [pool EXCEPT ![w] = [state |-> "ready", country |-> k, conns |-> 0]]

----------------------------------------------------------------------------
(***************************************************************************)
(* The router.                                                             *)
(***************************************************************************)
At(r, p) == req[r].pc = p
Goto(r, p) == req' = [req EXCEPT ![r].pc = p]

\* Route returns worker w.
Routed(r, w) == req' = [req EXCEPT ![r] = [Idle EXCEPT !.pc = "handle", !.w = w]]
Calls(c, call) == calls' = [calls EXCEPT ![c] = call]

Routing(r, s) ==
    /\ req[r].id = s
    /\ req[r].pc \in {"lookup", "find", "remove", "select", "request", "bind"}

\* History: the session's requests now expect worker w, or nothing while another
\* request of the session is being routed.
Settle(r, w) ==
    home' = [s \in SessionId |->
              IF s # req[r].id THEN home[s]
              ELSE IF /\ \A q \in Request \ {r} : ~Routing(q, s)
                      /\ Ready(w) /\ Pinned(s)' = w
                   THEN w ELSE None]
Unsettle(S) == home' = [s \in SessionId |-> IF s \in S THEN None ELSE home[s]]
Expecting(W) == {s \in SessionId : home[s] \in W}

\* A request with good credentials arrives at either proxy; Route is called.
\* Lookup reads the clock at once.
Arrive(r) ==
    /\ At(r, "idle")
    /\ \E u \in Usernames :
          LET p == Parse(u)
              s == p.sessionID
              disturbed == \/ \E q \in Request : Routing(q, s)
                           \/ home[s] # None /\ ~Matches(home[s], p.country)
          IN  /\ req' = [req EXCEPT ![r] = [Idle EXCEPT
                    !.pc = IF IsSticky(p) THEN "lookup" ELSE "select",
                    !.id = s, !.want = p.country, !.ttl = p.ttl]]
              /\ IF IsSticky(p)
                 THEN /\ Calls(r, [op |-> "lookup", id |-> s, t |-> now])
                      /\ Unsettle(IF disturbed THEN {s} ELSE {})
                 ELSE UNCHANGED <<calls, home>>
    /\ UNCHANGED <<now, sessions, pool, victims>>

\* routeSticky, one call after the other.
RouteLookup(r) ==
    LET s == sessions[req[r].id]
        hit == s # None /\ ~Expired(s, calls[r].t)
    IN  /\ At(r, "lookup")
        /\ Lookup(r)
        /\ req' = [req EXCEPT ![r].pc = IF hit THEN "find" ELSE "select",
                              ![r].w = IF hit THEN s.workerID ELSE None]
        /\ UNCHANGED <<pool, victims, home>>

\* routeSticky after findReady: the bound worker will do, or the session goes.
StickyHit(r, good) ==
    /\ At(r, "find")
    /\ UNCHANGED <<vars, pool, victims>>
    /\ \/ good /\ Routed(r, req[r].w) /\ Settle(r, req[r].w)
       \/ /\ ~good
          /\ req' = [req EXCEPT ![r].pc = "remove", ![r].w = None]
          /\ UNCHANGED home

\* Mutant: sticky requests see the workers new traffic may use.
FindReadyRoutable(r) == StickyHit(r, req[r].w \in Routable(req[r].want))

FindReady(r) ==
    StickyHit(r, Ready(req[r].w) /\ Matches(req[r].w, req[r].want))

RouteRemove(r) ==
    /\ At(r, "remove")
    /\ Remove(req[r].id)
    /\ Goto(r, "select")
    /\ UNCHANGED <<pool, victims, home>>

\* selectOrCreate has chosen w: a sticky request binds its session to it.
Choose(r, w) ==
    /\ \/ /\ req[r].id = None
          /\ Routed(r, w)
          /\ UNCHANGED calls
       \/ /\ req[r].id # None
          /\ req' = [req EXCEPT ![r] = [Idle EXCEPT !.pc = "bind", !.id = req[r].id,
                                                    !.w = w]]
          /\ Calls(r, [op |-> "bind", id |-> req[r].id, ttl |-> req[r].ttl,
                       workerID |-> w, t |-> now])
    /\ UNCHANGED <<now, sessions, victims, home>>

\* The round-robin counter is shared by the requests of all countries: any
\* routable worker may be next.
SelectRoutable(r) ==
    /\ At(r, "select")
    /\ \E w \in Routable(req[r].want) : Choose(r, w)
    /\ UNCHANGED pool

SelectNone(r) ==
    /\ At(r, "select") /\ Routable(req[r].want) = {}
    /\ Goto(r, "request")
    /\ UNCHANGED <<vars, pool, victims, home>>

\* RequestWorker finds a worker after all, creates one, which takes a while, or
\* fails.
RequestPicks(r) ==
    /\ At(r, "request")
    /\ \E w \in Routable(req[r].want) : Choose(r, w)
    /\ UNCHANGED pool

RequestCreates(r) ==
    /\ At(r, "request")
    /\ \E w \in Worker, k \in Country :
          req[r].want \in {k, AnyCountry} /\ Publish(w, k) /\ Choose(r, w)

RequestFails(r) ==
    /\ At(r, "request")
    /\ req' = [req EXCEPT ![r] = Idle]
    /\ UNCHANGED <<vars, pool, victims, home>>

RouteBind(r) ==
    /\ At(r, "bind")
    /\ Bind(r)
    /\ Routed(r, req[r].w)
    /\ UNCHANGED <<pool, victims>>
    /\ Settle(r, req[r].w)

----------------------------------------------------------------------------
(***************************************************************************)
(* The proxies' dialTarget and dialWithRequest, and trackedConn.           *)
(***************************************************************************)

\* The handle is read.
GetWorkerNsHandle(r) ==
    LET w == req[r].w
    IN  /\ At(r, "handle")
        /\ req' = [req EXCEPT ![r] =
              IF w \in Mapped THEN [req[r] EXCEPT !.pc = "track"] ELSE Idle]
        /\ UNCHANGED <<vars, pool, victims, home>>

\* The worker is found under the lock and counted outside it, which can only be
\* told from this by a worker that has left the pool.
TrackConn(r) ==
    LET w == req[r].w
    IN  /\ At(r, "track")
        /\ \/ w \notin Mapped /\ UNCHANGED pool
           \/ w \in Mapped /\ pool' = [pool EXCEPT ![w].conns = @ + 1]
        /\ req' = [req EXCEPT ![r].pc = "open", ![r].on = w \in Mapped]
        /\ UNCHANGED <<vars, victims, home>>

\* Mutant: a failed dial returns without UntrackConn.
UntrackConnForgotten(r) ==
    /\ At(r, "open")
    /\ req' = [req EXCEPT ![r] = Idle]
    /\ UNCHANGED <<vars, pool, victims, home>>

\* The dial fails or the connection ends: UntrackConn, once and by ID.
UntrackConn(r) ==
    LET w == req[r].w
    IN  /\ At(r, "open")
        /\ \/ w \notin Mapped /\ UNCHANGED pool
           \/ w \in Mapped
              /\ pool' = [pool EXCEPT ![w].conns = IF @ > 0 THEN @ - 1 ELSE 0]
        /\ req' = [req EXCEPT ![r] = Idle]
        /\ UNCHANGED <<vars, victims, home>>

----------------------------------------------------------------------------
(***************************************************************************)
(* The pool's other goroutines and main's.                                 *)
(***************************************************************************)

\* The warmer, a replacement or some other client's request.
Warm ==
    /\ \E w \in Worker, k \in Country : Publish(w, k)
    /\ UNCHANGED <<vars, victims, req, home>>

\* preconnectWorker or dispatchPending: replaced, or its grace is over.
StartsClosing(w) ==
    /\ w \in Mapped /\ pool[w].state = "awaiting"
    /\ pool' = [pool EXCEPT ![w].state = "closing"]
    /\ Unsettle(Expecting({w}))
    /\ UNCHANGED <<vars, victims, req>>

ActiveSessionsForWorker(w) == {s \in SessionId : Pinned(s) = w}

\* Mutant: a worker without connections idles out under its sticky clients.
UnneededSessionsIgnored(w) == pool[w].conns = 0

\* IsIdle, and no client is pinned to it.
Unneeded(w) == pool[w].conns = 0 /\ ActiveSessionsForWorker(w) = {}

\* checkWorkers under the lock: per worker it meets an exited process, an age
\* past the lifetime, a last use past the idle timeout, or none of them.
CheckWorkers(met) ==
    LET is(f) == {w \in Mapped : met[w] = f}
        dead == is("exited")
        live == Mapped \ dead
        waits == {w \in live : \/ pool[w].state = "awaiting"
                               \/ pool[w].state = "ready" /\ w \in is("aged")}
        drained == {w \in live : pool[w].state = "closing" /\ pool[w].conns = 0}
        idle == {w \in is("unused") \ waits : Unneeded(w)}
        taken == dead \cup drained \cup idle
    IN  /\ victims = {}
        /\ victims' = taken
        /\ pool' = [w \in Worker |->
              IF w \in taken THEN None
              ELSE IF w \in waits THEN [pool[w] EXCEPT !.state = "awaiting"]
              ELSE pool[w]]
        /\ req' = [r \in Request |->
                     [req[r] EXCEPT !.on = @ /\ req[r].w \notin taken]]
        /\ Unsettle(Expecting(dead))
        /\ UNCHANGED vars

\* After the unlock, one victim after the other is stopped; then RemoveByWorker.
UnbindVictim(w) ==
    /\ w \in victims
    /\ victims' = victims \ {w}
    /\ RemoveByWorker(w)
    /\ Unsettle(Expecting({w}))
    /\ UNCHANGED <<pool, req>>

\* main's loop, every minute.
CleanupSessions(t) ==
    /\ Cleanup(t)
    /\ UNCHANGED <<pool, victims, req, home>>

TimePasses ==
    /\ Tick
    /\ Unsettle({s \in SessionId : home[s] # Pinned(s)'})
    /\ UNCHANGED <<pool, victims, req>>

Route(r) ==
    \/ RouteLookup(r) \/ FindReady(r) \/ RouteRemove(r)
    \/ SelectRoutable(r) \/ SelectNone(r)
    \/ RequestPicks(r) \/ RequestCreates(r) \/ RequestFails(r)
    \/ RouteBind(r)

Dial(r) ==
    GetWorkerNsHandle(r) \/ TrackConn(r) \/ UntrackConn(r)

GatewayNext ==
    \/ \E r \in Request : Arrive(r) \/ Route(r) \/ Dial(r)
    \/ Warm
    \/ \E w \in Worker : StartsClosing(w) \/ UnbindVictim(w)
    \/ \E met \in [Mapped -> {"exited", "aged", "unused", "fine"}] : CheckWorkers(met)
    \/ \E t \in 0 .. now : CleanupSessions(t)
    \/ TimePasses

GatewaySpec == GatewayInit /\ [][GatewayNext]_gatewayVars

----------------------------------------------------------------------------
(***************************************************************************)
(* Properties.                                                             *)
(***************************************************************************)

\* Connections are counted by ID, in steps of their own, while workers are
\* reaped and their IDs reused.  Whichever worker each TrackConn and each
\* UntrackConn meets, no worker ever counts more connections than it was given
\* and that are still open, so a worker whose connections have ended counts
\* none: it can idle out, and a draining one is reaped.
NoPhantomConns ==
    \A w \in Mapped :
       pool[w].conns <= Cardinality({r \in Request : req[r].w = w /\ req[r].on})

\* README.md:14, "requests with the same `sessid` land on the same worker": once
\* a request has been routed to w, home, the next one of its session is routed
\* to w too, however long w waits for its replacement and whatever happens to
\* other workers.  The code promises it only until w is closing or its process
\* exits, the TTL is over, the client asks for another country, two requests of
\* the session are routed at once, or the late RemoveByWorker of an earlier
\* worker with w's ID: home is None from then on.
StickyWhenCalm ==
    [][\A r \in Request :
          req[r].pc \in {"find", "bind"} /\ req'[r].pc = "handle" =>
             home[req[r].id] \in {None, req'[r].w}]_gatewayVars

\* The same between requests: a session with a home stays bound to it and the
\* worker stays in the pool, so the health check never idles a worker out under
\* its clients and no late Cleanup, Lookup or Remove of another call, nor a
\* Bind, unbinds them.
HomeIsKept ==
    \A s \in SessionId : home[s] # None => Ready(home[s]) /\ Pinned(s) = home[s]

\* A pinned client loses its session only to its TTL, to the Remove of a request of
\* its own or to the RemoveByWorker of a worker with its worker's ID: the lazy
\* deletions of Lookup and Cleanup, whose clock readings may be old by the time
\* they have the lock, drop expired sessions only.
DropsOnlyExpired ==
    [][\A s \in SessionId :
          Pinned(s) # None /\ sessions'[s] = None =>
             \/ \E r \in Request : At(r, "remove") /\ req[r].id = s /\ ~At(r, "remove")'
             \/ Pinned(s) \in victims \ victims']_gatewayVars
============================================================================
