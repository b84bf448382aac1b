--------------------------- MODULE Gateway_proofs ---------------------------
(***************************************************************************)
(* Proofs about Gateway, for any requests, sessions, workers, countries    *)
(* and usernames.                                                          *)
(***************************************************************************)
EXTENDS Gateway, Sessions_proofs, FiniteSetTheorems

-----------------------------------------------------------------------------
(***************************************************************************)
(* The inductive invariant.                                                *)
(***************************************************************************)

\* What a request holds at each point: the call it has begun in the session manager
\* and its arguments, the worker it was given, and whether a worker counts it.
Consistent(k, call) ==
    /\ k.pc = "lookup" => call # None /\ call.op = "lookup" /\ call.id = k.id
    /\ k.pc = "bind" => /\ call # None /\ call.op = "bind" /\ call.id = k.id
                        /\ call.workerID = k.w
    /\ k.pc \notin {"lookup", "bind"} => call = None
    /\ k.pc \in {"lookup", "find", "remove", "bind"} => k.id \in SessionId
    /\ k.pc \in {"find", "bind", "handle", "track", "open"} => k.w \in Worker
    /\ k.on => k.pc = "open"

CallInv == \A r \in Request : Consistent(req[r], calls[r])

\* A session with a home has at most one request being routed, which will find the
\* session bound to its home, and the home in the country it asks for.
CalmInv ==
    \A s \in SessionId, r \in Request :
       home[s] # None /\ Routing(r, s) =>
          /\ req[r].pc \in {"lookup", "find"}
          /\ At(r, "find") => req[r].w = home[s]
          /\ Matches(home[s], req[r].want)
          /\ \A q \in Request : Routing(q, s) => q = r

GInv ==
    /\ ReadBefore /\ GatewayTypeOK /\ CallInv
    /\ NoPhantomConns /\ HomeIsKept /\ CalmInv

-----------------------------------------------------------------------------
(***************************************************************************)
(* What the gateway does to sessions is a step of Sessions.                *)
(***************************************************************************)

\* A request begins a call only when it has none under way, and every other step
\* is a critical section of the session manager or does not touch it.
LEMMA SessionStep ==
    ASSUME GInv, GatewayNext
    PROVE  [Next]_vars
<1> USE GatewayAssumption DEF GInv, GatewayTypeOK, CallInv, Consistent
<1>1. ASSUME NEW r \in Request, Arrive(r)
      PROVE  [Next]_vars
  <2>1. PICK u \in Usernames :
           IF IsSticky(Parse(u))
           THEN Calls(r, [op |-> "lookup", id |-> Parse(u).sessionID, t |-> now])
           ELSE UNCHANGED calls
    BY <1>1 DEF Arrive
  <2>2. calls[r] = None /\ UNCHANGED <<now, sessions>>
    BY <1>1 DEF Arrive, At
  <2>3. CASE ~IsSticky(Parse(u))
    BY <2>1, <2>2, <2>3 DEF vars
  <2>4. CASE IsSticky(Parse(u))
    <3>1. Parse(u).sessionID \in SessionId
      BY <2>4 DEF IsSticky
    <3>2. Begin(r)
      BY <2>1, <2>2, <2>4, <3>1 DEF Begin, Calls
    <3>3. QED
      BY <3>2 DEF Next
  <2>5. QED
    BY <2>3, <2>4
<1>2. ASSUME NEW r \in Request, NEW w \in Worker, Choose(r, w), calls[r] = None
      PROVE  [Next]_vars
  <2>1. CASE req[r].id = None
    BY <1>2, <2>1 DEF Choose, vars
  <2>2. CASE req[r].id # None
    <3>1. req[r].id \in SessionId /\ req[r].ttl \in Ttls
      BY <2>2 DEF RequestRecord
    <3>2. Begin(r)
      BY <1>2, <2>2, <3>1 DEF Choose, Calls, Begin
    <3>3. QED
      BY <3>2 DEF Next
  <2>3. QED
    BY <2>1, <2>2
<1>3. ASSUME NEW r \in Request, Route(r)
      PROVE  [Next]_vars
  <2>1. CASE SelectRoutable(r) \/ RequestPicks(r) \/ RequestCreates(r)
    <3>1. calls[r] = None
      BY <2>1 DEF SelectRoutable, RequestPicks, RequestCreates, At
    <3>2. PICK w \in Worker : Choose(r, w)
      BY <2>1 DEF SelectRoutable, RequestPicks, RequestCreates, Routable
    <3>3. QED
      BY <1>2, <3>1, <3>2
  <2>2. CASE FindReady(r) \/ SelectNone(r) \/ RequestFails(r)
    BY <2>2 DEF FindReady, StickyHit, SelectNone, RequestFails
  <2>3. CASE RouteLookup(r)
    BY <2>3 DEF RouteLookup, Next
  <2>4. CASE RouteRemove(r)
    BY <2>4 DEF RouteRemove, At, Next
  <2>5. CASE RouteBind(r)
    BY <2>5 DEF RouteBind, Next
  <2>6. QED
    BY <1>3, <2>1, <2>2, <2>3, <2>4, <2>5 DEF Route
<1>4. ASSUME NEW r \in Request, Dial(r)
      PROVE  [Next]_vars
  BY <1>4 DEF Dial, GetWorkerNsHandle, TrackConn, UntrackConn
<1>5. CASE \/ Warm \/ TimePasses
           \/ \E w \in Worker : StartsClosing(w) \/ UnbindVictim(w)
           \/ \E met \in [Mapped -> {"exited", "aged", "unused", "fine"}] : CheckWorkers(met)
           \/ \E t \in 0 .. now : CleanupSessions(t)
  BY <1>5 DEF Warm, TimePasses, StartsClosing, UnbindVictim, CheckWorkers, CleanupSessions,
              Next
<1>6. QED
  BY <1>1, <1>3, <1>4, <1>5 DEF GatewayNext

-----------------------------------------------------------------------------
(***************************************************************************)
(* Requests.                                                               *)
(***************************************************************************)

\* The records a request moves through.
LEMMA IdleType ==
    /\ Idle \in RequestRecord
    /\ \A w \in Worker : [Idle EXCEPT !.pc = "handle", !.w = w] \in RequestRecord
    /\ \A w \in Worker, s \in SessionId :
          [Idle EXCEPT !.pc = "bind", !.id = s, !.w = w] \in RequestRecord
  BY GatewayAssumption DEF Idle, RequestRecord, Positions

\* What a request takes with it into its next position.
Moves(r, k) ==
    /\ k \in RequestRecord
    /\ req' = [req EXCEPT ![r] = k]
    /\ Consistent(k, calls'[r])
    /\ \A q \in Request \ {r} : calls'[q] = calls[q]

\* A new request takes its parameters from its username and, if they name a
\* session, the clock's reading with it.
LEMMA ArriveMoves ==
    ASSUME GInv, NEW r \in Request, Arrive(r)
    PROVE  \E u \in Usernames :
              LET p == Parse(u)
                  k == [Idle EXCEPT !.pc = IF IsSticky(p) THEN "lookup" ELSE "select",
                                    !.id = p.sessionID, !.want = p.country, !.ttl = p.ttl]
              IN  Moves(r, k)
<1>1. PICK u \in Usernames :
         LET p == Parse(u)
         IN  /\ req' = [req EXCEPT ![r] = [Idle EXCEPT
                          !.pc = IF IsSticky(p) THEN "lookup" ELSE "select",
                          !.id = p.sessionID, !.want = p.country, !.ttl = p.ttl]]
             /\ IF IsSticky(p)
                THEN Calls(r, [op |-> "lookup", id |-> p.sessionID, t |-> now])
                ELSE UNCHANGED calls
  BY DEF Arrive
<1> DEFINE p == Parse(u)
           k == [Idle EXCEPT !.pc = IF IsSticky(p) THEN "lookup" ELSE "select",
                             !.id = p.sessionID, !.want = p.country, !.ttl = p.ttl]
<1>2. k \in RequestRecord
  BY GatewayAssumption DEF Idle, RequestRecord, Positions
<1>3. calls[r] = None /\ calls \in [Request -> Call \cup {None}]
  BY GatewayAssumption DEF GInv, GatewayTypeOK, TypeOK, CallInv, Consistent, Arrive, At
<1>4. IsSticky(p) => p.sessionID \in SessionId
  BY GatewayAssumption DEF IsSticky
<1>5. CASE IsSticky(p)
  <2>1. [op |-> "lookup", id |-> p.sessionID, t |-> now] \in Call
    BY <1>4, <1>5 DEF GInv, GatewayTypeOK, TypeOK, Call
  <2>2. /\ calls'[r] = [op |-> "lookup", id |-> p.sessionID, t |-> now]
        /\ \A q \in Request \ {r} : calls'[q] = calls[q]
    BY <1>1, <1>3, <1>5 DEF Calls
  <2>3. Consistent(k, calls'[r])
    BY <1>4, <1>5, <2>1, <2>2, NoneIsNoRecord DEF Consistent, Idle
  <2>4. QED
    BY <1>1, <1>2, <2>2, <2>3 DEF Moves
<1>6. CASE ~IsSticky(p)
  <2>1. Consistent(k, calls'[r])
    BY <1>1, <1>3, <1>6 DEF Consistent, Idle
  <2>2. QED
    BY <1>1, <1>2, <1>6, <2>1 DEF Moves
<1>7. QED
  BY <1>5, <1>6

\* selectOrCreate's choice goes to the session manager, if there is a session, or
\* straight to the proxy.
LEMMA ChooseMoves ==
    ASSUME GInv, NEW r \in Request, NEW w \in Worker, Choose(r, w), calls[r] = None
    PROVE  \E k \in RequestRecord :
              Moves(r, k) /\ ~k.on /\ (k.id = None \/ k.id = req[r].id)
<1>1. calls \in [Request -> Call \cup {None}] /\ req[r] \in RequestRecord
  BY GatewayAssumption DEF GInv, GatewayTypeOK, TypeOK
<1>2. CASE req[r].id = None
  <2> DEFINE k == [Idle EXCEPT !.pc = "handle", !.w = w]
  <2>1. Consistent(k, calls'[r]) /\ ~k.on /\ k.id = None
    BY <1>2 DEF Choose, Consistent, Idle
  <2>2. QED
    BY <1>2, <2>1, IdleType DEF Choose, Routed, Moves
<1>3. CASE req[r].id # None
  <2> DEFINE k == [Idle EXCEPT !.pc = "bind", !.id = req[r].id, !.w = w]
             call == [op |-> "bind", id |-> req[r].id, ttl |-> req[r].ttl,
                      workerID |-> w, t |-> now]
  <2>1. req[r].id \in SessionId /\ call \in Call
    BY <1>1, <1>3 DEF RequestRecord, Call, GInv, GatewayTypeOK, TypeOK
  <2>2. calls'[r] = call /\ \A q \in Request \ {r} : calls'[q] = calls[q]
    BY <1>1, <1>3 DEF Choose, Calls
  <2>3. Consistent(k, calls'[r]) /\ ~k.on /\ k.id = req[r].id
    BY <2>1, <2>2, NoneIsNoRecord DEF Consistent, Idle
  <2>4. QED
    BY <1>3, <2>1, <2>2, <2>3, IdleType DEF Choose, Moves
<1>4. QED
  BY <1>2, <1>3

\* Every other step of a request takes what the request's next call needs with it.
LEMMA RequestMoves ==
    ASSUME GInv, NEW r \in Request, Route(r) \/ Dial(r)
    PROVE  \E k \in RequestRecord :
              /\ Moves(r, k)
              /\ k.on => At(r, "track")
              /\ k.id = None \/ k.id = req[r].id
<1>1. /\ req[r] \in RequestRecord /\ Consistent(req[r], calls[r])
      /\ calls \in [Request -> Call \cup {None}]
      /\ sessions \in [SessionId -> Session \cup {None}]
  BY GatewayAssumption DEF GInv, GatewayTypeOK, TypeOK, CallInv
<1>2. CASE SelectRoutable(r) \/ RequestPicks(r) \/ RequestCreates(r)
  <2>1. calls[r] = None
    BY <1>1, <1>2 DEF SelectRoutable, RequestPicks, RequestCreates, At, Consistent
  <2>2. PICK w \in Worker : Choose(r, w)
    BY <1>2 DEF SelectRoutable, RequestPicks, RequestCreates, Routable
  <2>3. QED
    BY <2>1, <2>2, ChooseMoves
<1>3. CASE RouteLookup(r)
  <2> DEFINE s == sessions[req[r].id]
             hit == s # None /\ ~Expired(s, calls[r].t)
             k == [req[r] EXCEPT !.pc = IF hit THEN "find" ELSE "select",
                                 !.w = IF hit THEN s.workerID ELSE None]
  <2>1. req[r].id \in SessionId /\ ~req[r].on /\ (s # None => s.workerID \in Worker)
    BY <1>1, <1>3 DEF RouteLookup, At, Consistent, Session
  <2>2. req' = [req EXCEPT ![r] = k]
    BY <1>3 DEF RouteLookup, GInv, GatewayTypeOK
  <2>3. calls'[r] = None /\ \A q \in Request \ {r} : calls'[q] = calls[q]
    BY <1>1, <1>3 DEF RouteLookup, Lookup, Return
  <2> HIDE DEF s, hit
  <2>4. k \in RequestRecord
    <3>1. CASE hit
      BY <1>1, <2>1, <3>1 DEF hit, RequestRecord, Positions
    <3>2. CASE ~hit
      BY <1>1, <2>1, <3>2 DEF RequestRecord, Positions
    <3>3. QED
      BY <3>1, <3>2
  <2>5. Consistent(k, calls'[r]) /\ ~k.on /\ k.id = req[r].id
    BY <1>1, <2>1, <2>3 DEF hit, Consistent, RequestRecord
  <2>6. QED
    BY <2>2, <2>3, <2>4, <2>5 DEF Moves
<1>4. CASE FindReady(r)
  <2>1. UNCHANGED calls /\ calls[r] = None /\ req[r].w \in Worker /\ req[r].id \in SessionId
    BY <1>1, <1>4 DEF FindReady, StickyHit, At, Consistent, vars
  <2>2. CASE Routed(r, req[r].w)
    <3> DEFINE k == [Idle EXCEPT !.pc = "handle", !.w = req[r].w]
    <3>1. Consistent(k, calls'[r]) /\ ~k.on /\ k.id = None
      BY <2>1 DEF Consistent, Idle
    <3>2. QED
      BY <2>1, <2>2, <3>1, IdleType DEF Routed, Moves
  <2>3. CASE req' = [req EXCEPT ![r].pc = "remove", ![r].w = None]
    <3> DEFINE k == [req[r] EXCEPT !.pc = "remove", !.w = None]
    <3>1. req' = [req EXCEPT ![r] = k]
      BY <2>3 DEF GInv, GatewayTypeOK
    <3>2. k \in RequestRecord
      BY <1>1 DEF RequestRecord, Positions
    <3>3. Consistent(k, calls'[r]) /\ ~k.on /\ k.id = req[r].id
      BY <1>1, <1>4, <2>1 DEF Consistent, RequestRecord, FindReady, StickyHit, At
    <3>4. QED
      BY <2>1, <3>1, <3>2, <3>3 DEF Moves
  <2>4. QED
    BY <1>4, <2>2, <2>3 DEF FindReady, StickyHit
<1>5. CASE RouteRemove(r) \/ SelectNone(r)
  <2> DEFINE p == IF At(r, "remove") THEN "select" ELSE "request"
             k == [req[r] EXCEPT !.pc = p]
  <2>1. UNCHANGED calls /\ calls[r] = None
    BY <1>1, <1>5 DEF RouteRemove, Remove, SelectNone, At, Consistent, vars
  <2>2. req' = [req EXCEPT ![r] = k]
    BY <1>5 DEF RouteRemove, SelectNone, At, Goto, GInv, GatewayTypeOK
  <2>3. k \in RequestRecord
    BY <1>1 DEF RequestRecord, Positions
  <2>4. Consistent(k, calls'[r]) /\ ~k.on /\ k.id = req[r].id
    BY <1>1, <1>5, <2>1 DEF Consistent, RequestRecord, RouteRemove, SelectNone, At
  <2>5. QED
    BY <2>1, <2>2, <2>3, <2>4 DEF Moves
<1>6. CASE RequestFails(r) \/ UntrackConn(r) \/ (GetWorkerNsHandle(r) /\ req[r].w \notin Mapped)
  <2>1. UNCHANGED calls /\ calls[r] = None
    BY <1>1, <1>6 DEF RequestFails, UntrackConn, GetWorkerNsHandle, At, Consistent, vars
  <2>2. req' = [req EXCEPT ![r] = Idle]
    BY <1>6 DEF RequestFails, UntrackConn, GetWorkerNsHandle
  <2>3. Consistent(Idle, calls'[r]) /\ ~Idle.on /\ Idle.id = None
    BY <2>1 DEF Consistent, Idle
  <2>4. QED
    BY <2>1, <2>2, <2>3, IdleType DEF Moves
<1>7. CASE RouteBind(r)
  <2> DEFINE k == [Idle EXCEPT !.pc = "handle", !.w = req[r].w]
  <2>1. req[r].w \in Worker
    BY <1>1, <1>7 DEF RouteBind, At, Consistent
  <2>2. calls'[r] = None /\ \A q \in Request \ {r} : calls'[q] = calls[q]
    BY <1>1, <1>7 DEF RouteBind, Bind, Return
  <2>3. Consistent(k, calls'[r]) /\ ~k.on /\ k.id = None
    BY <2>1, <2>2 DEF Consistent, Idle
  <2>4. QED
    BY <1>7, <2>1, <2>2, <2>3, IdleType DEF RouteBind, Routed, Moves
<1>8. CASE GetWorkerNsHandle(r) /\ req[r].w \in Mapped
  <2> DEFINE k == [req[r] EXCEPT !.pc = "track"]
  <2>1. UNCHANGED calls /\ calls[r] = None
    BY <1>1, <1>8 DEF GetWorkerNsHandle, At, Consistent, vars
  <2>2. req' = [req EXCEPT ![r] = k]
    BY <1>8 DEF GetWorkerNsHandle
  <2>3. k \in RequestRecord
    BY <1>1 DEF RequestRecord, Positions
  <2>4. Consistent(k, calls'[r]) /\ ~k.on /\ k.id = req[r].id
    BY <1>1, <1>8, <2>1 DEF Consistent, RequestRecord, GetWorkerNsHandle, At
  <2>5. QED
    BY <2>1, <2>2, <2>3, <2>4 DEF Moves
<1>9. CASE TrackConn(r)
  <2> DEFINE k == [req[r] EXCEPT !.pc = "open", !.on = req[r].w \in Mapped]
  <2>1. UNCHANGED calls /\ calls[r] = None /\ At(r, "track")
    BY <1>1, <1>9 DEF TrackConn, At, Consistent, vars
  <2>2. req' = [req EXCEPT ![r] = k]
    BY <1>9 DEF TrackConn, GInv, GatewayTypeOK
  <2>3. k \in RequestRecord
    <3>1. ASSUME NEW b \in BOOLEAN
          PROVE  [req[r] EXCEPT !.pc = "open", !.on = b] \in RequestRecord
      BY <1>1 DEF RequestRecord, Positions
    <3>2. (req[r].w \in Mapped) \in BOOLEAN
      OBVIOUS
    <3>3. QED
      BY <3>1, <3>2
  <2>4. Consistent(k, calls'[r]) /\ k.id = req[r].id
    BY <1>1, <1>9, <2>1 DEF Consistent, RequestRecord, At
  <2>5. QED
    BY <2>1, <2>2, <2>3, <2>4 DEF Moves
<1>10. QED
  BY <1>2, <1>3, <1>4, <1>5, <1>6, <1>7, <1>8, <1>9 DEF Route, Dial

\* A request's step keeps the types of requests and what they hold.
LEMMA MovesInv ==
    ASSUME GInv, NEW r \in Request, NEW k \in RequestRecord, Moves(r, k)
    PROVE  /\ (req \in [Request -> RequestRecord])' /\ CallInv'
           /\ req'[r] = k /\ \A q \in Request : q # r => req'[q] = req[q]
<1>1. /\ (req \in [Request -> RequestRecord])'
      /\ req'[r] = k /\ \A q \in Request : q # r => req'[q] = req[q]
  BY DEF GInv, GatewayTypeOK, Moves
<1>2. CallInv'
  BY <1>1 DEF GInv, CallInv, Moves
<1>3. QED
  BY <1>1, <1>2

\* Whatever the gateway does, requests keep their types and what they hold; the
\* health check only forgets the counts of the workers it takes.
LEMMA RequestStep ==
    ASSUME GInv, GatewayNext
    PROVE  (req \in [Request -> RequestRecord])' /\ CallInv'
<1>1. ASSUME NEW r \in Request, Arrive(r) \/ Route(r) \/ Dial(r)
      PROVE  (req \in [Request -> RequestRecord])' /\ CallInv'
  <2>1. PICK k \in RequestRecord : Moves(r, k)
    BY <1>1, ArriveMoves, RequestMoves DEF Moves
  <2>2. QED
    BY <2>1, MovesInv
<1>2. CASE UNCHANGED <<req, calls>>
  BY <1>2 DEF GInv, GatewayTypeOK, CallInv
<1>3. ASSUME NEW met, CheckWorkers(met)
      PROVE  (req \in [Request -> RequestRecord])' /\ CallInv'
  <2>1. PICK W : /\ req' = [r \in Request |-> [req[r] EXCEPT !.on = @ /\ req[r].w \notin W]]
                 /\ UNCHANGED calls
    BY <1>3 DEF CheckWorkers, vars
  <2>2. ASSUME NEW r \in Request
        PROVE  /\ req'[r] \in RequestRecord
               /\ Consistent(req'[r], calls'[r])
    <3>1. req[r] \in RequestRecord /\ Consistent(req[r], calls[r])
      BY DEF GInv, GatewayTypeOK, CallInv
    <3>2. ASSUME NEW b \in BOOLEAN, b => req[r].on
          PROVE  /\ [req[r] EXCEPT !.on = b] \in RequestRecord
                 /\ Consistent([req[r] EXCEPT !.on = b], calls[r])
      BY <3>1, <3>2 DEF RequestRecord, Consistent
    <3>3. QED
      BY <2>1, <3>1, <3>2 DEF RequestRecord
  <2>3. QED
    BY <2>1, <2>2 DEF CallInv
<1>4. CASE \/ Warm \/ TimePasses
           \/ \E w \in Worker : StartsClosing(w) \/ UnbindVictim(w)
           \/ \E t \in 0 .. now : CleanupSessions(t)
  BY <1>2, <1>4 DEF Warm, TimePasses, StartsClosing, UnbindVictim, CleanupSessions,
                    RemoveByWorker, Cleanup, Tick, vars
<1>5. QED
  BY <1>1, <1>3, <1>4 DEF GatewayNext

-----------------------------------------------------------------------------
(***************************************************************************)
(* Counting connections.                                                   *)
(***************************************************************************)

\* The requests that worker w has counted.
On(w) == {r \in Request : req[r].w = w /\ req[r].on}

\* They are finitely many.
LEMMA OnFinite ==
    ASSUME NEW w
    PROVE  /\ IsFiniteSet(On(w)) /\ Cardinality(On(w)) \in Nat
           /\ Cardinality(On(w)) <= Cardinality(Request) /\ Cardinality(Request) \in Nat
  BY FS_Subset, FS_CardinalityType, GatewayAssumption DEF On

\* A worker that counts no more than before and has all its requests keeps within
\* them, and a new one counts none.
CountsKept ==
    /\ pool' \in [Worker -> [state : {"ready", "awaiting", "closing"}, country : Country,
                             conns : Nat] \cup {None}]
    /\ \A w \in Worker :
          pool'[w] # None => \/ pool'[w].conns = 0
                             \/ /\ pool[w] # None /\ pool'[w].conns = pool[w].conns
                                /\ On(w)' = On(w)

PoolInv == pool \in [Worker -> WorkerRecord \cup {None}] /\ NoPhantomConns

\* Then the counts of all workers keep within their requests, and so within all.
LEMMA CountsKeptInv ==
    ASSUME GInv, CountsKept
    PROVE  PoolInv'
<1>1. ASSUME NEW w \in Worker, pool'[w] # None
      PROVE  /\ pool'[w] \in WorkerRecord
             /\ pool'[w].conns <= Cardinality(On(w)')
  <2>1. /\ IsFiniteSet(On(w)') /\ Cardinality(On(w)') \in Nat
        /\ Cardinality(On(w)') <= Cardinality(Request) /\ Cardinality(Request) \in Nat
    BY FS_Subset, FS_CardinalityType, GatewayAssumption DEF On
  <2>2. pool'[w].conns <= Cardinality(On(w)')
    BY <1>1, <2>1 DEF CountsKept, GInv, NoPhantomConns, Mapped, On
  <2>3. QED
    BY <1>1, <2>1, <2>2 DEF CountsKept, WorkerRecord
<1>2. QED
  BY <1>1 DEF PoolInv, CountsKept, NoPhantomConns, Mapped, On

\* A request that no worker counts before or after its step changes no count.
LEMMA UncountedStep ==
    ASSUME GInv, NEW r \in Request, NEW k \in RequestRecord, Moves(r, k),
           ~req[r].on, ~k.on
    PROVE  \A w \in Worker : On(w)' = On(w)
  BY MovesInv DEF On

\* A worker that is published counts nothing.
LEMMA PublishStep ==
    ASSUME GInv, NEW w \in Worker, NEW c \in Country, Publish(w, c),
           \A v \in Worker : On(v)' = On(v)
    PROVE  PoolInv'
<1> DEFINE new == [state |-> "ready", country |-> c, conns |-> 0]
<1>1. pool' = [pool EXCEPT ![w] = new] /\ new.conns = 0
  BY DEF Publish
<1>2. new \in [state : {"ready", "awaiting", "closing"}, country : Country, conns : Nat]
  OBVIOUS
<1> HIDE DEF new
<1>3. \A v \in Worker : pool'[v] = IF v = w THEN new ELSE pool[v]
  BY <1>1 DEF GInv, GatewayTypeOK
<1>4. pool' \in [Worker -> [state : {"ready", "awaiting", "closing"}, country : Country,
                            conns : Nat] \cup {None}]
  <2>1. \A v \in Worker : pool[v] # None =>
           pool[v] \in [state : {"ready", "awaiting", "closing"}, country : Country,
                        conns : Nat]
    BY DEF GInv, GatewayTypeOK, WorkerRecord
  <2>2. DOMAIN pool' = Worker
    BY <1>1 DEF GInv, GatewayTypeOK
  <2>3. QED
    BY <1>1, <1>2, <1>3, <2>1, <2>2 DEF GInv, GatewayTypeOK
<1>5. CountsKept
  BY <1>1, <1>3, <1>4 DEF CountsKept
<1>6. QED
  BY <1>5, CountsKeptInv

\* A worker whose record changes but for its count.
LEMMA PoolKeptStep ==
    ASSUME GInv, UNCHANGED pool, \A w \in Worker : On(w)' = On(w)
    PROVE  PoolInv'
<1>1. pool \in [Worker -> [state : {"ready", "awaiting", "closing"}, country : Country,
                           conns : Nat] \cup {None}]
  BY DEF GInv, GatewayTypeOK, WorkerRecord
<1>2. CountsKept
  BY <1>1 DEF CountsKept
<1>3. QED
  BY <1>2, CountsKeptInv

\* TrackConn counts a request on the worker that has its ID now; UntrackConn takes
\* one off whichever worker has it, which may never have counted the request.
LEMMA TrackStep ==
    ASSUME GInv, NEW r \in Request, TrackConn(r) \/ UntrackConn(r)
    PROVE  PoolInv'
<1>0. PICK w \in Worker : w = req[r].w
  BY DEF GInv, CallInv, Consistent, TrackConn, UntrackConn, At
<1> DEFINE n == IF At(r, "track") THEN pool[w].conns + 1
                ELSE IF pool[w].conns > 0 THEN pool[w].conns - 1 ELSE 0
<1>1. /\ req[r] \in RequestRecord /\ w = req[r].w /\ (req[r].on => At(r, "open"))
      /\ pool \in [Worker -> WorkerRecord \cup {None}]
  BY <1>0 DEF GInv, GatewayTypeOK, CallInv, Consistent, At
<1>2. PICK k \in RequestRecord : Moves(r, k)
  BY RequestMoves DEF Dial
<1>3. req'[r] = k /\ \A q \in Request : q # r => req'[q] = req[q]
  BY <1>2, MovesInv
<1>4. /\ TrackConn(r) => k.on = (w \in Mapped) /\ k.w = w
      /\ UntrackConn(r) => ~k.on
  BY <1>1, <1>3 DEF TrackConn, UntrackConn, Idle, GInv, GatewayTypeOK, RequestRecord
<1>5. \A v \in Worker : v # w => On(v)' = On(v)
  BY <1>1, <1>3, <1>4 DEF On, TrackConn, UntrackConn
<1>6. CASE w \notin Mapped
  <2>1. UNCHANGED pool
    BY <1>1, <1>6 DEF TrackConn, UntrackConn
  <2>2. CountsKept
    BY <1>1, <1>5, <1>6, <2>1 DEF CountsKept, Mapped, WorkerRecord
  <2>3. QED
    BY <2>2, CountsKeptInv
<1>7. CASE w \in Mapped
  <2>1. /\ pool[w] \in WorkerRecord /\ pool[w].conns \in Nat
        /\ pool[w].conns <= Cardinality(On(w))
    BY <1>1, <1>7 DEF GInv, NoPhantomConns, Mapped, On, WorkerRecord
  <2>2. pool' = [pool EXCEPT ![w] = [pool[w] EXCEPT !.conns = n]]
    BY <1>1, <1>7, <2>1 DEF TrackConn, UntrackConn, At
  <2>3. n \in Nat /\ n <= Cardinality(On(w)')
    <3>1. CASE TrackConn(r)
      <4>1. On(w)' = On(w) \cup {r} /\ r \notin On(w)
        BY <1>1, <1>3, <1>4, <1>7, <3>1 DEF On, TrackConn, At
      <4>2. Cardinality(On(w)') = Cardinality(On(w)) + 1
        BY <4>1, FS_AddElement, OnFinite
      <4>3. QED
        BY <2>1, <3>1, <4>2, OnFinite DEF TrackConn
    <3>2. CASE UntrackConn(r)
      <4>1. On(w)' = On(w) \ {r}
        BY <1>1, <1>3, <1>4, <3>2 DEF On
      <4>2. Cardinality(On(w)') \in Nat /\ Cardinality(On(w)') >= Cardinality(On(w)) - 1
        <5>1. IsFiniteSet(On(w)) /\ Cardinality(On(w)) \in Nat
          BY OnFinite
        <5>2. /\ IsFiniteSet(On(w) \ {r})
              /\ Cardinality(On(w) \ {r}) =
                    IF r \in On(w) THEN Cardinality(On(w)) - 1 ELSE Cardinality(On(w))
          BY <5>1, FS_RemoveElement
        <5>3. Cardinality(On(w) \ {r}) \in Nat
          BY <5>2, FS_CardinalityType
        <5>4. QED
          BY <4>1, <5>1, <5>2, <5>3
      <4>3. QED
        BY <2>1, <3>2, <4>2, OnFinite DEF UntrackConn, At
    <3>3. QED
      BY <3>1, <3>2
  <2>4. Cardinality(On(w)') <= Cardinality(Request) /\ Cardinality(Request) \in Nat
        /\ Cardinality(On(w)') \in Nat
    BY FS_Subset, FS_CardinalityType, GatewayAssumption DEF On
  <2> HIDE DEF n
  <2>5. [pool[w] EXCEPT !.conns = n] \in WorkerRecord
    BY <2>1, <2>3, <2>4 DEF WorkerRecord
  <2>6. /\ pool' \in [Worker -> WorkerRecord \cup {None}]
        /\ pool'[w].conns = n /\ \A v \in Worker : v # w => pool'[v] = pool[v]
    BY <1>1, <2>1, <2>2, <2>5 DEF WorkerRecord
  <2>7. NoPhantomConns'
    BY <1>5, <2>3, <2>6 DEF NoPhantomConns, Mapped, On, GInv
  <2>8. QED
    BY <2>6, <2>7 DEF PoolInv
<1>8. QED
  BY <1>6, <1>7

\* The health check takes workers with their counts and leaves the rest alone.
LEMMA CheckStep ==
    ASSUME GInv, NEW met, CheckWorkers(met)
    PROVE  PoolInv' /\ (victims \subseteq Worker)'
<1>1. PICK taken \in SUBSET Worker, waits \in SUBSET Mapped :
         /\ victims' = taken
         /\ pool' = [w \in Worker |->
               IF w \in taken THEN None
               ELSE IF w \in waits THEN [pool[w] EXCEPT !.state = "awaiting"]
               ELSE pool[w]]
         /\ req' = [r \in Request |-> [req[r] EXCEPT !.on = @ /\ req[r].w \notin taken]]
  <2> DEFINE is(f) == {w \in Mapped : met[w] = f}
             dead == is("exited")
             live == Mapped \ dead
             waits == {w \in live : \/ pool[w].state = "awaiting"
                                    \/ pool[w].state = "ready" /\ w \in is("aged")}
             drained == {w \in live : pool[w].state = "closing" /\ pool[w].conns = 0}
             idle == {w \in is("unused") \ waits : Unneeded(w)}
  <2>1. dead \cup drained \cup idle \in SUBSET Worker /\ waits \in SUBSET Mapped
    BY DEF Mapped
  <2>2. QED
    BY <2>1, Zenon DEF CheckWorkers
<1>2. ASSUME NEW w \in Worker, w \notin taken
      PROVE  On(w)' = On(w)
  BY <1>1, <1>2 DEF On, GInv, GatewayTypeOK, RequestRecord
<1>3. ASSUME NEW w \in Worker, pool'[w] # None
      PROVE  /\ pool'[w] \in [state : {"ready", "awaiting", "closing"}, country : Country,
                              conns : Nat]
             /\ pool[w] # None /\ pool'[w].conns = pool[w].conns
             /\ On(w)' = On(w)
  <2>1. w \notin taken /\ (w \in waits => w \in Mapped)
    BY <1>1, <1>3
  <2>2. pool[w] \in WorkerRecord /\ pool[w] # None
    BY <1>1, <1>3, <2>1 DEF GInv, GatewayTypeOK, Mapped
  <2>3. pool'[w] \in {pool[w], [pool[w] EXCEPT !.state = "awaiting"]}
    BY <1>1, <2>1
  <2>4. QED
    BY <1>2, <2>1, <2>2, <2>3 DEF WorkerRecord
<1>4. CountsKept
  BY <1>1, <1>3 DEF CountsKept
<1>5. QED
  BY <1>1, <1>4, CountsKeptInv

\* No step makes a worker count more than it was given.
LEMMA PoolStep ==
    ASSUME GInv, GatewayNext
    PROVE  PoolInv' /\ (victims \subseteq Worker)'
<1>1. victims \subseteq Worker
  BY DEF GInv, GatewayTypeOK
<1>2. ASSUME NEW r \in Request, Arrive(r) \/ Route(r) \/ GetWorkerNsHandle(r)
      PROVE  PoolInv' /\ (victims \subseteq Worker)'
  <2>1. ~req[r].on /\ ~At(r, "track")
    BY <1>2 DEF GInv, CallInv, Consistent, At, Arrive, Route, RouteLookup, FindReady,
       StickyHit, RouteRemove, SelectRoutable, SelectNone, RequestPicks, RequestCreates,
       RequestFails, RouteBind, GetWorkerNsHandle
  <2>2. PICK k \in RequestRecord : Moves(r, k) /\ ~k.on
    <3>1. CASE Arrive(r)
      BY <3>1, ArriveMoves DEF Moves, Idle
    <3>2. CASE Route(r) \/ GetWorkerNsHandle(r)
      BY <2>1, <3>2, RequestMoves DEF Dial
    <3>3. QED
      BY <1>2, <3>1, <3>2
  <2>3. \A w \in Worker : On(w)' = On(w)
    BY <2>1, <2>2, UncountedStep
  <2>4. UNCHANGED victims
    BY <1>2 DEF Arrive, Route, RouteLookup, FindReady, StickyHit, RouteRemove,
       SelectRoutable, SelectNone, RequestPicks, RequestCreates, RequestFails, RouteBind,
       GetWorkerNsHandle, Choose
  <2>5. CASE RequestCreates(r)
    BY <1>1, <2>3, <2>4, <2>5, PublishStep DEF RequestCreates
  <2>6. CASE ~RequestCreates(r)
    <3>1. UNCHANGED pool
      BY <1>2, <2>6 DEF Arrive, Route, RouteLookup, FindReady, StickyHit, RouteRemove,
         SelectRoutable, SelectNone, RequestPicks, RequestFails, RouteBind,
         GetWorkerNsHandle
    <3>2. QED
      BY <1>1, <2>3, <2>4, <3>1, PoolKeptStep
  <2>7. QED
    BY <2>5, <2>6
<1>3. ASSUME NEW r \in Request, TrackConn(r) \/ UntrackConn(r)
      PROVE  PoolInv' /\ (victims \subseteq Worker)'
  <2>1. UNCHANGED victims
    BY <1>3 DEF TrackConn, UntrackConn
  <2>2. QED
    BY <1>1, <1>3, <2>1, TrackStep
<1>4. CASE Warm
  <2>1. UNCHANGED victims /\ \A w \in Worker : On(w)' = On(w)
    BY <1>4 DEF Warm, On
  <2>2. QED
    BY <1>1, <1>4, <2>1, PublishStep DEF Warm
<1>5. ASSUME NEW w \in Worker, StartsClosing(w)
      PROVE  PoolInv' /\ (victims \subseteq Worker)'
  <2>1. pool[w] \in WorkerRecord /\ pool[w] # None
    BY <1>5 DEF StartsClosing, Mapped, GInv, GatewayTypeOK
  <2>2. /\ pool' = [pool EXCEPT ![w] = [pool[w] EXCEPT !.state = "closing"]]
        /\ UNCHANGED victims
    BY <1>5 DEF StartsClosing, GInv, GatewayTypeOK
  <2>3. /\ [pool[w] EXCEPT !.state = "closing"] \in WorkerRecord
        /\ [pool[w] EXCEPT !.state = "closing"].conns = pool[w].conns
    BY <2>1 DEF WorkerRecord
  <2>4. \A v \in Worker : On(v)' = On(v)
    BY <1>5 DEF StartsClosing, On
  <2>5. CountsKept
    BY <2>1, <2>2, <2>3, <2>4 DEF CountsKept, WorkerRecord, GInv, GatewayTypeOK
  <2>6. QED
    BY <1>1, <2>2, <2>5, CountsKeptInv
<1>6. CASE \/ TimePasses
           \/ \E w \in Worker : UnbindVictim(w)
           \/ \E t \in 0 .. now : CleanupSessions(t)
  <2>1. UNCHANGED pool /\ (victims \subseteq Worker)' /\ \A w \in Worker : On(w)' = On(w)
    BY <1>1, <1>6 DEF TimePasses, UnbindVictim, CleanupSessions, On
  <2>2. QED
    BY <2>1, PoolKeptStep
<1>7. QED
  BY <1>2, <1>3, <1>4, <1>5, <1>6, CheckStep DEF GatewayNext, Dial

-----------------------------------------------------------------------------
(***************************************************************************)
(* Homes.                                                                  *)
(***************************************************************************)
HomeInv ==
    home \in [SessionId -> Worker \cup {None}] /\ HomeIsKept /\ CalmInv

\* A step that gives no session a new home and keeps, for each that has one, the
\* session bound, the worker ready and in its country, and its requests as they
\* are.
KeepsHomes ==
    /\ home' \in [SessionId -> Worker \cup {None}]
    /\ \A s \in SessionId, w \in Worker :
          home'[s] = w =>
             /\ home[s] = w /\ Pinned(s)' = w
             /\ Ready(w)' /\ pool'[w].country = pool[w].country
             /\ \A r \in Request : Routing(r, s)' =>
                   /\ Routing(r, s)
                   /\ req'[r].pc = req[r].pc /\ req'[r].w = req[r].w
                   /\ req'[r].want = req[r].want

\* Such a step keeps what is said of homes.
LEMMA KeepsHomesInv ==
    ASSUME GInv, KeepsHomes
    PROVE  HomeInv'
<1>1. None \notin Worker
  BY SessionAssumption
<1>2. HomeIsKept'
  BY <1>1 DEF KeepsHomes, HomeIsKept
<1>3. CalmInv'
  <2> SUFFICES ASSUME NEW s \in SessionId, NEW r \in Request,
                      home'[s] # None, Routing(r, s)'
               PROVE  /\ req'[r].pc \in {"lookup", "find"}
                      /\ req'[r].pc = "find" => req'[r].w = home'[s]
                      /\ Matches(home[s], req[r].want)'
                      /\ \A q \in Request : Routing(q, s)' => q = r
    BY DEF CalmInv, At
  <2>1. PICK w \in Worker : home'[s] = w
    BY DEF KeepsHomes
  <2>2. /\ home[s] = w /\ home[s] # None /\ Ready(w)' /\ pool'[w].country = pool[w].country
        /\ Routing(r, s)
        /\ req'[r].pc = req[r].pc /\ req'[r].w = req[r].w /\ req'[r].want = req[r].want
        /\ \A q \in Request : Routing(q, s)' => Routing(q, s)
    BY <1>1, <2>1 DEF KeepsHomes
  <2>3. /\ req[r].pc \in {"lookup", "find"}
        /\ At(r, "find") => req[r].w = home[s]
        /\ Matches(w, req[r].want)
        /\ \A q \in Request : Routing(q, s) => q = r
    BY <2>2 DEF GInv, CalmInv
  <2>4. Matches(w, req[r].want)'
    BY <2>2, <2>3 DEF Matches, Ready, Mapped
  <2>5. QED
    BY <2>1, <2>2, <2>3, <2>4 DEF At
<1>4. QED
  BY <1>2, <1>3 DEF HomeInv, KeepsHomes

\* Forgetting homes gives none.
LEMMA UnsettleEffect ==
    ASSUME GInv, NEW S, Unsettle(S)
    PROVE  /\ home' \in [SessionId -> Worker \cup {None}]
           /\ \A s \in SessionId : home'[s] # None => home'[s] = home[s] /\ s \notin S
  BY DEF Unsettle, GInv, GatewayTypeOK

\* What is true of a session with a home.
LEMMA AtHome ==
    ASSUME GInv, NEW s \in SessionId, NEW w \in Worker, home[s] = w
    PROVE  /\ pool[w] \in WorkerRecord /\ w \in Mapped /\ Ready(w)
           /\ pool[w].state \in {"ready", "awaiting"}
           /\ sessions[s] \in Session /\ ~Expired(sessions[s], now)
           /\ sessions[s].workerID = w /\ Pinned(s) = w
<1>1. w # None
  BY SessionAssumption
<1>2. Ready(w) /\ Pinned(s) = w
  BY <1>1 DEF GInv, HomeIsKept
<1>3. w \in Mapped /\ pool[w] \in WorkerRecord /\ pool[w].state \in {"ready", "awaiting"}
  BY <1>2 DEF Ready, Mapped, GInv, GatewayTypeOK
<1>4. /\ sessions[s] \in Session /\ ~Expired(sessions[s], now)
      /\ sessions[s].workerID = w
  BY <1>1, <1>2 DEF Pinned, Has, GInv, GatewayTypeOK, TypeOK
<1>5. QED
  BY <1>2, <1>3, <1>4

\* A session that does not change stays bound while the clock stands.
LEMMA PinnedKept ==
    ASSUME NEW s \in SessionId, sessions'[s] = sessions[s], now' = now
    PROVE  Pinned(s)' = Pinned(s)
  BY DEF Pinned, Has

\* An old reading of the clock expires no session that is alive now.
LEMMA OldReading ==
    ASSUME NEW x \in Session, NEW t \in Nat, NEW u \in Nat, t <= u, ~Expired(x, u)
    PROVE  ~Expired(x, t)
  BY DEF Expired, Session

\* A request past its find, or one that has been routed, disturbs no home.
LEMMA RequestKeepsHomes ==
    ASSUME GInv, NEW r \in Request, NEW k \in RequestRecord, Moves(r, k),
           k.id = None \/ k.id = req[r].id,
           req[r].pc \in {"remove", "select", "request"} \/ k.pc \in {"idle", "track", "open"},
           UNCHANGED home, now' = now,
           \A s \in SessionId : home[s] # None => sessions'[s] = sessions[s],
           \A w \in Mapped : /\ w \in Mapped' /\ pool'[w].state = pool[w].state
                             /\ pool'[w].country = pool[w].country
    PROVE  HomeInv'
<1>1. req'[r] = k /\ \A q \in Request : q # r => req'[q] = req[q]
  BY MovesInv
<1>2. ASSUME NEW s \in SessionId, NEW w \in Worker, home'[s] = w
      PROVE  /\ home[s] = w /\ Pinned(s)' = w
             /\ Ready(w)' /\ pool'[w].country = pool[w].country
             /\ \A q \in Request : Routing(q, s)' =>
                   /\ Routing(q, s)
                   /\ req'[q].pc = req[q].pc /\ req'[q].w = req[q].w
                   /\ req'[q].want = req[q].want
  <2>1. home[s] = w /\ home[s] # None
    BY <1>2, SessionAssumption
  <2>2. Pinned(s)' = w
    BY <2>1, AtHome, PinnedKept
  <2>3. Ready(w)' /\ pool'[w].country = pool[w].country
    BY <2>1, AtHome DEF Ready
  <2>4. ~Routing(r, s)'
    BY <1>1, <2>1, SessionAssumption DEF Routing, GInv, CalmInv
  <2>5. QED
    BY <1>1, <2>1, <2>2, <2>3, <2>4 DEF Routing
<1>3. KeepsHomes
  BY <1>2 DEF KeepsHomes, GInv, GatewayTypeOK
<1>4. QED
  BY <1>3, KeepsHomesInv

\* A request that has been routed may give its session a home: the worker is ready,
\* the session bound to it, and no other request of the session is being routed.
LEMMA SettleInv ==
    ASSUME GInv, NEW r \in Request, NEW w \in Worker, Routed(r, w), Settle(r, w),
           UNCHANGED pool,
           \A s \in SessionId : s # req[r].id /\ home[s] # None => Pinned(s)' = Pinned(s)
    PROVE  HomeInv'
<1>1. None \notin Worker /\ None \notin SessionId
  BY SessionAssumption
<1>2. /\ req'[r].id = None /\ \A q \in Request : q # r => req'[q] = req[q]
  BY DEF Routed, Idle, GInv, GatewayTypeOK
<1>3. home' \in [SessionId -> Worker \cup {None}]
  BY DEF Settle, GInv, GatewayTypeOK
<1>4. ASSUME NEW s \in SessionId, NEW v \in Worker, home'[s] = v
      PROVE  /\ Pinned(s)' = v /\ Ready(v)'
             /\ s = req[r].id => \A q \in Request : ~Routing(q, s)'
             /\ s # req[r].id => home[s] = v
  <2>1. CASE s = req[r].id
    BY <1>1, <1>2, <1>4, <2>1 DEF Settle, Ready, Mapped, Routing
  <2>2. CASE s # req[r].id
    <3>1. home[s] = v
      BY <1>4, <2>2 DEF Settle
    <3>2. QED
      BY <1>1, <2>2, <3>1, AtHome DEF Ready, Mapped
  <2>3. QED
    BY <2>1, <2>2
<1>5. HomeIsKept'
  BY <1>1, <1>3, <1>4 DEF HomeIsKept
<1>6. CalmInv'
  <2> SUFFICES ASSUME NEW s \in SessionId, NEW q \in Request,
                      home'[s] # None, Routing(q, s)'
               PROVE  /\ req'[q].pc \in {"lookup", "find"}
                      /\ req'[q].pc = "find" => req'[q].w = home'[s]
                      /\ Matches(home[s], req[q].want)'
                      /\ \A p \in Request : Routing(p, s)' => p = q
    BY DEF CalmInv, At
  <2>1. PICK v \in Worker : home'[s] = v
    BY <1>3
  <2>2. s # req[r].id /\ home[s] = v
    BY <1>4, <2>1
  <2>3. q # r /\ Routing(q, s) /\ \A p \in Request : Routing(p, s)' => Routing(p, s)
    BY <1>1, <1>2 DEF Routing
  <2>4. Matches(v, req[q].want)'
    BY <1>1, <1>2, <2>2, <2>3 DEF GInv, CalmInv, Matches, Mapped
  <2>5. QED
    BY <1>1, <1>2, <2>1, <2>2, <2>3, <2>4 DEF GInv, CalmInv, At
<1>7. QED
  BY <1>3, <1>5, <1>6 DEF HomeInv

\* A request that arrives unsettles its session if another one is being routed or
\* it asks for another country.
LEMMA ArriveHome ==
    ASSUME GInv, NEW r \in Request, Arrive(r)
    PROVE  HomeInv'
<1>1. PICK u \in Usernames :
         LET p == Parse(u)
             s == p.sessionID
             disturbed == \/ \E q \in Request : Routing(q, s)
                          \/ home[s] # None /\ ~Matches(home[s], p.country)
         IN  /\ req' = [req EXCEPT ![r] = [Idle EXCEPT
                          !.pc = IF IsSticky(p) THEN "lookup" ELSE "select",
                          !.id = s, !.want = p.country, !.ttl = p.ttl]]
             /\ IF IsSticky(p)
                THEN Unsettle(IF disturbed THEN {s} ELSE {})
                ELSE UNCHANGED home
  BY DEF Arrive
<1> DEFINE p == Parse(u)
           s == p.sessionID
<1>2. UNCHANGED <<now, sessions, pool>>
  BY DEF Arrive
<1>3. /\ req'[r].id = s /\ req'[r].want = p.country
      /\ req'[r].pc = IF IsSticky(p) THEN "lookup" ELSE "select"
      /\ \A q \in Request : q # r => req'[q] = req[q]
  BY <1>1 DEF Idle, GInv, GatewayTypeOK
<1>4. home' \in [SessionId -> Worker \cup {None}]
  BY <1>1, UnsettleEffect DEF GInv, GatewayTypeOK
<1>5. ASSUME NEW x \in SessionId, home'[x] # None
      PROVE  /\ home'[x] = home[x]
             /\ x = s => /\ \A q \in Request : ~Routing(q, s)
                         /\ Matches(home[s], p.country)
                         /\ IsSticky(p)
  <2>1. CASE IsSticky(p)
    BY <1>1, <1>5, <2>1, UnsettleEffect
  <2>2. CASE ~IsSticky(p)
    BY <1>1, <1>5, <2>2, SessionAssumption DEF IsSticky
  <2>3. QED
    BY <2>1, <2>2
<1>6. HomeIsKept'
  BY <1>2, <1>5 DEF GInv, HomeIsKept, Ready, Mapped, Pinned, Has
<1>7. ASSUME NEW x \in SessionId, NEW q \in Request, home'[x] # None, Routing(q, x)'
      PROVE  /\ req'[q].pc \in {"lookup", "find"}
             /\ req'[q].pc = "find" => req'[q].w = home'[x]
             /\ Matches(home[x], req[q].want)'
             /\ \A o \in Request : Routing(o, x)' => o = q
  <2>1. CASE x = s
    <3>1. \A o \in Request : Routing(o, x)' => o = r
      BY <1>3, <1>5, <1>7, <2>1 DEF Routing
    <3>2. q = r
      BY <1>7, <3>1
    <3>3. QED
      BY <1>2, <1>3, <1>5, <1>7, <2>1, <3>1, <3>2 DEF Matches, Mapped
  <2>2. CASE x # s
    <3>1. \A o \in Request : Routing(o, x)' => o # r /\ Routing(o, x)
      BY <1>3, <2>2 DEF Routing
    <3>2. q # r /\ Routing(q, x) /\ home'[x] = home[x] /\ req'[q] = req[q]
      BY <1>3, <1>5, <1>7, <3>1
    <3>3. QED
      BY <1>2, <1>7, <3>1, <3>2 DEF GInv, CalmInv, Matches, Mapped, At
  <2>3. QED
    BY <2>1, <2>2
<1>8. QED
  BY <1>4, <1>6, <1>7 DEF HomeInv, CalmInv, At

\* A session with a home is not expired for a lookup that read the clock before,
\* which finds it bound to its home.
LEMMA LookupHome ==
    ASSUME GInv, NEW r \in Request, RouteLookup(r)
    PROVE  HomeInv'
<1> DEFINE s == sessions[req[r].id]
           hit == s # None /\ ~Expired(s, calls[r].t)
<1>1. /\ req[r].pc = "lookup" /\ req[r].id \in SessionId
      /\ calls[r] # None /\ calls[r].id = req[r].id /\ calls[r].t <= now
      /\ calls[r].t \in Nat /\ now \in Nat
  BY GatewayAssumption
     DEF RouteLookup, At, GInv, GatewayTypeOK, TypeOK, CallInv, Consistent, ReadBefore, Call
<1>2. /\ req'[r].id = req[r].id /\ req'[r].want = req[r].want
      /\ req'[r].pc = IF hit THEN "find" ELSE "select"
      /\ req'[r].w = IF hit THEN s.workerID ELSE None
      /\ \A q \in Request : q # r => req'[q] = req[q]
  BY DEF RouteLookup, GInv, GatewayTypeOK, RequestRecord
<1>3. UNCHANGED <<now, pool, home>>
  BY DEF RouteLookup, Lookup, Return
<1>4. ASSUME NEW x \in SessionId, NEW w \in Worker, home[x] = w
      PROVE  Pinned(x)' = w /\ (x = req[r].id => hit /\ s.workerID = w)
  <2>1. sessions[x] \in Session /\ ~Expired(sessions[x], now) /\ sessions[x].workerID = w
    BY <1>4, AtHome
  <2>2. ~Expired(sessions[x], calls[r].t)
    BY <1>1, <2>1, OldReading
  <2>3. sessions'[x] = sessions[x]
    BY <1>1, <2>2, DeleteEffect DEF RouteLookup, Lookup, GInv, GatewayTypeOK
  <2>4. Pinned(x)' = w
    BY <1>3, <1>4, <2>3, AtHome, PinnedKept
  <2>5. QED
    BY <2>1, <2>2, <2>4, NoneIsNoRecord
<1> HIDE DEF s, hit
<1>5. None \notin Worker /\ home \in [SessionId -> Worker \cup {None}]
  BY SessionAssumption DEF GInv, GatewayTypeOK
<1>6. HomeIsKept'
  BY <1>3, <1>4, <1>5 DEF GInv, HomeIsKept, Ready, Mapped
<1>7. ASSUME NEW x \in SessionId, NEW q \in Request, home'[x] # None, Routing(q, x)'
      PROVE  /\ req'[q].pc \in {"lookup", "find"}
             /\ req'[q].pc = "find" => req'[q].w = home'[x]
             /\ Matches(home[x], req[q].want)'
             /\ \A o \in Request : Routing(o, x)' => o = q
  <2>1. \A o \in Request : Routing(o, x)' => Routing(o, x)
    BY <1>1, <1>2 DEF Routing
  <2>2. PICK w \in Worker : home[x] = w /\ home[x] # None
    BY <1>3, <1>5, <1>7
  <2>3. Matches(home[x], req[q].want) /\ req'[q].want = req[q].want
    BY <1>2, <1>7, <2>1, <2>2 DEF GInv, CalmInv
  <2>4. Matches(home[x], req[q].want)'
    BY <1>3, <2>3 DEF Matches, Mapped
  <2>5. CASE q = r
    BY <1>2, <1>3, <1>4, <1>7, <2>1, <2>2, <2>4, <2>5 DEF GInv, CalmInv, Routing
  <2>6. CASE q # r
    BY <1>2, <1>3, <1>7, <2>1, <2>2, <2>4, <2>6 DEF GInv, CalmInv, At
  <2>7. QED
    BY <2>5, <2>6
<1>8. QED
  BY <1>3, <1>5, <1>6, <1>7 DEF HomeInv, CalmInv, At

\* A request that finds its home settles there again; one that does not find its
\* worker has none.
LEMMA FindHome ==
    ASSUME GInv, NEW r \in Request, FindReady(r)
    PROVE  HomeInv'
<1>1. /\ req[r].pc = "find" /\ req[r].w \in Worker /\ req[r].id \in SessionId
      /\ UNCHANGED <<now, sessions, pool>>
  BY DEF FindReady, StickyHit, At, GInv, CallInv, Consistent, vars
<1>2. CASE Routed(r, req[r].w) /\ Settle(r, req[r].w)
  <2>1. \A s \in SessionId : Pinned(s)' = Pinned(s)
    BY <1>1, PinnedKept
  <2>2. QED
    BY <1>1, <1>2, <2>1, SettleInv
<1>3. CASE /\ ~(Ready(req[r].w) /\ Matches(req[r].w, req[r].want))
           /\ req' = [req EXCEPT ![r].pc = "remove", ![r].w = None]
           /\ UNCHANGED home
  <2>1. Routing(r, req[r].id)
    BY <1>1 DEF Routing
  <2>2. home[req[r].id] = None
    <3> SUFFICES ASSUME home[req[r].id] # None
                 PROVE  FALSE
      OBVIOUS
    <3>1. req[r].w = home[req[r].id] /\ Matches(home[req[r].id], req[r].want)
      BY <1>1, <2>1 DEF GInv, CalmInv, At
    <3>2. Ready(req[r].w)
      BY <1>1, <3>1, AtHome
    <3>3. QED
      BY <1>3, <3>1, <3>2
  <2>3. req'[r].id = req[r].id /\ \A q \in Request : q # r => req'[q] = req[q]
    BY <1>3 DEF GInv, GatewayTypeOK, RequestRecord
  <2>4. ASSUME NEW s \in SessionId, NEW w \in Worker, home'[s] = w
        PROVE  /\ home[s] = w /\ Pinned(s)' = w
               /\ Ready(w)' /\ pool'[w].country = pool[w].country
               /\ \A q \in Request : Routing(q, s)' => Routing(q, s) /\ req'[q] = req[q]
    <3>1. home[s] = w /\ s # req[r].id
      BY <1>3, <2>2, <2>4, SessionAssumption
    <3>2. Pinned(s)' = w
      BY <1>1, <3>1, AtHome, PinnedKept
    <3>3. Ready(w)'
      BY <1>1, <3>1, AtHome DEF Ready, Mapped
    <3>4. \A q \in Request : Routing(q, s)' => Routing(q, s) /\ req'[q] = req[q]
      BY <2>3, <3>1 DEF Routing
    <3>5. QED
      BY <1>1, <3>1, <3>2, <3>3, <3>4
  <2>5. KeepsHomes
    <3>1. home' \in [SessionId -> Worker \cup {None}]
      BY <1>3 DEF GInv, GatewayTypeOK
    <3>2. QED
      BY <2>4, <3>1 DEF KeepsHomes
  <2>6. QED
    BY <2>5, KeepsHomesInv
<1>4. QED
  BY <1>2, <1>3 DEF FindReady, StickyHit

\* Bind moves no session but its own.
LEMMA BindHome ==
    ASSUME GInv, NEW r \in Request, RouteBind(r)
    PROVE  HomeInv'
<1>1. /\ req[r].w \in Worker /\ req[r].id \in SessionId /\ calls[r].id = req[r].id
  BY DEF RouteBind, At, GInv, CallInv, Consistent
<1>2. now' = now
  BY DEF RouteBind, Bind, Return
<1>3. \A s \in SessionId : s # req[r].id => sessions'[s] = sessions[s]
  <2>1. r \in Caller /\ TypeOK /\ Bind(r)
    BY GatewayAssumption DEF RouteBind, GInv, GatewayTypeOK
  <2>2. QED
    BY <1>1, <2>1, BindEffect
<1>4. \A s \in SessionId : s # req[r].id => Pinned(s)' = Pinned(s)
  BY <1>2, <1>3, PinnedKept
<1>5. Routed(r, req[r].w) /\ Settle(r, req[r].w) /\ UNCHANGED pool
  BY DEF RouteBind
<1>6. QED
  BY <1>1, <1>4, <1>5, SettleInv

\* The steps of a request whose session has no home, or that is past its routing.
LEMMA OtherStepsHome ==
    ASSUME GInv, NEW r \in Request,
           \/ RouteRemove(r) \/ SelectRoutable(r) \/ SelectNone(r)
           \/ RequestPicks(r) \/ RequestCreates(r) \/ RequestFails(r) \/ Dial(r)
    PROVE  HomeInv'
<1>1. PICK k \in RequestRecord : Moves(r, k) /\ (k.id = None \/ k.id = req[r].id)
  BY RequestMoves DEF Route
<1>2. req'[r] = k
  BY <1>1, MovesInv
<1>3. req[r].pc \in {"remove", "select", "request"} \/ k.pc \in {"idle", "track", "open"}
  <2>1. CASE ~Dial(r)
    BY <2>1 DEF RouteRemove, SelectRoutable, SelectNone, RequestPicks, RequestCreates,
                RequestFails, At
  <2>2. CASE Dial(r)
    <3>1. req[r] \in RequestRecord /\ req \in [Request -> RequestRecord]
      BY DEF GInv, GatewayTypeOK
    <3>2. CASE GetWorkerNsHandle(r) \/ UntrackConn(r)
      BY <1>2, <3>1, <3>2 DEF GetWorkerNsHandle, UntrackConn, Idle, RequestRecord
    <3>3. CASE TrackConn(r)
      BY <1>2, <3>1, <3>3 DEF TrackConn, RequestRecord
    <3>4. QED
      BY <2>2, <3>2, <3>3 DEF Dial
  <2>3. QED
    BY <2>1, <2>2
<1>4. UNCHANGED home /\ now' = now
  BY DEF RouteRemove, Remove, SelectRoutable, SelectNone, RequestPicks, RequestCreates,
     Choose, RequestFails, Dial, GetWorkerNsHandle, TrackConn, UntrackConn, vars
<1>5. \A s \in SessionId : home[s] # None => sessions'[s] = sessions[s]
  <2>1. CASE RouteRemove(r)
    <3>1. req[r].pc = "remove" /\ req[r].id \in SessionId
      BY <2>1 DEF RouteRemove, At, GInv, CallInv, Consistent
    <3>2. home[req[r].id] = None
      BY <3>1 DEF GInv, CalmInv, Routing
    <3>3. QED
      BY <2>1, <3>2, DeleteEffect DEF RouteRemove, Remove, GInv, GatewayTypeOK
  <2>2. CASE ~RouteRemove(r)
    BY <2>2 DEF SelectRoutable, SelectNone, RequestPicks, RequestCreates,
       Choose, RequestFails, Dial, GetWorkerNsHandle, TrackConn, UntrackConn, vars
  <2>3. QED
    BY <2>1, <2>2
<1>6. \A w \in Mapped : /\ w \in Mapped' /\ pool'[w].state = pool[w].state
                        /\ pool'[w].country = pool[w].country
  <2>1. CASE UNCHANGED pool
    BY <2>1 DEF Mapped
  <2>2. CASE RequestCreates(r)
    <3>1. PICK v \in Worker, x \in Country :
             v \notin Mapped /\ Publish(v, x)
      BY <2>2 DEF RequestCreates, Publish
    <3>2. QED
      BY <3>1 DEF Publish, Mapped, GInv, GatewayTypeOK
  <2>3. ASSUME NEW v \in Mapped, NEW n \in Nat, pool' = [pool EXCEPT ![v].conns = n]
        PROVE  \A w \in Mapped : /\ w \in Mapped' /\ pool'[w].state = pool[w].state
                                 /\ pool'[w].country = pool[w].country
    <3>1. pool[v] \in WorkerRecord /\ pool[v] # None /\ v \in Worker
      BY DEF Mapped, GInv, GatewayTypeOK
    <3>2. [pool[v] EXCEPT !.conns = n] # None
      <4>1. [pool[v] EXCEPT !.conns = n]
               \in [state : {"ready", "awaiting", "closing"}, country : Country, conns : Nat]
        BY <2>3, <3>1 DEF WorkerRecord
      <4>2. QED
        BY <4>1, NoneIsNoWorker
    <3>3. QED
      BY <2>3, <3>1, <3>2 DEF Mapped, GInv, GatewayTypeOK, WorkerRecord
  <2>4. CASE (TrackConn(r) \/ UntrackConn(r)) /\ ~UNCHANGED pool
    <3>1. PICK v \in Mapped : v = req[r].w
      BY <2>4 DEF TrackConn, UntrackConn
    <3>2. pool[v].conns \in Nat /\ pool \in [Worker -> WorkerRecord \cup {None}] /\ v \in Worker
      BY OnFinite DEF Mapped, GInv, GatewayTypeOK, WorkerRecord
    <3>3. CASE TrackConn(r)
      <4>1. pool' = [pool EXCEPT ![v].conns = pool[v].conns + 1]
        BY <2>4, <3>1, <3>2, <3>3 DEF TrackConn
      <4>2. pool[v].conns + 1 \in Nat
        BY <3>2
      <4>3. QED
        BY <2>3, <4>1, <4>2
    <3>4. CASE UntrackConn(r)
      <4>1. PICK n \in Nat : n = IF pool[v].conns > 0 THEN pool[v].conns - 1 ELSE 0
        BY <3>2
      <4>2. pool' = [pool EXCEPT ![v].conns = n]
        BY <2>4, <3>1, <3>2, <3>4, <4>1 DEF UntrackConn
      <4>3. QED
        BY <2>3, <4>2
    <3>5. QED
      BY <2>4, <3>3, <3>4
  <2>5. QED
    BY <2>1, <2>2, <2>4 DEF RouteRemove, SelectRoutable, SelectNone, RequestPicks,
       RequestFails, Dial, GetWorkerNsHandle
<1>7. QED
  BY <1>1, <1>3, <1>4, <1>5, <1>6, RequestKeepsHomes

\* The health check takes no worker that is a home, unless its process has exited: a
\* home is not draining, and its session keeps it from idling out.
LEMMA CheckHome ==
    ASSUME GInv, NEW met, CheckWorkers(met)
    PROVE  HomeInv'
<1>1. PICK dead \in SUBSET Mapped, drained \in SUBSET Mapped, idle \in SUBSET Mapped,
           waits \in SUBSET Mapped :
         /\ \A w \in drained : pool[w].state = "closing"
         /\ \A w \in idle : ActiveSessionsForWorker(w) = {}
         /\ pool' = [w \in Worker |->
               IF w \in dead \cup drained \cup idle THEN None
               ELSE IF w \in waits THEN [pool[w] EXCEPT !.state = "awaiting"]
               ELSE pool[w]]
         /\ Unsettle(Expecting(dead))
  <2> DEFINE is(f) == {w \in Mapped : met[w] = f}
             dead == is("exited")
             live == Mapped \ dead
             waits == {w \in live : \/ pool[w].state = "awaiting"
                                    \/ pool[w].state = "ready" /\ w \in is("aged")}
             drained == {w \in live : pool[w].state = "closing" /\ pool[w].conns = 0}
             idle == {w \in is("unused") \ waits : Unneeded(w)}
  <2>1. /\ dead \in SUBSET Mapped /\ drained \in SUBSET Mapped /\ idle \in SUBSET Mapped
        /\ waits \in SUBSET Mapped
    OBVIOUS
  <2>2. \A w \in idle : ActiveSessionsForWorker(w) = {}
    BY DEF Unneeded
  <2>3. \A w \in drained : pool[w].state = "closing"
    OBVIOUS
  <2>4. /\ pool' = [w \in Worker |->
               IF w \in dead \cup drained \cup idle THEN None
               ELSE IF w \in waits THEN [pool[w] EXCEPT !.state = "awaiting"]
               ELSE pool[w]]
        /\ Unsettle(Expecting(dead))
    BY DEF CheckWorkers
  <2> HIDE DEF dead, drained, idle, waits
  <2>5. QED
    BY <2>1, <2>2, <2>3, <2>4, Zenon
<1>2. UNCHANGED <<now, sessions>>
  BY DEF CheckWorkers, vars
<1>3. \A r \in Request : /\ req'[r].pc = req[r].pc /\ req'[r].w = req[r].w
                         /\ req'[r].want = req[r].want /\ req'[r].id = req[r].id
  <2>1. PICK W : req' = [r \in Request |-> [req[r] EXCEPT !.on = @ /\ req[r].w \notin W]]
    BY DEF CheckWorkers
  <2>2. ASSUME NEW r \in Request, NEW b
        PROVE  LET k == [req[r] EXCEPT !.on = b]
               IN  /\ k.pc = req[r].pc /\ k.w = req[r].w
                   /\ k.want = req[r].want /\ k.id = req[r].id
    BY DEF GInv, GatewayTypeOK, RequestRecord
  <2>3. QED
    BY <2>1, <2>2
<1>4. /\ home' \in [SessionId -> Worker \cup {None}]
      /\ \A s \in SessionId : home'[s] # None => home'[s] = home[s] /\ home[s] \notin dead
  BY <1>1, UnsettleEffect DEF Expecting
<1>5. ASSUME NEW s \in SessionId, NEW w \in Worker, home'[s] = w
      PROVE  /\ home[s] = w /\ Pinned(s)' = w
             /\ Ready(w)' /\ pool'[w].country = pool[w].country
  <2>1. home[s] = w /\ w \notin dead
    BY <1>4, <1>5, SessionAssumption
  <2>2. /\ pool[w] \in WorkerRecord /\ w \in Mapped
        /\ pool[w].state \in {"ready", "awaiting"} /\ Pinned(s) = w
    BY <2>1, AtHome
  <2>3. w \notin drained
    BY <1>1, <2>2
  <2>4. w \notin idle
    BY <1>1, <2>2 DEF ActiveSessionsForWorker
  <2>5. pool'[w] \in {pool[w], [pool[w] EXCEPT !.state = "awaiting"]}
    BY <1>1, <2>1, <2>3, <2>4
  <2>6. /\ [pool[w] EXCEPT !.state = "awaiting"] # None
        /\ [pool[w] EXCEPT !.state = "awaiting"].state = "awaiting"
        /\ [pool[w] EXCEPT !.state = "awaiting"].country = pool[w].country
    <3>1. pool[w] \in [state : {"ready", "awaiting", "closing"}, country : Country, conns : Nat]
      BY <2>2, OnFinite DEF WorkerRecord
    <3>2. QED
      BY <3>1, NoneIsNoWorker
  <2>7. Ready(w)' /\ pool'[w].country = pool[w].country
    BY <2>2, <2>5, <2>6 DEF Ready, Mapped
  <2>8. Pinned(s)' = w
    BY <1>2, <2>2, PinnedKept
  <2>9. QED
    BY <2>1, <2>7, <2>8
<1>6. KeepsHomes
  BY <1>3, <1>4, <1>5 DEF KeepsHomes, Routing
<1>7. QED
  BY <1>6, KeepsHomesInv

\* A step of the pool or of the sessions that leaves the requests alone.
LEMMA QuietKeepsHomes ==
    ASSUME GInv, UNCHANGED req,
           home' \in [SessionId -> Worker \cup {None}],
           \A s \in SessionId, w \in Worker :
              home'[s] = w =>
                 home[s] = w /\ Pinned(s)' = w /\ w \in Mapped' /\ pool'[w] = pool[w]
    PROVE  HomeInv'
<1>1. \A s \in SessionId, w \in Worker : home'[s] = w => Ready(w)'
  BY AtHome DEF Ready
<1>2. KeepsHomes
  BY <1>1 DEF KeepsHomes, Routing
<1>3. QED
  BY <1>2, KeepsHomesInv

\* The other steps of the pool, of the sessions and of time.
LEMMA PoolHome ==
    ASSUME GInv,
           \/ Warm \/ TimePasses
           \/ \E w \in Worker : StartsClosing(w) \/ UnbindVictim(w)
           \/ \E t \in 0 .. now : CleanupSessions(t)
    PROVE  HomeInv'
<1> USE SessionAssumption
<1>1. CASE Warm
  <2>1. PICK v \in Worker, k \in Country :
           v \notin Mapped /\ Publish(v, k)
    BY <1>1 DEF Warm, Publish
  <2>2. UNCHANGED <<now, sessions, req, home>>
    BY <1>1 DEF Warm, vars
  <2>3. ASSUME NEW s \in SessionId, NEW w \in Worker, home'[s] = w
        PROVE  home[s] = w /\ Pinned(s)' = w /\ w \in Mapped' /\ pool'[w] = pool[w]
    <3>1. home[s] = w /\ w \in Mapped /\ Pinned(s) = w
      BY <2>2, <2>3, AtHome
    <3>2. pool'[w] = pool[w]
      BY <2>1, <3>1 DEF Publish, GInv, GatewayTypeOK
    <3>3. QED
      BY <2>2, <3>1, <3>2, PinnedKept DEF Mapped
  <2>4. QED
    BY <2>2, <2>3, QuietKeepsHomes DEF GInv, GatewayTypeOK
<1>2. ASSUME NEW v \in Worker, StartsClosing(v)
      PROVE  HomeInv'
  <2>1. /\ pool' = [pool EXCEPT ![v].state = "closing"]
        /\ UNCHANGED <<now, sessions, req>>
    BY <1>2 DEF StartsClosing, vars
  <2>2. /\ home' \in [SessionId -> Worker \cup {None}]
        /\ \A s \in SessionId : home'[s] # None => home'[s] = home[s] /\ home[s] # v
    BY <1>2, UnsettleEffect DEF StartsClosing, Expecting
  <2>3. ASSUME NEW s \in SessionId, NEW w \in Worker, home'[s] = w
        PROVE  home[s] = w /\ Pinned(s)' = w /\ w \in Mapped' /\ pool'[w] = pool[w]
    <3>1. home[s] = w /\ w # v
      BY <2>2, <2>3
    <3>2. w \in Mapped /\ Pinned(s) = w
      BY <3>1, AtHome
    <3>3. pool'[w] = pool[w]
      BY <2>1, <3>1 DEF GInv, GatewayTypeOK
    <3>4. QED
      BY <2>1, <3>1, <3>2, <3>3, PinnedKept DEF Mapped
  <2>4. QED
    BY <2>1, <2>2, <2>3, QuietKeepsHomes
<1>3. ASSUME NEW v \in Worker, UnbindVictim(v)
      PROVE  HomeInv'
  <2>1. Delete(BoundTo(v)) /\ UNCHANGED <<now, pool, req>>
    BY <1>3 DEF UnbindVictim, RemoveByWorker
  <2>2. /\ home' \in [SessionId -> Worker \cup {None}]
        /\ \A s \in SessionId : home'[s] # None => home'[s] = home[s] /\ home[s] # v
    BY <1>3, UnsettleEffect DEF UnbindVictim, Expecting
  <2>3. ASSUME NEW s \in SessionId, NEW w \in Worker, home'[s] = w
        PROVE  home[s] = w /\ Pinned(s)' = w /\ w \in Mapped' /\ pool'[w] = pool[w]
    <3>1. home[s] = w /\ w # v
      BY <2>2, <2>3
    <3>2. w \in Mapped /\ Pinned(s) = w /\ sessions[s].workerID = w
      BY <3>1, AtHome
    <3>3. sessions'[s] = sessions[s]
      BY <2>1, <3>1, <3>2, DeleteEffect DEF BoundTo, GInv, GatewayTypeOK
    <3>4. QED
      BY <2>1, <3>1, <3>2, <3>3, PinnedKept DEF Mapped
  <2>4. QED
    BY <2>1, <2>2, <2>3, QuietKeepsHomes
<1>4. ASSUME NEW t \in 0 .. now, CleanupSessions(t)
      PROVE  HomeInv'
  <2>1. /\ Delete({id \in SessionId : Has(id) /\ Expired(sessions[id], t)})
        /\ UNCHANGED <<now, pool, req, home>>
    BY <1>4 DEF CleanupSessions, Cleanup
  <2>2. t \in Nat /\ now \in Nat /\ t <= now
    BY DEF GInv, GatewayTypeOK, TypeOK
  <2>3. ASSUME NEW s \in SessionId, NEW w \in Worker, home'[s] = w
        PROVE  home[s] = w /\ Pinned(s)' = w /\ w \in Mapped' /\ pool'[w] = pool[w]
    <3>1. home[s] = w
      BY <2>1, <2>3
    <3>2. /\ w \in Mapped /\ Pinned(s) = w
          /\ sessions[s] \in Session /\ ~Expired(sessions[s], now)
      BY <3>1, AtHome
    <3>3. ~Expired(sessions[s], t)
      BY <2>2, <3>2, OldReading
    <3>4. sessions'[s] = sessions[s]
      BY <2>1, <3>3, DeleteEffect DEF GInv, GatewayTypeOK
    <3>5. QED
      BY <2>1, <3>1, <3>2, <3>4, PinnedKept DEF Mapped
  <2>4. QED
    BY <2>1, <2>3, QuietKeepsHomes DEF GInv, GatewayTypeOK
<1>5. CASE TimePasses
  <2>1. UNCHANGED <<pool, req>>
    BY <1>5 DEF TimePasses
  <2>2. /\ home' \in [SessionId -> Worker \cup {None}]
        /\ \A s \in SessionId : home'[s] # None => home'[s] = home[s] /\ home[s] = Pinned(s)'
    BY <1>5, UnsettleEffect DEF TimePasses
  <2>3. ASSUME NEW s \in SessionId, NEW w \in Worker, home'[s] = w
        PROVE  home[s] = w /\ Pinned(s)' = w /\ w \in Mapped' /\ pool'[w] = pool[w]
    <3>1. home[s] = w /\ Pinned(s)' = w
      BY <2>2, <2>3
    <3>2. QED
      BY <2>1, <3>1, AtHome DEF Mapped
  <2>4. QED
    BY <2>1, <2>2, <2>3, QuietKeepsHomes
<1>6. QED
  BY <1>1, <1>2, <1>3, <1>4, <1>5

\* Whatever the gateway does, a session with a home stays bound to it.
LEMMA HomeStep ==
    ASSUME GInv, GatewayNext
    PROVE  HomeInv'
<1>1. ASSUME NEW r \in Request, Arrive(r) \/ Route(r) \/ Dial(r)
      PROVE  HomeInv'
  BY <1>1, ArriveHome, LookupHome, FindHome, BindHome, OtherStepsHome DEF Route
<1>2. QED
  BY <1>1, CheckHome, PoolHome DEF GatewayNext

-----------------------------------------------------------------------------
(***************************************************************************)
(* The invariant, and what follows from it.                                *)
(***************************************************************************)

\* The invariant holds whatever requests arrive and however they interleave with
\* the health check, the warmer, the cleanup and the clock.
LEMMA GatewayInvariant == GatewaySpec => []GInv
<1>1. GatewayInit => GInv
  <2> SUFFICES ASSUME GatewayInit
               PROVE  GInv
    OBVIOUS
  <2> USE GatewayAssumption, SessionAssumption DEF GatewayInit
  <2>1. SessionInv
    BY DEF Init, SessionInv, TypeOK, ReadBefore
  <2>2. GatewayTypeOK
    BY <2>1, IdleType DEF GatewayTypeOK, SessionInv
  <2>3. CallInv
    BY DEF CallInv, Consistent, Idle, Init
  <2>4. NoPhantomConns /\ HomeIsKept /\ CalmInv
    BY DEF NoPhantomConns, Mapped, HomeIsKept, CalmInv
  <2>5. QED
    BY <2>1, <2>2, <2>3, <2>4 DEF GInv, SessionInv
<1>2. GInv /\ [GatewayNext]_gatewayVars => GInv'
  <2>1. ASSUME GInv, GatewayNext
        PROVE  GInv'
    <3>1. SessionInv'
      <4>1. SessionInv /\ [Next]_vars
        BY <2>1, SessionStep DEF GInv, GatewayTypeOK, SessionInv
      <4>2. QED
        BY <4>1, SessionInvStep
    <3>2. (req \in [Request -> RequestRecord])' /\ CallInv'
      BY <2>1, RequestStep
    <3>3. PoolInv' /\ (victims \subseteq Worker)'
      BY <2>1, PoolStep
    <3>4. HomeInv'
      BY <2>1, HomeStep
    <3>5. QED
      BY <3>1, <3>2, <3>3, <3>4 DEF SessionInv, PoolInv, HomeInv, GInv, GatewayTypeOK
  <2>2. ASSUME GInv, UNCHANGED gatewayVars
        PROVE  GInv'
    BY <2>2 DEF gatewayVars, vars, GInv, ReadBefore, GatewayTypeOK, TypeOK, CallInv,
       NoPhantomConns, HomeIsKept, CalmInv, Routing, At, Matches, Ready, Mapped, Pinned, Has
  <2>3. QED
    BY <2>1, <2>2
<1>3. QED
  BY <1>1, <1>2, PTL DEF GatewaySpec

\* Types hold in the composed system, the sessions' included.
THEOREM GatewayTypeCorrect == GatewaySpec => []GatewayTypeOK
<1>1. GInv => GatewayTypeOK
  BY DEF GInv
<1>2. QED
  BY GatewayInvariant, <1>1, PTL

\* No worker ever counts connections it was not given or that have ended, however
\* TrackConn and UntrackConn interleave with the reaping and reuse of worker IDs
\* (TrackConn, UntrackConn, checkWorkers).
THEOREM NoConnsFromNowhere == GatewaySpec => []NoPhantomConns
<1>1. GInv => NoPhantomConns
  BY DEF GInv
<1>2. QED
  BY GatewayInvariant, <1>1, PTL

\* A session with a home stays bound to it and the worker stays in the pool, for
\* any number of requests, sessions and workers (routeSticky, checkWorkers, Cleanup).
THEOREM HomesAreKept == GatewaySpec => []HomeIsKept
<1>1. GInv => HomeIsKept
  BY DEF GInv
<1>2. QED
  BY GatewayInvariant, <1>1, PTL

\* The next request of a session with a home is routed to it (routeSticky).
THEOREM StickyClientsReturn == GatewaySpec => StickyWhenCalm
<1> DEFINE Step == \A r \in Request :
          req[r].pc \in {"find", "bind"} /\ req'[r].pc = "handle" =>
             home[req[r].id] \in {None, req'[r].w}
<1>1. GInv /\ [GatewayNext]_gatewayVars => [Step]_gatewayVars
  <2> SUFFICES ASSUME GInv, GatewayNext, NEW r \in Request,
                      req[r].pc \in {"find", "bind"}, req'[r].pc = "handle",
                      home[req[r].id] # None
               PROVE  home[req[r].id] = req'[r].w
    OBVIOUS
  <2>1. req[r].id \in SessionId /\ Routing(r, req[r].id)
    BY DEF GInv, CallInv, Consistent, Routing
  <2>2. req[r].pc = "find" /\ req[r].w = home[req[r].id]
    BY <2>1 DEF GInv, CalmInv, At
  <2>3. ASSUME NEW q \in Request, Arrive(q) \/ Route(q) \/ Dial(q)
        PROVE  FindReady(r)
    <3>1. PICK k \in RequestRecord : Moves(q, k)
      BY <2>3, ArriveMoves, RequestMoves DEF Moves
    <3>2. q = r
      BY <2>2, <3>1, MovesInv
    <3>3. QED
      BY <2>2, <2>3, <3>2 DEF Arrive, Route, RouteLookup, RouteRemove, SelectRoutable,
         SelectNone, RequestPicks, RequestCreates, RequestFails, RouteBind, Dial,
         GetWorkerNsHandle, TrackConn, UntrackConn, At
  <2>4. ASSUME NEW met, CheckWorkers(met)
        PROVE  FALSE
    <3>1. PICK b : req'[r] = [req[r] EXCEPT !.on = b]
      BY <2>4 DEF CheckWorkers
    <3>2. QED
      BY <2>2, <3>1 DEF GInv, GatewayTypeOK, RequestRecord
  <2>5. FindReady(r)
    BY <2>2, <2>3, <2>4 DEF GatewayNext, Warm, StartsClosing, UnbindVictim,
       CleanupSessions, TimePasses
  <2>6. Routed(r, req[r].w)
    BY <2>5 DEF FindReady, StickyHit, GInv, GatewayTypeOK, RequestRecord
  <2>7. QED
    BY <2>2, <2>6 DEF Routed, Idle, GInv, GatewayTypeOK
<1>2. QED
  BY GatewayInvariant, <1>1, PTL DEF GatewaySpec, StickyWhenCalm

\* A pinned client is dropped only by its TTL, by the Remove of a request of its own
\* or by the unbinding of its worker: the lazy deletions of Lookup and Cleanup drop
\* expired sessions only, however old their clock readings (Lookup, Cleanup).
THEOREM OnlyExpiredDropped == GatewaySpec => DropsOnlyExpired
<1> DEFINE Step == \A s \in SessionId :
          Pinned(s) # None /\ sessions'[s] = None =>
             \/ \E r \in Request : At(r, "remove") /\ req[r].id = s /\ ~At(r, "remove")'
             \/ Pinned(s) \in victims \ victims'
<1>1. GInv /\ [GatewayNext]_gatewayVars => [Step]_gatewayVars
  <2> SUFFICES ASSUME GInv, GatewayNext, NEW s \in SessionId,
                      Pinned(s) # None, sessions'[s] = None
               PROVE  \/ \E r \in Request :
                            At(r, "remove") /\ req[r].id = s /\ ~At(r, "remove")'
                      \/ Pinned(s) \in victims \ victims'
    OBVIOUS
  <2>1. /\ sessions[s] \in Session /\ ~Expired(sessions[s], now) /\ sessions[s] # None
        /\ Pinned(s) = sessions[s].workerID /\ TypeOK /\ now \in Nat
    BY DEF Pinned, Has, GInv, GatewayTypeOK, TypeOK
  <2>2. sessions'[s] # sessions[s]
    BY <2>1
  <2>3. ASSUME NEW r \in Request, RouteLookup(r)
        PROVE  FALSE
    <3>1. calls[r] # None /\ calls[r].t <= now /\ calls[r].t \in Nat
      BY <2>3, GatewayAssumption DEF RouteLookup, At, GInv, GatewayTypeOK, TypeOK, CallInv,
         Consistent, ReadBefore, Call
    <3>2. ~Expired(sessions[s], calls[r].t)
      BY <2>1, <3>1, OldReading
    <3>3. QED
      BY <2>1, <2>2, <2>3, <3>2, DeleteEffect DEF RouteLookup, Lookup
  <2>4. ASSUME NEW r \in Request, RouteBind(r)
        PROVE  FALSE
    <3>1. Bind(r) /\ r \in Caller
      BY <2>4, GatewayAssumption DEF RouteBind
    <3>2. QED
      BY <2>1, <2>2, <3>1, BindEffect, NoneIsNoRecord
  <2>5. ASSUME NEW t \in 0 .. now, CleanupSessions(t)
        PROVE  FALSE
    <3>1. ~Expired(sessions[s], t)
      BY <2>1, OldReading
    <3>2. QED
      BY <2>1, <2>2, <2>5, <3>1, DeleteEffect DEF CleanupSessions, Cleanup
  <2>6. ASSUME NEW r \in Request, RouteRemove(r)
        PROVE  At(r, "remove") /\ req[r].id = s /\ ~At(r, "remove")'
    <3>1. At(r, "remove") /\ req' = [req EXCEPT ![r].pc = "select"]
      BY <2>6 DEF RouteRemove, Goto
    <3>2. ~At(r, "remove")'
      BY <3>1 DEF At, GInv, GatewayTypeOK, RequestRecord
    <3>3. req[r].id = s
      BY <2>1, <2>2, <2>6, DeleteEffect DEF RouteRemove, Remove
    <3>4. QED
      BY <3>1, <3>2, <3>3
  <2>7. ASSUME NEW w \in Worker, UnbindVictim(w)
        PROVE  Pinned(s) \in victims \ victims'
    <3>1. s \in BoundTo(w)
      BY <2>1, <2>2, <2>7, DeleteEffect DEF UnbindVictim, RemoveByWorker
    <3>2. QED
      BY <2>1, <2>7, <3>1 DEF BoundTo, UnbindVictim
  <2>8. ASSUME UNCHANGED sessions
        PROVE  FALSE
    BY <2>2, <2>8
  <2>9. ASSUME NEW r \in Request, Arrive(r) \/ Route(r) \/ Dial(r)
        PROVE  RouteRemove(r)
    BY <2>3, <2>4, <2>8, <2>9 DEF Arrive, Route, Dial, FindReady, StickyHit,
       SelectRoutable, SelectNone, RequestPicks, RequestCreates, Choose, RequestFails,
       GetWorkerNsHandle, TrackConn, UntrackConn, vars
  <2>10. QED
    BY <2>5, <2>6, <2>7, <2>8, <2>9 DEF GatewayNext, Warm, StartsClosing, CheckWorkers,
       TimePasses, Tick, vars
<1>2. QED
  BY GatewayInvariant, <1>1, PTL DEF GatewaySpec, DropsOnlyExpired

\* Every step of the gateway is an operation of the session manager or leaves it
\* alone.
LEMMA GatewayUsesSessions == GatewaySpec => Spec
<1>1. GatewayInit => Init
  BY DEF GatewayInit
<1>2. GInv /\ [GatewayNext]_gatewayVars => [Next]_vars
  BY SessionStep DEF gatewayVars
<1>3. QED
  BY GatewayInvariant, <1>1, <1>2, PTL DEF GatewaySpec, Spec

\* What holds for any callers of the session manager holds for the gateway's: only a
\* Bind pins a client.
THEOREM GatewayPinsByBindOnly == GatewaySpec => OnlyBindPins
  BY GatewayUsesSessions, PinnedByBindOnly
=============================================================================
