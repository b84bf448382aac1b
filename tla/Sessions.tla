------------------------------ MODULE Sessions ------------------------------
(***************************************************************************)
(* The sticky session manager (internal/session).                          *)
(*                                                                         *)
(* Lookup and Bind read the clock before they take the manager's lock, so  *)
(* a call is two steps: Begin records the call with the time it read, and  *)
(* the operation's own action is the critical section, which may run later *)
(* and after the critical sections of calls that read the clock later.     *)
(* Cleanup, whose caller keeps nothing of it, is one step with a reading   *)
(* of any age; Remove and RemoveByWorker read no clock.                    *)
(* The country and the lastUsed time stored with a session are never read  *)
(* and are left out.                                                       *)
(***************************************************************************)
EXTENDS Integers, FiniteSets

CONSTANTS
    SessionId,    \* the sessid values of clients
    Worker,       \* worker IDs
    Caller,       \* goroutines that use the manager
    Ttls,         \* the ttl arguments of Bind; 0 and below ask for the default
    DefaultTTL,   \* DEFAULT_SESSION_TTL
    MaxTime,      \* bound on the clock
    None

\* DEFAULT_SESSION_TTL is 30 unless configured; the code does not refuse 0, with
\* which no session would live.
ASSUME SessionAssumption ==
    /\ Ttls \subseteq Int
    /\ DefaultTTL \in Nat \ {0}
    /\ MaxTime \in Nat
    /\ None \notin SessionId \cup Worker \cup Caller

VARIABLES
    now,        \* the clock
    sessions,   \* Manager.sessions: a stickySession or None per ID
    calls       \* the call each caller has begun, or None

vars == <<now, sessions, calls>>

Session == [workerID : Worker, ttl : Nat \ {0}, createdAt : Nat]

Call ==
    [op : {"lookup"}, id : SessionId, t : Nat]
      \cup [op : {"bind"}, id : SessionId, ttl : Ttls, workerID : Worker, t : Nat]

ASSUME NoneIsNoRecord == None \notin Session \cup Call

TypeOK ==
    /\ now \in Nat
    /\ sessions \in [SessionId -> Session \cup {None}]
    /\ calls \in [Caller -> Call \cup {None}]

Init ==
    /\ now = 0
    /\ sessions = [id \in SessionId |-> None]
    /\ calls = [c \in Caller |-> None]

\* stickySession.expired(t): the age counts from the creation.  A time before
\* the creation gives a negative age.
Expired(s, t) == t > s.createdAt + s.ttl
Has(id) == sessions[id] # None

Begin(c) ==
    /\ calls[c] = None
    /\ \E call \in [op : {"lookup"}, id : SessionId, t : {now}]
             \cup [op : {"bind"}, id : SessionId, ttl : Ttls, workerID : Worker,
                   t : {now}] :
          calls' = [calls EXCEPT ![c] = call]
    /\ UNCHANGED <<now, sessions>>

Doing(c, op) == calls[c] # None /\ calls[c].op = op
Return(c) == calls' = [calls EXCEPT ![c] = None] /\ UNCHANGED now
Delete(ids) == sessions' = [id \in SessionId |->
                               IF id \in ids THEN None ELSE sessions[id]]

\* Mutant: a hit restarts the session's life without looking at its age.
LookupRevives(c) ==
    LET id == calls[c].id
    IN  /\ Doing(c, "lookup")
        /\ \/ ~Has(id) /\ UNCHANGED sessions
           \/ Has(id) /\ sessions' = [sessions EXCEPT ![id].createdAt = calls[c].t]
        /\ Return(c)

\* Lookup deletes an expired session; a live one is returned as it is.
Lookup(c) ==
    LET id == calls[c].id
        stale == Has(id) /\ Expired(sessions[id], calls[c].t)
    IN  /\ Doing(c, "lookup")
        /\ Delete(IF stale THEN {id} ELSE {})
        /\ Return(c)

\* Mutant: only a TTL of exactly zero is replaced by the default.
BindDefaultsZeroOnly(c) ==
    LET ttl == IF calls[c].ttl = 0 THEN DefaultTTL ELSE calls[c].ttl
    IN  /\ Doing(c, "bind")
        /\ sessions' = [sessions EXCEPT
              ![calls[c].id] = [workerID |-> calls[c].workerID, ttl |-> ttl,
                                createdAt |-> calls[c].t]]
        /\ Return(c)

\* Bind moves a session that is not expired, keeping its creation time, or
\* starts a new one.
Bind(c) ==
    LET id == calls[c].id
        t == calls[c].t
        w == calls[c].workerID
        ttl == IF calls[c].ttl <= 0 THEN DefaultTTL ELSE calls[c].ttl
        createdAt == IF Has(id) /\ ~Expired(sessions[id], t)
                     THEN sessions[id].createdAt ELSE t
    IN  /\ Doing(c, "bind")
        /\ sessions' = [sessions EXCEPT
              ![id] = [workerID |-> w, ttl |-> ttl, createdAt |-> createdAt]]
        /\ Return(c)

Remove(id) == Delete({id}) /\ UNCHANGED <<now, calls>>

BoundTo(w) == {id \in SessionId : Has(id) /\ sessions[id].workerID = w}

RemoveByWorker(w) == Delete(BoundTo(w)) /\ UNCHANGED <<now, calls>>

\* Mutant: a session whose age is exactly its TTL is swept too.
CleanupEarly(t) ==
    /\ Delete({id \in SessionId :
                  Has(id) /\ t >= sessions[id].createdAt + sessions[id].ttl})
    /\ UNCHANGED <<now, calls>>

\* Cleanup with clock reading t.
Cleanup(t) ==
    /\ Delete({id \in SessionId : Has(id) /\ Expired(sessions[id], t)})
    /\ UNCHANGED <<now, calls>>

Tick == now < MaxTime /\ now' = now + 1 /\ UNCHANGED <<sessions, calls>>

Next ==
    \/ Tick
    \/ \E c \in Caller : Begin(c) \/ Lookup(c) \/ Bind(c)
    \/ \E id \in SessionId : Remove(id)
    \/ \E w \in Worker : RemoveByWorker(w)
    \/ \E t \in 0 .. now : Cleanup(t)

Spec == Init /\ [][Next]_vars

-----------------------------------------------------------------------------
\* The worker a client with session id is pinned to at this moment.
Pinned(id) ==
    IF Has(id) /\ ~Expired(sessions[id], now) THEN sessions[id].workerID ELSE None

\* A client is pinned to a worker only by a Bind of its own session to that
\* worker: no lookup, cleanup or passage of time, however late its critical
\* section runs after its clock reading, revives an expired session or moves a
\* live one.
OnlyBindPins ==
    [][\A id \in SessionId :
          Pinned(id)' \notin {Pinned(id), None} =>
             \E c \in Caller : /\ Doing(c, "bind") /\ calls'[c] = None
                               /\ calls[c].id = id
                               /\ calls[c].workerID = Pinned(id)']_vars
=============================================================================
