--------------------------- MODULE Sessions_proofs ---------------------------
(***************************************************************************)
(* Proofs about Sessions, for any callers, sessions, workers and TTLs.     *)
(***************************************************************************)
EXTENDS Sessions, TLAPS

\* A call has read the clock in the past.
ReadBefore == \A c \in Caller : calls[c] # None => calls[c].t <= now

SessionInv == TypeOK /\ ReadBefore

-----------------------------------------------------------------------------
\* Deleting sessions leaves the others as they are.
LEMMA DeleteEffect ==
    ASSUME TypeOK, NEW ids, Delete(ids)
    PROVE  /\ (sessions \in [SessionId -> Session \cup {None}])'
           /\ \A id \in SessionId :
                 sessions'[id] = IF id \in ids THEN None ELSE sessions[id]
  BY DEF TypeOK, Delete

\* What Bind writes is a session: the TTL it stores is positive, also when the
\* one it was given is not, and the others stay as they are.
LEMMA BindEffect ==
    ASSUME TypeOK, NEW c \in Caller, Bind(c)
    PROVE  /\ calls[c] \in Call /\ calls[c].op = "bind"
           /\ calls[c].id \in SessionId /\ calls[c].workerID \in Worker
           /\ sessions'[calls[c].id] \in Session
           /\ sessions'[calls[c].id].workerID = calls[c].workerID
           /\ (sessions \in [SessionId -> Session \cup {None}])'
           /\ \A id \in SessionId : id # calls[c].id => sessions'[id] = sessions[id]
<1> DEFINE id == calls[c].id
           t == calls[c].t
           ttl == IF calls[c].ttl <= 0 THEN DefaultTTL ELSE calls[c].ttl
           createdAt == IF Has(id) /\ ~Expired(sessions[id], t)
                        THEN sessions[id].createdAt ELSE t
           new == [workerID |-> calls[c].workerID, ttl |-> ttl, createdAt |-> createdAt]
<1>1. /\ calls[c] \in Call /\ calls[c].op = "bind"
      /\ id \in SessionId /\ calls[c].workerID \in Worker
      /\ calls[c].ttl \in Ttls /\ t \in Nat
  BY DEF TypeOK, Bind, Doing, Call
<1>2. ttl \in Nat \ {0}
  <2>1. calls[c].ttl \in Int
    BY <1>1, SessionAssumption
  <2>2. QED
    BY <2>1, SessionAssumption
<1>3. createdAt \in Nat
  BY <1>1 DEF TypeOK, Has, Session
<1>4. sessions' = [sessions EXCEPT ![id] = new]
  BY DEF Bind
<1> HIDE DEF ttl, createdAt
<1>5. new \in Session /\ new.workerID = calls[c].workerID
  BY <1>1, <1>2, <1>3 DEF Session
<1> HIDE DEF new, id
<1>6. /\ sessions'[id] = new
      /\ (sessions \in [SessionId -> Session \cup {None}])'
      /\ \A i \in SessionId : i # id => sessions'[i] = sessions[i]
  BY <1>1, <1>4, <1>5 DEF TypeOK
<1>7. QED
  BY <1>1, <1>5, <1>6 DEF id

\* Every step keeps the types, and a call's reading stays in the past.
LEMMA SessionInvStep ==
    ASSUME SessionInv, [Next]_vars
    PROVE  SessionInv'
<1> USE SessionAssumption, NoneIsNoRecord DEF SessionInv
<1>1. ASSUME NEW c \in Caller, Begin(c)
      PROVE  SessionInv'
  <2>1. PICK call \in Call : call.t = now /\ calls' = [calls EXCEPT ![c] = call]
    BY <1>1 DEF Begin, Call, TypeOK
  <2>2. UNCHANGED <<now, sessions>>
    BY <1>1 DEF Begin
  <2>3. QED
    BY <2>1, <2>2 DEF TypeOK, ReadBefore
<1>2. ASSUME NEW c \in Caller, Return(c), (sessions \in [SessionId -> Session \cup {None}])'
      PROVE  SessionInv'
  BY <1>2 DEF Return, TypeOK, ReadBefore
<1>3. ASSUME NEW c \in Caller, Lookup(c) \/ Bind(c)
      PROVE  SessionInv'
  BY <1>2, <1>3, DeleteEffect, BindEffect DEF Lookup, Bind
<1>4. CASE Tick
  BY <1>4 DEF Tick, TypeOK, ReadBefore, Call
<1>5. ASSUME NEW ids, Delete(ids), UNCHANGED <<now, calls>>
      PROVE  SessionInv'
  BY <1>5, DeleteEffect DEF TypeOK, ReadBefore
<1>6. CASE UNCHANGED vars
  BY <1>6 DEF vars, TypeOK, ReadBefore
<1>7. QED
  BY <1>1, <1>3, <1>4, <1>5, <1>6 DEF Next, Remove, RemoveByWorker, Cleanup

\* The invariant holds whoever calls the session manager.
LEMMA SessionInvariant == Spec => []SessionInv
<1>1. Init => SessionInv
  BY DEF Init, SessionInv, TypeOK, ReadBefore
<1>2. SessionInv /\ [Next]_vars => SessionInv'
  BY SessionInvStep
<1>3. QED
  BY <1>1, <1>2, PTL DEF Spec

-----------------------------------------------------------------------------
\* A session without a change of its own is pinned as before, or expires.
LEMMA PinnedFrame ==
    ASSUME SessionInv, NEW id \in SessionId, now' \in Nat, now <= now',
           sessions'[id] \in {sessions[id], None}
    PROVE  Pinned(id)' \in {Pinned(id), None}
  BY DEF SessionInv, TypeOK, Pinned, Has, Expired, Session

\* Types hold whoever calls the session manager; in particular every stored TTL
\* is positive, also when the parser's product has wrapped (Bind).
THEOREM SessionTypeCorrect == Spec => []TypeOK
<1>1. SessionInv => TypeOK
  BY DEF SessionInv
<1>2. QED
  BY SessionInvariant, <1>1, PTL

\* Only a Bind pins a client, whoever calls the session manager and however old
\* the clock readings are with which they get its lock.
THEOREM PinnedByBindOnly == Spec => OnlyBindPins
<1> DEFINE Step == \A id \in SessionId :
          Pinned(id)' \notin {Pinned(id), None} =>
             \E c \in Caller : /\ Doing(c, "bind") /\ calls'[c] = None
                               /\ calls[c].id = id
                               /\ calls[c].workerID = Pinned(id)'
<1>1. SessionInv /\ [Next]_vars => [Step]_vars
  <2> SUFFICES ASSUME SessionInv, Next, NEW id \in SessionId,
                      Pinned(id)' \notin {Pinned(id), None}
               PROVE  \E c \in Caller : /\ Doing(c, "bind") /\ calls'[c] = None
                                        /\ calls[c].id = id
                                        /\ calls[c].workerID = Pinned(id)'
    OBVIOUS
  <2>1. now' \in Nat /\ now <= now'
    <3>1. now \in Nat
      BY DEF SessionInv, TypeOK
    <3>2. now' = now \/ now' = now + 1
      BY DEF Next, Tick, Begin, Lookup, Bind, Return, Remove, RemoveByWorker, Cleanup
    <3>3. QED
      BY <3>1, <3>2
  <2>2. sessions'[id] \notin {sessions[id], None}
    BY <2>1, PinnedFrame
  <2>3. PICK c \in Caller : Bind(c)
    BY <2>2, DeleteEffect
       DEF SessionInv, Next, Tick, Begin, Lookup, Remove, RemoveByWorker, Cleanup
  <2>4. calls[c].id = id /\ sessions'[id].workerID = calls[c].workerID
    BY <2>2, <2>3, BindEffect DEF SessionInv
  <2>5. Pinned(id)' = calls[c].workerID
    BY <2>4 DEF Pinned
  <2>6. Doing(c, "bind") /\ calls'[c] = None
    BY <2>3 DEF Bind, Return, SessionInv, TypeOK
  <2>7. QED
    BY <2>4, <2>5, <2>6
<1>2. QED
  BY SessionInvariant, <1>1, PTL DEF Spec, OnlyBindPins
=============================================================================
