---------------------------- MODULE Proxy_proofs ----------------------------
(***************************************************************************)
(* Proofs about Proxy, for any connections, threads, namespaces and        *)
(* descriptors.                                                            *)
(***************************************************************************)
EXTENDS Proxy, FiniteSetTheorems, WellFoundedInduction, TLAPS

-----------------------------------------------------------------------------
(***************************************************************************)
(* The inductive invariant.                                                *)
(***************************************************************************)

\* The goroutine of the dial has a thread of its own and the descriptor of the
\* namespace the thread was in.
Locked(c) == dial[c].pc \in {"set", "dial"}

\* Which parts of a request are alive together: the dial goroutine exactly while
\* the handler or the late closer waits for it, the handle number as long as the
\* dial may use it, the copies only in a relay, the socket in one of the three
\* hands it passes through or dropped; and what it counts for.
Alive(k, d) ==
    /\ d.pc # "none" <=> k.pc = "dialing" \/ k.late
    /\ k.late => k.pc = "idle"
    /\ k.fd # None <=> k.pc = "track" \/ d.pc \in {"get", "set", "dial"}
    /\ k.up \/ k.down => k.pc \in {"relay", "close"}
    /\ k.open => d.pc = "sent" \/ k.pc \in {"reply", "relay", "close"} \/ k.dropped
    /\ d.pc = "sent" /\ ~d.err => k.open
    /\ k.dropped => k.pc = "idle" /\ d.pc = "none" /\ k.open
    /\ k.tracked = IF k.pc = "dialing" \/ (k.pc \in {"reply", "relay", "close"} /\ k.open)
                   THEN 1 ELSE 0

RequestInv == \A c \in Conn : Alive(conn[c], dial[c])

\* The descriptors open are the worker's Handle and the origins of the locked
\* dials, all different, and what each stands for.
DescriptorInv ==
    /\ \A f \in Fd : fds[f] # None =>
          \/ worker # None /\ f = worker.fd
          \/ \E c \in Conn : Locked(c) /\ f = dial[c].origin
    /\ worker # None => fds[worker.fd] = worker.ns
    /\ \A c \in Conn : Locked(c) =>
          /\ dial[c].origin \in Fd /\ fds[dial[c].origin] # None
          /\ fds[dial[c].origin] = Host \/ dial[c].thread \in astray
          /\ worker # None => dial[c].origin # worker.fd
    /\ \A b, c \in Conn : b # c /\ Locked(b) /\ Locked(c) =>
          dial[b].origin # dial[c].origin

\* Locked dials have threads of their own, which were home when they were taken
\* unless an earlier dial had left them elsewhere.
ThreadInv ==
    /\ \A c \in Conn : IF Locked(c) THEN dial[c].thread \in Thread
                       ELSE dial[c].thread = None
    /\ \A c \in Conn : dial[c].pc = "set" =>
          threadNs[dial[c].thread] = Host \/ dial[c].thread \in astray
    /\ \A b, c \in Conn : b # c /\ Locked(b) /\ Locked(c) =>
          dial[b].thread # dial[c].thread

\* A handle number nobody has opened since stands for the namespace of the worker
\* chosen, or for nothing.
HandleInv ==
    \A c \in Conn :
       conn[c].fd # None /\ dial[c].pc \in {"none", "get", "set"} /\ ~conn[c].reused =>
          fds[conn[c].fd] \in {conn[c].ns, None}

IInv ==
    /\ ProxyTypeOK /\ RequestInv
    /\ DescriptorInv /\ ThreadInv /\ ThreadsHome
    /\ HandleInv /\ DialsInNamespace

-----------------------------------------------------------------------------
(***************************************************************************)
(* Descriptors.                                                            *)
(***************************************************************************)

\* A set of descriptors that is not empty has a least one.
LEMMA LeastExists ==
    ASSUME NEW S \in SUBSET Nat, S # {}
    PROVE  \E f \in S : \A g \in S : f <= g
<1>1. PICK f \in S : \A g \in S : <<g, f>> \notin OpToRel(<, Nat)
  BY NatLessThanWellFounded, WFMin
<1>2. ASSUME NEW g \in S, g < f PROVE FALSE
  <2>1. <<g, f>> \in OpToRel(<, Nat)
    BY <1>2 DEF OpToRel
  <2>2. QED
    BY <1>1, <2>1
<1>3. QED
  BY <1>2

\* There are more descriptors than dials and workers, so one is free, and an open
\* that succeeds takes it.
LEMMA LowestIsFree ==
    ASSUME DescriptorInv
    PROVE  Lowest \in Fd /\ fds[Lowest] = None
<1> DEFINE used == {dial[c].origin : c \in Conn}
           origin == [c \in Conn |-> dial[c].origin]
<1>1. IsFiniteSet(used) /\ Cardinality(used) <= Cardinality(Conn)
  <2>1. origin \in Surjection(Conn, used)
    BY DEF Surjection
  <2>2. QED
    BY <2>1, FS_Surjection, ProxyAssumption
<1>2. /\ IsFiniteSet(used \cup {worker.fd})
      /\ Cardinality(used \cup {worker.fd}) <= Cardinality(Conn) + 1
  <2>1. Cardinality(used) \in Nat /\ Cardinality(Conn) \in Nat
    BY <1>1, FS_CardinalityType, ProxyAssumption
  <2> HIDE DEF used
  <2>2. QED
    BY <1>1, <2>1, FS_AddElement
<1>3. ~(Fd \subseteq used \cup {worker.fd})
  BY <1>2, FS_Subset, FS_CardinalityType, ProxyAssumption
<1>4. PICK f \in Fd : fds[f] = None
  BY <1>3 DEF DescriptorInv
<1>5. \E g \in {e \in Fd : fds[e] = None} : \A h \in {e \in Fd : fds[e] = None} : g <= h
  BY <1>4, LeastExists, ProxyAssumption
<1>6. QED
  BY <1>5 DEF Lowest

\* Marking the requests that hold a number changes nothing else of them.
LEMMA MarkedFields ==
    ASSUME conn \in [Conn -> ConnRecord], NEW f, conn' = Marked(f)
    PROVE  /\ (conn \in [Conn -> ConnRecord])'
           /\ \A c \in Conn :
                 /\ conn'[c].pc = conn[c].pc /\ conn'[c].late = conn[c].late
                 /\ conn'[c].fd = conn[c].fd /\ conn'[c].ns = conn[c].ns
                 /\ conn'[c].up = conn[c].up /\ conn'[c].down = conn[c].down
                 /\ conn'[c].open = conn[c].open /\ conn'[c].tracked = conn[c].tracked
                 /\ conn'[c].dropped = conn[c].dropped
                 /\ conn'[c].reused <=> conn[c].reused \/ Holds(c, f)
<1>1. ASSUME NEW c \in Conn
      PROVE  [conn[c] EXCEPT !.reused = @ \/ Holds(c, f)] \in ConnRecord
  <2>1. ASSUME NEW k \in ConnRecord, NEW p \in BOOLEAN
        PROVE  [k EXCEPT !.reused = p] \in ConnRecord
    BY DEF ConnRecord
  <2>2. QED
    BY <2>1
<1>2. QED
  BY <1>1 DEF Marked, ConnRecord

-----------------------------------------------------------------------------
(***************************************************************************)
(* Records of a connection.                                                *)
(***************************************************************************)

\* The record that Set writes is the connection's, and nothing else changes.
LEMMA SetType ==
    ASSUME conn \in [Conn -> ConnRecord],
           NEW c \in Conn, NEW k \in ConnRecord, Set(c, k)
    PROVE  /\ (conn \in [Conn -> ConnRecord])'
           /\ conn'[c] = k
           /\ \A b \in Conn : b # c => conn'[b] = conn[b]
  BY DEF Set

\* A handler that returns leaves a record.
LEMMA ReturnedType ==
    ASSUME NEW k \in ConnRecord
    PROVE  Returned(k) \in ConnRecord
  BY ProxyAssumption DEF ConnRecord, Returned, NoConn, Kinds

\* So does a dial that ends.
LEMMA DialledType ==
    ASSUME NEW k \in ConnRecord, NEW ok \in BOOLEAN
    PROVE  Dialled(k, ok) \in ConnRecord
  BY DEF ConnRecord, Dialled

\* Counting leaves a record as long as it counts to one.
LEMMA CountType ==
    ASSUME NEW k \in ConnRecord, NEW n \in {0, 1}
    PROVE  /\ [k EXCEPT !.tracked = n] \in ConnRecord
           /\ [k EXCEPT !.pc = "dialing", !.tracked = n] \in ConnRecord
           /\ [k EXCEPT !.late = TRUE, !.tracked = n] \in ConnRecord
           /\ [k EXCEPT !.open = FALSE, !.tracked = n] \in ConnRecord
           /\ \A b \in BOOLEAN : [k EXCEPT !.tracked = n, !.dropped = b] \in ConnRecord
<1>1. [k EXCEPT !.tracked = n] \in ConnRecord
  BY DEF ConnRecord
<1>2. [k EXCEPT !.pc = "dialing", !.tracked = n] \in ConnRecord
  BY DEF ConnRecord
<1>3. [k EXCEPT !.late = TRUE, !.tracked = n] \in ConnRecord
  BY DEF ConnRecord
<1>4. [k EXCEPT !.open = FALSE, !.tracked = n] \in ConnRecord
  BY DEF ConnRecord
<1>5. \A b \in BOOLEAN : [k EXCEPT !.tracked = n, !.dropped = b] \in ConnRecord
  BY DEF ConnRecord
<1>6. QED
  BY <1>1, <1>2, <1>3, <1>4, <1>5

\* trackedConn.Close uncounts a connection that counts, and only such a one.
LEMMA TrackedCloseType ==
    ASSUME NEW k \in ConnRecord, k.open => k.tracked = 1
    PROVE  TrackedClose(k) \in ConnRecord
<1>1. PICK n \in {0, 1} : n = IF k.open THEN k.tracked - 1 ELSE k.tracked
  BY DEF ConnRecord
<1>2. QED
  BY <1>1, CountType DEF TrackedClose

-----------------------------------------------------------------------------
(***************************************************************************)
(* Steps of one connection that leave its dial and its handle alone.       *)
(***************************************************************************)

\* For such a step only the connection's own part of the invariant is at stake.
LEMMA OwnStep ==
    ASSUME IInv, NEW c \in Conn, NEW k \in ConnRecord,
           Set(c, k), UNCHANGED <<handlers, dial>>,
           k.fd = conn[c].fd, k.ns = conn[c].ns, k.reused = conn[c].reused,
           Alive(k, dial[c])
    PROVE  IInv'
<1>1. /\ (conn \in [Conn -> ConnRecord])'
      /\ conn'[c] = k /\ \A b \in Conn : b # c => conn'[b] = conn[b]
  BY SetType DEF IInv, ProxyTypeOK
<1>2. ProxyTypeOK' /\ RequestInv'
  BY <1>1 DEF IInv, ProxyTypeOK, RequestInv, handlers
<1>3. DescriptorInv' /\ ThreadInv' /\ ThreadsHome'
  BY DEF IInv, DescriptorInv, ThreadInv, ThreadsHome, Locked, handlers
<1>4. HandleInv' /\ DialsInNamespace'
  BY <1>1 DEF IInv, HandleInv, DialsInNamespace, handlers
<1>5. QED
  BY <1>2, <1>3, <1>4 DEF IInv

\* The handler after the dial, the copies and the two ends of the connection: at
\* every step the connection counts exactly while its socket is open.
LEMMA OwnSteps ==
    ASSUME IInv, NEW c \in Conn,
           \/ Reply(c) \/ RelayEnds(c) \/ HandlerReturns(c) \/ CtxDone(c) \/ Copies(c)
           \/ ClientLeaves(c) \/ TargetEnds(c) \/ GcCloses(c)
    PROVE  IInv'
<1>1. conn[c] \in ConnRecord /\ Alive(conn[c], dial[c])
  BY DEF IInv, ProxyTypeOK, RequestInv
<1>2. CASE Reply(c) /\ Set(c, [conn[c] EXCEPT !.pc = "close"])
  <2> DEFINE k == [conn[c] EXCEPT !.pc = "close"]
  <2>1. k \in ConnRecord
    BY <1>1 DEF ConnRecord
  <2>2. /\ k.fd = conn[c].fd /\ k.ns = conn[c].ns /\ k.reused = conn[c].reused
        /\ Alive(k, dial[c])
    BY <1>1, <1>2 DEF ConnRecord, Alive, Reply, At
  <2>3. QED
    BY <1>2, <2>1, <2>2, OwnStep DEF Reply
<1>3. CASE Reply(c) /\ Set(c, [conn[c] EXCEPT !.pc = "relay", !.down = TRUE,
                                           !.up = conn[c].kind # "http"])
  <2> DEFINE k == [conn[c] EXCEPT !.pc = "relay", !.down = TRUE,
                             !.up = conn[c].kind # "http"]
  <2>1. k \in ConnRecord
    BY <1>1 DEF ConnRecord
  <2>2. /\ k.fd = conn[c].fd /\ k.ns = conn[c].ns /\ k.reused = conn[c].reused
        /\ Alive(k, dial[c])
    BY <1>1, <1>3 DEF ConnRecord, Alive, Reply, At
  <2>3. QED
    BY <1>3, <2>1, <2>2, OwnStep DEF Reply
<1>4. CASE RelayEnds(c)
  <2> DEFINE k == [conn[c] EXCEPT !.pc = "close"]
  <2>1. k \in ConnRecord
    BY <1>1 DEF ConnRecord
  <2>2. /\ k.fd = conn[c].fd /\ k.ns = conn[c].ns /\ k.reused = conn[c].reused
        /\ Alive(k, dial[c])
    BY <1>1, <1>4 DEF ConnRecord, Alive, RelayEnds, At
  <2>3. QED
    BY <1>4, <2>1, <2>2, OwnStep DEF RelayEnds
<1>5. CASE HandlerReturns(c)
  <2> DEFINE k == Returned(TrackedClose(conn[c]))
  <2>1. k \in ConnRecord
    BY <1>1, <1>5, TrackedCloseType, ReturnedType DEF Alive, HandlerReturns, At
  <2>2. /\ k.fd = conn[c].fd /\ k.ns = conn[c].ns /\ k.reused = conn[c].reused
        /\ Alive(k, dial[c])
    BY <1>1, <1>5 DEF ConnRecord, Alive, HandlerReturns, At, Returned, TrackedClose, NoConn
  <2>3. QED
    BY <1>5, <2>1, <2>2, OwnStep DEF HandlerReturns
<1>6. CASE CtxDone(c)
  <2> DEFINE k == Returned([conn[c] EXCEPT !.late = TRUE, !.tracked = @ - 1])
  <2>1. k \in ConnRecord
    <3>1. conn[c].tracked - 1 \in {0, 1}
      BY <1>1, <1>6 DEF Alive, CtxDone, At
    <3>2. QED
      BY <1>1, <3>1, CountType, ReturnedType
  <2>2. /\ k.fd = conn[c].fd /\ k.ns = conn[c].ns /\ k.reused = conn[c].reused
        /\ Alive(k, dial[c])
    BY <1>1, <1>6 DEF ConnRecord, Alive, CtxDone, At, Returned, NoConn
  <2>3. QED
    BY <1>6, <2>1, <2>2, OwnStep DEF CtxDone
<1>7. CASE TargetEof(c)
  <2> DEFINE k == [TrackedClose(conn[c]) EXCEPT !.down = FALSE]
  <2>1. k \in ConnRecord
    <3>1. TrackedClose(conn[c]) \in ConnRecord
      BY <1>1, <1>7, TrackedCloseType DEF Alive, TargetEof
    <3>2. QED
      BY <3>1 DEF ConnRecord
  <2>2. /\ k.fd = conn[c].fd /\ k.ns = conn[c].ns /\ k.reused = conn[c].reused
        /\ Alive(k, dial[c])
    BY <1>1, <1>7 DEF ConnRecord, Alive, TargetEof, TrackedClose
  <2>3. QED
    BY <1>7, <2>1, <2>2, OwnStep DEF TargetEof
<1>8. CASE TargetReset(c) \/ DownFails(c)
  <2> DEFINE k == [conn[c] EXCEPT !.down = FALSE]
  <2>1. k \in ConnRecord
    BY <1>1 DEF ConnRecord
  <2>2. /\ k.fd = conn[c].fd /\ k.ns = conn[c].ns /\ k.reused = conn[c].reused
        /\ Alive(k, dial[c])
    BY <1>1, <1>8 DEF ConnRecord, Alive, TargetReset, DownFails
  <2>3. QED
    BY <1>8, <2>1, <2>2, OwnStep DEF TargetReset, DownFails
<1>9. CASE ClientEof(c) \/ UpFails(c)
  <2> DEFINE k == [conn[c] EXCEPT !.up = FALSE]
  <2>1. k \in ConnRecord
    BY <1>1 DEF ConnRecord
  <2>2. /\ k.fd = conn[c].fd /\ k.ns = conn[c].ns /\ k.reused = conn[c].reused
        /\ Alive(k, dial[c])
    BY <1>1, <1>9 DEF ConnRecord, Alive, ClientEof, UpFails
  <2>3. QED
    BY <1>9, <2>1, <2>2, OwnStep DEF ClientEof, UpFails
<1>10. CASE ClientLeaves(c)
  <2> DEFINE k == [conn[c] EXCEPT !.client = "gone"]
  <2>1. k \in ConnRecord
    BY <1>1 DEF ConnRecord
  <2>2. /\ k.fd = conn[c].fd /\ k.ns = conn[c].ns /\ k.reused = conn[c].reused
        /\ Alive(k, dial[c])
    BY <1>1, <1>10 DEF ConnRecord, Alive, ClientLeaves, At
  <2>3. QED
    BY <1>10, <2>1, <2>2, OwnStep DEF ClientLeaves
<1>11. CASE TargetEnds(c)
  <2>1. PICK e \in {"eof", "reset"} : Set(c, [conn[c] EXCEPT !.target = e])
    BY <1>11 DEF TargetEnds
  <2> DEFINE k == [conn[c] EXCEPT !.target = e]
  <2>2. k \in ConnRecord
    BY <1>1 DEF ConnRecord
  <2>3. /\ k.fd = conn[c].fd /\ k.ns = conn[c].ns /\ k.reused = conn[c].reused
        /\ Alive(k, dial[c])
    BY <1>1, <1>11 DEF ConnRecord, Alive, TargetEnds
  <2>4. QED
    BY <1>11, <2>1, <2>2, <2>3, OwnStep DEF TargetEnds
<1>12. CASE GcCloses(c)
  <2> DEFINE k == [conn[c] EXCEPT !.open = FALSE, !.dropped = FALSE]
  <2>1. k \in ConnRecord
    BY <1>1 DEF ConnRecord
  <2>2. /\ k.fd = conn[c].fd /\ k.ns = conn[c].ns /\ k.reused = conn[c].reused
        /\ Alive(k, dial[c])
    BY <1>1, <1>12 DEF ConnRecord, Alive, GcCloses, At
  <2>3. QED
    BY <1>12, <2>1, <2>2, OwnStep DEF GcCloses
<1>13. QED
  BY <1>2, <1>3, <1>4, <1>5, <1>6, <1>7, <1>8, <1>9, <1>10, <1>11, <1>12 DEF Copies, Reply

-----------------------------------------------------------------------------
(***************************************************************************)
(* Steps that start or end a dial without a thread.                        *)
(***************************************************************************)

\* For such a step no descriptor and no thread is at stake.
LEMMA ThreadlessStep ==
    ASSUME IInv, NEW c \in Conn, NEW k \in ConnRecord, NEW d \in DialRecord,
           Set(c, k), dial' = [dial EXCEPT ![c] = d], UNCHANGED handlers,
           ~Locked(c), d.pc \notin {"set", "dial"}, d.thread = None,
           Alive(k, d),
           k.fd # None /\ ~k.reused => fds[k.fd] \in {k.ns, None}
    PROVE  IInv'
<1>1. /\ (conn \in [Conn -> ConnRecord])'
      /\ conn'[c] = k /\ \A b \in Conn : b # c => conn'[b] = conn[b]
  BY SetType DEF IInv, ProxyTypeOK
<1>2. /\ (dial \in [Conn -> DialRecord])'
      /\ dial'[c] = d /\ \A b \in Conn : b # c => dial'[b] = dial[b]
  BY DEF IInv, ProxyTypeOK
<1>3. ProxyTypeOK' /\ RequestInv'
  BY <1>1, <1>2 DEF IInv, ProxyTypeOK, RequestInv, handlers
<1>4. DescriptorInv' /\ ThreadInv'
  BY <1>2 DEF IInv, DescriptorInv, ThreadInv, Locked, handlers
<1>5. ThreadsHome'
  BY <1>2 DEF IInv, ProxyTypeOK, ThreadInv, ThreadsHome, Locked, handlers
<1>6. HandleInv' /\ DialsInNamespace'
  BY <1>1, <1>2 DEF IInv, HandleInv, DialsInNamespace, handlers
<1>7. QED
  BY <1>3, <1>4, <1>5, <1>6 DEF IInv

\* A request begins, its dial starts or fails before it has a thread, and its
\* result is taken by the handler or by the late closer.
LEMMA ThreadlessSteps ==
    ASSUME IInv, NEW c \in Conn,
           \/ \E kind \in Serves[c] : Accept(c, kind)
           \/ TrackConn(c) \/ GetFails(c) \/ ReceiveResult(c) \/ LateClose(c)
    PROVE  IInv'
<1>1. /\ conn[c] \in ConnRecord /\ dial[c] \in DialRecord /\ Alive(conn[c], dial[c])
      /\ ~Locked(c) => dial[c].thread = None
  BY DEF IInv, ProxyTypeOK, RequestInv, ThreadInv
<1>2. NoDial \in DialRecord /\ NoDial.pc = "none" /\ NoDial.thread = None
  BY DEF NoDial, DialRecord
<1>3. ASSUME NEW kind \in Serves[c], Accept(c, kind)
      PROVE  IInv'
  <2> DEFINE k == [NoConn EXCEPT !.pc = "track", !.kind = kind,
                                 !.fd = worker.fd, !.ns = worker.ns]
  <2>1. k \in ConnRecord
    BY <1>3, ProxyAssumption DEF Accept, IInv, ProxyTypeOK, ConnRecord, NoConn, Kinds
  <2>2. dial[c].pc = "none" /\ ~Locked(c)
    BY <1>1, <1>3 DEF Accept, Quiet, At, Alive, Locked
  <2>3. k.fd \in Fd /\ fds[k.fd] = k.ns
    BY <1>3 DEF Accept, IInv, ProxyTypeOK, DescriptorInv, NoConn
  <2>4. Alive(k, dial[c])
    BY <2>2, <2>3, ProxyAssumption DEF Alive, NoConn
  <2>5. dial' = [dial EXCEPT ![c] = dial[c]]
    BY <1>3 DEF Accept, IInv, ProxyTypeOK
  <2>6. QED
    BY <1>1, <1>3, <2>1, <2>2, <2>3, <2>4, <2>5, ThreadlessStep DEF Accept
<1>4. CASE TrackConn(c)
  <2> DEFINE k == [conn[c] EXCEPT !.pc = "dialing", !.tracked = @ + 1]
             d == [dial[c] EXCEPT !.pc = "get"]
  <2>1. k \in ConnRecord
    <3>1. conn[c].tracked + 1 \in {0, 1}
      BY <1>1, <1>4 DEF Alive, TrackConn, At
    <3>2. QED
      BY <1>1, <3>1, CountType
  <2>2. d \in DialRecord /\ d.pc = "get" /\ d.thread = dial[c].thread /\ ~Locked(c)
    BY <1>1, <1>4 DEF DialRecord, Alive, TrackConn, At, Locked
  <2>3. Alive(k, d)
    BY <1>1, <1>4, <2>2 DEF ConnRecord, Alive, TrackConn, At
  <2>4. k.fd # None /\ ~k.reused => fds[k.fd] \in {k.ns, None}
    BY <1>1, <1>4 DEF IInv, HandleInv, ConnRecord, Alive, TrackConn, At
  <2>5. dial' = [dial EXCEPT ![c] = d]
    BY <1>4 DEF TrackConn, IInv, ProxyTypeOK
  <2>6. QED
    BY <1>1, <1>4, <2>1, <2>2, <2>3, <2>4, <2>5, ThreadlessStep DEF TrackConn
<1>5. CASE GetFails(c)
  <2> DEFINE k == Dialled(conn[c], FALSE)
             d == [NoDial EXCEPT !.pc = "sent", !.err = TRUE]
  <2>1. k \in ConnRecord
    BY <1>1, DialledType
  <2>2. d \in DialRecord /\ d.pc = "sent" /\ d.err /\ d.thread = None /\ ~Locked(c)
    BY <1>5 DEF DialRecord, NoDial, GetFails, Locked
  <2>3. Alive(k, d) /\ k.fd = None
    BY <1>1, <1>5, <2>2 DEF ConnRecord, Alive, GetFails, Dialled
  <2>4. dial' = [dial EXCEPT ![c] = d]
    BY <1>5 DEF GetFails
  <2>5. QED
    BY <1>1, <1>5, <2>1, <2>2, <2>3, <2>4, ThreadlessStep DEF GetFails
<1>6. CASE ReceiveResult(c) /\ ~dial[c].err
  <2> DEFINE k == [conn[c] EXCEPT !.pc = "reply"]
  <2>1. k \in ConnRecord
    BY <1>1 DEF ConnRecord
  <2>2. Alive(k, NoDial) /\ k.fd = None /\ ~Locked(c)
    BY <1>1, <1>2, <1>6 DEF ConnRecord, Alive, ReceiveResult, At, Locked
  <2>3. QED
    BY <1>2, <1>6, <2>1, <2>2, ThreadlessStep DEF ReceiveResult
<1>7. CASE ReceiveResult(c) /\ dial[c].err
  <2> DEFINE k == Returned([conn[c] EXCEPT !.tracked = @ - 1, !.dropped = conn[c].open])
  <2>1. k \in ConnRecord
    <3>1. conn[c].tracked - 1 \in {0, 1}
      BY <1>1, <1>7 DEF Alive, ReceiveResult, At
    <3>2. conn[c].open \in BOOLEAN
      BY <1>1 DEF ConnRecord
    <3>3. QED
      BY <1>1, <3>1, <3>2, CountType, ReturnedType
  <2>2. Alive(k, NoDial) /\ k.fd = None /\ ~Locked(c)
    BY <1>1, <1>2, <1>7 DEF ConnRecord, Alive, ReceiveResult, At, Locked, Returned, NoConn
  <2>3. QED
    BY <1>2, <1>7, <2>1, <2>2, ThreadlessStep DEF ReceiveResult
<1>8. CASE LateClose(c)
  <2> DEFINE k == [conn[c] EXCEPT !.late = FALSE, !.open = FALSE]
  <2>1. k \in ConnRecord
    BY <1>1 DEF ConnRecord
  <2>2. Alive(k, NoDial) /\ k.fd = None /\ ~Locked(c)
    BY <1>1, <1>2, <1>8 DEF ConnRecord, Alive, LateClose, Locked
  <2>3. QED
    BY <1>2, <1>8, <2>1, <2>2, ThreadlessStep DEF LateClose
<1>9. QED
  BY <1>3, <1>4, <1>5, <1>6, <1>7, <1>8

-----------------------------------------------------------------------------
(***************************************************************************)
(* Steps of a dial with its thread, and of the worker.                     *)
(***************************************************************************)

\* Get: the thread is nobody else's and at home or astray, and the descriptor it
\* takes was free, so requests that hold its number are marked.
LEMMA LockAndGetStep ==
    ASSUME IInv, NEW c \in Conn, LockAndGet(c)
    PROVE  IInv'
<1>1. PICK t \in Thread :
         /\ \A b \in Conn : dial[b].thread # t
         /\ dial' = [dial EXCEPT ![c] = [NoDial EXCEPT !.pc = "set", !.thread = t,
                                                        !.origin = Lowest]]
         /\ fds' = [fds EXCEPT ![Lowest] = threadNs[t]]
  BY DEF LockAndGet
<1> DEFINE f == Lowest
           n == threadNs[t]
<1>2. f \in Fd /\ fds[f] = None /\ n \in Netns \cup {Host} /\ n # None
  BY <1>1, LowestIsFree, ProxyAssumption DEF IInv, ProxyTypeOK
<1>3. (n = Host \/ t \in astray) /\ fds' = [fds EXCEPT ![f] = n]
  BY <1>1 DEF IInv, ThreadsHome
<1>4. dial[c].pc = "get" /\ UNCHANGED <<worker, threadNs, astray>> /\ conn' = Marked(f)
  BY DEF LockAndGet
<1>5. /\ dial'[c].pc = "set" /\ dial'[c].thread = t /\ dial'[c].origin = f
      /\ \A b \in Conn : b # c => dial'[b] = dial[b]
      /\ (dial \in [Conn -> DialRecord])'
  BY <1>1, <1>2 DEF IInv, ProxyTypeOK, DialRecord, NoDial
<1>6. /\ fds'[f] = n /\ \A g \in Fd : g # f => fds'[g] = fds[g]
      /\ (fds \in [Fd -> Netns \cup {Host, None}])'
  BY <1>2, <1>3 DEF IInv, ProxyTypeOK
<1>12. worker # None => fds[worker.fd] # None /\ worker.fd \in Fd
  BY ProxyAssumption DEF IInv, ProxyTypeOK, DescriptorInv
<1> HIDE DEF f, n
<1>7. ProxyTypeOK' /\ RequestInv'
  BY <1>4, <1>5, <1>6, MarkedFields DEF IInv, ProxyTypeOK, RequestInv, Alive
<1>8. DescriptorInv'
  BY <1>2, <1>3, <1>4, <1>5, <1>6, <1>12 DEF IInv, DescriptorInv, Locked
<1>9. ThreadInv' /\ ThreadsHome'
  <2>1. \A b \in Conn : dial[b].thread # t
    BY <1>1
  <2>2. ThreadInv'
    BY <1>3, <1>4, <1>5, <2>1 DEF IInv, ThreadInv, Locked, n
  <2>3. ThreadsHome'
    BY <1>4, <1>5, ProxyAssumption DEF IInv, ThreadInv, ThreadsHome, Locked
  <2>4. QED
    BY <2>2, <2>3
<1>10. HandleInv' /\ DialsInNamespace'
  <2>1. \A b \in Conn :
           /\ conn[b].fd \in Fd \cup {None}
           /\ conn'[b].fd = conn[b].fd /\ conn'[b].ns = conn[b].ns
           /\ conn'[b].reused <=> conn[b].reused \/ Holds(b, f)
    BY <1>4, MarkedFields DEF IInv, ProxyTypeOK, ConnRecord
  <2>2. HandleInv'
    BY <1>4, <1>5, <1>6, <2>1 DEF IInv, HandleInv, Holds
  <2>3. DialsInNamespace'
    BY <1>4, <1>5, <2>1 DEF IInv, DialsInNamespace
  <2>4. QED
    BY <2>2, <2>3
<1>11. QED
  BY <1>7, <1>8, <1>9, <1>10 DEF IInv

\* Set: the number still stands for the namespace chosen, unless it was marked.
LEMMA EntersStep ==
    ASSUME IInv, NEW c \in Conn, dial[c].pc = "set",
           fds[conn[c].fd] # None, Enters(c, fds[conn[c].fd]),
           UNCHANGED <<worker, conn, astray>>
    PROVE  IInv'
<1>1. /\ dial[c].thread \in Thread /\ conn[c].fd \in Fd
      /\ fds[conn[c].fd] \in Netns \cup {Host}
  <2>1. dial[c].thread \in Thread
    BY DEF IInv, ThreadInv, Locked
  <2>2. conn[c].fd # None /\ conn[c].fd \in Fd \cup {None}
    BY DEF IInv, ProxyTypeOK, RequestInv, Alive, ConnRecord
  <2>3. QED
    BY <2>1, <2>2 DEF IInv, ProxyTypeOK
<1>2. /\ dial'[c].pc = "dial" /\ dial'[c].thread = dial[c].thread
      /\ dial'[c].origin = dial[c].origin /\ dial'[c].err = dial[c].err
      /\ \A b \in Conn : b # c => dial'[b] = dial[b]
      /\ (dial \in [Conn -> DialRecord])'
  BY DEF IInv, ProxyTypeOK, DialRecord, Enters
<1>3. /\ threadNs'[dial[c].thread] = fds[conn[c].fd]
      /\ \A t \in Thread : t # dial[c].thread => threadNs'[t] = threadNs[t]
      /\ (threadNs \in [Thread -> Netns \cup {Host}])'
  BY <1>1 DEF IInv, ProxyTypeOK, Enters
<1>4. UNCHANGED <<fds, worker, conn, astray>>
  BY DEF Enters
<1>5. ProxyTypeOK' /\ RequestInv'
  BY <1>2, <1>3, <1>4 DEF IInv, ProxyTypeOK, RequestInv, Alive
<1>6. DescriptorInv'
  BY <1>2, <1>4 DEF IInv, DescriptorInv, Locked
<1>7. ThreadInv' /\ ThreadsHome'
  BY <1>1, <1>2, <1>3 DEF IInv, ThreadInv, ThreadsHome, Locked
<1>8. HandleInv'
  BY <1>2, <1>4 DEF IInv, HandleInv
<1>9. DialsInNamespace'
  BY <1>1, <1>2, <1>3, <1>4, ProxyAssumption
     DEF IInv, ThreadInv, HandleInv, DialsInNamespace, Locked
<1>10. QED
  BY <1>5, <1>6, <1>7, <1>8, <1>9 DEF IInv

\* The dial ends and its thread is at home, or astray: Set failed, or Set(origin)
\* put it back, or did not.
LEMMA SendsStep ==
    ASSUME IInv, NEW c \in Conn, Locked(c), NEW ok \in BOOLEAN, NEW err \in BOOLEAN,
           ~err => ok,
           Sends(c, err), Set(c, Dialled(conn[c], ok)), UNCHANGED worker,
           NEW n \in Netns \cup {Host},
           threadNs' = [threadNs EXCEPT ![dial[c].thread] = n],
           astray' = astray \/ astray' = astray \cup {dial[c].thread},
           n = Host \/ dial[c].thread \in astray'
    PROVE  IInv'
<1> DEFINE k == Dialled(conn[c], ok)
           d == [NoDial EXCEPT !.pc = "sent", !.err = err]
<1>1. /\ conn[c] \in ConnRecord /\ Alive(conn[c], dial[c])
      /\ dial[c].thread \in Thread /\ dial[c].origin \in Fd
  BY DEF IInv, ProxyTypeOK, RequestInv, ThreadInv, DescriptorInv
<1>2. k \in ConnRecord
  BY <1>1, DialledType
<1>3. /\ (conn \in [Conn -> ConnRecord])'
      /\ conn'[c] = k /\ \A b \in Conn : b # c => conn'[b] = conn[b]
  BY <1>2, SetType DEF IInv, ProxyTypeOK
<1>4. d \in DialRecord /\ d.pc = "sent" /\ d.thread = None /\ d.err = err
  BY DEF NoDial, DialRecord
<1>5. /\ (dial \in [Conn -> DialRecord])'
      /\ dial'[c] = d /\ \A b \in Conn : b # c => dial'[b] = dial[b]
  BY <1>4 DEF IInv, ProxyTypeOK, Sends
<1>6. /\ fds'[dial[c].origin] = None
      /\ \A g \in Fd : g # dial[c].origin => fds'[g] = fds[g]
      /\ (fds \in [Fd -> Netns \cup {Host, None}])'
  BY <1>1 DEF IInv, ProxyTypeOK, Sends
<1>7. /\ threadNs'[dial[c].thread] = n
      /\ \A t \in Thread : t # dial[c].thread => threadNs'[t] = threadNs[t]
      /\ (threadNs \in [Thread -> Netns \cup {Host}] /\ astray \subseteq Thread)'
      /\ astray \subseteq astray'
  BY <1>1 DEF IInv, ProxyTypeOK
<1>8. Alive(k, d) /\ k.fd = None
  BY <1>1, <1>4 DEF ConnRecord, Alive, Dialled, Locked
<1> HIDE DEF k, d
<1>9. ProxyTypeOK' /\ RequestInv'
  BY <1>3, <1>5, <1>6, <1>7, <1>8 DEF IInv, ProxyTypeOK, RequestInv
<1>10. DescriptorInv'
  <2>1. worker # None => worker.fd # dial[c].origin
    BY DEF IInv, DescriptorInv
  <2>2. \A b \in Conn : Locked(b)' <=> b # c /\ Locked(b)
    BY <1>4, <1>5 DEF Locked
  <2>3. \A b \in Conn : b # c /\ Locked(b) =>
           /\ dial[b].origin # dial[c].origin
           /\ dial'[b].origin = dial[b].origin /\ dial'[b].thread = dial[b].thread
    BY <1>5 DEF IInv, DescriptorInv
  <2>4. worker # None => worker.fd \in Fd
    BY DEF IInv, ProxyTypeOK
  <2>5. QED
    BY <1>1, <1>6, <1>7, <2>1, <2>2, <2>3, <2>4 DEF IInv, DescriptorInv
<1>11. ThreadInv' /\ ThreadsHome'
  BY <1>1, <1>4, <1>5, <1>7 DEF IInv, ThreadInv, ThreadsHome, Locked
<1>12. HandleInv'
  <2>1. \A b \in Conn : conn[b].fd \in Fd \cup {None}
    BY DEF IInv, ProxyTypeOK, ConnRecord
  <2>2. QED
    BY <1>3, <1>5, <1>6, <1>8, <2>1 DEF IInv, HandleInv
<1>13. DialsInNamespace'
  BY <1>1, <1>3, <1>4, <1>5, <1>7 DEF IInv, ThreadInv, DialsInNamespace, Locked
<1>14. QED
  BY <1>9, <1>10, <1>11, <1>12, <1>13 DEF IInv

\* The two steps of a dial that holds a thread.
LEMMA ThreadSteps ==
    ASSUME IInv, NEW c \in Conn,
           SetTarget(c) \/ \E ok, back \in BOOLEAN : DialReturns(c, ok, back)
    PROVE  IInv'
<1>1. CASE SetTarget(c) /\ fds[conn[c].fd] # None
  BY <1>1, EntersStep DEF SetTarget
<1>2. CASE SetTarget(c) /\ fds[conn[c].fd] = None
  <2>1. Locked(c) /\ dial[c].pc = "set" /\ dial[c].thread \in Thread
    BY <1>2 DEF SetTarget, IInv, ThreadInv, Locked
  <2> DEFINE n == threadNs[dial[c].thread]
  <2>2. /\ n \in Netns \cup {Host} /\ (n = Host \/ dial[c].thread \in astray)
        /\ threadNs' = [threadNs EXCEPT ![dial[c].thread] = n]
        /\ astray' = astray
    BY <1>2, <2>1 DEF SetTarget, IInv, ProxyTypeOK, ThreadInv
  <2>3. Sends(c, TRUE) /\ Set(c, Dialled(conn[c], FALSE)) /\ UNCHANGED worker
    BY <1>2 DEF SetTarget
  <2> HIDE DEF n
  <2>4. QED
    BY <2>1, <2>2, <2>3, SendsStep
<1>3. ASSUME NEW ok \in BOOLEAN, NEW back \in BOOLEAN, DialReturns(c, ok, back)
      PROVE  IInv'
  <2>1. /\ Locked(c) /\ dial[c].thread \in Thread
        /\ fds[dial[c].origin] \in Netns \cup {Host}
        /\ fds[dial[c].origin] = Host \/ dial[c].thread \in astray
    BY <1>3 DEF DialReturns, IInv, ProxyTypeOK, ThreadInv, DescriptorInv, Locked
  <2>2. /\ Sends(c, ~(ok /\ back)) /\ Set(c, Dialled(conn[c], ok)) /\ UNCHANGED worker
        /\ ~(ok /\ back) \in BOOLEAN /\ ~~(ok /\ back) => ok
    BY <1>3 DEF DialReturns
  <2>3. CASE back
    <3>1. /\ threadNs' = [threadNs EXCEPT ![dial[c].thread] = fds[dial[c].origin]]
          /\ astray' = astray
      BY <1>3, <2>3 DEF DialReturns
    <3>2. QED
      BY <2>1, <2>2, <3>1, SendsStep
  <2>4. CASE ~back
    <3> DEFINE n == threadNs[dial[c].thread]
    <3>1. /\ n \in Netns \cup {Host}
          /\ threadNs' = [threadNs EXCEPT ![dial[c].thread] = n]
          /\ astray' = astray \cup {dial[c].thread}
      BY <1>3, <2>1, <2>4 DEF DialReturns, IInv, ProxyTypeOK
    <3> HIDE DEF n
    <3>2. QED
      BY <2>1, <2>2, <3>1, SendsStep
  <2>5. QED
    BY <2>3, <2>4
<1>4. QED
  BY <1>1, <1>2, <1>3

\* A worker's namespace gets a descriptor, which is free, or loses it.
LEMMA WorkerSteps ==
    ASSUME IInv, WorkerEnters \/ WorkerDestroyed
    PROVE  IInv'
<1>1. CASE WorkerEnters
  <2> DEFINE f == Lowest
  <2>1. f \in Fd /\ fds[f] = None
    BY LowestIsFree DEF IInv
  <2> HIDE DEF f
  <2>2. PICK n \in Netns : /\ worker' = [ns |-> n, fd |-> f]
                           /\ fds' = [fds EXCEPT ![f] = n]
                           /\ conn' = Marked(f)
    BY <1>1 DEF WorkerEnters, f
  <2>3. worker = None /\ UNCHANGED <<threadNs, dial, astray>>
    BY <1>1 DEF WorkerEnters
  <2>4. /\ fds'[f] = n /\ \A g \in Fd : g # f => fds'[g] = fds[g]
        /\ (fds \in [Fd -> Netns \cup {Host, None}])'
    BY <2>1, <2>2 DEF IInv, ProxyTypeOK
  <2>5. ProxyTypeOK' /\ RequestInv'
    BY <2>1, <2>2, <2>3, <2>4, MarkedFields DEF IInv, ProxyTypeOK, RequestInv, Alive
  <2>6. DescriptorInv'
    <3>1. worker' # None /\ worker'.fd = f /\ worker'.ns = n
      BY <2>1, <2>2, ProxyAssumption
    <3>2. \A c \in Conn : /\ Locked(c)' <=> Locked(c)
                          /\ dial'[c].origin = dial[c].origin
                          /\ dial'[c].thread = dial[c].thread
      BY <2>3 DEF Locked
    <3>3. \A c \in Conn : Locked(c) => fds[dial[c].origin] # None
      BY DEF IInv, DescriptorInv
    <3>4. QED
      BY <2>1, <2>3, <2>4, <3>1, <3>2, <3>3 DEF IInv, DescriptorInv
  <2>7. ThreadInv' /\ ThreadsHome'
    BY <2>3 DEF IInv, ThreadInv, ThreadsHome, Locked
  <2>8. HandleInv' /\ DialsInNamespace'
    BY <2>2, <2>3, <2>4, MarkedFields
       DEF IInv, ProxyTypeOK, HandleInv, DialsInNamespace, Holds, ConnRecord
  <2>9. QED
    BY <2>5, <2>6, <2>7, <2>8 DEF IInv
<1>2. CASE WorkerDestroyed
  <2>1. /\ worker # None /\ worker.fd \in Fd /\ worker.ns \in Netns /\ worker' = None
        /\ UNCHANGED <<threadNs, conn, dial, astray>>
    BY <1>2, ProxyAssumption DEF WorkerDestroyed, IInv, ProxyTypeOK
  <2>2. /\ fds'[worker.fd] = None
        /\ \A g \in Fd : g # worker.fd => fds'[g] = fds[g]
        /\ (fds \in [Fd -> Netns \cup {Host, None}])'
    BY <1>2, <2>1 DEF WorkerDestroyed, IInv, ProxyTypeOK
  <2>3. ProxyTypeOK' /\ RequestInv'
    BY <2>1, <2>2 DEF IInv, ProxyTypeOK, RequestInv
  <2>4. DescriptorInv'
    <3>1. \A c \in Conn : Locked(c) => dial[c].origin # worker.fd
      BY <2>1 DEF IInv, DescriptorInv
    <3>2. \A c \in Conn : Locked(c)' <=> Locked(c)
      BY <2>1 DEF Locked
    <3>3. QED
      BY <2>1, <2>2, <3>1, <3>2 DEF IInv, DescriptorInv
  <2>5. ThreadInv' /\ ThreadsHome'
    BY <2>1 DEF IInv, ThreadInv, ThreadsHome, Locked
  <2>6. HandleInv' /\ DialsInNamespace'
    BY <2>1, <2>2, ProxyAssumption
       DEF IInv, ProxyTypeOK, HandleInv, DialsInNamespace, ConnRecord
  <2>7. QED
    BY <2>3, <2>4, <2>5, <2>6 DEF IInv
<1>3. QED
  BY <1>1, <1>2

-----------------------------------------------------------------------------
\* The invariant holds in every state of every behaviour of the data path.
LEMMA ProxyInvariant == Spec => []IInv
<1>1. Init => IInv
  <2> SUFFICES ASSUME Init PROVE IInv
    OBVIOUS
  <2>1. NoConn \in ConnRecord /\ NoDial \in DialRecord
    BY ProxyAssumption DEF NoConn, NoDial, ConnRecord, DialRecord, Kinds
  <2>2. ProxyTypeOK
    BY <2>1 DEF Init, ProxyTypeOK
  <2>3. RequestInv
    BY DEF Init, RequestInv, Alive, NoConn, NoDial
  <2>4. DescriptorInv /\ ThreadInv /\ ThreadsHome
    BY DEF Init, DescriptorInv, ThreadInv, ThreadsHome, Locked, NoDial
  <2>5. HandleInv /\ DialsInNamespace
    BY DEF Init, HandleInv, DialsInNamespace, NoConn, NoDial
  <2>6. QED
    BY <2>2, <2>3, <2>4, <2>5 DEF IInv
<1>2. IInv /\ [Next]_vars => IInv'
  <2> SUFFICES ASSUME IInv, [Next]_vars
               PROVE  IInv'
    OBVIOUS
  <2>1. CASE UNCHANGED vars
    BY <2>1 DEF vars, IInv, ProxyTypeOK, RequestInv, DescriptorInv, ThreadInv, ThreadsHome,
       HandleInv, DialsInNamespace, Locked
  <2>2. CASE WorkerEnters \/ WorkerDestroyed
    BY <2>2, WorkerSteps
  <2>3. ASSUME NEW c \in Conn, Handler(c) \/ Dialer(c) \/ Copies(c) \/ Environment(c)
        PROVE  IInv'
    BY <2>3, OwnSteps, ThreadlessSteps, LockAndGetStep, ThreadSteps
       DEF Handler, Dialer, Environment
  <2>4. QED
    BY <2>1, <2>2, <2>3 DEF Next
<1>3. QED
  BY <1>1, <1>2, PTL DEF Spec

\* Types: a free descriptor is found for every open, and a connection is never
\* counted twice nor uncounted too often (trackedConn.Close).
THEOREM ProxyTypeCorrect == Spec => []ProxyTypeOK
<1>1. IInv => ProxyTypeOK
  BY DEF IInv
<1>2. QED
  BY ProxyInvariant, <1>1, PTL

\* DialInNs gives every thread back in the namespace of the gateway, but for those
\* on which Set(origin) has failed (dialer_linux.go).
THEOREM ThreadsComeHome == Spec => []ThreadsHome
<1>1. IInv => ThreadsHome
  BY DEF IInv
<1>2. QED
  BY ProxyInvariant, <1>1, PTL

\* A dial runs in the namespace of the worker the router chose, or its handle's
\* number was opened anew in between; workers may come and go at any step.
THEOREM DialsWhereRouted == Spec => []DialsInNamespace
<1>1. IInv => DialsInNamespace
  BY DEF IInv
<1>2. QED
  BY ProxyInvariant, <1>1, PTL

\* No count survives the last goroutine of a request, and no socket but one that
\* came with the error of Set(origin), also when the dial answers after the handler
\* has gone.
THEOREM NothingSurvives == Spec => []NothingOutlives
<1>1. IInv => NothingOutlives
  BY DEF IInv, RequestInv, Alive, NothingOutlives, Quiet, At
<1>2. QED
  BY ProxyInvariant, <1>1, PTL

\* TrackConn and UntrackConn pair up on every path through both proxies.
THEOREM CountedOnce == Spec => []CountedWhileOpen
<1>1. IInv => CountedWhileOpen
  BY DEF IInv, RequestInv, Alive, CountedWhileOpen
<1>2. QED
  BY ProxyInvariant, <1>1, PTL
=============================================================================
