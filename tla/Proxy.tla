------------------------------- MODULE Proxy -------------------------------
(***************************************************************************)
(* The data path of a proxied connection (internal/proxy): the handler of  *)
(* either proxy, the goroutine of DialInNs that enters the worker's        *)
(* namespace on an OS thread of its own, the goroutine that closes a       *)
(* connection which arrives after the caller has given up, and the copiers *)
(* of a tunnel.                                                            *)
(*                                                                         *)
(* A namespace handle is a file descriptor, a number: the worker's Destroy *)
(* closes it while requests may still hold the number, and the next open   *)
(* takes the lowest free one.  Routing and the pool are in Gateway; here   *)
(* one worker at a time is in the pool.  A descriptor taken by a socket is *)
(* no namespace and counts as free.                                        *)
(*                                                                         *)
(* Go keeps the threads: one that a dial could not put back is locked by   *)
(* later dials, wherever it is.                                            *)
(***************************************************************************)
EXTENDS Naturals, FiniteSets

CONSTANTS
    Conn,        \* client connections, used again and again
    Serves,      \* the kinds of request each may carry
    Thread,      \* OS threads, as many as there are dials: Go starts more
    Host,        \* the namespace the gateway runs in
    Netns,       \* network namespaces of workers
    Fd,          \* descriptors
    None

Kinds == {"connect", "http", "socks"}

ASSUME ProxyAssumption ==
    /\ Serves \in [Conn -> SUBSET Kinds]
    /\ Fd \subseteq Nat /\ IsFiniteSet(Fd) /\ IsFiniteSet(Conn)
    /\ Cardinality(Thread) >= Cardinality(Conn)
    /\ Cardinality(Fd) > Cardinality(Conn) + 1
    /\ Host \notin Netns /\ None \notin Netns \cup Thread \cup Fd \cup {Host}
    /\ None \notin [ns : Netns, fd : Fd]

VARIABLES
    fds,       \* the namespace behind each descriptor, or None
    worker,    \* the worker in the pool: its namespace and its Handle, or None
    threadNs,  \* the namespace each thread is in
    conn,      \* the handlers, with what they hold
    dial,      \* the goroutines of DialInNs
    astray     \* history: threads that Set(origin) has failed to put back

vars == <<fds, worker, threadNs, conn, dial, astray>>

\* A handler and its connection to the target.  fd is the descriptor number it
\* was given, ns (history) the namespace that number stood for then, and reused
\* (history) says that another open has taken the number since.  open: the
\* target's socket is open, which a trackedConn's closed flag negates; tracked:
\* TrackConn calls less UntrackConn calls.  up and down: the copies that run;
\* late: the goroutine that waits for a late result does.  dropped (history): the
\* dial has answered with a socket and an error, and the handler took the error.
NoConn == [pc |-> "idle", kind |-> "http", client |-> "up", target |-> "up",
           fd |-> None, ns |-> None, reused |-> FALSE, open |-> FALSE,
           tracked |-> 0, up |-> FALSE, down |-> FALSE, late |-> FALSE,
           dropped |-> FALSE]

\* A dial goroutine; "sent": its result is in the channel, with or without an
\* error.
NoDial == [pc |-> "none", thread |-> None, origin |-> None, err |-> FALSE]

ConnRecord ==
    [pc : {"idle", "track", "dialing", "reply", "relay", "close"},
     kind : Kinds, client : {"up", "gone"}, target : {"up", "eof", "reset"},
     fd : Fd \cup {None}, ns : Netns \cup {None}, reused : BOOLEAN,
     open : BOOLEAN, tracked : {0, 1},
     up : BOOLEAN, down : BOOLEAN, late : BOOLEAN, dropped : BOOLEAN]

DialRecord == [pc : {"none", "get", "set", "dial", "sent"},
               thread : Thread \cup {None}, origin : Fd \cup {None}, err : BOOLEAN]

ProxyTypeOK ==
    /\ fds \in [Fd -> Netns \cup {Host, None}]
    /\ worker \in [ns : Netns, fd : Fd] \cup {None}
    /\ threadNs \in [Thread -> Netns \cup {Host}]
    /\ conn \in [Conn -> ConnRecord]
    /\ dial \in [Conn -> DialRecord]
    /\ astray \subseteq Thread

Init ==
    /\ fds = [f \in Fd |-> None]
    /\ worker = None
    /\ threadNs = [t \in Thread |-> Host]
    /\ conn = [c \in Conn |-> NoConn]
    /\ dial = [c \in Conn |-> NoDial]
    /\ astray = {}

----------------------------------------------------------------------------
(***************************************************************************)
(* Descriptors.                                                            *)
(***************************************************************************)
Lowest == CHOOSE f \in Fd : fds[f] = None /\ \A g \in Fd : fds[g] = None => f <= g

\* Opening takes the lowest number; requests that still hold it are marked.
Holds(c, f) == conn[c].fd = f /\ dial[c].pc \in {"none", "get", "set"}
Marked(f) == [c \in Conn |-> [conn[c] EXCEPT !.reused = @ \/ Holds(c, f)]]

----------------------------------------------------------------------------
(***************************************************************************)
(* Workers come and go (the pool is WorkerManager's).                      *)
(***************************************************************************)
\* A namespace is made anew for each worker.
InUse == {fds[f] : f \in Fd} \cup {threadNs[t] : t \in Thread}
           \cup {conn[c].ns : c \in Conn}

\* NewNamed has opened the Handle and the worker is published.
WorkerEnters ==
    /\ worker = None
    /\ \E n \in Netns \ InUse :
          /\ worker' = [ns |-> n, fd |-> Lowest]
          /\ fds' = [fds EXCEPT ![Lowest] = n]
          /\ conn' = Marked(Lowest)
    /\ UNCHANGED <<threadNs, dial, astray>>

\* A worker that has left the pool: Destroy, Handle.Close.
WorkerDestroyed ==
    /\ worker # None
    /\ worker' = None
    /\ fds' = [fds EXCEPT ![worker.fd] = None]
    /\ UNCHANGED <<threadNs, conn, dial, astray>>

----------------------------------------------------------------------------
(***************************************************************************)
(* The handler up to the dial, and the dial goroutine.                     *)
(***************************************************************************)
At(c, p) == conn[c].pc = p
Set(c, new) == conn' = [conn EXCEPT ![c] = new]
Quiet(c) == At(c, "idle") /\ dial[c].pc \in {"none", "sent"} /\ ~conn[c].late
handlers == <<fds, worker, threadNs, astray>>

\* The handler returns; what it leaves behind stays.
Returned(k) == [NoConn EXCEPT !.open = k.open, !.tracked = k.tracked, !.late = k.late,
                              !.fd = k.fd, !.ns = k.ns, !.reused = k.reused,
                              !.dropped = k.dropped]

\* The handle is not used any more.
Dialled(k, ok) == [k EXCEPT !.open = ok, !.fd = None, !.ns = None, !.reused = FALSE]

\* A client with good credentials is served and routed to the worker, whose
\* handle GetWorkerNsHandle returns; without a worker the request fails.
Accept(c, kind) ==
    /\ Quiet(c) /\ ~conn[c].open
    /\ worker # None
    /\ Set(c, [NoConn EXCEPT !.pc = "track", !.kind = kind,
                             !.fd = worker.fd, !.ns = worker.ns])
    /\ UNCHANGED <<handlers, dial>>

TrackConn(c) ==
    /\ At(c, "track")
    /\ Set(c, [conn[c] EXCEPT !.pc = "dialing", !.tracked = @ + 1])
    /\ dial' = [dial EXCEPT ![c].pc = "get"]
    /\ UNCHANGED handlers

\* LockOSThread and Get.
LockAndGet(c) ==
    /\ dial[c].pc = "get"
    /\ \E t \in Thread :
          /\ \A b \in Conn : dial[b].thread # t
          /\ dial' = [dial EXCEPT ![c] = [NoDial EXCEPT !.pc = "set", !.thread = t,
                                                         !.origin = Lowest]]
          /\ fds' = [fds EXCEPT ![Lowest] = threadNs[t]]
    /\ conn' = Marked(Lowest)
    /\ UNCHANGED <<worker, threadNs, astray>>

\* The goroutine sends its result and its deferred calls run: origin.Close and
\* UnlockOSThread.
Sends(c, err) ==
    /\ dial' = [dial EXCEPT ![c] = [NoDial EXCEPT !.pc = "sent", !.err = err]]
    /\ fds' = [fds EXCEPT ![dial[c].origin] = None]

\* Get fails, for want of descriptors.
GetFails(c) ==
    /\ dial[c].pc = "get"
    /\ dial' = [dial EXCEPT ![c] = [NoDial EXCEPT !.pc = "sent", !.err = TRUE]]
    /\ Set(c, Dialled(conn[c], FALSE))
    /\ UNCHANGED handlers

Enters(c, ns) ==
    /\ threadNs' = [threadNs EXCEPT ![dial[c].thread] = ns]
    /\ dial' = [dial EXCEPT ![c].pc = "dial"]
    /\ UNCHANGED fds

\* Mutant: the error of Set is ignored.
SetTargetUnchecked(c) ==
    /\ dial[c].pc = "set"
    /\ Enters(c, IF fds[conn[c].fd] # None THEN fds[conn[c].fd]
                 ELSE threadNs[dial[c].thread])
    /\ UNCHANGED <<worker, conn, astray>>

\* Set(nsHandle): by number.
SetTarget(c) ==
    LET n == fds[conn[c].fd]
    IN  /\ dial[c].pc = "set"
        /\ \/ n # None /\ Enters(c, n)
              /\ UNCHANGED conn
           \/ n = None /\ Sends(c, TRUE) /\ Set(c, Dialled(conn[c], FALSE))
              /\ UNCHANGED threadNs
        /\ UNCHANGED <<worker, astray>>

\* Mutant: the thread goes back only after a dial that succeeded.
DialReturnsUnrestored(c, ok, back) ==
    LET t == dial[c].thread
    IN  /\ dial[c].pc = "dial"
        /\ threadNs' = [threadNs EXCEPT ![t] = IF ok THEN fds[dial[c].origin] ELSE @]
        /\ Set(c, Dialled(conn[c], ok))
        /\ Sends(c, ~ok)
        /\ UNCHANGED <<worker, astray>>

\* DialContext returns, with a socket or not, and Set(origin) puts the thread back
\* or fails, which is an error too.  The result is sent.
DialReturns(c, ok, back) ==
    LET t == dial[c].thread
    IN  /\ dial[c].pc = "dial"
        /\ \/ /\ back
              /\ threadNs' = [threadNs EXCEPT ![t] = fds[dial[c].origin]]
              /\ UNCHANGED astray
           \/ /\ ~back
              /\ astray' = astray \cup {t}
              /\ UNCHANGED threadNs
        /\ Set(c, Dialled(conn[c], ok))
        /\ Sends(c, ~(ok /\ back))
        /\ UNCHANGED <<worker>>

\* The select of DialInNs takes the result; on an error UntrackConn, and a socket
\* that came with the error is dropped as it is.
ReceiveResult(c) ==
    /\ At(c, "dialing") /\ dial[c].pc = "sent"
    /\ dial' = [dial EXCEPT ![c] = NoDial]
    /\ Set(c, IF ~dial[c].err THEN [conn[c] EXCEPT !.pc = "reply"]
              ELSE Returned([conn[c] EXCEPT !.tracked = @ - 1,
                                            !.dropped = conn[c].open]))
    /\ UNCHANGED handlers

\* The request's context is cancelled when its client goes; go-socks5 gives its
\* dialer a context that never is.
Cancelled(c) == conn[c].kind # "socks" /\ conn[c].client = "gone"

\* Mutant: nobody waits for the late result.
CtxDoneForgets(c) ==
    /\ At(c, "dialing") /\ Cancelled(c)
    /\ Set(c, Returned([conn[c] EXCEPT !.tracked = @ - 1]))
    /\ UNCHANGED <<handlers, dial>>

\* The select takes ctx.Done: the late closer starts, then UntrackConn.
CtxDone(c) ==
    /\ At(c, "dialing") /\ Cancelled(c)
    /\ Set(c, Returned([conn[c] EXCEPT !.late = TRUE, !.tracked = @ - 1]))
    /\ UNCHANGED <<handlers, dial>>

LateClose(c) ==
    /\ conn[c].late /\ dial[c].pc = "sent"
    /\ dial' = [dial EXCEPT ![c] = NoDial]
    /\ Set(c, [conn[c] EXCEPT !.late = FALSE, !.open = FALSE])
    /\ UNCHANGED handlers

\* The garbage collector finds a socket nobody refers to, some time or never.
GcCloses(c) ==
    /\ At(c, "idle") /\ conn[c].dropped /\ conn[c].open
    /\ Set(c, [conn[c] EXCEPT !.open = FALSE, !.dropped = FALSE])
    /\ UNCHANGED <<handlers, dial>>

----------------------------------------------------------------------------
(***************************************************************************)
(* The connection.                                                         *)
(***************************************************************************)

\* Mutant: every Close uncounts the connection.
TrackedCloseAgain(k) == [k EXCEPT !.open = FALSE, !.tracked = @ - 1]

\* trackedConn.Close: the first one uncounts the connection.
TrackedClose(k) ==
    [k EXCEPT !.open = FALSE, !.tracked = IF k.open THEN @ - 1 ELSE @]

\* handleConnect: hijack and the 200; handleHTTP: the request is written, then
\* hijack.  go-socks5 sends its reply.
Reply(c) ==
    /\ At(c, "reply")
    /\ \/ Set(c, [conn[c] EXCEPT !.pc = "close"])
       \/ Set(c, [conn[c] EXCEPT !.pc = "relay", !.down = TRUE,
                                 !.up = conn[c].kind # "http"])
    /\ UNCHANGED <<handlers, dial>>

\* Mutant: Read does not close the connection at the target's EOF.
TargetEofKeepsOpen(c) ==
    /\ conn[c].down /\ conn[c].target = "eof"
    /\ Set(c, [conn[c] EXCEPT !.down = FALSE])
    /\ UNCHANGED <<handlers, dial>>

\* io.Copy(client, target) meets the target's EOF: trackedConn.Read closes the
\* connection; the client is told with CloseWrite.
TargetEof(c) ==
    /\ conn[c].down /\ conn[c].target = "eof"
    /\ Set(c, [TrackedClose(conn[c]) EXCEPT !.down = FALSE])
    /\ UNCHANGED <<handlers, dial>>

\* The same copy meets a reset, which is not EOF: Read closes nothing.
TargetReset(c) ==
    /\ conn[c].down /\ conn[c].target = "reset"
    /\ Set(c, [conn[c] EXCEPT !.down = FALSE])
    /\ UNCHANGED <<handlers, dial>>

\* The same copy fails: it cannot write what the target sends to a client that
\* is gone, or the handler has closed the connection.
DownFails(c) ==
    /\ conn[c].down
    /\ conn[c].client = "gone" \/ ~conn[c].open
    /\ Set(c, [conn[c] EXCEPT !.down = FALSE])
    /\ UNCHANGED <<handlers, dial>>

\* Mutant: the copy that ends with its client does not signal done.
ClientEofSilent(c) ==
    /\ conn[c].up /\ conn[c].client = "gone"
    /\ UNCHANGED vars

\* io.Copy(target, client) ends with the client.  trackedConn has no CloseWrite:
\* the target is not told.
ClientEof(c) ==
    /\ conn[c].up /\ conn[c].client = "gone"
    /\ Set(c, [conn[c] EXCEPT !.up = FALSE])
    /\ UNCHANGED <<handlers, dial>>

\* The same copy fails: what the client sends cannot be written any more.
UpFails(c) ==
    /\ conn[c].up
    /\ conn[c].target # "up" \/ ~conn[c].open
    /\ Set(c, [conn[c] EXCEPT !.up = FALSE])
    /\ UNCHANGED <<handlers, dial>>

\* pipe waits for both copies, handleHTTP for its one; go-socks5 may return after
\* the first.
RelayEnds(c) ==
    LET k == conn[c]
    IN  /\ At(c, "relay")
        /\ IF k.kind = "socks" THEN ~(k.up /\ k.down) ELSE ~k.up /\ ~k.down
        /\ Set(c, [k EXCEPT !.pc = "close"])
        /\ UNCHANGED <<handlers, dial>>

\* The deferred closes; a copy still running ends with its connections.
HandlerReturns(c) ==
    /\ At(c, "close")
    /\ Set(c, Returned(TrackedClose(conn[c])))
    /\ UNCHANGED <<handlers, dial>>

ClientLeaves(c) ==
    /\ ~At(c, "idle") /\ conn[c].client = "up"
    /\ Set(c, [conn[c] EXCEPT !.client = "gone"])
    /\ UNCHANGED <<handlers, dial>>

TargetEnds(c) ==
    /\ conn[c].pc \in {"reply", "relay"} /\ conn[c].target = "up"
    /\ \E e \in {"eof", "reset"} : Set(c, [conn[c] EXCEPT !.target = e])
    /\ UNCHANGED <<handlers, dial>>

----------------------------------------------------------------------------
Handler(c) ==
    \/ TrackConn(c) \/ ReceiveResult(c) \/ CtxDone(c) \/ LateClose(c)
    \/ Reply(c) \/ RelayEnds(c) \/ HandlerReturns(c)

Dialer(c) ==
    \/ LockAndGet(c) \/ GetFails(c) \/ SetTarget(c)
    \/ \E ok, back \in BOOLEAN : DialReturns(c, ok, back)

Copies(c) ==
    TargetEof(c) \/ TargetReset(c) \/ DownFails(c) \/ ClientEof(c) \/ UpFails(c)

Environment(c) ==
    \/ \E kind \in Serves[c] : Accept(c, kind)
    \/ ClientLeaves(c) \/ TargetEnds(c) \/ GcCloses(c)

Next ==
    \/ \E c \in Conn : Handler(c) \/ Dialer(c) \/ Copies(c) \/ Environment(c)
    \/ WorkerEnters \/ WorkerDestroyed

Spec == Init /\ [][Next]_vars

\* Goroutines that can run do.  A dial may hang, a target and a client may be
\* silent for ever, and nothing outside has to happen.  A client that is there
\* takes what it is sent.  go-socks5 is only taken to return after both copies.
FairSpec ==
    /\ Spec
    /\ \A c \in Conn :
          /\ WF_vars(Reply(c)) /\ WF_vars(HandlerReturns(c))
          /\ WF_vars(RelayEnds(c) /\ ~conn[c].up /\ ~conn[c].down)
          /\ WF_vars(TargetEof(c) \/ TargetReset(c)) /\ WF_vars(ClientEof(c))

----------------------------------------------------------------------------
(***************************************************************************)
(* Properties.                                                             *)
(***************************************************************************)

\* A thread that no dial has locked is back in the namespace of the gateway, on
\* every way out of DialInNs but one: Set(origin) has failed on that very thread.
\* Dials that run on such a thread later lead no other one astray.
ThreadsHome ==
    \A t \in Thread \ astray :
       (\A c \in Conn : dial[c].thread # t) => threadNs[t] = Host

\* A dial runs inside the namespace of the worker that was chosen, also when
\* that worker leaves the pool and is destroyed before the thread enters: then
\* Set fails.  The exception the code leaves is a descriptor number that
\* another open has taken since GetWorkerNsHandle returned it.
DialsInNamespace ==
    \A c \in Conn :
       dial[c].pc = "dial" => \/ threadNs[dial[c].thread] = conn[c].ns
                              \/ conn[c].reused

\* When the handler, the dial and the late closer of a connection have ended, in
\* whichever order, UntrackConn was called as often as TrackConn and the socket
\* is closed.  The exception the code leaves: DialInNs has answered in time, with
\* the socket and the error of Set(origin); dialTarget keeps neither.
NothingOutlives ==
    \A c \in Conn :
       Quiet(c) => conn[c].tracked = 0 /\ (conn[c].open => conn[c].dropped)

\* A connection counts for its worker, once, from TrackConn to the first Close,
\* through EOF on one copy, the deferred Close and a dial that is cut short.
CountedWhileOpen ==
    \A c \in Conn :
       conn[c].tracked = IF \/ conn[c].pc = "dialing"
                            \/ conn[c].pc \in {"reply", "relay", "close"}
                               /\ conn[c].open
                         THEN 1 ELSE 0

\* When the target closes a connection it stops counting for the worker, which can
\* then drain, even if the client keeps its side open and silent.  When it resets
\* the connection this holds for handleHTTP only, whose copy ends the handler: a
\* CONNECT tunnel waits for its client.
TargetEndUncounts ==
    \A c \in Conn :
       /\ At(c, "relay")
       /\ conn[c].target = "eof" \/ (conn[c].target = "reset" /\ conn[c].kind = "http")
       ~> conn[c].tracked = 0

\* When both ends are gone the handler returns.
BothEndsFreeHandler ==
    \A c \in Conn :
       At(c, "relay") /\ conn[c].target # "up" /\ conn[c].client = "gone"
          ~> At(c, "idle")
============================================================================
