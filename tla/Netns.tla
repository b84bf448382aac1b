------------------------------- MODULE Netns -------------------------------
(***************************************************************************)
(* Network namespaces (internal/netns): Create and Destroy of the          *)
(* namespaces of one index, whose name, veth, subnet and directory they    *)
(* share, against the kernel state that outlives them.                     *)
(*                                                                         *)
(* Every step of Create may fail and ends in the rollback the code has for *)
(* it.  Every step of Destroy may fail, and the code goes on.  At most one *)
(* Create runs on an index; the Destroy of a worker that checkWorkers has  *)
(* taken out may run during and after the next Create (WorkerManager).     *)
(* The gateway may die between any two steps; what is in the kernel and on *)
(* disk stays.                                                             *)
(*                                                                         *)
(* A call works in the namespace its OS thread is in.  Create locks one    *)
(* for itself; the Destroy of a worker runs on any thread that is free.    *)
(***************************************************************************)
EXTENDS Naturals

CONSTANTS
    Ns,           \* namespaces, each that of one call of Create
    Thread,       \* OS threads
    Host,         \* the namespace the gateway runs in
    None,
    Blank,        \* a mount point with nothing mounted on it
    Commands,     \* the commands of applyKillSwitch
    MaxFaults,    \* bound on crashes and on the errors that leave something behind
    MaxRules      \* bound on the NAT rules of a namespace

ASSUME NetnsAssumption ==
    /\ Host \notin Ns /\ None \notin Ns \cup Thread \cup {Host, Blank}
    /\ Blank \notin Ns
    /\ Commands \in Nat /\ MaxFaults \in Nat /\ MaxRules \in Nat

Place == Ns \cup {Host}
Veth == [host : Place, peer : Place]
Kinds == {"mount", "veth", "nat", "resolv"}

VARIABLES
    mount,     \* what is at /run/netns/<name>: a namespace, Blank or None
    veths,     \* pairs veth-<index>, vpeer-<index>, by the namespaces they are in
    nat,       \* MASQUERADE rules for the subnet, in each namespace
    resolv,    \* /etc/netns/<name> exists
    rules,     \* commands of the kill-switch that a namespace has seen
    threadNs,  \* the namespace each thread is in
    owner,     \* the namespace whose worker holds the index, or None
    pc,        \* the next step of Create or Destroy
    on,        \* the thread the call has locked, or None
    origin,    \* the namespace its thread was in then
    handle,    \* Namespace.Handle is open
    faults,    \* and errors that left something behind
    debt,      \* history: what a crash, an error or a Destroy elsewhere may have left
    astray,    \* history: threads that a call has left in another namespace
    disturbed, \* history: during this Create, or since, another Destroy has run or
               \* Create's own clean-up has failed
    failed     \* history: creations in a row refused for what exists already

kernel == <<mount, veths, nat, resolv, rules>>
call == <<owner, pc, on, origin, handle>>
history == <<debt, astray, disturbed, failed>>
vars == <<kernel, threadNs, call, faults, history>>

Creating == {"clean", "lock", "name", "home", "link", "host", "peer", "kill", "nat", "resolv"}
Destroying == {"stop", "unnat", "unlink", "unmount", "unresolv"}

NetnsTypeOK ==
    /\ mount \in Ns \cup {Blank, None}
    /\ veths \subseteq Veth
    /\ nat \in [Place -> 0 .. MaxRules]
    /\ resolv \in BOOLEAN
    /\ rules \in [Ns -> 0 .. Commands]
    /\ threadNs \in [Thread -> Place]
    /\ owner \in Ns \cup {None}
    /\ pc \in [Ns -> Creating \cup Destroying \cup {"none", "up"}]
    /\ on \in [Ns -> Thread \cup {None}]
    /\ origin \in [Ns -> Place]
    /\ handle \in [Ns -> BOOLEAN]
    /\ faults \in 0 .. MaxFaults
    /\ debt \subseteq Kinds
    /\ astray \subseteq Thread
    /\ disturbed \in [Ns -> BOOLEAN]
    /\ failed \in 0 .. 2

Init ==
    /\ mount = None /\ veths = {} /\ nat = [n \in Place |-> 0] /\ resolv = FALSE
    /\ rules = [i \in Ns |-> 0]
    /\ threadNs = [t \in Thread |-> Host]
    /\ owner = None
    /\ pc = [i \in Ns |-> "none"]
    /\ on = [i \in Ns |-> None]
    /\ origin = [i \in Ns |-> Host]
    /\ handle = [i \in Ns |-> FALSE]
    /\ faults = 0
    /\ debt = {} /\ astray = {}
    /\ disturbed = [i \in Ns |-> FALSE]
    /\ failed = 0

----------------------------------------------------------------------------
At(i, p) == pc[i] = p
Goto(i, p) == pc' = [pc EXCEPT ![i] = p] /\ UNCHANGED owner

Free == {t \in Thread : \A i \in Ns : on[i] # t}

\* The call is over: the thread is unlocked, wherever it is, and the manager gives
\* back the index if it still holds it.
Ends(i) ==
    /\ pc' = [pc EXCEPT ![i] = "none"]
    /\ on' = [on EXCEPT ![i] = None]
    /\ origin' = [origin EXCEPT ![i] = Host]
    /\ owner' = IF owner = i THEN None ELSE owner

\* Create returns an error after Destroy, whose first step is "unnat".
RollsBack(i) == Goto(i, "unnat")

\* A creation that nothing has disturbed fails because something exists.
Refused(i) == failed' = IF disturbed[i] \/ failed = 2 THEN failed ELSE failed + 1

\* A crash, or an error that leaves something behind.
Fault == faults < MaxFaults /\ faults' = faults + 1

\* Set(n) on the thread of the call.
SetNs(i, n) == threadNs' = [threadNs EXCEPT ![on[i]] = n]

\* The thread of the call stays in the new namespace.
GoesAstray(i) ==
    /\ Fault
    /\ SetNs(i, i)
    /\ astray' = astray \cup {on[i]}

\* Mutant: the mount point is left where it is.
CleanupStaleNamespaceNot == UNCHANGED <<mount, debt>>

\* umount and remove.  It does not matter whose it is.
CleanupStaleNamespace == mount' = None /\ debt' = debt \ {"mount"}

\* Both may fail, or the second; the errors are ignored.
CleanupFails ==
    /\ mount' \in {mount, Blank}
    /\ debt' = debt \cup {"mount"}

----------------------------------------------------------------------------
(***************************************************************************)
(* Create.                                                                 *)
(***************************************************************************)

Referred(i) ==
    \/ mount = i \/ handle[i]
    \/ \E t \in Thread : threadNs[t] = i
    \/ \E j \in Ns : on[j] # None /\ origin[j] = i

Empty(i) ==
    nat[i] = 0 /\ rules[i] = 0 /\ \A v \in veths : i \notin {v.host, v.peer}

\* The manager calls Create on the index when no worker owns it.
Begins(i) ==
    /\ At(i, "none") /\ ~Referred(i) /\ Empty(i)
    /\ owner = None /\ owner' = i
    /\ pc' = [pc EXCEPT ![i] = "clean"]
    /\ disturbed' = [disturbed EXCEPT ![i] = FALSE]
    /\ UNCHANGED <<kernel, threadNs, on, origin, handle, faults, debt, astray, failed>>

CleansUp(i) ==
    /\ At(i, "clean")
    /\ \/ CleanupStaleNamespace /\ UNCHANGED <<faults, disturbed>>
       \/ /\ mount # None /\ Fault /\ CleanupFails
          /\ disturbed' = [disturbed EXCEPT ![i] = TRUE]
    /\ Goto(i, "lock")
    /\ UNCHANGED <<veths, nat, resolv, rules, threadNs, on, origin, handle, astray, failed>>

\* LockOSThread and Get, on whatever thread Go runs the goroutine.
LocksThread(i) ==
    /\ At(i, "lock")
    /\ \E t \in Free :
          /\ on' = [on EXCEPT ![i] = t]
          /\ origin' = [origin EXCEPT ![i] = threadNs[t]]
    /\ Goto(i, "name")
    /\ UNCHANGED <<kernel, threadNs, handle, faults, history>>

GetFails(i) ==
    /\ At(i, "lock")
    /\ Ends(i)
    /\ UNCHANGED <<kernel, threadNs, handle, faults, history>>

\* NewNamed enters a new namespace, then creates the mount point.
NewNamed(i) ==
    /\ At(i, "name") /\ mount = None
    /\ mount' = i
    /\ handle' = [handle EXCEPT ![i] = TRUE]
    /\ SetNs(i, i)
    /\ Goto(i, "home")
    /\ UNCHANGED <<veths, nat, resolv, rules, on, origin, faults, history>>

\* It fails before or after it has entered the new namespace; the thread is not
\* put back.  What it has made of the mount point is cleaned up.
NewNamedFails(i) ==
    /\ At(i, "name")
    /\ \/ CleanupStaleNamespace /\ UNCHANGED <<threadNs, faults, astray>>
       \/ CleanupStaleNamespace /\ GoesAstray(i)
       \/ CleanupFails /\ GoesAstray(i)
    /\ Ends(i)
    /\ IF mount # None THEN Refused(i) ELSE UNCHANGED failed
    /\ UNCHANGED <<veths, nat, resolv, rules, handle, disturbed>>

\* Mutant: the thread stays in the new namespace.
RestoresNot(i) ==
    /\ At(i, "home")
    /\ Goto(i, "link")
    /\ UNCHANGED <<kernel, threadNs, on, origin, handle, faults, history>>

\* Set(origin).
Restores(i) ==
    /\ At(i, "home")
    /\ SetNs(i, origin[i])
    /\ Goto(i, "link")
    /\ UNCHANGED <<kernel, on, origin, handle, faults, history>>

\* It fails: DeleteNamed, Handle.Close and cleanupStaleNamespace, not the thread.
RestoreFails(i) ==
    /\ At(i, "home")
    /\ GoesAstray(i)
    /\ CleanupStaleNamespace \/ CleanupFails
    /\ handle' = [handle EXCEPT ![i] = FALSE]
    /\ Ends(i)
    /\ UNCHANGED <<veths, nat, resolv, rules, disturbed, failed>>

\* Where the next step of the call runs: on its own thread, or on any free one.
Here(i) == threadNs[on[i]]
Somewhere(i) == IF on[i] # None THEN {Here(i)} ELSE {threadNs[t] : t \in Free}

\* createVethPair: LinkAdd makes both ends where the thread is, if neither name is
\* taken there.
Taken(n) == \E v \in veths : n \in {v.host, v.peer}

LinkAdd(i) ==
    /\ At(i, "link") /\ ~Taken(Here(i))
    /\ veths' = veths \cup {[host |-> Here(i), peer |-> Here(i)]}
    /\ Goto(i, "host")
    /\ UNCHANGED <<mount, nat, resolv, rules, threadNs, on, origin, handle, faults, history>>

LinkAddFails(i) ==
    /\ At(i, "link")
    /\ RollsBack(i)
    /\ IF Taken(Here(i)) THEN Refused(i) ELSE UNCHANGED failed
    /\ UNCHANGED <<kernel, threadNs, on, origin, handle, faults, debt, astray, disturbed>>

\* The host end is set up and the peer moved, both looked up by name.
MovesPeer(i) ==
    LET v == [host |-> Here(i), peer |-> Here(i)]
    IN  /\ At(i, "host") /\ v \in veths
        /\ veths' = (veths \ {v}) \cup {[v EXCEPT !.peer = i]}
        /\ Goto(i, "peer")
        /\ UNCHANGED <<mount, nat, resolv, rules, threadNs, on, origin, handle, faults,
                       history>>

\* configurePeer: the thread enters the namespace and sets up its end.
ConfiguresPeer(i) ==
    /\ At(i, "peer") /\ \E v \in veths : v.peer = i
    /\ SetNs(i, i)
    /\ Goto(i, "kill")
    /\ UNCHANGED <<kernel, on, origin, handle, faults, history>>

\* Mutant: one command too many.
AppliesRuleTooMany(i) ==
    /\ At(i, "kill") /\ rules[i] <= Commands
    /\ rules' = [rules EXCEPT ![i] = @ + 1]
    /\ UNCHANGED <<mount, veths, nat, resolv, threadNs, call, faults, history>>

\* The loop of applyKillSwitch.
AppliesRule(i) ==
    /\ At(i, "kill") /\ rules[i] < Commands
    /\ rules' = [rules EXCEPT ![i] = @ + 1]
    /\ UNCHANGED <<mount, veths, nat, resolv, threadNs, call, faults, history>>

\* The deferred Set(origin), whose error is ignored.
PutsBack(i) ==
    \/ SetNs(i, origin[i]) /\ UNCHANGED <<faults, astray>>
    \/ GoesAstray(i)

PeerConfigured(i) ==
    /\ At(i, "kill") /\ rules[i] = Commands
    /\ PutsBack(i)
    /\ Goto(i, "nat")
    /\ UNCHANGED <<kernel, on, origin, handle, debt, disturbed, failed>>

\* Mutant: the deferred Set is missing on the way out of an error.
PeerFailsInside(i) ==
    /\ At(i, "kill")
    /\ RollsBack(i)
    /\ UNCHANGED <<kernel, threadNs, on, origin, handle, faults, history>>

\* A step inside the namespace fails, any of the commands included.
PeerFails(i) ==
    /\ At(i, "kill")
    /\ PutsBack(i)
    /\ RollsBack(i)
    /\ UNCHANGED <<kernel, on, origin, handle, debt, disturbed, failed>>

AddsNat(i) ==
    /\ At(i, "nat") /\ nat[Here(i)] < MaxRules
    /\ nat' = [nat EXCEPT ![Here(i)] = @ + 1]
    /\ Goto(i, "resolv")
    /\ UNCHANGED <<mount, veths, resolv, rules, threadNs, on, origin, handle, faults, history>>

\* The last step; Create returns and its thread is unlocked.
WritesResolvConf(i) ==
    /\ At(i, "resolv")
    /\ resolv' = TRUE
    /\ on' = [on EXCEPT ![i] = None]
    /\ Goto(i, "up")
    /\ failed' = 0
    /\ UNCHANGED <<mount, veths, nat, rules, threadNs, origin, handle, faults, debt, astray,
                   disturbed>>

\* Any other step fails.
StepFails(i) ==
    /\ pc[i] \in {"host", "peer", "nat", "resolv"}
    /\ RollsBack(i)
    /\ resolv' \in {resolv, resolv \/ pc[i] = "resolv"}
    /\ UNCHANGED <<mount, veths, nat, rules, threadNs, on, origin, handle, faults, history>>

----------------------------------------------------------------------------
(***************************************************************************)
(* Destroy, by name, where its thread happens to be; errors are ignored.   *)
(***************************************************************************)

\* checkWorkers takes the worker out and releases its index; it stops one after
\* the other.
Leaves(i) ==
    /\ At(i, "up") /\ \A j \in Ns : pc[j] \notin Destroying
    /\ pc' = [pc EXCEPT ![i] = "stop"]
    /\ owner' = None
    /\ UNCHANGED <<kernel, threadNs, on, origin, handle, faults, history>>

\* A worker whose creation fails later, or that is discarded, is destroyed by the
\* goroutine that holds its index.
Discarded(i) ==
    /\ At(i, "up")
    /\ RollsBack(i)
    /\ UNCHANGED <<kernel, threadNs, on, origin, handle, faults, history>>

Disturbs(i) ==
    disturbed' = [j \in Ns |-> j # i /\ pc[j] \in Creating \cup {"up"}]

\* iptables -D deletes one rule, if there is one.
DeletesNat(i) ==
    /\ pc[i] \in {"stop", "unnat"}
    /\ \/ \E n \in Somewhere(i) :
             /\ nat' = [nat EXCEPT ![n] = IF @ > 0 THEN @ - 1 ELSE 0]
             /\ debt' = IF n = Host THEN debt ELSE debt \cup {"nat"}
             /\ UNCHANGED faults
       \/ Fault /\ debt' = debt \cup {"nat"} /\ UNCHANGED nat
    /\ Goto(i, "unlink")
    /\ Disturbs(i)
    /\ UNCHANGED <<mount, veths, resolv, rules, threadNs, on, origin, handle, astray, failed>>

\* Mutant: the veth is left to the kernel.
LinkDelNot(i) ==
    /\ At(i, "unlink")
    /\ Goto(i, "unmount")
    /\ Disturbs(i)
    /\ UNCHANGED <<kernel, threadNs, on, origin, handle, faults, debt, astray, failed>>

LinkDel(i) ==
    /\ At(i, "unlink")
    /\ \/ \E n \in Somewhere(i) :
             /\ veths' = {v \in veths : v.host # n}
             /\ debt' = IF n = Host THEN debt \ {"veth"} ELSE debt \cup {"veth"}
             /\ UNCHANGED <<faults, failed>>
       \/ Fault /\ debt' = debt \cup {"veth"} /\ failed' = 0 /\ UNCHANGED veths
    /\ Goto(i, "unmount")
    /\ Disturbs(i)
    /\ UNCHANGED <<mount, nat, resolv, rules, threadNs, on, origin, handle, astray>>

\* DeleteNamed, Handle.Close, cleanupStaleNamespace.
Unmounts(i) ==
    /\ At(i, "unmount")
    /\ \/ CleanupStaleNamespace /\ UNCHANGED faults
       \/ mount # None /\ Fault /\ CleanupFails
    /\ handle' = [handle EXCEPT ![i] = FALSE]
    /\ Goto(i, "unresolv")
    /\ Disturbs(i)
    /\ UNCHANGED <<veths, nat, resolv, rules, threadNs, on, origin, astray, failed>>

RemovesResolvConf(i) ==
    /\ At(i, "unresolv")
    /\ \/ resolv' = FALSE /\ debt' = debt \ {"resolv"} /\ UNCHANGED faults
       \/ resolv /\ Fault /\ debt' = debt \cup {"resolv"} /\ UNCHANGED resolv
    /\ Ends(i)
    /\ Disturbs(i)
    /\ UNCHANGED <<mount, veths, nat, rules, threadNs, handle, astray, failed>>

----------------------------------------------------------------------------
(***************************************************************************)
(* The kernel, and the gateway's death.                                    *)
(***************************************************************************)

\* A namespace nothing refers to is removed some time, with all that is in it.
KernelReaps(i) ==
    /\ ~Referred(i) /\ ~Empty(i)
    /\ veths' = {v \in veths : i \notin {v.host, v.peer}}
    /\ nat' = [nat EXCEPT ![i] = 0]
    /\ rules' = [rules EXCEPT ![i] = 0]
    /\ UNCHANGED <<mount, resolv, threadNs, call, faults, history>>

Crash ==
    /\ Fault
    /\ debt' = Kinds /\ astray' = {} /\ failed' = 0
    /\ pc' = [i \in Ns |-> "none"] /\ owner' = None
    /\ on' = [i \in Ns |-> None]
    /\ origin' = [i \in Ns |-> Host]
    /\ handle' = [i \in Ns |-> FALSE]
    /\ threadNs' = [t \in Thread |-> Host]
    /\ disturbed' = [i \in Ns |-> FALSE]
    /\ UNCHANGED kernel

Create(i) ==
    \/ Begins(i) \/ CleansUp(i) \/ LocksThread(i) \/ GetFails(i)
    \/ NewNamed(i) \/ NewNamedFails(i) \/ Restores(i) \/ RestoreFails(i)
    \/ LinkAdd(i) \/ LinkAddFails(i) \/ MovesPeer(i)
    \/ ConfiguresPeer(i) \/ AppliesRule(i) \/ PeerConfigured(i) \/ PeerFails(i)
    \/ AddsNat(i) \/ WritesResolvConf(i) \/ StepFails(i)

Destroy(i) ==
    \/ DeletesNat(i) \/ LinkDel(i) \/ Unmounts(i) \/ RemovesResolvConf(i)

Next ==
    \/ \E i \in Ns : Create(i) \/ Leaves(i) \/ Discarded(i) \/ Destroy(i) \/ KernelReaps(i)
    \/ Crash

Spec == Init /\ [][Next]_vars

----------------------------------------------------------------------------
(***************************************************************************)
(* Properties.                                                             *)
(***************************************************************************)

\* When no Create or Destroy is under way nothing of the index is left in the
\* gateway's namespace and on disk, whichever step of Create failed and also when
\* two Destroys and a Create overlap, but for what one of these has left: a
\* crash; the failure of the very step of Destroy that removes it; that step on a
\* thread that is astray.  A later Destroy makes up for it, except for NAT rules,
\* of which it deletes one.
NothingLeft ==
    (\A i \in Ns : At(i, "none")) =>
       /\ "mount" \notin debt => mount = None
       /\ "veth" \notin debt => \A v \in veths : v.host # Host
       /\ "nat" \notin debt => nat[Host] = 0
       /\ "resolv" \notin debt => ~resolv
       /\ \A i \in Ns : ~handle[i]

\* A namespace that Create has returned has all its parts and the whole
\* kill-switch, unless the Destroy of the index's last worker has run since its
\* Create began.  If the thread was where it should be when Create began, the
\* host end of the veth is in the gateway's namespace, and so is the NAT rule,
\* unless the thread could not come back from configurePeer, which puts the rule
\* into the new namespace.
UpIntact ==
    \A i \in Ns :
       At(i, "up") /\ ~disturbed[i] =>
          /\ mount = i /\ handle[i] /\ resolv /\ rules[i] = Commands
          /\ origin[i] = Host => /\ [host |-> Host, peer |-> i] \in veths
                                 /\ nat[Host] > 0 \/ nat[i] > 0

\* Whatever fails, a thread is outside the gateway's namespace only while a Create
\* has it locked, between NewNamed and the Set after it or inside configurePeer.
\* The exceptions the code leaves: NewNamed fails inside, or a Set(origin) fails,
\* on that very thread; no other thread follows it.
ThreadHome ==
    \A t \in Thread \ astray :
       threadNs[t] # Host => \E i \in Ns : on[i] = t /\ pc[i] \in {"home", "kill"}

\* While no thread is astray, what an earlier Create, a dead gateway, a failed
\* Destroy or a worker still to be destroyed has left costs at most one creation:
\* its rollback, or the clean-up of the next one, removes it, and only if that
\* fails as well may it cost another.  The manager tries three times.
StaleStateCostsOneTry == astray = {} => failed <= 1
============================================================================
