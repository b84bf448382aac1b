---------------------------- MODULE Netns_proofs ----------------------------
(***************************************************************************)
(* Proofs about Netns, for any number of namespaces created on an index,   *)
(* of threads, of commands, of crashes and of errors.                      *)
(***************************************************************************)
EXTENDS Netns, TLAPS

USE DEF kernel, call, history

-----------------------------------------------------------------------------
(***************************************************************************)
(* The inductive invariant.                                                *)
(***************************************************************************)

\* The positions at which a call still has to take down what it made: its mount
\* point and handle, a veth, resolv.conf; and those at which it has a thread locked
\* for certain (a rollback has its Create's, the Destroy of a worker has none).
Mounting == {"home", "link", "host", "peer", "kill", "nat", "resolv", "up",
             "stop", "unnat", "unlink", "unmount"}
Linking == {"host", "peer", "kill", "nat", "resolv", "up", "stop", "unnat", "unlink"}
Resolving == {"up", "stop", "unnat", "unlink", "unmount", "unresolv"}
Locking == {"name", "home", "link", "host", "peer", "kill", "nat", "resolv"}

\* One call at a time holds the index, and at most one other, that of a worker
\* checkWorkers has taken out, is still being destroyed.
OwnerInv ==
    /\ \A i \in Ns : pc[i] \in Creating \cup {"up", "unnat"} => owner = i
    /\ owner # None => pc[owner] \notin {"none", "stop"}
    /\ \A i, j \in Ns : /\ i # j
                        /\ pc[i] \in Destroying /\ pc[j] \in Destroying
                        => owner \in {i, j}

\* Only the call that holds the index has a thread.  The thread is where it was
\* locked but for the two visits to the new namespace, unless it could not come
\* back from the second; and where it was locked is the gateway's namespace unless
\* it was astray then.
LockInv ==
    \A i \in Ns :
       /\ on[i] # None => owner = i /\ pc[i] \notin {"clean", "lock", "up"}
       /\ pc[i] \in Locking => on[i] # None
       /\ on[i] # None => origin[i] = Host \/ on[i] \in astray
       /\ pc[i] \in {"name", "link", "host", "peer"} => threadNs[on[i]] = origin[i]
       /\ pc[i] \in {"nat", "resolv"} => threadNs[on[i]] \in {origin[i], i}

\* Unless something has gone wrong with a rule, there is one for the call that
\* holds the index, from the time it is added, and one for the call that is stopped.
NatInv ==
    "nat" \notin debt =>
       nat[Host] <=
          (IF owner # None /\ pc[owner] \in {"resolv", "up", "unnat"} THEN 1 ELSE 0)
             + (IF \E i \in Ns : pc[i] = "stop" THEN 1 ELSE 0)

\* A part that nothing went wrong with belongs to a call that has not removed it.
LeftInv ==
    /\ "mount" \notin debt /\ mount # None => mount # Blank /\ pc[mount] \in Mounting
    /\ "veth" \notin debt /\ (\E v \in veths : v.host = Host) =>
          \E i \in Ns : pc[i] \in Linking
    /\ "resolv" \notin debt /\ resolv => \E i \in Ns : pc[i] \in Resolving
    /\ \A i \in Ns : handle[i] <=> pc[i] \in Mounting

\* What Create has made so far stands while no Destroy has disturbed it.
IntactInv ==
    \A i \in Ns :
       /\ pc[i] \in {"nat", "resolv", "up"} => rules[i] = Commands
       /\ ~disturbed[i] =>
             /\ pc[i] \in {"home", "link", "host", "peer", "kill", "nat", "resolv", "up"} =>
                   mount = i
             /\ pc[i] = "up" => resolv
       /\ ~disturbed[i] /\ origin[i] = Host =>
             /\ pc[i] = "host" => [host |-> Host, peer |-> Host] \in veths
             /\ pc[i] \in {"peer", "kill", "nat", "resolv", "up"} =>
                   [host |-> Host, peer |-> i] \in veths
             /\ pc[i] \in {"resolv", "up"} => nat[Host] > 0 \/ nat[i] > 0

\* A peer that has not been moved is with its host end.  An undisturbed Create finds
\* the mount point gone, and after a refusal a veth stands in the gateway's namespace
\* only if the call that holds the index made it or is about to delete it.
RefusedInv ==
    /\ \A v \in veths : v.peer = Host => v.host = Host
    /\ \A i \in Ns : pc[i] \in {"lock", "name"} /\ ~disturbed[i] => mount = None
    /\ astray = {} =>
          /\ failed <= 1
          /\ failed = 1 /\ (\E v \in veths : v.host = Host) =>
                /\ owner # None
                /\ pc[owner] \in {"host", "peer", "kill", "nat", "resolv", "unnat", "unlink"}

IInv ==
    /\ NetnsTypeOK
    /\ OwnerInv /\ LockInv /\ ThreadHome
    /\ NatInv /\ LeftInv /\ IntactInv /\ RefusedInv

-----------------------------------------------------------------------------
(***************************************************************************)
(* The step of a call, or of the kernel, for each part of the invariant.   *)
(***************************************************************************)

\* Create begins only on an index nobody holds, checkWorkers takes out one worker
\* at a time, and a rollback keeps the index until Destroy has ended.
LEMMA OwnerInvStep ==
    ASSUME IInv, NEW i \in Ns,
           Create(i) \/ Leaves(i) \/ Discarded(i) \/ Destroy(i) \/ KernelReaps(i)
    PROVE  OwnerInv'
<1> USE NetnsAssumption
    DEF IInv, NetnsTypeOK, Place, Creating, Destroying,
     OwnerInv
<1>1. CASE Create(i)
  BY <1>1
  DEF Create, Begins, CleansUp, LocksThread, GetFails, NewNamed, NewNamedFails,
     Restores, RestoreFails, LinkAdd, LinkAddFails, MovesPeer, ConfiguresPeer,
     AppliesRule, PeerConfigured, PeerFails, AddsNat, WritesResolvConf, StepFails,
     CleanupStaleNamespace, CleanupFails, Ends, RollsBack, Refused, Goto, At, Fault,
     SetNs, GoesAstray, PutsBack, Here, Free
<1>2. CASE Leaves(i) \/ Discarded(i) \/ Destroy(i) \/ KernelReaps(i)
  BY <1>2
  DEF Destroy, DeletesNat, LinkDel, Unmounts, RemovesResolvConf, Leaves,
     Discarded, RollsBack,
     KernelReaps, CleanupStaleNamespace, CleanupFails, Ends, Goto, Disturbs, At,
     Fault, Here, Somewhere, Free, Referred, Empty
<1>3. QED
  BY <1>1, <1>2

\* A call locks its thread after the pre-cleanup and has it until it ends; threads
\* that are astray are the only ones found elsewhere.
LEMMA LockInvStep ==
    ASSUME IInv, NEW i \in Ns,
           Create(i) \/ Leaves(i) \/ Discarded(i) \/ Destroy(i) \/ KernelReaps(i)
    PROVE  LockInv'
<1> USE NetnsAssumption
    DEF IInv, NetnsTypeOK, Place, Creating, Destroying,
     OwnerInv, LockInv, ThreadHome, Locking
<1>1. CASE Begins(i) \/ CleansUp(i)
  BY <1>1
  DEF Begins, CleansUp, CleanupStaleNamespace, CleanupFails, Goto, At, Fault
<1>2. CASE LocksThread(i)
  BY <1>2 DEF LocksThread, Free, Goto, At
<1>3. CASE GetFails(i)
  BY <1>3 DEF GetFails, Ends, At
<1>4. CASE NewNamed(i)
  BY <1>4 DEF NewNamed, SetNs, Goto, At
<1>5. CASE NewNamedFails(i)
  BY <1>5
  DEF NewNamedFails, CleanupStaleNamespace, CleanupFails, GoesAstray,
     SetNs, Fault, Ends, Refused, At
<1>6. CASE Restores(i)
  BY <1>6 DEF Restores, SetNs, Goto, At
<1>7. CASE RestoreFails(i)
  BY <1>7
  DEF RestoreFails, CleanupStaleNamespace, CleanupFails, GoesAstray, SetNs,
     Fault, Ends, At
<1>8. CASE LinkAdd(i)
  BY <1>8 DEF LinkAdd, Taken, Here, Goto, At
<1>9. CASE LinkAddFails(i)
  BY <1>9 DEF LinkAddFails, Taken, Here, RollsBack, Refused, Goto, At
<1>10. CASE MovesPeer(i)
  BY <1>10 DEF MovesPeer, Here, Goto, At
<1>11. CASE ConfiguresPeer(i) \/ AppliesRule(i)
  BY <1>11 DEF ConfiguresPeer, AppliesRule, SetNs, Goto, At
<1>12. CASE PeerConfigured(i) \/ PeerFails(i)
  BY <1>12
  DEF PeerConfigured, PeerFails, PutsBack, GoesAstray, SetNs, Fault,
     RollsBack, Goto, At
<1>13. CASE AddsNat(i) \/ WritesResolvConf(i) \/ StepFails(i)
  BY <1>13
  DEF AddsNat, WritesResolvConf, StepFails, RollsBack, Here, Goto, At
<1>14. CASE Leaves(i) \/ Discarded(i) \/ Destroy(i) \/ KernelReaps(i)
  BY <1>14
  DEF Destroy, DeletesNat, LinkDel, Unmounts, RemovesResolvConf, Leaves,
     Discarded, RollsBack,
     KernelReaps, CleanupStaleNamespace, CleanupFails, Ends, Goto, Disturbs, At,
     Fault, Here, Somewhere, Free, Referred, Empty
<1>15. QED
  BY <1>1, <1>2, <1>3, <1>4, <1>5, <1>6, <1>7, <1>8, <1>9,
     <1>10, <1>11, <1>12, <1>13, <1>14 DEF Create

\* The thread leaves for the new namespace in NewNamed and in configurePeer, and
\* every way on from there leads back or is counted as astray.
LEMMA ThreadHomeStep ==
    ASSUME IInv, NEW i \in Ns,
           Create(i) \/ Leaves(i) \/ Discarded(i) \/ Destroy(i) \/ KernelReaps(i)
    PROVE  ThreadHome'
<1> USE NetnsAssumption
    DEF IInv, NetnsTypeOK, Place, Creating, Destroying,
     OwnerInv, LockInv, Locking, ThreadHome
<1>1. CASE Create(i)
  BY <1>1
  DEF Create, Begins, CleansUp, LocksThread, GetFails, NewNamed, NewNamedFails,
     Restores, RestoreFails, LinkAdd, LinkAddFails, MovesPeer, ConfiguresPeer,
     AppliesRule, PeerConfigured, PeerFails, AddsNat, WritesResolvConf, StepFails,
     CleanupStaleNamespace, CleanupFails, Ends, RollsBack, Refused, Goto, At, Fault,
     SetNs, GoesAstray, PutsBack, Here, Free
<1>2. CASE Leaves(i) \/ Discarded(i) \/ Destroy(i) \/ KernelReaps(i)
  BY <1>2
  DEF Destroy, DeletesNat, LinkDel, Unmounts, RemovesResolvConf, Leaves,
     Discarded, RollsBack,
     KernelReaps, CleanupStaleNamespace, CleanupFails, Ends, Goto, Disturbs, At,
     Fault, Here, Somewhere, Free, Referred, Empty
<1>3. QED
  BY <1>1, <1>2

\* Each call adds at most one rule, after which it cannot end but by a Destroy,
\* and each Destroy deletes one, if it finds one, before anything else.
LEMMA NatInvStep ==
    ASSUME IInv, NEW i \in Ns,
           Create(i) \/ Leaves(i) \/ Discarded(i) \/ Destroy(i) \/ KernelReaps(i)
    PROVE  NatInv'
<1> USE NetnsAssumption
    DEF IInv, NetnsTypeOK, Place, Creating, Destroying,
     OwnerInv, LockInv, Locking, NatInv
<1>1. CASE Create(i)
  BY <1>1
  DEF Create, Begins, CleansUp, LocksThread, GetFails, NewNamed, NewNamedFails,
     Restores, RestoreFails, LinkAdd, LinkAddFails, MovesPeer, ConfiguresPeer,
     AppliesRule, PeerConfigured, PeerFails, AddsNat, WritesResolvConf, StepFails,
     CleanupStaleNamespace, CleanupFails, Ends, RollsBack, Refused, Goto, At, Fault,
     SetNs, GoesAstray, PutsBack, Here, Free
<1>2. CASE Leaves(i) \/ Discarded(i) \/ Destroy(i) \/ KernelReaps(i)
  BY <1>2
  DEF Destroy, DeletesNat, LinkDel, Unmounts, RemovesResolvConf, Leaves,
     Discarded, RollsBack,
     KernelReaps, CleanupStaleNamespace, CleanupFails, Ends, Goto, Disturbs, At,
     Fault, Here, Somewhere, Free, Referred, Empty
<1>3. QED
  BY <1>1, <1>2

\* No step passes the point where a part is removed with the part still there
\* and nobody left to remove it, unless it owns up to it: Destroys that overlap
\* remove each other's parts, which only makes fewer.
LEMMA LeftInvStep ==
    ASSUME IInv, NEW i \in Ns,
           Create(i) \/ Leaves(i) \/ Discarded(i) \/ Destroy(i) \/ KernelReaps(i)
    PROVE  LeftInv'
<1> USE NetnsAssumption
    DEF IInv, NetnsTypeOK, Place, Creating, Destroying,
     OwnerInv, LockInv, LeftInv, Mounting, Linking, Resolving
<1>1. CASE Create(i)
  BY <1>1
  DEF Create, Begins, CleansUp, LocksThread, GetFails, NewNamed, NewNamedFails,
     Restores, RestoreFails, LinkAdd, LinkAddFails, MovesPeer, ConfiguresPeer,
     AppliesRule, PeerConfigured, PeerFails, AddsNat, WritesResolvConf, StepFails,
     CleanupStaleNamespace, CleanupFails, Ends, RollsBack, Refused, Goto, At, Fault,
     SetNs, GoesAstray, PutsBack, Here, Free
<1>2. CASE Leaves(i) \/ Discarded(i) \/ Destroy(i) \/ KernelReaps(i)
  BY <1>2
  DEF Destroy, DeletesNat, LinkDel, Unmounts, RemovesResolvConf, Leaves,
     Discarded, RollsBack,
     KernelReaps, CleanupStaleNamespace, CleanupFails, Ends, Goto, Disturbs, At,
     Fault, Here, Somewhere, Free, Referred, Empty
<1>3. QED
  BY <1>1, <1>2

\* Create's own steps build in order, where its thread is; a step of another call's
\* Destroy marks the call as disturbed; the kernel removes nothing of a namespace
\* that has a handle.
LEMMA IntactInvStep ==
    ASSUME IInv, NEW i \in Ns,
           Create(i) \/ Leaves(i) \/ Discarded(i) \/ Destroy(i) \/ KernelReaps(i)
    PROVE  IntactInv'
<1> USE NetnsAssumption
    DEF IInv, NetnsTypeOK, Place, Creating, Destroying,
     OwnerInv, LockInv, Locking, LeftInv, Mounting, IntactInv
<1>1. CASE Create(i)
  BY <1>1
  DEF Create, Begins, CleansUp, LocksThread, GetFails, NewNamed, NewNamedFails,
     Restores, RestoreFails, LinkAdd, LinkAddFails, MovesPeer, ConfiguresPeer,
     AppliesRule, PeerConfigured, PeerFails, AddsNat, WritesResolvConf, StepFails,
     CleanupStaleNamespace, CleanupFails, Ends, RollsBack, Refused, Goto, At, Fault,
     SetNs, GoesAstray, PutsBack, Here, Free
<1>2. CASE Leaves(i) \/ Discarded(i) \/ Destroy(i) \/ KernelReaps(i)
  BY <1>2
  DEF Destroy, DeletesNat, LinkDel, Unmounts, RemovesResolvConf, Leaves,
     Discarded, RollsBack,
     KernelReaps, CleanupStaleNamespace, CleanupFails, Ends, Goto, Disturbs, At,
     Fault, Here, Somewhere, Free, Referred, Empty
<1>3. QED
  BY <1>1, <1>2

\* A creation that was refused because of a veth deletes it before it gives back
\* the index, and until the next one succeeds nobody else makes one.
LEMMA RefusedInvStep ==
    ASSUME IInv, NEW i \in Ns,
           Create(i) \/ Leaves(i) \/ Discarded(i) \/ Destroy(i) \/ KernelReaps(i)
    PROVE  RefusedInv'
<1> USE NetnsAssumption
    DEF IInv, NetnsTypeOK, Place, Creating, Destroying,
     OwnerInv, LockInv, Locking, ThreadHome, RefusedInv
<1>1. CASE Begins(i) \/ CleansUp(i)
  BY <1>1
  DEF Begins, CleansUp, CleanupStaleNamespace, CleanupFails, Goto, At, Fault
<1>2. CASE LocksThread(i)
  BY <1>2 DEF LocksThread, Free, Goto, At
<1>3. CASE GetFails(i)
  BY <1>3 DEF GetFails, Ends, At
<1>4. CASE NewNamed(i)
  BY <1>4 DEF NewNamed, SetNs, Goto, At
<1>5. CASE NewNamedFails(i)
  BY <1>5
  DEF NewNamedFails, CleanupStaleNamespace, CleanupFails, GoesAstray,
     SetNs, Fault, Ends, Refused, At
<1>6. CASE Restores(i)
  BY <1>6 DEF Restores, SetNs, Goto, At
<1>7. CASE RestoreFails(i)
  BY <1>7
  DEF RestoreFails, CleanupStaleNamespace, CleanupFails, GoesAstray, SetNs,
     Fault, Ends, At
<1>8. CASE LinkAdd(i)
  BY <1>8 DEF LinkAdd, Taken, Here, Goto, At
<1>9. CASE LinkAddFails(i)
  BY <1>9 DEF LinkAddFails, Taken, Here, RollsBack, Refused, Goto, At
<1>10. CASE MovesPeer(i)
  BY <1>10 DEF MovesPeer, Here, Goto, At
<1>11. CASE ConfiguresPeer(i) \/ AppliesRule(i)
  BY <1>11 DEF ConfiguresPeer, AppliesRule, SetNs, Goto, At
<1>12. CASE PeerConfigured(i) \/ PeerFails(i)
  BY <1>12
  DEF PeerConfigured, PeerFails, PutsBack, GoesAstray, SetNs, Fault,
     RollsBack, Goto, At
<1>13. CASE AddsNat(i) \/ WritesResolvConf(i) \/ StepFails(i)
  BY <1>13
  DEF AddsNat, WritesResolvConf, StepFails, RollsBack, Here, Goto, At
<1>14. CASE Leaves(i) \/ Discarded(i) \/ Destroy(i) \/ KernelReaps(i)
  BY <1>14
  DEF Destroy, DeletesNat, LinkDel, Unmounts, RemovesResolvConf, Leaves,
     Discarded, RollsBack,
     KernelReaps, CleanupStaleNamespace, CleanupFails, Ends, Goto, Disturbs, At,
     Fault, Here, Somewhere, Free, Referred, Empty
<1>15. QED
  BY <1>1, <1>2, <1>3, <1>4, <1>5, <1>6, <1>7, <1>8, <1>9,
     <1>10, <1>11, <1>12, <1>13, <1>14 DEF Create

\* The types.
LEMMA TypeStep ==
    ASSUME IInv, NEW i \in Ns,
           Create(i) \/ Leaves(i) \/ Discarded(i) \/ Destroy(i) \/ KernelReaps(i)
    PROVE  NetnsTypeOK'
<1> USE NetnsAssumption DEF IInv, NetnsTypeOK, Place
<1>1. (mount \in Ns \cup {Blank, None} /\ resolv \in BOOLEAN /\ owner \in Ns \cup {None})'
  <2>1. CASE Create(i)
    BY <2>1
    DEF Create, Begins, CleansUp, LocksThread, GetFails, NewNamed, NewNamedFails,
       Restores, RestoreFails, LinkAdd, LinkAddFails, MovesPeer, ConfiguresPeer,
       AppliesRule, PeerConfigured, PeerFails, AddsNat, WritesResolvConf, StepFails,
       CleanupStaleNamespace, CleanupFails, Ends, RollsBack, Refused, Goto, At, Fault,
       SetNs, GoesAstray, PutsBack, Here, Free
  <2>2. CASE Leaves(i) \/ Discarded(i) \/ Destroy(i) \/ KernelReaps(i)
    BY <2>2
    DEF Destroy, DeletesNat, LinkDel, Unmounts, RemovesResolvConf, Leaves,
       Discarded, RollsBack,
       KernelReaps, CleanupStaleNamespace, CleanupFails, Ends, Goto, Disturbs, At,
       Fault, Here, Somewhere, Free, Referred, Empty
  <2>3. QED
    BY <2>1, <2>2
<1>2. (veths \subseteq Veth)'
  <2>1. CASE Create(i)
    BY <2>1
    DEF Create, Begins, CleansUp, LocksThread, GetFails, NewNamed, NewNamedFails,
       Restores, RestoreFails, LinkAdd, LinkAddFails, MovesPeer, ConfiguresPeer,
       AppliesRule, PeerConfigured, PeerFails, AddsNat, WritesResolvConf, StepFails,
       CleanupStaleNamespace, CleanupFails, Ends, RollsBack, Refused, Goto, At, Fault,
       SetNs, GoesAstray, PutsBack, Here, Free, Veth, LockInv, Locking
  <2>2. CASE Leaves(i) \/ Discarded(i) \/ Destroy(i) \/ KernelReaps(i)
    BY <2>2
    DEF Destroy, DeletesNat, LinkDel, Unmounts, RemovesResolvConf, Leaves,
       Discarded, RollsBack,
       KernelReaps, CleanupStaleNamespace, CleanupFails, Ends, Goto, Disturbs, At,
       Fault, Here, Somewhere, Free, Referred, Empty, Veth, LockInv, Locking
  <2>3. QED
    BY <2>1, <2>2
<1>3. (nat \in [Place -> 0 .. MaxRules] /\ rules \in [Ns -> 0 .. Commands])'
  <2>1. CASE Create(i)
    BY <2>1
    DEF Create, Begins, CleansUp, LocksThread, GetFails, NewNamed, NewNamedFails,
       Restores, RestoreFails, LinkAdd, LinkAddFails, MovesPeer, ConfiguresPeer,
       AppliesRule, PeerConfigured, PeerFails, AddsNat, WritesResolvConf, StepFails,
       CleanupStaleNamespace, CleanupFails, Ends, RollsBack, Refused, Goto, At, Fault,
       SetNs, GoesAstray, PutsBack, Here, Free, LockInv, Locking
  <2>2. CASE Leaves(i) \/ Discarded(i) \/ Destroy(i) \/ KernelReaps(i)
    BY <2>2
    DEF Destroy, DeletesNat, LinkDel, Unmounts, RemovesResolvConf, Leaves,
       Discarded, RollsBack,
       KernelReaps, CleanupStaleNamespace, CleanupFails, Ends, Goto, Disturbs, At,
       Fault, Here, Somewhere, Free, Referred, Empty, LockInv, Locking
  <2>3. QED
    BY <2>1, <2>2
<1>4. (threadNs \in [Thread -> Place] /\ origin \in [Ns -> Place])'
  <2>1. CASE Create(i)
    BY <2>1
    DEF Create, Begins, CleansUp, LocksThread, GetFails, NewNamed, NewNamedFails,
       Restores, RestoreFails, LinkAdd, LinkAddFails, MovesPeer, ConfiguresPeer,
       AppliesRule, PeerConfigured, PeerFails, AddsNat, WritesResolvConf, StepFails,
       CleanupStaleNamespace, CleanupFails, Ends, RollsBack, Refused, Goto, At, Fault,
       SetNs, GoesAstray, PutsBack, Here, Free, LockInv, Locking
  <2>2. CASE Leaves(i) \/ Discarded(i) \/ Destroy(i) \/ KernelReaps(i)
    BY <2>2
    DEF Destroy, DeletesNat, LinkDel, Unmounts, RemovesResolvConf, Leaves,
       Discarded, RollsBack,
       KernelReaps, CleanupStaleNamespace, CleanupFails, Ends, Goto, Disturbs, At,
       Fault, Here, Somewhere, Free, Referred, Empty, LockInv, Locking
  <2>3. QED
    BY <2>1, <2>2
<1>5. (pc \in [Ns -> Creating \cup Destroying \cup {"none", "up"}])'
  <2>1. CASE Create(i)
    BY <2>1
    DEF Create, Begins, CleansUp, LocksThread, GetFails, NewNamed, NewNamedFails,
       Restores, RestoreFails, LinkAdd, LinkAddFails, MovesPeer, ConfiguresPeer,
       AppliesRule, PeerConfigured, PeerFails, AddsNat, WritesResolvConf, StepFails,
       CleanupStaleNamespace, CleanupFails, Ends, RollsBack, Refused, Goto, At, Fault,
       SetNs, GoesAstray, PutsBack, Here, Free, Creating, Destroying
  <2>2. CASE Leaves(i) \/ Discarded(i) \/ Destroy(i) \/ KernelReaps(i)
    BY <2>2
    DEF Destroy, DeletesNat, LinkDel, Unmounts, RemovesResolvConf, Leaves,
       Discarded, RollsBack,
       KernelReaps, CleanupStaleNamespace, CleanupFails, Ends, Goto, Disturbs, At,
       Fault, Here, Somewhere, Free, Referred, Empty, Creating, Destroying
  <2>3. QED
    BY <2>1, <2>2
<1>6. (on \in [Ns -> Thread \cup {None}] /\ astray \subseteq Thread)'
  <2>1. CASE Create(i)
    BY <2>1
    DEF Create, Begins, CleansUp, LocksThread, GetFails, NewNamed, NewNamedFails,
       Restores, RestoreFails, LinkAdd, LinkAddFails, MovesPeer, ConfiguresPeer,
       AppliesRule, PeerConfigured, PeerFails, AddsNat, WritesResolvConf, StepFails,
       CleanupStaleNamespace, CleanupFails, Ends, RollsBack, Refused, Goto, At, Fault,
       SetNs, GoesAstray, PutsBack, Here, Free, LockInv, Locking
  <2>2. CASE Leaves(i) \/ Discarded(i) \/ Destroy(i) \/ KernelReaps(i)
    BY <2>2
    DEF Destroy, DeletesNat, LinkDel, Unmounts, RemovesResolvConf, Leaves,
       Discarded, RollsBack,
       KernelReaps, CleanupStaleNamespace, CleanupFails, Ends, Goto, Disturbs, At,
       Fault, Here, Somewhere, Free, Referred, Empty, LockInv, Locking
  <2>3. QED
    BY <2>1, <2>2
<1>7. (handle \in [Ns -> BOOLEAN])'
  <2>1. CASE Create(i)
    BY <2>1
    DEF Create, Begins, CleansUp, LocksThread, GetFails, NewNamed, NewNamedFails,
       Restores, RestoreFails, LinkAdd, LinkAddFails, MovesPeer, ConfiguresPeer,
       AppliesRule, PeerConfigured, PeerFails, AddsNat, WritesResolvConf, StepFails,
       CleanupStaleNamespace, CleanupFails, Ends, RollsBack, Refused, Goto, At, Fault,
       SetNs, GoesAstray, PutsBack, Here, Free
  <2>2. CASE Leaves(i) \/ Discarded(i) \/ Destroy(i) \/ KernelReaps(i)
    BY <2>2
    DEF Destroy, DeletesNat, LinkDel, Unmounts, RemovesResolvConf, Leaves,
       Discarded, RollsBack,
       KernelReaps, CleanupStaleNamespace, CleanupFails, Ends, Goto, Disturbs, At,
       Fault, Here, Somewhere, Free, Referred, Empty
  <2>3. QED
    BY <2>1, <2>2
<1>8. (disturbed \in [Ns -> BOOLEAN])'
  <2>1. CASE Create(i)
    BY <2>1
    DEF Create, Begins, CleansUp, LocksThread, GetFails, NewNamed, NewNamedFails,
       Restores, RestoreFails, LinkAdd, LinkAddFails, MovesPeer, ConfiguresPeer,
       AppliesRule, PeerConfigured, PeerFails, AddsNat, WritesResolvConf, StepFails,
       CleanupStaleNamespace, CleanupFails, Ends, RollsBack, Refused, Goto, At, Fault,
       SetNs, GoesAstray, PutsBack, Here, Free
  <2>2. CASE Leaves(i) \/ Discarded(i) \/ Destroy(i) \/ KernelReaps(i)
    BY <2>2
    DEF Destroy, DeletesNat, LinkDel, Unmounts, RemovesResolvConf, Leaves,
       Discarded, RollsBack,
       KernelReaps, CleanupStaleNamespace, CleanupFails, Ends, Goto, Disturbs, At,
       Fault, Here, Somewhere, Free, Referred, Empty
  <2>3. QED
    BY <2>1, <2>2
<1>9. (faults \in 0 .. MaxFaults)'
  <2>1. CASE Create(i)
    BY <2>1
    DEF Create, Begins, CleansUp, LocksThread, GetFails, NewNamed, NewNamedFails,
       Restores, RestoreFails, LinkAdd, LinkAddFails, MovesPeer, ConfiguresPeer,
       AppliesRule, PeerConfigured, PeerFails, AddsNat, WritesResolvConf, StepFails,
       CleanupStaleNamespace, CleanupFails, Ends, RollsBack, Refused, Goto, At, Fault,
       SetNs, GoesAstray, PutsBack, Here, Free
  <2>2. CASE Leaves(i) \/ Discarded(i) \/ Destroy(i) \/ KernelReaps(i)
    BY <2>2
    DEF Destroy, DeletesNat, LinkDel, Unmounts, RemovesResolvConf, Leaves,
       Discarded, RollsBack,
       KernelReaps, CleanupStaleNamespace, CleanupFails, Ends, Goto, Disturbs, At,
       Fault, Here, Somewhere, Free, Referred, Empty
  <2>3. QED
    BY <2>1, <2>2
<1>10. (debt \subseteq Kinds /\ failed \in 0 .. 2)'
  <2>1. CASE Create(i)
    BY <2>1
    DEF Create, Begins, CleansUp, LocksThread, GetFails, NewNamed, NewNamedFails,
       Restores, RestoreFails, LinkAdd, LinkAddFails, MovesPeer, ConfiguresPeer,
       AppliesRule, PeerConfigured, PeerFails, AddsNat, WritesResolvConf, StepFails,
       CleanupStaleNamespace, CleanupFails, Ends, RollsBack, Refused, Goto, At, Fault,
       SetNs, GoesAstray, PutsBack, Here, Free, Kinds
  <2>2. CASE Leaves(i) \/ Discarded(i) \/ Destroy(i) \/ KernelReaps(i)
    BY <2>2
    DEF Destroy, DeletesNat, LinkDel, Unmounts, RemovesResolvConf, Leaves,
       Discarded, RollsBack,
       KernelReaps, CleanupStaleNamespace, CleanupFails, Ends, Goto, Disturbs, At,
       Fault, Here, Somewhere, Free, Referred, Empty, Kinds
  <2>3. QED
    BY <2>1, <2>2
<1> HIDE DEF IInv
<1>11. QED
  BY <1>1, <1>2, <1>3, <1>4, <1>5, <1>6, <1>7, <1>8, <1>9, <1>10

\* The gateway dies: no call is under way, every thread is gone, and anything may
\* be left over.
LEMMA CrashInv ==
    ASSUME IInv, Crash
    PROVE  IInv'
<1> USE NetnsAssumption DEF IInv, NetnsTypeOK, Crash, Fault
<1>1. NetnsTypeOK'
  BY DEF Place
<1>2. OwnerInv' /\ LockInv' /\ ThreadHome'
  BY DEF OwnerInv, LockInv, ThreadHome, Locking, Creating, Destroying
<1>3. NatInv' /\ LeftInv'
  BY DEF NatInv, LeftInv, Kinds, Mounting
<1>4. IntactInv' /\ RefusedInv'
  BY DEF IntactInv, RefusedInv
<1>5. QED
  BY <1>1, <1>2, <1>3, <1>4

-----------------------------------------------------------------------------
\* The invariant holds in every state of every behaviour of an index.
LEMMA NetnsInvariant == Spec => []IInv
<1>1. Init => IInv
  <2> SUFFICES ASSUME Init PROVE IInv
    OBVIOUS
  <2> USE NetnsAssumption DEF Init
  <2>1. NetnsTypeOK
    <3>1. /\ nat \in [Place -> 0 .. MaxRules] /\ rules \in [Ns -> 0 .. Commands]
          /\ faults \in 0 .. MaxFaults /\ failed \in 0 .. 2
      BY DEF Place
    <3>2. /\ threadNs \in [Thread -> Place] /\ origin \in [Ns -> Place]
          /\ pc \in [Ns -> Creating \cup Destroying \cup {"none", "up"}]
          /\ on \in [Ns -> Thread \cup {None}]
      BY DEF Place
    <3>3. handle \in [Ns -> BOOLEAN] /\ disturbed \in [Ns -> BOOLEAN]
      OBVIOUS
    <3>4. QED
      BY <3>1, <3>2, <3>3 DEF NetnsTypeOK
  <2>2. OwnerInv /\ LockInv /\ ThreadHome
    BY DEF OwnerInv, LockInv, ThreadHome, Locking, Creating, Destroying
  <2>3. NatInv
    BY DEF NatInv, Place
  <2>4. LeftInv /\ IntactInv /\ RefusedInv
    BY DEF LeftInv, IntactInv, RefusedInv, Mounting
  <2>5. QED
    BY <2>1, <2>2, <2>3, <2>4 DEF IInv
<1>2. IInv /\ [Next]_vars => IInv'
  <2> SUFFICES ASSUME IInv, [Next]_vars
               PROVE  IInv'
    OBVIOUS
  <2>1. CASE UNCHANGED vars
    <3> USE <2>1 DEF vars, IInv
    <3>1. NetnsTypeOK'
      BY DEF NetnsTypeOK
    <3>2. OwnerInv' /\ LockInv' /\ ThreadHome' /\ NatInv'
      BY DEF OwnerInv, LockInv, ThreadHome, NatInv
    <3>3. LeftInv' /\ IntactInv' /\ RefusedInv'
      BY DEF LeftInv, IntactInv, RefusedInv
    <3>4. QED
      BY <3>1, <3>2, <3>3
  <2>2. CASE Crash
    BY <2>2, CrashInv
  <2>3. ASSUME NEW i \in Ns,
               Create(i) \/ Leaves(i) \/ Discarded(i) \/ Destroy(i) \/ KernelReaps(i)
        PROVE  IInv'
    BY <2>3, TypeStep, OwnerInvStep, LockInvStep, ThreadHomeStep, NatInvStep, LeftInvStep,
       IntactInvStep, RefusedInvStep DEF IInv
  <2>4. QED
    BY <2>1, <2>2, <2>3 DEF Next
<1>3. QED
  BY <1>1, <1>2, PTL DEF Spec

\* Types: a namespace sees each command of the kill-switch once, and a pair of links
\* is in places that exist, whatever fails (netns_linux.go, Create and Destroy).
THEOREM NetnsTypeCorrect == Spec => []NetnsTypeOK
<1>1. IInv => NetnsTypeOK
  BY DEF IInv
<1>2. QED
  BY NetnsInvariant, <1>1, PTL

\* Create and Destroy give back all they made, from every point of failure, also
\* when Destroys overlap with each other and with a Create; what is left is of a
\* kind for which a crash, a failed step of Destroy or a stray thread answers.
THEOREM NothingLeftBehind == Spec => []NothingLeft
<1>1. IInv => NothingLeft
  BY NetnsAssumption DEF IInv, NetnsTypeOK, OwnerInv, NatInv, LeftInv, NothingLeft, At,
     Place, Mounting, Linking, Resolving
<1>2. QED
  BY NetnsInvariant, <1>1, PTL

\* What Create returns has all its parts and the whole kill-switch, until the late
\* Destroy of the index's last worker runs; the parts of the host are where they
\* belong if Create's thread was.
THEOREM CreatedIntact == Spec => []UpIntact
<1>1. IInv => UpIntact
  BY NetnsAssumption DEF IInv, IntactInv, LeftInv, Mounting, UpIntact, At
<1>2. QED
  BY NetnsInvariant, <1>1, PTL

\* Whatever fails in Create and Destroy, no thread is outside the gateway's namespace
\* but that of the Create that is inside, and those counted as astray.
THEOREM ThreadComesHome == Spec => []ThreadHome
<1>1. IInv => ThreadHome
  BY DEF IInv
<1>2. QED
  BY NetnsInvariant, <1>1, PTL

\* Leftovers never refuse two undisturbed creations in a row, however many crashes
\* and failed Destroys there were, while no thread is astray: createMaxAttempts of
\* the manager is enough.
THEOREM LeftoversCostOneTry == Spec => []StaleStateCostsOneTry
<1>1. IInv => StaleStateCostsOneTry
  BY NetnsAssumption DEF IInv, RefusedInv, StaleStateCostsOneTry
<1>2. QED
  BY NetnsInvariant, <1>1, PTL
=============================================================================
