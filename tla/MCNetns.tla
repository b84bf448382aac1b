------------------------------ MODULE MCNetns ------------------------------
(***************************************************************************)
(* The instance of Netns for TLC.                                          *)
(***************************************************************************)
EXTENDS Netns
LOCAL INSTANCE TLC

\* Namespaces are interchangeable, and so are threads.
Symmetry == Permutations(Ns) \cup Permutations(Thread)
============================================================================
