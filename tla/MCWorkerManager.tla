-------------------------- MODULE MCWorkerManager --------------------------
(***************************************************************************)
(* Instances of WorkerManager for TLC.                                     *)
(***************************************************************************)
EXTENDS WorkerManager

LOCAL INSTANCE TLC

CONSTANTS us, de

\* Server lists: one server, one in each of two countries, two in one.
OneServer == <<us>>
TwoServers == <<de, us>>
TwoUsServers == <<us, us>>

\* Worker objects are interchangeable (safety runs only).
CellSymmetry == Permutations(Cell)
============================================================================
