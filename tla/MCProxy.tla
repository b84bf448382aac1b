------------------------------ MODULE MCProxy ------------------------------
(***************************************************************************)
(* The instance of Proxy for TLC.                                          *)
(***************************************************************************)
EXTENDS Proxy
LOCAL INSTANCE TLC

CONSTANT c1

\* One connection, of any kind.
AnyKind == c1 :> Kinds
============================================================================
