----------------------------- MODULE MCGateway -----------------------------
(***************************************************************************)
(* The instance of Gateway for TLC.  Usernames: no parameters, a session   *)
(* of any country, and a session in us with a TTL that wraps, where a      *)
(* later item in other letters overrides an earlier one.                   *)
(***************************************************************************)
EXTENDS Gateway
LOCAL INSTANCE TLC

CONSTANTS us, de, US, s1, r1, r2

CaseFolding == "CR" :> "cr" @@ US :> us

Item(k, v) == [key |-> k, value |-> v]
Names == {<<>>, <<Item("sessid", s1)>>,
          <<Item("cr", de), Item("CR", US), Item("sessid", s1), Item("sessttl", 2)>>}
WrappedTtls == {-2, 0, 1}
GatewaySymmetry == Permutations(Worker) \cup Permutations(Request)
============================================================================
