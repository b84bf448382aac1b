------------------------------ MODULE SlotPool ------------------------------
(***************************************************************************)
(* What the worker manager promises about its namespace slots: a slot is   *)
(* reserved (always the lowest free one) before anything is built in it,   *)
(* then either given back or made live, and live slots are retired in      *)
(* groups; after Close nothing becomes live.                               *)
(***************************************************************************)
EXTENDS Naturals

CONSTANT Slot   \* a set of naturals

VARIABLES slot, open
slotVars == <<slot, open>>

SlotTypeOK == slot \in [Slot -> {"free", "held", "live"}] /\ open \in BOOLEAN

SlotInit == slot = [i \in Slot |-> "free"] /\ open = TRUE

In(s) == {i \in Slot : slot[i] = s}
Move(ids, s) == slot' = [i \in Slot |-> IF i \in ids THEN s ELSE slot[i]]

Reserve == /\ \E i \in In("free") : (\A j \in In("free") : i <= j) /\ Move({i}, "held")
           /\ UNCHANGED open
GiveBack == (\E i \in In("held") : Move({i}, "free")) /\ UNCHANGED open
GoLive == open /\ (\E i \in In("held") : Move({i}, "live")) /\ UNCHANGED open
Retire == (\E ids \in SUBSET In("live") : Move(ids, "free")) /\ UNCHANGED open
Close == open' = FALSE /\ UNCHANGED slot

SlotNext == Reserve \/ GiveBack \/ GoLive \/ Retire \/ Close
SlotSpec == SlotInit /\ [][SlotNext]_slotVars
=============================================================================
