------------------------------ MODULE MCRingBuff ------------------------------
(* Instances of RingBuff for TLC, and the choice of the capacity checked   *)
(* for every value of a size_t of two, four and eight bits.                *)
EXTENDS RingBuff, RingSize

ASSUME CapacityChoice == \A w \in 1..3 : SizeAdjusted(w)
=============================================================================
