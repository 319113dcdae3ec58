---------------------------- MODULE MCX2Handover ----------------------------
(* Instances of X2Handover.                                                *)
EXTENDS X2Handover

(* Simulations with a good radio, and with everything that can go wrong.   *)
GoodAndBad == {Refusals, AllFaults}

(* A UE that does not reach the target in time.                            *)
NoContact == {{"noContact"}}
=============================================================================
