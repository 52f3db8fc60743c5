-------------------------- MODULE MCDeliveryQueue --------------------------
(* Two entries; the recovery runs of a start and of an in-process restart   *)
(* that may overlap it, and the drain of one account.                       *)
EXTENDS DeliveryQueue, TLC

CONSTANTS startup, restart, drain, live, none

MCSymmetry == Permutations({startup, restart})
=============================================================================
