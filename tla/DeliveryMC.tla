----------------------------- MODULE DeliveryMC -----------------------------
(* Model-checking instances of Delivery; the .cfg files choose the faults.   *)
EXTENDS Delivery
=============================================================================
