------------------------- MODULE OutboundDeliveryMC -------------------------
(* Instances of OutboundDelivery for TLC. *)
EXTENDS OutboundDelivery
CONSTANTS m1
=============================================================================
