------------------------- MODULE MCDeliveryChannels -------------------------
(* Small instances of the channels for TLC. *)
EXTENDS DeliveryChannels
=============================================================================
