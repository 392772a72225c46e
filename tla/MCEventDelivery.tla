-------------------------- MODULE MCEventDelivery --------------------------
(* EventDelivery for TLC: three events of a room, one without a channel.   *)
EXTENDS EventDelivery

CONSTANTS e1, e2, e3
=============================================================================
