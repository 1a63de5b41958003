--------------------------- MODULE MCEventDelivery ---------------------------
(* A few events, a pass or two, at most one catch-up.                         *)
EXTENDS EventDelivery
=============================================================================
