--------------------------- MODULE MCJobDelivery ---------------------------
(***************************************************************************)
(* Two jobs of one batch, the second of which the poller rejects.          *)
(***************************************************************************)
EXTENDS JobDelivery

CONSTANTS j1, j2
=============================================================================
