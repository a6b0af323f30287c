--------------------------- MODULE MCSinkDelivery ---------------------------
(* Model-checking instance of SinkDelivery. *)
EXTENDS SinkDelivery
=============================================================================
