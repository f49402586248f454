-------------------------- MODULE MCExternalDelivery --------------------------
(***************************************************************************)
(* Small instances of ExternalDelivery for TLC.  The configurations choose *)
(* the fleet: relays of an outbox-mode process, recoverers and dispatchers *)
(* of a legacy one, or a mixed fleet during a rolling deploy.              *)
(***************************************************************************)
EXTENDS ExternalDelivery, TLC

=============================================================================
