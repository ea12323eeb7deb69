------------------------------ MODULE MCAlerts ------------------------------
(***************************************************************************)
(* The alerts alone.                                                       *)
(***************************************************************************)
EXTENDS Alerts

Spec == AlertsSpec
=============================================================================
