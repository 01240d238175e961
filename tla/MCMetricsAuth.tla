---------------------------- MODULE MCMetricsAuth ---------------------------
(* MetricsAuth for TLC.                                                     *)
EXTENDS MetricsAuth
=============================================================================
