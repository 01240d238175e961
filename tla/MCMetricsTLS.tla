---------------------------- MODULE MCMetricsTLS ----------------------------
(* MetricsTLS for TLC: with Secret, cache, ConfigMap and worker each        *)
(* holding a certificate of its own, four minted ones are enough.           *)
EXTENDS MetricsTLS

CONSTANTS c1, c2, c3, c4

MCCerts == {Given, c1, c2, c3, c4}
=============================================================================
