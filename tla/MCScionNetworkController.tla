----------------------- MODULE MCScionNetworkController -----------------------
(* ScionNetworkController for TLC.  One node that comes and goes, with one   *)
(* address: sets of SIGs are only replaced and compared.                     *)
EXTENDS ScionNetworkController
=============================================================================
