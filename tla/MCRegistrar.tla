---------------------------- MODULE MCRegistrar ----------------------------
(* Registrar for TLC.  One name with one address: a PUT replaces the whole  *)
(* managed set, so present and absent tell any two sets apart.              *)
EXTENDS Registrar, TLC

Symmetry == Permutations(Conns)
=============================================================================
