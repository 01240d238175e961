--------------------------- MODULE MCSubtractCIDRs --------------------------
(* SubtractCIDRs for TLC: up to two forbidden CIDRs as they may be written, *)
(* and up to three masked ones.                                             *)
EXTENDS SubtractCIDRs

Canonical == {p \in Prefixes : Masked(p) = p}

MCInputs == {{}, {Bad, Base}} \cup {{a, b} : a, b \in Prefixes}
                             \cup {{a, b, c} : a, b, c \in Canonical}
=============================================================================
