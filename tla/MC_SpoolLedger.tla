--------------------------- MODULE MC_SpoolLedger ---------------------------
(* Model-checking instance of SpoolLedger: two user spools next to genesis. *)
EXTENDS SpoolLedger, TLC

CONSTANTS s1, s2, g, d1, d2, h1

MCSpools == {s1, s2}
MCData == {d1, d2}
MCSymmetry == Permutations(MCSpools)

Spec == SpoolSpec
=============================================================================
