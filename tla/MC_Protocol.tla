----------------------------- MODULE MC_Protocol -----------------------------
(* Model-checking instance of the protocol kernel: two miners, the genesis *)
(* spool and one user spool of at most one segment.                        *)
EXTENDS Protocol, TLC

CONSTANTS m1, m2, s1, g, d1, h1

MCMiners == {m1, m2}
MCSymmetry == Permutations(MCMiners)

\* get_base_rate's table shortened to two years.
MCBaseRates == <<2, 1>>

==============================================================================
