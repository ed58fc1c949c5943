------------------------------ MODULE MC_Node ------------------------------
(* Model-checking instance of Node: one user spool next to genesis.        *)
EXTENDS Node, TLC

CONSTANTS s1, g, d1, d2, h1

MCSpools == {s1}
MCData == {d1, d2}
MCDatum == {d1}

\* Writes that carry at least one chunk (no empty Write).
MCNonEmptyWrites == UNION {[1..k -> MCData] : k \in 1..MAX_WRITE_SEGMENTS}

Spec == NodeSpec
=============================================================================
