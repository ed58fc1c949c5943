------------------------------- MODULE MC_Reel -------------------------------
(* Model-checking instance of the reels: authority a1 owns miners m1 and  *)
(* m2, authority a2 owns m3; one reel of m1 and one of m3, two finalized   *)
(* spools and two packed roots of one leaf each.                           *)
EXTENDS Reel, TLC

CONSTANTS m1, m2, m3, a1, a2, r1, r2, v1, v2, c1, c2

MCMiners == {m1, m2, m3}
MCAuthority == (m1 :> a1) @@ (m2 :> a1) @@ (m3 :> a2)
MCReels == {r1, r2}
MCReelMiner == (r1 :> m1) @@ (r2 :> m3)
MCValues == {v1, v2}
MCPackedLeaves == (v1 :> {c1}) @@ (v2 :> {c2})

==============================================================================
