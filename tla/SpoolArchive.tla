---------------------------- MODULE SpoolArchive ----------------------------
(***************************************************************************)
(* What the spool program promises its users and the off-ledger nodes     *)
(* (spec section 2, Spool/Writer/Archive, and 4.1), with no accounts, rent *)
(* or events: a spool is a log of segments that is opened, grows by       *)
(* appends, has segments replaced, and is frozen under the next archive   *)
(* number; the root it publishes is at every moment the Merkle root of   *)
(* its log, and a frozen spool never changes.                             *)
(***************************************************************************)
EXTENDS Naturals, Sequences, Merkle

CONSTANTS
    Spools,                 \* every spool address, the genesis spool included
    Genesis,
    GenesisData,            \* the one segment of the genesis spool
    Data,
    MAX_SEGMENTS_PER_SPOOL,
    MAX_WRITE_SEGMENTS,
    SEGMENT_TREE_HEIGHT,
    NoRoot                  \* the root published before the first append

VARIABLES
    spools,     \* per address: state, log of segments, published root, number
    stored      \* the archive totals: frozen spools and their segments

archiveVars == <<spools, stored>>

Root(a, segs) == TreeRoot(a, SEGMENT_TREE_HEIGHT, SegmentLeaves(segs))

Unused == [state |-> "None", segs |-> <<>>, root |-> NoRoot, number |-> 0]

Appends == UNION {[1..k -> Data] : k \in 0..MAX_WRITE_SEGMENTS}

Init ==
    /\ spools = [a \in Spools |->
                   IF a = Genesis
                   THEN [state |-> "Finalized", segs |-> <<GenesisData>>,
                         root |-> Root(Genesis, <<GenesisData>>), number |-> 1]
                   ELSE Unused]
    /\ stored = [spools |-> 1, segments |-> 1]

Open(a) ==
    /\ spools[a].state = "None"
    /\ spools' = [spools EXCEPT ![a].state = "Created"]
    /\ UNCHANGED stored

\* An append (possibly of nothing) makes the spool Writing.  (The log is
\* compared first so that a step is matched before any root is computed.)
AppendSegments(a, new) ==
    LET segs == spools[a].segs \o new
    IN /\ spools[a].state \in {"Created", "Writing"}
       /\ Len(segs) <= MAX_SEGMENTS_PER_SPOOL
       /\ spools'[a].segs = segs
       /\ spools' = [spools EXCEPT ![a] = [@ EXCEPT !.state = "Writing",
                                                   !.segs = segs,
                                                   !.root = Root(a, segs)]]
       /\ UNCHANGED stored

Replace(a, i, d) ==
    LET segs == [spools[a].segs EXCEPT ![i] = d]
    IN /\ spools[a].state \in {"Created", "Writing"}
       /\ i \in 1..Len(spools[a].segs)
       /\ spools'[a].segs = segs
       /\ spools' = [spools EXCEPT ![a].segs = segs, ![a].root = Root(a, segs)]
       /\ UNCHANGED stored

\* Freezing takes the next number and adds the spool's segments to the total.
Freeze(a) ==
    /\ spools[a].state = "Writing"
    /\ stored' = [spools |-> stored.spools + 1,
                  segments |-> stored.segments + Len(spools[a].segs)]
    /\ spools' = [spools EXCEPT ![a].state = "Finalized",
                                ![a].number = stored.spools + 1]

\* Every step of the archive changes the spool it acts on; one that changes
\* nothing is a stutter, so Next need not match it.
Next ==
    \E a \in Spools :
      /\ spools'[a] # spools[a]
      /\ \/ Open(a)
         \/ \E new \in Appends : AppendSegments(a, new)
         \/ \E d \in Data : \E i \in 1..Len(spools[a].segs) : Replace(a, i, d)
         \/ Freeze(a)

Spec == Init /\ [][Next]_archiveVars

=============================================================================
