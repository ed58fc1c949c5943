------------------------------- MODULE Merkle -------------------------------
(***************************************************************************)
(* The binary Merkle tree shared by the on-ledger SegmentTree / SpoolTree  *)
(* and by the off-ledger canopy engine (brine_tree, an external crate,    *)
(* described in spec section 3).                                           *)
(*                                                                         *)
(* Hashes are abstracted to a collision-free constructor: a node is the    *)
(* pair of its children, a leaf is a tagged record of its pre-image.  Two  *)
(* roots are equal iff the trees hashed are equal, which is the property   *)
(* of SHA-256 the protocol relies on.                                      *)
(***************************************************************************)
EXTENDS Naturals, Sequences

\* Leaf::new(&[index.to_le_bytes(), data]): the hash of an index and payload.
LeafOf(i, d) == [idx |-> i, data |-> d]

\* hashv(left, right): an interior node.
NodeOf(l, r) == <<l, r>>

\* The zero frontier of a tree created with SegmentTree::new(&[seed]): the
\* empty leaf is derived from the seed, every level above hashes two copies
\* of the level below.
RECURSIVE ZeroValue(_, _)
ZeroValue(seed, lvl) ==
    IF lvl = 0 THEN [seed |-> seed]
    ELSE NodeOf(ZeroValue(seed, lvl - 1), ZeroValue(seed, lvl - 1))

\* The node lvl levels above the nodes `nodes` of level `base` (a sequence,
\* node i at position i+1), whose leftmost descendant at level `base` has
\* index lo; positions past the end of `nodes` hold the zero frontier.  With
\* base 0 the nodes are leaf hashes (a segment or sector tree); with base
\* SECTOR_TREE_HEIGHT they are sector roots (the off-ledger canopy tree).
RECURSIVE LayerNode(_, _, _, _, _)
LayerNode(seed, base, lvl, lo, nodes) ==
    IF lo >= Len(nodes) THEN ZeroValue(seed, base + lvl)
    ELSE IF lvl = 0 THEN nodes[lo + 1]
    ELSE NodeOf(LayerNode(seed, base, lvl - 1, lo, nodes),
                LayerNode(seed, base, lvl - 1, lo + 2^(lvl - 1), nodes))

\* The node at level lvl whose leftmost leaf has index lo, over leaf hashes.
SubRoot(seed, lvl, lo, leaves) == LayerNode(seed, 0, lvl, lo, leaves)

\* get_root() of a tree of the given height holding `leaves`.
TreeRoot(seed, height, leaves) == SubRoot(seed, height, 0, leaves)

\* The leaf hashes of a spool's segments: segment i is hashed with its index.
SegmentLeaves(segs) == [i \in 1..Len(segs) |-> LeafOf(i - 1, segs[i])]

=============================================================================
