-------------------------------- MODULE Reel --------------------------------
(***************************************************************************)
(* Reels (program/src/reel/*.rs): a miner's Merkle index of packed spool   *)
(* roots, and the commitment a miner takes from it.                        *)
(*                                                                         *)
(* Pack only reads a spool account, and a finalized spool never changes   *)
(* (SpoolLedger!ImplementsArchive), so the spool ledger is represented by *)
(* the set of numbers that finalized spools carry; letting Pack use any of *)
(* them from the start over-approximates the composed system.  Miner     *)
(* accounts are assumed registered; one authority may own several miners. *)
(***************************************************************************)
EXTENDS Naturals, Sequences, SequencesExt, Merkle

CONSTANTS
    Miners,             \* registered miner accounts
    Authority,          \* Authority[m]: miner.authority, the key that signs for m
    Reels,              \* reel addresses, reel_pda(miner, number)
    ReelMiner,          \* ReelMiner[r]: the miner r's address is derived from
    SpoolNumbers,       \* numbers of finalized spools (all > 0)
    Values,             \* packed spool roots a miner may submit
    PackedLeaves,       \* PackedLeaves[v]: the leaves of the packed tree with root v
    MAX_SPOOLS_PER_REEL,
    SPOOL_TREE_HEIGHT

ASSUME ReelMiner \in [Reels -> Miners]
ASSUME \A n \in SpoolNumbers : n > 0

NoValue == "zero32"     \* [0; 32]: reel.contains and miner.commitment unset

VARIABLES
    reel,           \* reel account per address
    commitment,     \* miner.commitment per miner
    packedBy        \* ghost: the values each authority has packed into a reel

reelVars == <<reel, commitment, packedBy>>

NoReel == [exists |-> FALSE, leaves |-> <<>>, contains |-> NoValue, total_spools |-> 0]

\* reel.authority: process_reel_create requires the signer to be the
\* authority of the miner the reel's address is derived from, and stores it.
ReelAuthority(r) == Authority[ReelMiner[r]]

Authorities == {Authority[m] : m \in Miners}

\* SpoolTree::try_add_leaf fails once the tree holds 2^SPOOL_TREE_HEIGHT leaves.
TreeFull(r) == Len(reel[r].leaves) >= 2^SPOOL_TREE_HEIGHT

ReelInit ==
    /\ reel = [r \in Reels |-> NoReel]
    /\ commitment = [m \in Miners |-> NoValue]
    /\ packedBy = [k \in Authorities |-> {}]

\* process_reel_create: the address must be empty; a fresh tree, nothing unpacked.
ReelCreate(r) ==
    /\ ~reel[r].exists
    /\ reel' = [reel EXCEPT ![r] = [NoReel EXCEPT !.exists = TRUE]]
    /\ UNCHANGED <<commitment, packedBy>>

\* process_reel_destroy: close the account (its data is zeroed).
ReelDestroy(r) ==
    /\ reel[r].exists
    /\ reel' = [reel EXCEPT ![r] = NoReel]
    /\ UNCHANGED <<commitment, packedBy>>

\* Mutant of ReelPack: total_spools is not incremented.
ReelPackNoCount(r, n, v) ==
    /\ reel[r].exists
    /\ n \in SpoolNumbers
    /\ reel[r].total_spools <= MAX_SPOOLS_PER_REEL
    /\ ~TreeFull(r)
    /\ reel' = [reel EXCEPT ![r].leaves = Append(@, LeafOf(n, v))]
    /\ packedBy' = [packedBy EXCEPT ![ReelAuthority(r)] = @ \cup {v}]
    /\ UNCHANGED commitment

\* process_reel_pack: the spool must be finalized with a number; the value
\* (the miner's packed root) is not checked against the spool.
ReelPack(r, n, v) ==
    /\ reel[r].exists
    /\ n \in SpoolNumbers
    /\ reel[r].total_spools <= MAX_SPOOLS_PER_REEL
    /\ ~TreeFull(r)
    /\ reel' = [reel EXCEPT ![r].leaves = Append(@, LeafOf(n, v)),
                            ![r].total_spools = @ + 1]
    /\ packedBy' = [packedBy EXCEPT ![ReelAuthority(r)] = @ \cup {v}]
    /\ UNCHANGED commitment

\* Mutant of ReelUnpack: the inclusion proof is not checked.
ReelUnpackUnchecked(r, n, v) ==
    /\ reel[r].exists
    /\ reel' = [reel EXCEPT ![r].contains = v]
    /\ UNCHANGED <<commitment, packedBy>>

\* process_reel_unpack: contains_leaf(proof, H(index || value)) must hold.
ReelUnpack(r, n, v) ==
    /\ reel[r].exists
    /\ LeafOf(n, v) \in ToSet(reel[r].leaves)
    /\ reel' = [reel EXCEPT ![r].contains = v]
    /\ UNCHANGED <<commitment, packedBy>>

\* process_reel_commit: the signer must be the authority of both the miner
\* and the reel, so any miner of the reel's authority may take a commitment
\* from it; the leaf must verify against reel.contains (a zero root verifies
\* nothing).
ReelCommit(m, r, c) ==
    /\ reel[r].exists
    /\ Authority[m] = ReelAuthority(r)
    /\ reel[r].contains # NoValue
    /\ c \in PackedLeaves[reel[r].contains]
    /\ commitment' = [commitment EXCEPT ![m] = c]
    /\ UNCHANGED <<reel, packedBy>>

CommitInputs == UNION {PackedLeaves[v] : v \in Values}

ReelNext ==
    \E r \in Reels :
      \/ ReelCreate(r)
      \/ ReelDestroy(r)
      \/ \E n \in SpoolNumbers, v \in Values :
           \/ ReelPack(r, n, v)
           \/ ReelUnpack(r, n, v)
      \/ \E m \in Miners, c \in CommitInputs : ReelCommit(m, r, c)

ReelSpec == ReelInit /\ [][ReelNext]_reelVars

-----------------------------------------------------------------------------
(* Properties                                                              *)

ReelTypeOK ==
    /\ \A r \in Reels :
         /\ reel[r].total_spools = Len(reel[r].leaves)
         /\ Len(reel[r].leaves) <= 2^SPOOL_TREE_HEIGHT
         /\ reel[r].contains \in Values \cup {NoValue}
    /\ \A m \in Miners : commitment[m] \in CommitInputs \cup {NoValue}

\* A miner's commitment is a leaf of a packed root that the miner's own
\* authority packed into one of its reels: Pack, then Unpack of that leaf,
\* then Commit, possibly by another miner of the same authority, across
\* reels that may be destroyed and re-created in between.
CommitmentPacked ==
    \A m \in Miners :
      commitment[m] # NoValue =>
        \E v \in packedBy[Authority[m]] : commitment[m] \in PackedLeaves[v]

=============================================================================
