---------------------------- MODULE SpoolLedger ----------------------------
(***************************************************************************)
(* The on-ledger spool writer (program/src/spool/*.rs) and the Archive     *)
(* counters it maintains.  Each handler runs atomically against its       *)
(* accounts (the host ledger aborts a failing transaction with no state   *)
(* change), so each handler is one action whose guard is the conjunction  *)
(* of the handler's checks; a failing call is a stuttering step.          *)
(***************************************************************************)
EXTENDS Naturals, Sequences, FiniteSets, FiniteSetsExt, Merkle

CONSTANTS
    Spools,                 \* addresses of spools users may create
    Genesis,                \* the genesis spool created by Initialize
    Data,                   \* segment payloads, already padded to SEGMENT_SIZE
    Headers,                \* header values SetHeader may write
    Amounts,                \* token amounts Subsidize may transfer
    MAX_SEGMENTS_PER_SPOOL,
    SEGMENT_TREE_HEIGHT,
    MAX_WRITE_SEGMENTS,     \* largest number of chunks one Write carries
    RENT_PER_SEGMENT,       \* rent owed per segment per block
    MIN_RENT_BLOCKS,        \* blocks of rent a spool must hold
    GENESIS_BALANCE,
    MAX_SLOT,               \* bound on the ledger clock (modelling artifact)
    MAX_BALANCE             \* bound on spool balances (modelling artifact)

ASSUME Genesis \notin Spools
ASSUME 2^SEGMENT_TREE_HEIGHT >= MAX_SEGMENTS_PER_SPOOL

AllSpools == Spools \cup {Genesis}

\* Spool account states; "None" is an address whose account does not exist.
SpoolStates == {"None", "Created", "Writing", "Finalized"}

NoRoot == "zero32"          \* [0; 32], the root of a spool never written
NoHeader == "zeroHeader"    \* [0; HEADER_SIZE]

VARIABLES
    slot,       \* Clock::get().slot
    spool,      \* spool account per address
    writer,     \* writer account per spool: open flag and the segments its tree holds
    archive,    \* the Archive singleton
    log         \* WriteEvent / UpdateEvent entries: spool, slot of the mutation, prev_slot

spoolVars == <<slot, spool, writer, archive, log>>

-----------------------------------------------------------------------------
(* Rent (api crate, not under src/; spec section 4.1, 4.2 step 5 and 9).    *)

RentPerBlock(n) == n * RENT_PER_SEGMENT

\* min_finalization_rent(total_segments): what can_finalize and
\* has_minimum_rent compare the balance with.
MinimumRent(n) == RentPerBlock(n) * MIN_RENT_BLOCKS

CanFinalize(sp) == sp.balance >= MinimumRent(sp.total_segments)

HasMinimumRent(sp) == sp.balance >= MinimumRent(sp.total_segments)

\* rent_owed(block_number): rent accrued since last_rent_block.
RentOwed(sp, blockNumber) ==
    RentPerBlock(sp.total_segments) * (blockNumber - sp.last_rent_block)

SatSub(a, b) == IF a > b THEN a - b ELSE 0

-----------------------------------------------------------------------------

WriterRoot(a) == TreeRoot(a, SEGMENT_TREE_HEIGHT, SegmentLeaves(writer[a].segs))

EmptySpool == [state |-> "None", number |-> 0, total_segments |-> 0,
               merkle_root |-> NoRoot, header |-> NoHeader, tail_slot |-> 0,
               balance |-> 0, last_rent_block |-> 0]

\* Initialize (program/src/program, not under src/): the genesis spool holds
\* one segment and is finalized as spool 1.
SpoolInit ==
    LET g == CHOOSE d \in Data : TRUE
    IN
    /\ slot = 1
    /\ spool = [a \in AllSpools |->
                  IF a = Genesis
                  THEN [EmptySpool EXCEPT !.state = "Finalized", !.number = 1,
                          !.total_segments = 1, !.balance = GENESIS_BALANCE,
                          !.merkle_root = TreeRoot(Genesis, SEGMENT_TREE_HEIGHT,
                                                   SegmentLeaves(<<g>>))]
                  ELSE EmptySpool]
    /\ writer = [a \in AllSpools |->
                   [open |-> FALSE, segs |-> IF a = Genesis THEN <<g>> ELSE <<>>]]
    /\ archive = [spools_stored |-> 1, segments_stored |-> 1]
    /\ log = {}

\* The ledger clock advances.
AdvanceSlot ==
    /\ slot < MAX_SLOT
    /\ slot' = slot + 1
    /\ UNCHANGED <<spool, writer, archive, log>>

\* process_spool_create: both accounts must be empty; the spool starts
\* Created with no segments, the writer tree is seeded with the spool address.
SpoolCreate(a) ==
    /\ spool[a].state = "None"
    /\ spool' = [spool EXCEPT ![a] = [EmptySpool EXCEPT !.state = "Created",
                                                       !.tail_slot = slot]]
    /\ writer' = [writer EXCEPT ![a] = [open |-> TRUE, segs |-> <<>>]]
    /\ UNCHANGED <<slot, archive, log>>

\* Mutant of SpoolWrite: the SpoolTooLong check is missing.
SpoolWriteNoLengthCheck(a, segs) ==
    /\ writer[a].open
    /\ spool[a].state \in {"Created", "Writing"}
    /\ writer' = [writer EXCEPT ![a].segs = @ \o segs]
    /\ spool' = [spool EXCEPT
                   ![a].total_segments = @ + Len(segs),
                   ![a].merkle_root = TreeRoot(a, SEGMENT_TREE_HEIGHT,
                                               SegmentLeaves(writer'[a].segs)),
                   ![a].state = "Writing",
                   ![a].tail_slot = slot]
    /\ log' = log \cup {[spool |-> a, slot |-> slot, prev |-> spool[a].tail_slot]}
    /\ UNCHANGED <<slot, archive>>

\* process_spool_write: `segs` are the chunks of the instruction data
\* (data.chunks(SEGMENT_SIZE), each padded); empty data gives no chunks.
SpoolWrite(a, segs) ==
    /\ writer[a].open
    /\ spool[a].state \in {"Created", "Writing"}
    /\ spool[a].total_segments + Len(segs) <= MAX_SEGMENTS_PER_SPOOL
    /\ writer' = [writer EXCEPT ![a].segs = @ \o segs]
    /\ spool' = [spool EXCEPT
                   ![a].total_segments = @ + Len(segs),
                   ![a].merkle_root = TreeRoot(a, SEGMENT_TREE_HEIGHT,
                                               SegmentLeaves(writer'[a].segs)),
                   ![a].state = "Writing",
                   ![a].tail_slot = slot]
    /\ log' = log \cup {[spool |-> a, slot |-> slot, prev |-> spool[a].tail_slot]}
    /\ UNCHANGED <<slot, archive>>

\* Mutant of SpoolUpdate: tail_slot is not advanced.
SpoolUpdateKeepsTail(a, i, old, new) ==
    /\ writer[a].open
    /\ spool[a].state \in {"Created", "Writing"}
    /\ i < Len(writer[a].segs)
    /\ writer[a].segs[i + 1] = old
    /\ writer' = [writer EXCEPT ![a].segs[i + 1] = new]
    /\ spool' = [spool EXCEPT
                   ![a].merkle_root = TreeRoot(a, SEGMENT_TREE_HEIGHT,
                                               SegmentLeaves(writer'[a].segs))]
    /\ log' = log \cup {[spool |-> a, slot |-> slot, prev |-> spool[a].tail_slot]}
    /\ UNCHANGED <<slot, archive>>

\* Mutant of SpoolUpdate: the root is taken from the tree before the leaf
\* is replaced.
SpoolUpdateStaleRoot(a, i, old, new) ==
    /\ writer[a].open
    /\ spool[a].state \in {"Created", "Writing"}
    /\ i < Len(writer[a].segs)
    /\ writer[a].segs[i + 1] = old
    /\ writer' = [writer EXCEPT ![a].segs[i + 1] = new]
    /\ spool' = [spool EXCEPT
                   ![a].merkle_root = TreeRoot(a, SEGMENT_TREE_HEIGHT,
                                               SegmentLeaves(writer[a].segs)),
                   ![a].tail_slot = slot]
    /\ log' = log \cup {[spool |-> a, slot |-> slot, prev |-> spool[a].tail_slot]}
    /\ UNCHANGED <<slot, archive>>

\* process_spool_update: try_replace_leaf succeeds only if the old leaf
\* H(i || old) is in the tree, i.e. segment i exists and holds `old`.
SpoolUpdate(a, i, old, new) ==
    /\ writer[a].open
    /\ spool[a].state \in {"Created", "Writing"}
    /\ i < Len(writer[a].segs)
    /\ writer[a].segs[i + 1] = old
    /\ writer' = [writer EXCEPT ![a].segs[i + 1] = new]
    /\ spool' = [spool EXCEPT
                   ![a].merkle_root = TreeRoot(a, SEGMENT_TREE_HEIGHT,
                                               SegmentLeaves(writer'[a].segs)),
                   ![a].tail_slot = slot]
    /\ log' = log \cup {[spool |-> a, slot |-> slot, prev |-> spool[a].tail_slot]}
    /\ UNCHANGED <<slot, archive>>

\* Mutant of SpoolFinalize: the number is read before spools_stored is bumped.
SpoolFinalizeStaleNumber(a) ==
    /\ writer[a].open
    /\ spool[a].state = "Writing"
    /\ CanFinalize(spool[a])
    /\ archive' = [spools_stored |-> archive.spools_stored + 1,
                   segments_stored |-> archive.segments_stored + spool[a].total_segments]
    /\ spool' = [spool EXCEPT ![a].number = archive.spools_stored,
                              ![a].state = "Finalized",
                              ![a].merkle_root = WriterRoot(a)]
    /\ writer' = [writer EXCEPT ![a].open = FALSE]
    /\ UNCHANGED <<slot, log>>

\* process_spool_finalize: requires Writing and enough rent; numbers the
\* spool, copies the writer root and closes the writer.
SpoolFinalize(a) ==
    /\ writer[a].open
    /\ spool[a].state = "Writing"
    /\ CanFinalize(spool[a])
    /\ archive' = [spools_stored |-> archive.spools_stored + 1,
                   segments_stored |-> archive.segments_stored + spool[a].total_segments]
    /\ spool' = [spool EXCEPT ![a].number = archive'.spools_stored,
                              ![a].state = "Finalized",
                              ![a].merkle_root = WriterRoot(a)]
    /\ writer' = [writer EXCEPT ![a].open = FALSE]
    /\ UNCHANGED <<slot, log>>

\* process_spool_set_header: only while Writing.
SpoolSetHeader(a, h) ==
    /\ spool[a].state = "Writing"
    /\ spool' = [spool EXCEPT ![a].header = h]
    /\ UNCHANGED <<slot, writer, archive, log>>

\* process_spool_subsidize_rent: anyone may add tokens to any existing spool.
SpoolSubsidize(a, amt) ==
    /\ spool[a].state # "None"
    /\ spool[a].balance + amt <= MAX_BALANCE
    /\ spool' = [spool EXCEPT ![a].balance = @ + amt]
    /\ UNCHANGED <<slot, writer, archive, log>>

\* The bounds are exhausted: the clock stops and the model only stutters.
ClockBoundReached ==
    /\ slot = MAX_SLOT
    /\ UNCHANGED spoolVars

WriteInputs == UNION {[1..k -> Data] : k \in 0..MAX_WRITE_SEGMENTS}

\* Every spool handler a user may call.
SpoolOps ==
    \/ \E a \in Spools :
         \/ SpoolCreate(a)
         \/ \E segs \in WriteInputs : SpoolWrite(a, segs)
         \/ \E i \in 0..(MAX_SEGMENTS_PER_SPOOL - 1), old, new \in Data :
              SpoolUpdate(a, i, old, new)
         \/ SpoolFinalize(a)
         \/ \E h \in Headers : SpoolSetHeader(a, h)
    \/ \E a \in AllSpools, amt \in Amounts : SpoolSubsidize(a, amt)

SpoolNext == AdvanceSlot \/ SpoolOps

SpoolSpec == SpoolInit /\ [][SpoolNext \/ ClockBoundReached]_spoolVars

-----------------------------------------------------------------------------
(* Properties                                                              *)

SpoolTypeOK ==
    /\ slot \in 1..MAX_SLOT
    /\ \A a \in AllSpools :
         /\ spool[a].state \in SpoolStates
         /\ spool[a].total_segments \in 0..MAX_SEGMENTS_PER_SPOOL
         /\ spool[a].total_segments = Len(writer[a].segs)
         /\ spool[a].balance \in 0..MAX_BALANCE
         /\ spool[a].header \in Headers \cup {NoHeader}
         /\ writer[a].open <=> spool[a].state \in {"Created", "Writing"}
    /\ archive.spools_stored \in Nat /\ archive.segments_stored \in Nat

Finalized == {a \in AllSpools : spool[a].state = "Finalized"}

\* Archive accounting (spec section 8, invariant 3): spools_stored counts the
\* finalized spools, segments_stored sums their segments, and finalization
\* numbers them 1..spools_stored without gaps or repeats.  Finalize and
\* Write must agree on which spools can still grow.
ArchiveAccounting ==
    /\ archive.spools_stored = Cardinality(Finalized)
    /\ archive.segments_stored = MapThenSumSet(LAMBDA a : spool[a].total_segments, Finalized)
    /\ {spool[a].number : a \in Finalized} = 1..archive.spools_stored

\* The spool program implements the spool archive of spec 2 and 4.1
\* (SpoolArchive): under this mapping every handler is an Open, Append,
\* Replace or Freeze of the archive or changes nothing it promises.  So
\* the root in the spool account is at every step the Merkle root of the
\* writer's segments, total_segments their number, Finalize numbers spools
\* consecutively and adds their segments to the archive totals, and a
\* finalized spool never changes; rent, headers, events and the clock are
\* invisible to it.
Archive == INSTANCE SpoolArchive WITH
    Spools <- AllSpools,
    GenesisData <- CHOOSE d \in Data : TRUE,
    spools <- [a \in AllSpools |->
                 [state |-> spool[a].state, segs |-> writer[a].segs,
                  root |-> spool[a].merkle_root, number |-> spool[a].number]],
    stored <- [spools |-> archive.spools_stored,
               segments |-> archive.segments_stored]

ImplementsArchive == Archive!Spec

\* The prev_slot links of the spool's WriteEvents and UpdateEvents
\* (write.rs 65-78, update.rs 70-80): each event links the slot of its
\* mutation to the tail_slot the spool had before it.
PrevLinks(a) == {<<e.slot, e.prev>> : e \in {e \in log : e.spool = a /\ e.prev # 0}}

\* The slots reached backwards over `links` from the slots in `seen`.
RECURSIVE Visited(_, _)
Visited(links, seen) ==
    LET next == seen \cup {l[2] : l \in {l \in links : l[1] \in seen}}
    IN IF next = seen THEN seen ELSE Visited(links, next)

\* The events of a spool form a linked list of its mutation slots (spec 3,
\* "Critical invariants", and 9, "Event-driven replay"): from the spool's
\* tail_slot, following the prev_slot of the WriteEvents and UpdateEvents
\* logged in each slot reaches every slot in which Write or Update mutated
\* the spool, whatever the interleaving of Writes, empty Writes, Updates
\* and Finalize over several slots.  This is the chain the ledger emits;
\* the node's sync_from_block follows only segment-write keys, which an
\* empty Write does not carry (sync.rs 244-255), and is checked in Node.
ReplayCoversHistory ==
    \A a \in Spools :
      {e.slot : e \in {e \in log : e.spool = a}}
        \subseteq Visited(PrevLinks(a), {spool[a].tail_slot})

\* A finalized spool holds data (finalize.rs: "Can't finalize if the spool
\* with no data on it"): the recall-segment index is taken modulo
\* total_segments, so an empty finalized spool can never be mined.
FinalizedSpoolsNonEmpty ==
    \A a \in Finalized : spool[a].total_segments > 0

=============================================================================
