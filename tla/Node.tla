-------------------------------- MODULE Node --------------------------------
(***************************************************************************)
(* The off-ledger archive node (network/src/archive) composed with the     *)
(* on-ledger spool writer it follows (SpoolLedger).                        *)
(*                                                                         *)
(* The orchestrator runs three tasks over one bounded job channel: the    *)
(* live loop, the challenge loop and the packer.  Each task step between  *)
(* two suspension points (RPC, channel send/receive, sleep) is an action. *)
(* The store (RocksDB) survives a crash of the node; the channel and the  *)
(* tasks' local state do not.  The CLI's resync (sync_from_block) opens   *)
(* the primary store, so it runs only while the node is down.             *)
(*                                                                         *)
(* A packed segment is the packx solution of its data; solution.unpack    *)
(* gives the data back, so a stored segment is the record PackedOf(d).    *)
(***************************************************************************)
EXTENDS SpoolLedger, SequencesExt

CONSTANTS
    SECTOR_LEAVES,
    SECTOR_TREE_HEIGHT,
    CHANNEL_CAPACITY,   \* queue::channel bound
    MAX_STOPS,          \* bound on node crashes and fatal task errors
    CRASHES,            \* whether the node process may be killed
    PACK_FAILURES,      \* whether solve_with_memory may find no solution
    MAX_BLOCK_TXS       \* bound on the spool transactions of one block

ASSUME SECTOR_LEAVES = 2^SECTOR_TREE_HEIGHT
ASSUME SECTOR_TREE_HEIGHT <= SEGMENT_TREE_HEIGHT
ASSUME RENT_PER_SEGMENT = 0
ASSUME CRASHES \in BOOLEAN /\ PACK_FAILURES \in BOOLEAN

SegIdx == 0..(MAX_SEGMENTS_PER_SPOOL - 1)
Numbers == 0..Cardinality(AllSpools)       \* spool numbers the store may key
NoSegment == [absent |-> TRUE]           \* get_segment fails
NoAddress == "noAddress"
\* [0u8; 32] in a canopy layer: a hash no tree produces, shaped like the
\* entries of that layer (leaf records at height 0, node tuples above) so
\* that it can be compared with them.
Filler == IF SECTOR_TREE_HEIGHT = 0 THEN [zero |-> 32] ELSE <<[zero |-> 32]>>
NoResync == [spool |-> NoAddress, final |-> FALSE, stack |-> <<>>, visited |-> {}]
Idle == [state |-> "idle", job |-> NoSegment]

PackedOf(d) == [solution |-> d]
Unpack(p) == p.solution

VARIABLES
    blocks,     \* the spool transactions of each slot, as process_block reads them
    node,       \* "up" or "down"
    stops,      \* crashes and fatal errors so far
    segments,   \* the segment column: per spool and number, the packed segment
    addresses,  \* SpoolByNumber: spool number -> address
    layer,      \* the Unpacked/Packed SpoolLayer caches at SECTOR_TREE_HEIGHT
    chan,       \* the job channel
    live,       \* the live loop: next block to read, jobs still to send
    pending,    \* the challenge loop: jobs of the current sync still to send
    packer,     \* the packer: idle, or between put_segment and the canopy update
    resync,     \* sync_from_block: spool, stack and visited set
    torn,       \* ghost: <<spool, sector>> whose canopy update a stop cut off
    sending     \* the tasks suspended in tx.send(job).await after the stored check

ledgerVars == <<spoolVars, blocks>>
nodeVars == <<node, stops, segments, addresses, layer, chan, live, pending,
              packer, resync, torn, sending>>
vars == <<ledgerVars, nodeVars>>

-----------------------------------------------------------------------------
(* The ledger as the node reads it.                                        *)

\* A spool transaction in the current slot: the segments it writes (by
\* segment number), its prev_slot, for Finalize the number assigned, and its
\* position among the transactions of the slot.
Tx(a, w, n) == [slot |-> slot, spool |-> a, prev |-> spool[a].tail_slot,
                writes |-> w, number |-> n,
                seq |-> Cardinality({t \in blocks : t.slot = slot})]

NoWrites == [j \in {} |-> NoSegment]

\* The user's spool transactions.  Mutations happen before MAX_SLOT, so
\* the last slot of the bound only finalizes the block before it.  SetHeader
\* and Subsidize change only the header and the balance, which the node
\* never reads; with no rent (RENT_PER_SEGMENT = 0 in the configurations)
\* Finalize does not depend on the balance either, so they are left out.
LedgerOps ==
    /\ slot < MAX_SLOT
    /\ Cardinality({t \in blocks : t.slot = slot}) < MAX_BLOCK_TXS
    /\ \E a \in Spools :
         \/ SpoolCreate(a) /\ UNCHANGED blocks
         \/ \E segs \in WriteInputs :
              LET n == spool[a].total_segments
              IN /\ SpoolWrite(a, segs)
                 /\ blocks' = blocks \cup
                      {Tx(a, [j \in n..(n + Len(segs) - 1) |-> segs[j - n + 1]], 0)}
         \/ \E i \in SegIdx, old, new \in Data :
              /\ SpoolUpdate(a, i, old, new)
              /\ blocks' = blocks \cup {Tx(a, i :> new, 0)}
         \/ SpoolFinalize(a)
            /\ blocks' = blocks \cup {Tx(a, NoWrites, archive'.spools_stored)}

\* process_block: the segment writes and the finalized spools of the block
\* at slot s.  segment_writes is a map keyed by address, segment number and
\* prev_slot, filled in transaction order, so of two writes with one key
\* the later one is kept.
AllWrites(s) ==
    UNION {{[spool |-> t.spool, seg_no |-> j, data |-> t.writes[j],
             prev |-> t.prev, seq |-> t.seq] :
              j \in DOMAIN t.writes} : t \in {t \in blocks : t.slot = s}}
SameKey(v, w) == v.spool = w.spool /\ v.seg_no = w.seg_no /\ v.prev = w.prev
SegmentWrites(s) ==
    {w \in AllWrites(s) : ~\E v \in AllWrites(s) : SameKey(v, w) /\ v.seq > w.seq}
FinalizedIn(s) ==
    {<<t.number, t.spool>> : t \in {t \in blocks : t.slot = s /\ t.number > 0}}

JobOf(w) == [spool |-> w.spool, seg_no |-> w.seg_no, data |-> w.data]

-----------------------------------------------------------------------------
(* The store and the canopy engine (pack.rs 102-320).                      *)

\* put_spool_address for each <<number, address>> pair: an upsert.
PutAddresses(addr, pairs) ==
    [n \in Numbers |-> IF \E p \in pairs : p[1] = n
                       THEN (CHOOSE p \in pairs : p[1] = n)[2] ELSE addr[n]]

Stored(a, j) == segments[a][j] # NoSegment

\* get_segment_count
SegmentCount(a) == Cardinality({j \in SegIdx : Stored(a, j)})

\* helpers::sync_needed
SyncNeeded(a, total_segments) == SegmentCount(a) < total_segments

SectorOf(j) == j \div SECTOR_LEAVES

\* Mutant of SectorLeaves: a leaf is keyed by its index within the sector.
SectorLeavesLocalId(a, k, segs, unpacked) ==
    [i \in 1..SECTOR_LEAVES |->
       LET j == k * SECTOR_LEAVES + i - 1
       IN IF j \in SegIdx /\ segs[a][j] # NoSegment
          THEN LeafOf(i - 1, IF unpacked THEN Unpack(segs[a][j]) ELSE segs[a][j])
          ELSE ZeroValue(a, 0)]

\* compute_sector_leaves_unpacked / _packed: the empty leaf where the
\* store has no segment.
SectorLeaves(a, k, segs, unpacked) ==
    [i \in 1..SECTOR_LEAVES |->
       LET j == k * SECTOR_LEAVES + i - 1
       IN IF j \in SegIdx /\ segs[a][j] # NoSegment
          THEN LeafOf(j, IF unpacked THEN Unpack(segs[a][j]) ELSE segs[a][j])
          ELSE ZeroValue(a, 0)]

\* compute_sector_root: the sector's node at layer SECTOR_TREE_HEIGHT.
SectorRoot(leaves, a) == LayerNode(a, 0, SECTOR_TREE_HEIGHT, 0, leaves)

UnpackedRoot(a, k, segs) == SectorRoot(SectorLeaves(a, k, segs, TRUE), a)
PackedRoot(a, k, segs) == SectorRoot(SectorLeaves(a, k, segs, FALSE), a)

\* Mutant of SetLayer: the cached layer is not read back, so a fresh vector
\* replaces it.
SetLayerFresh(vec, k, root) ==
    [i \in 1..(k + 1) |-> IF i = k + 1 THEN root ELSE Filler]

\* update_sector_canopy_with_key: a missing layer is a vector of
\* sector+1 [0;32] entries, a short one is resized with [0;32], and the
\* entry for the sector is overwritten.
SetLayer(vec, k, root) ==
    [i \in 1..Max({Len(vec), k + 1}) |->
       IF i = k + 1 THEN root ELSE IF i <= Len(vec) THEN vec[i] ELSE Filler]

\* update_merkle_canopy_for_sector: both layers of the sector, from the store.
UpdateCanopy(lay, a, k, segs) ==
    [unpacked |-> SetLayer(lay.unpacked, k, UnpackedRoot(a, k, segs)),
     packed   |-> SetLayer(lay.packed, k, PackedRoot(a, k, segs))]

\* get_spool_root: a canopy tree over the cached unpacked sector roots (it
\* fails when the layer was never cached).
GetSpoolRoot(a) ==
    LayerNode(a, SECTOR_TREE_HEIGHT, SEGMENT_TREE_HEIGHT - SECTOR_TREE_HEIGHT,
                   0, layer[a].unpacked)

\* handle_get_spool (CLI snapshot get-spool): segments 0..total_segments-1
\* of the spool from the store, each unpacked with the miner key; one the
\* store lacks is [0u8; SEGMENT_SIZE] and only reported as missing.
ZeroSegment == "zeroSegment"
GetSpool(a, total_segments) ==
    [i \in 1..total_segments |->
       IF Stored(a, i - 1) THEN Unpack(segments[a][i - 1]) ELSE ZeroSegment]

-----------------------------------------------------------------------------
(* The tasks.                                                              *)

\* Mutant of AlreadyStored: a job is skipped once any segment of its
\* spool is stored.
AlreadyStoredSpool(job) == SegmentCount(job.spool) > 0

\* store.get_segment(spool, seg_no).is_ok() (sync.rs 56-58): the job's
\* segment is already stored, so it is skipped.
AlreadyStored(job) == Stored(job.spool, job.seg_no)

\* Mutant of CanSend: the send never waits for room in the channel.
CanSendUnbounded == TRUE

\* tx.send(job).await completes once the bounded channel has room.
CanSend == Len(chan) < CHANNEL_CAPACITY

\* live::run (not under src/, spec 4.7): read the next finalized block,
\* upsert the addresses of spools finalized in it, queue its segment writes.
LiveProcessBlock ==
    /\ node = "up"
    /\ live.pending = <<>>
    /\ live.next < slot
    /\ addresses' = PutAddresses(addresses, FinalizedIn(live.next))
    /\ \E order \in SetToSeqs({JobOf(w) : w \in SegmentWrites(live.next)}) :
         live' = [next |-> live.next + 1, pending |-> order]
    /\ UNCHANGED <<node, stops, segments, layer, chan, pending, packer, resync, torn, sending>>

\* live::run: the next segment write is skipped if it is "already stored";
\* otherwise the loop suspends in its send.
LiveCheck ==
    /\ node = "up"
    /\ live.pending # <<>>
    /\ "live" \notin sending
    /\ IF AlreadyStored(Head(live.pending))
       THEN live' = [live EXCEPT !.pending = Tail(@)] /\ UNCHANGED sending
       ELSE sending' = sending \cup {"live"} /\ UNCHANGED live
    /\ UNCHANGED <<node, stops, segments, addresses, layer, chan, pending, packer, resync, torn>>

\* The live loop's send completes: the checked job joins the channel,
\* stored or not by now.
LiveSend ==
    /\ node = "up"
    /\ "live" \in sending
    /\ CanSend
    /\ chan' = Append(chan, Head(live.pending))
    /\ live' = [live EXCEPT !.pending = Tail(@)]
    /\ sending' = sending \ {"live"}
    /\ UNCHANGED <<node, stops, segments, addresses, layer, pending, packer, resync, torn>>

\* challenge::run, one iteration up to the sync: the recall spool number is
\* at most challenge_set <= spools_stored; its address comes from the store
\* (a missing one is only logged); if fewer segments are stored than the
\* spool has, sync_segments_from_solana lists the spool's segments in
\* segment order (init_read/process_next_block, not under src/, rebuild them
\* from the prev_slot chain).
ChallengeTick(n) ==
    /\ node = "up"
    /\ pending = <<>>
    /\ LET a == addresses[n]
       IN IF a # NoAddress /\ SyncNeeded(a, spool[a].total_segments)
          THEN pending' = [k \in 1..Len(writer[a].segs) |->
                             [spool |-> a, seg_no |-> k - 1, data |-> writer[a].segs[k]]]
          ELSE UNCHANGED pending
    /\ UNCHANGED <<node, stops, segments, addresses, layer, chan, live, packer, resync, torn, sending>>

\* sync_segments_from_solana (sync.rs 55-58): a stored segment is skipped;
\* otherwise the task suspends in tx.send(job).await (sync.rs 66).
ChallengeCheck ==
    /\ node = "up"
    /\ pending # <<>>
    /\ "challenge" \notin sending
    /\ IF AlreadyStored(Head(pending))
       THEN pending' = Tail(pending) /\ UNCHANGED sending
       ELSE sending' = sending \cup {"challenge"} /\ UNCHANGED pending
    /\ UNCHANGED <<node, stops, segments, addresses, layer, chan, live, packer, resync, torn>>

\* The challenge loop's send completes (sync.rs 60-68).
ChallengeSend ==
    /\ node = "up"
    /\ "challenge" \in sending
    /\ CanSend
    /\ chan' = Append(chan, Head(pending))
    /\ pending' = Tail(pending)
    /\ sending' = sending \ {"challenge"}
    /\ UNCHANGED <<node, stops, segments, addresses, layer, live, packer, resync, torn>>

\* pack::run receives a job and awaits pack_segment: the solution is found
\* and verified, and put_segment overwrites the stored segment.
PackSegment ==
    /\ node = "up"
    /\ packer = Idle
    /\ chan # <<>>
    /\ segments' = [segments EXCEPT ![Head(chan).spool][Head(chan).seg_no] =
                                      PackedOf(Head(chan).data)]
    /\ chan' = Tail(chan)
    /\ packer' = [state |-> "stored", job |-> Head(chan)]
    /\ UNCHANGED <<node, stops, addresses, layer, live, pending, resync, torn, sending>>

\* pack_segment then updates the canopy of the segment's sector.
PackCanopy ==
    /\ node = "up"
    /\ packer.state = "stored"
    /\ LET a == packer.job.spool
           k == SectorOf(packer.job.seg_no)
       IN /\ layer' = [layer EXCEPT ![a] = UpdateCanopy(@, a, k, segments)]
          /\ torn' = torn \ {<<a, k>>}
    /\ packer' = Idle
    /\ UNCHANGED <<node, stops, segments, addresses, chan, live, pending, resync, sending>>

\* The node process ends: the channel, the tasks and their jobs are lost.
NodeStops ==
    /\ node' = "down"
    /\ stops' = stops + 1
    /\ chan' = <<>>
    /\ live' = [live EXCEPT !.pending = <<>>]
    /\ pending' = <<>>
    /\ packer' = Idle
    /\ sending' = {}
    /\ torn' = IF packer.state = "stored"
               THEN torn \cup {<<packer.job.spool, SectorOf(packer.job.seg_no)>>}
               ELSE torn
    /\ UNCHANGED <<segments, addresses, layer, resync>>

\* solve_with_memory finds no solution (pack.rs 70): pack_segment returns
\* an error, `.await??` (pack.rs 44) ends pack::run, and the orchestrator's
\* wait_for_shutdown ends the node.
PackFail ==
    /\ PACK_FAILURES
    /\ node = "up"
    /\ packer = Idle
    /\ chan # <<>>
    /\ stops < MAX_STOPS
    /\ NodeStops

\* The node process is killed at any point, e.g. between put_segment and
\* the canopy update.
Crash ==
    /\ CRASHES
    /\ node = "up"
    /\ stops < MAX_STOPS
    /\ NodeStops

\* sync_addresses_from_solana: the numbers up to spools_stored that the
\* store lacks are looked up (at most 10 at a time); a failed lookup is
\* dropped (filter_map, sync.rs 176) and the others are upserted.
MissingNumbers == {n \in 1..archive.spools_stored : addresses[n] = NoAddress}
SyncAddressesFromSolana(fetched) ==
    PutAddresses(addresses,
                 {<<n, CHOOSE a \in AllSpools : spool[a].number = n>> : n \in fetched})

\* orchestrator::run restarted: init syncs the missing addresses, then the
\* tasks start afresh and the live loop reads blocks from the current slot.
Start ==
    /\ node = "down"
    /\ resync = NoResync
    /\ \E fetched \in SUBSET MissingNumbers :
         addresses' = SyncAddressesFromSolana(fetched)
    /\ node' = "up"
    /\ live' = [next |-> slot, pending |-> <<>>]
    /\ UNCHANGED <<stops, segments, layer, chan, pending, packer, resync, torn, sending>>

-----------------------------------------------------------------------------
(* Resync (sync.rs 187-284), run by the CLI while the node is down.        *)

\* handle_resync starts from the spool's tail_slot; a finalized spool's
\* address is stored first.
ResyncBegin(a) ==
    /\ node = "down"
    /\ resync = NoResync
    /\ spool[a].state # "None"
    /\ addresses' = IF spool[a].state = "Finalized"
                    THEN [addresses EXCEPT ![spool[a].number] = a] ELSE addresses
    /\ resync' = [spool |-> a, final |-> spool[a].state = "Finalized",
                  stack |-> <<spool[a].tail_slot>>, visited |-> {}]
    /\ UNCHANGED <<node, stops, segments, layer, chan, live, pending, packer, torn, sending>>

\* Mutant of PackAll: the canopy is computed from the store as it was
\* before the writes were packed.
PackAllStaleStore(order) ==
    LET a == resync.spool
        segs == FoldLeft(LAMBDA acc, w :
                           [acc EXCEPT ![a][w.seg_no] = PackedOf(w.data)],
                         segments, order)
        touched == {SectorOf(order[i].seg_no) : i \in DOMAIN order}
    IN /\ segments' = segs
       /\ layer' = [layer EXCEPT ![a] =
                      FoldSet(LAMBDA k, lay : UpdateCanopy(lay, a, k, segments), @,
                              touched)]
       /\ torn' = torn \ {<<a, k>> : k \in touched}

\* pack_segment for each write of `order` in turn, then (equivalently) the
\* canopy of every sector touched, recomputed from the final store.
PackAll(order) ==
    LET a == resync.spool
        segs == FoldLeft(LAMBDA acc, w :
                           [acc EXCEPT ![a][w.seg_no] = PackedOf(w.data)],
                         segments, order)
        touched == {SectorOf(order[i].seg_no) : i \in DOMAIN order}
    IN /\ segments' = segs
       /\ layer' = [layer EXCEPT ![a] =
                      FoldSet(LAMBDA k, lay : UpdateCanopy(lay, a, k, segs), @,
                              touched)]
       /\ torn' = torn \ {<<a, k>> : k \in touched}

\* One pop of the stack: a visited slot is skipped; an empty block is
\* skipped without following its links; otherwise addresses of finalized
\* spools are upserted, the spool's writes are packed in HashMap order and
\* their prev_slots (HashSet order) are pushed.  get_block_by_number needs
\* the block to exist, so the slot must be past.
ResyncVisit ==
    LET s == Last(resync.stack)
        mine == {w \in SegmentWrites(s) : w.spool = resync.spool}
        parents == {w.prev : w \in mine} \ {0}
        popped == [resync EXCEPT !.stack = Front(@), !.visited = @ \cup {s}]
    IN
    /\ resync.stack # <<>>
    /\ s < slot
    /\ \/ /\ s \in resync.visited \/ (SegmentWrites(s) = {} /\ FinalizedIn(s) = {})
          /\ resync' = popped
          /\ UNCHANGED <<segments, layer, addresses, torn>>
       \/ /\ s \notin resync.visited
          /\ SegmentWrites(s) # {} \/ FinalizedIn(s) # {}
          /\ addresses' = PutAddresses(addresses, FinalizedIn(s))
          /\ \E order \in SetToSeqs(mine) : PackAll(order)
          /\ \E push \in SetToSeqs(parents) :
               resync' = [popped EXCEPT !.stack = @ \o push]
    /\ UNCHANGED <<node, stops, chan, live, pending, packer, sending>>

\* sync_from_block returns once the stack is empty.
ResyncEnd ==
    /\ resync # NoResync
    /\ resync.stack = <<>>
    /\ resync' = NoResync
    /\ UNCHANGED <<node, stops, segments, addresses, layer, chan, live, pending, packer, torn, sending>>

-----------------------------------------------------------------------------

NodeInit ==
    /\ SpoolInit
    /\ blocks = {}
    /\ node = "up"
    /\ stops = 0
    /\ segments = [a \in AllSpools |-> [j \in SegIdx |-> NoSegment]]
    /\ addresses = [n \in Numbers |-> IF n = 1 THEN Genesis ELSE NoAddress]
    /\ layer = [a \in AllSpools |-> [unpacked |-> <<>>, packed |-> <<>>]]
    /\ chan = <<>>
    /\ live = [next |-> slot, pending |-> <<>>]
    /\ pending = <<>>
    /\ packer = Idle
    /\ resync = NoResync
    /\ torn = {}
    /\ sending = {}

LedgerClock == AdvanceSlot /\ UNCHANGED <<blocks, nodeVars>>

\* A step of the node or of the resync leaves the ledger alone.
Off(A) == A /\ UNCHANGED ledgerVars

NodeNext ==
    \/ LedgerClock
    \/ LedgerOps /\ UNCHANGED nodeVars
    \/ ClockBoundReached /\ UNCHANGED <<blocks, nodeVars>>
    \/ Off(LiveProcessBlock)
    \/ Off(LiveCheck)
    \/ Off(LiveSend)
    \/ \E n \in 1..archive.spools_stored : Off(ChallengeTick(n))
    \/ Off(ChallengeCheck)
    \/ Off(ChallengeSend)
    \/ Off(PackSegment)
    \/ Off(PackCanopy)
    \/ Off(PackFail)
    \/ Off(Crash)
    \/ Off(Start)
    \/ \E a \in AllSpools : Off(ResyncBegin(a))
    \/ Off(ResyncVisit)
    \/ Off(ResyncEnd)

\* The ledger clock advances and the node's loops run whenever they can;
\* users, operators and the recall choice get no fairness.
Fairness ==
    /\ WF_vars(LedgerClock)
    /\ WF_vars(Off(LiveProcessBlock))
    /\ WF_vars(Off(LiveCheck))
    /\ WF_vars(Off(LiveSend))
    /\ WF_vars(Off(ChallengeCheck))
    /\ WF_vars(Off(ChallengeSend))
    /\ WF_vars(Off(PackSegment))
    /\ WF_vars(Off(PackCanopy))

NodeSpec == NodeInit /\ [][NodeNext]_vars /\ Fairness

-----------------------------------------------------------------------------
(* Properties                                                              *)

Jobs == [spool : AllSpools, seg_no : SegIdx, data : Data]

NodeTypeOK ==
    /\ node \in {"up", "down"}
    /\ stops \in 0..MAX_STOPS
    /\ \A a \in AllSpools, j \in SegIdx :
         segments[a][j] \in {PackedOf(d) : d \in Data} \cup {NoSegment}
    /\ addresses \in [Numbers -> AllSpools \cup {NoAddress}]
    /\ \A a \in AllSpools : Len(layer[a].unpacked) = Len(layer[a].packed)
    /\ chan \in Seq(Jobs) /\ Len(chan) <= CHANNEL_CAPACITY
    /\ live.next \in 1..MAX_SLOT /\ live.pending \in Seq(Jobs)
    /\ pending \in Seq(Jobs)
    /\ packer.state \in {"idle", "stored"}
    /\ sending \subseteq {"live", "challenge"}
    /\ torn \subseteq AllSpools \X {SectorOf(j) : j \in SegIdx}

SectorEmpty(a, k) ==
    \A j \in SegIdx : SectorOf(j) = k => ~Stored(a, j)

\* The canopy agrees with the store (spec 4.6 and 5: each update recomputes
\* the whole sector from the store, last write wins on the layer vector):
\* every sector with a stored segment has a cached entry, and every cached
\* entry, unpacked and packed, is the root recomputed from the stored
\* segments, or the [0;32] filler of update_sector_canopy_with_key for a
\* sector with no stored segment.  Exempt are the sector the packer has
\* just stored a segment of and not yet updated, and the sectors whose
\* update a stop cut off between put_segment (pack.rs 84) and the canopy
\* update (pack.rs 91): across crashes, pack failures, restarts and
\* resyncs those are the only stale sectors, and the next update of the
\* sector, by the packer or by a resync, makes it agree again.
CanopyMatchesStore ==
    \A a \in AllSpools :
      LET inFlight(k) == \/ /\ packer.state = "stored" /\ packer.job.spool = a
                            /\ SectorOf(packer.job.seg_no) = k
                         \/ <<a, k>> \in torn
      IN
      /\ \A j \in SegIdx : Stored(a, j) /\ ~inFlight(SectorOf(j)) =>
           SectorOf(j) < Len(layer[a].unpacked)
      /\ \A k \in 0..(Len(layer[a].unpacked) - 1) : ~inFlight(k) =>
           \/ /\ layer[a].unpacked[k + 1] = UnpackedRoot(a, k, segments)
              /\ layer[a].packed[k + 1] = PackedRoot(a, k, segments)
           \/ /\ layer[a].unpacked[k + 1] = Filler
              /\ layer[a].packed[k + 1] = Filler
              /\ SectorEmpty(a, k)

\* Every segment written to a user spool on the ledger is eventually stored
\* by the node (spec 4.7): the live loop queues every segment write of every
\* finalized block, the sends wait for room in the channel, and the packer
\* drains it.
WrittenEventuallyStored ==
    \A a \in Spools, j \in SegIdx :
      (j < spool[a].total_segments) ~> Stored(a, j)

\* The live loop keeps reading finalized blocks (spec 4.5 step 2: a search
\* that finds no solution is a transient error; spec 7: loops log and
\* continue on transient per-job errors).
NodeKeepsIngesting ==
    \A s \in 1..MAX_SLOT : (slot > s) ~> (node = "up" /\ live.next > s)

\* Nothing is queued or being packed and the live loop has read the block
\* of every spool transaction.
AtRest ==
    /\ node = "up"
    /\ chan = <<>> /\ live.pending = <<>> /\ pending = <<>>
    /\ packer = Idle
    /\ \A t \in blocks : t.slot < live.next

FullyStored(a) == SegmentCount(a) = spool[a].total_segments

\* What get-spool reads from the store is what the ledger holds (spec 4.7
\* and 5: the node stores every segment write of every finalized block):
\* once the node is at rest, every finalized user spool reads back as its
\* segments, with no zero-filled gap and no stale segment.  The genesis
\* spool is written by Initialize, whose block the live loop never reads.
SpoolReadsBackAtRest ==
    AtRest =>
      \A a \in Spools \cap Finalized :
        GetSpool(a, spool[a].total_segments) = writer[a].segs

\* The spool root the node rebuilds from its canopy equals the root the
\* ledger holds (spec 4.6, "This root must equal what the on-ledger spool
\* computed"), for every finalized spool the node has fully stored, once
\* the node is at rest.  (An empty finalized spool has no canopy at all;
\* that case is the run empty_spool_finalized.)
SpoolRootAtRest ==
    AtRest =>
      \A a \in Finalized :
        spool[a].total_segments > 0 /\ FullyStored(a) =>
          /\ layer[a].unpacked # <<>>
          /\ GetSpoolRoot(a) = spool[a].merkle_root

\* A resync started on a finalized spool leaves the spool's current segments stored
\* (spec 4.7 and 5: resync packs every segment write along the prev_slot
\* chain, and the final state is that of the newest segment).  The genesis
\* spool is written by Initialize, whose block the model does not record.
ResyncRestoresLedger ==
    resync.spool \in Spools /\ resync.final /\ resync.stack = <<>> =>
      \A j \in 0..(spool[resync.spool].total_segments - 1) :
        segments[resync.spool][j] = PackedOf(writer[resync.spool].segs[j + 1])

=============================================================================
