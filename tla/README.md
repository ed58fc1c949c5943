# TLA+ models of the spool storage protocol

This directory holds TLA+ models of the on-ledger program under
`src/program/src/` and of parts of the off-ledger node under `src/network/src/`.
It also holds the TLC configurations that check them.
`PROJECT.json` maps every definition to the source lines it models and lists the runs, mutants, findings and hazards.

## 1. The system

**On-ledger program.** This is a Solana program (steel). Each instruction
handler runs atomically against the accounts passed to it. If a check fails,
the host ledger aborts the transaction and nothing changes. So a handler is one
atomic step whose guard is the conjunction of its checks. A failing call is a
stutter.

| Component | Accounts (state) | Operations |
|---|---|---|
| Spool ledger (`spool/*.rs`) | Spool, Writer (SegmentTree), Archive counters, Write/Update events | create, write, update, finalize, set_header, subsidize |
| Protocol kernel (`miner/mine.rs`) | Epoch, Block, Miner; reads and debits Spool, reads Archive | mine; register, claim and unregister are not under `src/` |
| Reels (`reel/*.rs`) | Reel (SpoolTree, contains, total_spools), Miner.commitment | create, destroy, pack, unpack, commit |
| Initialize (not under `src/`) | genesis spool, Epoch 1, Block 1 | initialize |

How the components interact:

- Finalize numbers spools `1..archive.spools_stored`.
- Mine recalls spool `1 + H(block.challenge, miner.challenge) mod block.challenge_set`, where `challenge_set` is the value of `spools_stored` captured when the block last advanced. Mine verifies a segment of that spool against its Merkle root, debits its rent and credits the miner.
- Mine advances the block once `block.progress` reaches `target_participation`. On every call it also advances the epoch's progress, and it retargets the epoch when that progress reaches `EPOCH_BLOCKS`.
- Reels let a miner commit to a packed segment. The commitment is not yet enforced by Mine.

**Off-ledger node.** `network/src/archive`:

- The orchestrator runs three tasks over one bounded job channel:
  - the live loop (not under `src/`);
  - the challenge loop, which every 10 s computes the miner's recall spool and, if fewer segments are stored than the spool has, walks the spool's Write/Update events back from `tail_slot` and enqueues the missing segments;
  - the packer, which takes one job at a time: it packs the segment, stores it and recomputes the canopy root of its sector.
- `sync_from_block`, used by the CLI's resync, walks the `prev_slot` links backwards with a visited set and a stack.

**Hard behaviours:**

- interleavings of users' spool transactions with several miners' proofs;
- block stalls and duplicate proofs;
- the `challenge_set` snapshot that is stale against later finalizations;
- counters that accumulate across transactions: rent, epoch progress and reel size;
- on the node:
  - the job channel between concurrent tasks;
  - skip-if-stored and count-only checks that can leave stale data;
  - the order of backward replay against overwriting writes;
  - a crash between storing a segment and updating its canopy.

## 2. Modules

| Module | Models | State | Actions |
|---|---|---|---|
| `Merkle` | brine_tree (spec §3) | — | operators: `LeafOf`, `NodeOf`, `ZeroValue`, recursive `SubRoot`, `TreeRoot`, `SegmentLeaves` |
| `SpoolArchive` | the spool store of spec §2 and §4.1, abstractly | `spools` (state, segment log, published root, number), `stored` (archive totals) | `Open`, `AppendSegments`, `Replace`, `Freeze` |
| `SpoolLedger` | `spool/*.rs` | `slot`, `spool`, `writer`, `archive`, `log` | `SpoolCreate`, `SpoolWrite`, `SpoolUpdate`, `SpoolFinalize`, `SpoolSetHeader`, `SpoolSubsidize`, `AdvanceSlot` |
| `Protocol` (extends `SpoolLedger`) | `miner/mine.rs` | `now`, `epoch`, `block`, `miner`, and the history variables `rentPaid` and `epochStart` | `Mine`, `Register`, `Claim`, `Unregister`, `AdvanceTime`, and every spool handler with the kernel unchanged |
| `Reel` | `reel/*.rs` | `reel`, `commitment`, and the history variable `packedBy` (per authority) | `ReelCreate`, `ReelDestroy`, `ReelPack`, `ReelUnpack`, `ReelCommit` |
| `Node` (extends `SpoolLedger`) | `archive/orchestrator.rs`, `challenge.rs`, `sync.rs`, `helpers.rs`, `pack.rs`, `store/column/spool.rs`, the CLI's `handle_resync` and `handle_get_spool` | the ledger plus the history variable `blocks`; the store (`segments`, `addresses`, `layer`); the process (`node`, `stops`, `chan`, `live`, `pending`, `sending`, `packer`); the CLI walk (`resync`); the history variable `torn` | `LiveProcessBlock`, `LiveCheck`, `LiveSend`, `ChallengeTick`, `ChallengeCheck`, `ChallengeSend`, `PackSegment`, `PackCanopy`, `PackFail`, `Crash`, `Start`, `ResyncBegin`, `ResyncVisit`, `ResyncEnd`, and the spool handlers |
| `MC_*` | TLC instances | model values for addresses, data and miners | — |

Correspondence with the code:

- A record field of a variable keeps the name of the account field it models.
- The helpers of `process_mine` are operators named after the Rust functions: `CheckSubmission`, `VerifySolution`, `UpdateMultiplier`, `CalculateReward`, `UpdateMinerState`, `UpdateSpoolBalance`, `AdvanceBlock`, `UpdateEpoch`, `AdvanceEpoch`, `AdjustParticipation`, `AdjustDifficulty` and `GetBaseRate`.
- `Mine` composes the helpers in the order the handler calls them:
  1. the re-entry check;
  2. the recall spool;
  3. the solution;
  4. the multiplier;
  5. the reward;
  6. the miner update;
  7. the rent debit, using the old block number;
  8. block progress and advance;
  9. the duplicate count and the epoch update.

How `Node` corresponds to the code:

- **Store.** `segments`, `addresses` and `layer` are the store's columns, and they survive a restart. `layer[a]` holds the cached unpacked and packed sector roots of the layer `SECTOR_TREE_HEIGHT`.
- **Process.** The job channel, the tasks' local state and the packer's current job are in memory and are lost when the node stops.
- **Channel.** `chan` is the bounded `queue::channel`. A send blocks while it is full (`CanSend`).
- **Stored check, then send.** Both loops first test whether the job's segment is stored (`AlreadyStored`, `sync.rs` 56-58) and skip it if so; otherwise the task suspends in `tx.send(job).await` (`sync.rs` 66). `LiveCheck`/`ChallengeCheck` and `LiveSend`/`ChallengeSend` are these two steps, and `sending` names the tasks between them. A job checked as missing can therefore be sent after the other loop's job for the same segment was packed.
- **Live loop.** The live loop (`live::run`) is not under `src/` and is modelled from spec 4.7. It reads finalized blocks in order, upserts the finalized spools' addresses, and enqueues the block's segment writes unless already stored.
- **Challenge loop.** One iteration of `challenge::run` is `ChallengeTick` followed by a `ChallengeCheck` and, unless the segment is stored, a `ChallengeSend` per segment. The recall number is any number up to `spools_stored`, with no fairness.
- **Packer.** `pack_segment` is two steps: `PackSegment` stores the packed segment (`put_segment`), and `PackCanopy` recomputes the sector's canopy. A crash can fall between them; the history variable `torn` records the sector whose update it cut off, until the next update of that sector.
- **Failure.** `PackFail` is `solve_with_memory` finding no solution. `.await??` ends `pack::run`, and then the node.
- **Restart.** `Start` is a restart of `orchestrator::run`. Its `init` looks up the missing addresses, and any subset of the lookups may fail and be dropped.
- **Resync.** `ResyncBegin`, `ResyncVisit` and `ResyncEnd` are `handle_resync`/`sync_from_block`. The CLI opens the primary store, so a resync runs only while the node is down.
- **Read-back.** `GetSpool` is the CLI's `handle_get_spool`. It reads segments `0..total_segments-1` from the store and unpacks each one, and a missing segment becomes `ZeroSegment`, as `[0u8; SEGMENT_SIZE]` does in the code. It changes no state, so it is an operator that a property applies, not an action.
- **Block contents.** `blocks` records each spool transaction with its slot, `prev_slot`, segment writes and position in the block. `SegmentWrites` rebuilds `process_block`'s map keyed by (address, segment number, `prev_slot`), where the later of two writes with one key wins.

**Refinement.** `SpoolArchive` states what the spool program promises, with no accounts, rent or events. A spool is a log of segments. It is opened, grows by appends and has segments replaced, and it is frozen under the next archive number. Its published root is always the Merkle root of its log, and a frozen spool has no step. `SpoolLedger` instantiates it as `Archive` with this refinement mapping:

- `spools[a]` is made of `spool[a].state`, the writer's `segs`, `spool[a].merkle_root` and `spool[a].number`;
- `stored` is `archive.spools_stored` and `archive.segments_stored`.

`ImplementsArchive` (`Archive!Spec`) is checked as a property. Under the mapping:

- Create is `Open`;
- Write is `AppendSegments`;
- Update is `Replace`;
- Finalize is `Freeze`;
- SetHeader, Subsidize and the clock are stutters.

So a root that is not recomputed from the new log, a number that is not the next one, or a finalized spool that is written, updated or re-created is a refinement violation.

Abstractions:

- **Hashes are injective.** A Merkle node is the pair of its children. `compute_challenge` is the pair code of its inputs, so the recall spool is computed exactly as the code computes it.
- **Fresh challenges are nondeterministic.** A challenge mixed with `slot_hashes[0]` is any value of `0..HASH_SPACE-1`.
- **Solutions are assumed found.** The one failure of `verify_solution` that no solution can avoid is modelled: the modulo by a zero `total_segments`.
- **Data.** Payloads are model values, and a Write carries 0 to `MAX_WRITE_SEGMENTS` chunks.
- **Rent helpers.** These are `rent_owed`, `has_minimum_rent`, `can_finalize` and `block_reward` in the api crate. They are not under `src/`. They are modelled from the spec and marked `spec_modelled` in the map.
- **Packing.** A packed segment is the record `PackedOf(d)`, and `Unpack` gives `d` back. So the unpacked leaf equals the on-ledger leaf, and the packed leaf differs from it.
- **Node bounds.** The Node runs leave out `SetHeader` and `Subsidize`, since the node never reads the header or the balance. They run with no rent.
- **Reel authorities.** `process_reel_create` requires the signer to be the authority of the miner the reel's address is derived from and stores it as `reel.authority`, so `ReelAuthority(r)` is `Authority[ReelMiner[r]]`. Pack, Unpack and Destroy check only that authority, and Commit checks that the signer is the authority of both the miner and the reel: any miner of that authority may commit from the reel.
- **Reel spools.** `Reel` takes the finalized spools as a constant set of numbers. Finalized spools never change (`ImplementsArchive`: a frozen spool of `SpoolArchive` has no step), so this over-approximates the ledger for Pack.

## 3. Runs

| Run | Config | Expect | What it shows |
|---|---|---|---|
| `spool_ledger` | `MC_SpoolLedger.cfg` | pass | The archive counters equal the finalized spools and their segments, with numbers `1..spools_stored`. The handlers implement `SpoolArchive` (`ImplementsArchive`). Every slot in which Write or Update mutated a spool is on the chain of `prev_slot` links its WriteEvents and UpdateEvents form back from `tail_slot` (spec §3, "Critical invariants"). This is the ledger's chain; the node's `sync_from_block` follows only segment-write keys, which an empty Write lacks (hazard `sync.rs:244`). |
| `empty_spool_finalized` | `MC_SpoolLedger_empty.cfg` | violation | Create, an empty Write, then Finalize gives a finalized spool with 0 segments. The comment at `finalize.rs:50` says this cannot happen. |
| `protocol` | `MC_Protocol.cfg` | pass | Every number a miner can be asked to recall has exactly one finalized spool. Miners whose last proof is in the current block never outnumber `block.progress`. |
| `rent_overcharge` | `MC_Protocol_rent.cfg` | violation | Three proofs at blocks 1, 2 and 3 charge 6 blocks of rent, because `last_rent_block` is never advanced. |
| `epoch_length` | `MC_Protocol_epoch.cfg` | violation | Once `target_participation` is 2, an epoch ends after 1 block instead of `EPOCH_BLOCKS` = 2, because progress counts proofs. |
| `reel` | `MC_Reel.cfg` | pass | Authority a1 owns miners m1 and m2, authority a2 owns m3, and m1 and m3 have a reel each. A miner's commitment is always a leaf of a root that the miner's authority packed, although reels are destroyed and re-created and m2 can commit from m1's reel. |
| `node` | `MC_Node.cfg` | pass | Five properties hold with the three tasks over a channel of capacity 1, each send suspending after its stored check, so the same segment can be queued by both loops. (1) The channel never exceeds its capacity. (2) Every cached sector root, except the one the packer is updating, is the recomputation from the stored segments. (3) With no updates and no faults, the root `get_spool_root` builds at rest from the canopy equals the ledger's root for every fully stored finalized spool (`SpoolRootAtRest`, the property the three violation runs below break). (4) At rest, the CLI's `get-spool` (`GetSpool`, `handle_get_spool`) reads every finalized user spool back as its ledger segments, with no zero-filled gap (`SpoolReadsBackAtRest`). (5) Under weak fairness of the node's loops, every written segment is eventually stored. |
| `node_faults` | `MC_Node_faults.cfg` | pass | `CanopyMatchesStore` across crashes, fatal pack failures, restarts that drop lookups, and CLI resyncs: the canopy departs from the store only in a sector whose update a stop cut off after `put_segment` (`torn`), and the next update of that sector, by the packer or by a resync, brings it back in line. Without the `torn` exemption TLC finds the crash. |
| `stale_update` | `MC_Node_stale.cfg` | violation | A Write of d1 is packed and an Update to d2 follows. The live loop skips d2 as already stored, and the count check never repairs it. At rest, `get_spool_root` differs from the ledger. |
| `crash_canopy` | `MC_Node_crash.cfg` | violation | The node crashes between `put_segment` and the canopy update. After the restart the segment is counted and skipped, so the canopy layer stays empty. |
| `resync_order` | `MC_Node_resync.cfg` | violation | Only non-empty Writes occur. The resync packs a block's writes in map order (or a newer slot before its parent), so an older value of segment 0 ends up stored. |
| `pack_failure` | `MC_Node_packfail.cfg` | violation | A single job with no solution ends the packer and the node, so ingestion stops. |

Every property of a passing run has a mutant in `PROJECT.json`: a plausible bug in a mapped definition (a dropped guard, an off-by-one or a missing update) under which TLC finds that property violated.

### Bounds

**`spool_ledger`.**
- Bounds: 2 user spools, 2 data values, a segment limit of 2, writes of up to 2 chunks and 3 slots.
- About 630k states, in about 2.5 min (1 min without the refinement property).
- These bounds reach:
  - two spools finalized in either order;
  - an empty write;
  - a full spool, where a further write is refused;
  - updates in a later slot than the write;
  - subsidies up to the finalization rent.

**`protocol`.**
- Bounds: 2 miners (symmetric), 2 challenge values, 4 blocks, 2 time units, `EPOCH_BLOCKS` = 2 and `ADJUSTMENT_INTERVAL` = 1.
- One user spool of at most one segment, and a single slot.
- About 340k states, in about 25 s.
- These bounds reach:
  - a stalled block with a duplicate proof;
  - an epoch advance that raises the target to 2;
  - a rent-expired spool, mined at half reward;
  - a user spool finalized between block advances;
  - an empty finalized spool that blocks a recall.

**`node`.**
- Bounds: one user spool and genesis, one data value, up to 3 segments (`SEGMENT_TREE_HEIGHT` = 2) and writes of 1, `SECTOR_LEAVES` = 2 (`SECTOR_TREE_HEIGHT` = 1, so a two-leaf sector 0 and a sector 1 whose second leaf is empty), channel capacity 1, 3 slots and 2 transactions per block.
- About 52k states, in about 40 s, including the liveness check.
- These bounds reach:
  - a three-segment spool finalized, fully stored and at rest, so `SpoolRootAtRest` compares a canopy of two sector roots, each over two leaves, with the ledger's root;
  - a full channel with both loops waiting;
  - the same segment queued by both loops, the second after the first was packed;
  - the challenge loop syncing genesis.
- A 3rd transaction per block multiplies the liveness check's time by 8.

**`node_faults`.**
- Bounds: one user spool and genesis, one data value, up to 2 segments with `SECTOR_LEAVES` = 1, writes of 1, channel capacity 1, 3 slots and 2 transactions per block, plus 2 stops, crashes and pack failures.
- About 330k states, in about 20 s.
- A crash falls between `put_segment` and the canopy update, and a later pack or resync of the sector clears it.
- Every Node action fires here: both branches of `ResyncVisit`, `PackFail`, `Crash` and `Start` with dropped lookups.

**The violation configs** raise the bound that the violation needs:
- balance 6 and 4 blocks for the rent run;
- 6 blocks for the epoch run;
- 2 user-visible data values, a stop and crashes for the node runs.

### Fairness

Mining, claiming and every spool call are user decisions, so no fairness is justified for them on the ledger.

`Node` assumes weak fairness of the following:
- the ledger clock, since slots keep coming;
- the live loop's read, stored check and send;
- the challenge loop's stored check and send;
- the packer's two steps.

Each of these is a task loop that runs whenever it is enabled (`while let Some(job) = rx.recv().await`, `loop { ... sleep(10s) }`). No fairness is assumed for the following:
- the recall choice (`ChallengeTick`), which depends on the block's challenge;
- users;
- crashes;
- the operator's restart and resync.

`WrittenEventuallyStored` is checked without stops. `NodeKeepsIngesting` fails once a pack failure stops the node, because no fair action restarts it.

**Deadlock.** Deadlock checking stays on. When every clock bound is exhausted, the models take an explicit stuttering step (`ClockBoundReached`, `BoundsReached`), so they do not stop.

## 4. Findings

1. **Empty spools can be finalized** (`finalize.rs:50`, `write.rs:47`).
   - A Write with empty data makes the spool Writing with no segments, and Finalize accepts it.
   - Its minimum rent is 0.
   - Every later Mine that recalls it computes a segment index modulo 0 and aborts (`mine.rs:219`).
2. **Rent is charged cumulatively** (`mine.rs:311`).
   - `last_rent_block` is never assigned under `src/`.
   - The spec (§4.2 step 9) says it is updated when rent is charged.
3. **Epochs are counted in proofs** (`mine.rs:335`).
   - With participation targets above 1, an epoch spans fewer than `EPOCH_BLOCKS` blocks.
   - `adjust_difficulty` still divides by `EPOCH_BLOCKS`.
4. **Updated segments stay stale on the node** (`helpers.rs:17`, `sync.rs:56`).
   - Sync compares counts, and the sends skip stored segments, so a later Update is never packed.
   - Spec 4.6 requires the node's spool root to equal the ledger's.
5. **A crash between storing and the canopy update is never repaired** (`pack.rs:84-91`).
6. **Resync can restore older data** (`sync.rs:262`, `sync.rs:278`).
   - Writes are packed in map order within a block and newest slot first, and the put overwrites.
   - Spec §5 says the final state is that of the newest segment.
7. **A missing packx solution stops the node** (`pack.rs:44`, `pack.rs:70`).
   - Spec 4.5 and §7 call it transient and say the loops log and continue.

## 5. Not modelled, and the plan

Not modelled, because it is pure I/O or has no protocol state:
- metrics;
- trusted-peer HTTP;
- the CLI printing;
- the client transaction builders;
- the example and the benches;
- the api type declarations.

These hazards are covered only in part, or not at all, by the runs. They are listed in `PROJECT.json`:
- **The reel limit is off by one** (`reel/pack.rs:37`).
  - Pack's `<=` check admits one spool too many; only `try_add_leaf` refuses a leaf once the SpoolTree holds `2^SPOOL_TREE_HEIGHT`.
  - Both constants are api constants outside `src/` with no value in the spec, so whether the capacity exceeds the limit cannot be decided here, and no property is stated.
- **Commit does not tie the reel to the miner** (`reel/commit.rs:49`).
  - `CommitmentPacked` holds per authority. That a miner commits only from its own reel, packed with its own key, is spec 4.3's intent, and Mine does not check commitments yet, so no run asserts it.
- **Failed address lookups** (`sync.rs:176`).
  - The dropped lookups are modelled in `Start`. Nothing says by when a spool's missing address must be found again, so no property is stated.
- **The `[0;32]` gap** (`pack.rs:310`).
  - With at most one segment per Write and writes packed in order, sector 1 is never packed before sector 0 at these bounds, so the `Filler` branch of `CanopyMatchesStore` is not reached.
- **An empty Write cuts the resync walk** (`sync.rs:244`).
  - Parent slots come only from segment-write keys.
  - `resync_order` excludes empty Writes to isolate the overwrite. Without that restriction, TLC reports this cut first for `ResyncRestoresLedger`.
- **Writes missed across a restart** (`orchestrator.rs:30`).
  - `SpoolReadsBackAtRest` would catch them, but the `node` run has no restarts.
  - Where the live loop resumes after a restart is modelled from the spec, because `live::run` is not under `src/`. So no run asserts the read-back across restarts.

Not modelled in `Node`:
- the trusted-peer branch of `get_spool_addresses` (`sync.rs` 103-143), which is HTTP. Like the Solana branch, it looks up the missing numbers, 10 at a time, and keeps the lookups that succeed, so for a peer with correct addresses it adds nothing that `Start` does not already do;
- `get_or_create_empty_hashes` caching (its value is `Merkle!ZeroValue`);
- the metrics counters.

A widened packer (several workers, spec §5 and the TODO at `pack.rs:22`) is not the code, so it is not modelled. `update_sector_canopy_with_key` rewrites the whole layer vector (`pack.rs:308`), and concurrent workers would lose sector roots.

Planned next, in order:

1. **A taller canopy.**
   - The `node` run checks `get_spool_root` against the ledger's root over two sectors of two leaves, so the canopy tree above the sector layer has height 1.
   - Four sectors (`SEGMENT_TREE_HEIGHT` = 3) would give a canopy of height 2, with gaps inside it. That needs about six writes per spool, beyond the slot and block bounds the liveness check allows.
2. **Miner re-registration** (`mine.rs:177`).
   - Unregister followed by Register in the same block, against the re-entry check.
   - Spec §8 ("Duplicate submission") does not say whether a miner account that was destroyed and then created again counts as the same miner. A property keyed on the address would decide that question instead of checking the code, so the hazard stays without one.
