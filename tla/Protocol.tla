------------------------------ MODULE Protocol ------------------------------
(***************************************************************************)
(* The protocol kernel: process_mine (program/src/miner/mine.rs) with the *)
(* Epoch, Block and Miner accounts it advances, composed with the spool   *)
(* ledger whose finalized spools it recalls and whose rent it collects.   *)
(*                                                                         *)
(* Hashes: H(block.challenge || miner.challenge) is modelled as the        *)
(* injective pair code of its inputs, so the recall spool is its value    *)
(* modulo challenge_set; the hashes that mix in slot_hashes[0] (a value   *)
(* the transaction cannot choose) are modelled as any value of the hash   *)
(* space.  Proof-of-work and packing solutions are assumed found: a       *)
(* submission that fails verification aborts and is a stuttering step.    *)
(***************************************************************************)
EXTENDS SpoolLedger

CONSTANTS
    Miners,                         \* miner accounts (authority, name) pairs
    HASH_SPACE,                     \* challenges are 0..HASH_SPACE-1
    EPOCH_BLOCKS,
    BLOCK_DURATION_SECONDS,
    ADJUSTMENT_INTERVAL,
    MIN_PARTICIPATION_TARGET, MAX_PARTICIPATION_TARGET,
    MIN_MINING_DIFFICULTY,
    MIN_CONSISTENCY_MULTIPLIER, MAX_CONSISTENCY_MULTIPLIER,
    EPOCHS_PER_YEAR,
    BASE_RATES,                     \* get_base_rate's table, one entry per year
    STORAGE_RATE,                   \* Archive::block_reward per stored segment
    MAX_BLOCK,                      \* bound on block.number (modelling artifact)
    MAX_TIME                        \* bound on the unix clock (modelling artifact)

ASSUME MIN_PARTICIPATION_TARGET >= 1
ASSUME MIN_CONSISTENCY_MULTIPLIER <= MAX_CONSISTENCY_MULTIPLIER

Challenges == 0..(HASH_SPACE - 1)

VARIABLES
    now,        \* Clock::get().unix_timestamp
    epoch,      \* the Epoch singleton
    block,      \* the Block singleton
    miner,      \* miner account per address; registered = the account exists
    rentPaid,   \* ghost: rent deducted from each spool so far
    epochStart  \* ghost: block.number when the current epoch began

kernelVars == <<now, epoch, block, miner, rentPaid, epochStart>>
vars == <<spoolVars, kernelVars>>

-----------------------------------------------------------------------------
(* Helpers of mine.rs and the api crate                                    *)

CapAt(x, hi) == IF x > hi THEN hi ELSE x
FloorAt(x, lo) == IF x < lo THEN lo ELSE x

\* compute_challenge: H(block.challenge || miner.challenge).
ComputeChallenge(bc, mc) == bc * HASH_SPACE + mc

\* compute_recall_spool: 1 + (u64 of the challenge) mod challenge_set.
ComputeRecallSpool(c, challengeSet) == 1 + (c % challengeSet)

\* get_base_rate: the yearly table, zero after its last year.
GetBaseRate(n) ==
    IF n < Len(BASE_RATES) * EPOCHS_PER_YEAR
    THEN BASE_RATES[(n \div EPOCHS_PER_YEAR) + 1]
    ELSE 0

\* Archive::block_reward (api crate): the storage reward of the archive.
BlockReward(arch) == arch.segments_stored * STORAGE_RATE

\* has_stalled: no block has opened for BLOCK_DURATION_SECONDS.
HasStalled(blk, t) == t > blk.last_proof_at + BLOCK_DURATION_SECONDS

\* update_multiplier: +1 for a proof in the block right after the last one.
UpdateMultiplier(mn, blk) ==
    IF mn.last_proof_block + 1 = blk.number
    THEN CapAt(mn.multiplier + 1, MAX_CONSISTENCY_MULTIPLIER)
    ELSE FloorAt(SatSub(mn.multiplier, 1), MIN_CONSISTENCY_MULTIPLIER)

\* get_scaled_reward and calculate_reward: an equal share of the epoch rate,
\* scaled by the multiplier, halved for a spool whose rent has run out.
GetScaledReward(r, mult) == (r * mult) \div MAX_CONSISTENCY_MULTIPLIER

CalculateReward(ep, sp, mult) ==
    LET scaled == GetScaledReward(ep.reward_rate \div ep.target_participation, mult)
    IN IF HasMinimumRent(sp) THEN scaled ELSE scaled \div 2

\* adjust_participation: raise every ADJUSTMENT_INTERVAL epochs without
\* duplicates, lower after any epoch with duplicates.
AdjustParticipation(ep) ==
    IF ep.duplicates = 0
    THEN IF ep.number % ADJUSTMENT_INTERVAL = 0
         THEN CapAt(ep.target_participation + 1, MAX_PARTICIPATION_TARGET)
         ELSE ep.target_participation
    ELSE FloorAt(SatSub(ep.target_participation, 1), MIN_PARTICIPATION_TARGET)

\* adjust_difficulty: harder if the epoch's average block time was short.
AdjustDifficulty(ep, t) ==
    IF (t - ep.last_epoch_at) \div EPOCH_BLOCKS < BLOCK_DURATION_SECONDS
    THEN ep.mining_difficulty + 1
    ELSE FloorAt(SatSub(ep.mining_difficulty, 1), MIN_MINING_DIFFICULTY)

\* advance_epoch: retarget participation and difficulty, reset counters.
AdvanceEpoch(ep, t) ==
    [ep EXCEPT
        !.number = @ + 1,
        !.target_participation = FloorAt(AdjustParticipation(ep), MIN_PARTICIPATION_TARGET),
        !.mining_difficulty = FloorAt(AdjustDifficulty(ep, t), MIN_MINING_DIFFICULTY),
        !.progress = 0,
        !.duplicates = 0,
        !.last_epoch_at = t]

\* Mutant of UpdateEpoch: the epoch advances one call late.
UpdateEpochLate(ep, arch, t) ==
    IF ep.progress > EPOCH_BLOCKS
    THEN [AdvanceEpoch(ep, t) EXCEPT
            !.reward_rate = BlockReward(arch) + GetBaseRate(ep.number + 1)]
    ELSE [ep EXCEPT !.progress = @ + 1]

\* update_epoch: every call either counts one more step of progress or,
\* once progress reached EPOCH_BLOCKS, advances the epoch and resets the
\* reward rate for the new epoch number.
UpdateEpoch(ep, arch, t) ==
    IF ep.progress >= EPOCH_BLOCKS
    THEN [AdvanceEpoch(ep, t) EXCEPT
            !.reward_rate = BlockReward(arch) + GetBaseRate(ep.number + 1)]
    ELSE [ep EXCEPT !.progress = @ + 1]

\* Mutants of AdvanceBlock: challenge_set off by one; block number not bumped.
AdvanceBlockSetOffByOne(blk, t, c, arch) ==
    [number |-> blk.number + 1, progress |-> 0, last_proof_at |-> t,
     challenge |-> c, challenge_set |-> arch.spools_stored + 1]

AdvanceBlockSameNumber(blk, t, c, arch) ==
    [number |-> blk.number, progress |-> 0, last_proof_at |-> t,
     challenge |-> c, challenge_set |-> arch.spools_stored]

\* advance_block followed by the new challenge and challenge set that
\* process_mine writes into the block it just advanced.
AdvanceBlock(blk, t, c, arch) ==
    [number |-> blk.number + 1, progress |-> 0, last_proof_at |-> t,
     challenge |-> c, challenge_set |-> arch.spools_stored]

-----------------------------------------------------------------------------

NoMiner == [registered |-> FALSE, challenge |-> 0, multiplier |-> 0,
            last_proof_block |-> 0, last_proof_at |-> 0, unclaimed_rewards |-> 0]

\* Initialize (program/src/program, not under src/): epoch 1 and block 1 over
\* the genesis spool (integration.rs verify_epoch_account/verify_block_account).
Init ==
    /\ SpoolInit
    /\ now = 0
    /\ epoch = [number |-> 1, progress |-> 0,
                mining_difficulty |-> MIN_MINING_DIFFICULTY,
                target_participation |-> MIN_PARTICIPATION_TARGET,
                reward_rate |-> GetBaseRate(1), duplicates |-> 0, last_epoch_at |-> 0]
    /\ block \in [number: {1}, progress: {0}, challenge: Challenges,
                  challenge_set: {1}, last_proof_at: {0}]
    /\ miner = [m \in Miners |-> NoMiner]
    /\ rentPaid = [a \in AllSpools |-> 0]
    /\ epochStart = 1

\* The unix clock advances.
AdvanceTime ==
    /\ now < MAX_TIME
    /\ now' = now + 1
    /\ UNCHANGED <<spoolVars, epoch, block, miner, rentPaid, epochStart>>

\* Register (miner/register, not under src/): a fresh miner account with the
\* fields integration.rs register_miner asserts, and some initial challenge.
Register(m) ==
    /\ ~miner[m].registered
    /\ \E c \in Challenges :
         miner' = [miner EXCEPT ![m] = [NoMiner EXCEPT !.registered = TRUE, !.challenge = c]]
    /\ UNCHANGED <<spoolVars, now, epoch, block, rentPaid, epochStart>>

\* Claim (miner/claim, not under src/): withdraw unclaimed rewards, failing
\* with ClaimTooLarge beyond the balance.
Claim(m) ==
    /\ miner[m].registered
    /\ \E amt \in 1..miner[m].unclaimed_rewards :
         miner' = [miner EXCEPT ![m].unclaimed_rewards = @ - amt]
    /\ UNCHANGED <<spoolVars, now, epoch, block, rentPaid, epochStart>>

\* Unregister (miner/unregister, not under src/): needs zero unclaimed rewards.
Unregister(m) ==
    /\ miner[m].registered
    /\ miner[m].unclaimed_rewards = 0
    /\ miner' = [miner EXCEPT ![m] = NoMiner]
    /\ UNCHANGED <<spoolVars, now, epoch, block, rentPaid, epochStart>>

\* check_submission: a second proof in the same block is accepted only once
\* the block has stalled (and then counts as a duplicate).
CheckSubmission(mn, blk, t) ==
    mn.last_proof_block = blk.number => HasStalled(blk, t)

\* verify_solution: the PoW/PoA solutions are taken as found; what no
\* solution can satisfy is a rent-holding spool with no segments, whose
\* recall segment is computed modulo total_segments = 0 (a panic).
VerifySolution(sp) ==
    HasMinimumRent(sp) => sp.total_segments > 0

\* update_miner_state: credit the reward, record the proof, next challenge.
UpdateMinerState(mn, mult, reward, blk, t, c) ==
    [mn EXCEPT !.multiplier = mult,
               !.unclaimed_rewards = @ + reward,
               !.last_proof_at = t,
               !.last_proof_block = blk.number,
               !.challenge = c]

\* update_spool_balance: deduct rent_owed(block_number), saturating.
UpdateSpoolBalance(sp, n) ==
    [sp EXCEPT !.balance = SatSub(@, RentOwed(sp, n))]

\* process_mine by miner m against spool account s.
Mine(m, s) ==
    LET mn        == miner[m]
        sp        == spool[s]
        challenge == ComputeChallenge(block.challenge, mn.challenge)
        mult      == UpdateMultiplier(mn, block)
        reward    == CalculateReward(epoch, sp, mult)
        progress  == block.progress + 1
        ep0       == IF mn.last_proof_block = block.number
                     THEN [epoch EXCEPT !.duplicates = @ + 1] ELSE epoch
    IN
    /\ mn.registered
    /\ block.number < MAX_BLOCK
    /\ CheckSubmission(mn, block, now)
    \* the spool passed must be the recall spool (UnexpectedSpool)
    /\ sp.number = ComputeRecallSpool(challenge, block.challenge_set)
    /\ VerifySolution(sp)
    \* get_scaled_reward asserts the updated multiplier is in range
    /\ mult \in MIN_CONSISTENCY_MULTIPLIER..MAX_CONSISTENCY_MULTIPLIER
    /\ \E nextMinerChallenge, nextBlockChallenge \in Challenges :
         /\ miner' = [miner EXCEPT ![m] =
                        UpdateMinerState(mn, mult, reward, block, now, nextMinerChallenge)]
         /\ block' = IF progress >= epoch.target_participation
                     THEN AdvanceBlock(block, now, nextBlockChallenge, archive)
                     ELSE [block EXCEPT !.progress = progress]
    /\ spool' = [spool EXCEPT ![s] = UpdateSpoolBalance(sp, block.number)]
    /\ epoch' = UpdateEpoch(ep0, archive, now)
    /\ rentPaid' = [rentPaid EXCEPT ![s] = @ + (sp.balance - spool'[s].balance)]
    /\ epochStart' = IF epoch'.number # epoch.number THEN block'.number ELSE epochStart
    /\ UNCHANGED <<slot, writer, archive, log, now>>

\* Every clock bound is exhausted: only stuttering remains.
BoundsReached ==
    /\ slot = MAX_SLOT /\ now = MAX_TIME
    /\ UNCHANGED vars

Next ==
    \/ SpoolNext /\ UNCHANGED kernelVars
    \/ AdvanceTime
    \/ \E m \in Miners :
         \/ Register(m)
         \/ Claim(m)
         \/ Unregister(m)
         \/ \E s \in AllSpools : Mine(m, s)

Spec == Init /\ [][Next \/ BoundsReached]_vars

-----------------------------------------------------------------------------
(* Properties                                                              *)

TypeOK ==
    /\ SpoolTypeOK
    /\ now \in 0..MAX_TIME
    /\ block.number \in 1..MAX_BLOCK
    /\ block.challenge \in Challenges
    /\ epoch.progress \in 0..EPOCH_BLOCKS
    /\ epoch.target_participation \in MIN_PARTICIPATION_TARGET..MAX_PARTICIPATION_TARGET
    /\ epoch.mining_difficulty >= MIN_MINING_DIFFICULTY
    /\ \A m \in Miners :
         /\ miner[m].challenge \in Challenges
         /\ miner[m].last_proof_block > 0 =>
              miner[m].multiplier \in MIN_CONSISTENCY_MULTIPLIER..MAX_CONSISTENCY_MULTIPLIER

\* Every spool number a miner can be asked to recall in the current block
\* (1..challenge_set, snapshotted from Archive.spools_stored when the block
\* opened) belongs to exactly one finalized spool, so the recall spool
\* always exists however finalizations and block advances interleave.
RecallSpoolExists ==
    /\ block.challenge_set >= 1
    /\ \A n \in 1..block.challenge_set :
         Cardinality({a \in Finalized : spool[a].number = n}) = 1

\* Every miner whose last proof is in the current block was counted in
\* block.progress: re-entry into a block is refused unless it stalled, and
\* advancing the block both resets progress and moves to a new number.
ProofsCounted ==
    Cardinality({m \in Miners : miner[m].registered /\ miner[m].last_proof_block = block.number})
      <= block.progress

\* Rent is charged per block elapsed (spec 4.2 step 9: subtract owed rent
\* and update last_rent_block): what update_spool_balance has deducted from a
\* spool never exceeds its rent per block times the blocks that have passed.
RentNotOvercharged ==
    \A a \in AllSpools :
      rentPaid[a] <= RentPerBlock(spool[a].total_segments) * block.number

\* An epoch is the retargeting window of EPOCH_BLOCKS blocks (spec glossary,
\* section 8 scenario; adjust_difficulty divides the epoch's elapsed time by
\* EPOCH_BLOCKS as the number of blocks it spanned): when update_epoch
\* advances the epoch, at least EPOCH_BLOCKS blocks have opened in it.
EpochSpansEpochBlocks ==
    [][epoch'.number # epoch.number => block'.number - epochStart >= EPOCH_BLOCKS]_vars

=============================================================================
