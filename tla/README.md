# TLA+ models of Lodestar's operation pool, seen caches, validator signing and APIs

This directory holds TLA+ specifications of the safety-critical core of the
Lodestar beacon node and validator client described in `spec.md`: the
operation pool that stores slashings and exits and selects them for blocks,
the finality-pruned "seen" caches, the validator signing store with its
slashing protection, the chain event handlers that drive pruning, the
beacon state query API and the metrics HTTP server.
Every module is written from the TypeScript under `src/`; the few pieces of
behaviour whose code is not in `src/` (gossip validation, the slashing
protection database, the state transition's acceptance rules) are modelled
from `spec.md` and are marked `spec_modelled` in `PROJECT.json`.

## 1. Inventory

### Components, state and operations

| Component | Source | State | Operations |
|---|---|---|---|
| Operation pool | `lodestar/src/chain/opPools/opPool.ts` | three insertion-ordered maps (`attesterSlashings` root -> {slashing, intersectingIndices}, `proposerSlashings` index -> slashing, `voluntaryExits` index -> exit) and the never-pruned set `attesterSlashingIndexes` | `insert*`, `hasSeen*`, `getSlashingsAndExits(state)`, `pruneAll(headState)`, `toPersisted` (diff sync, `persistDiff`), `fromPersisted` (restart) |
| Pool persistence | `opPool.ts` `persistDiff`, `db/beacon.ts` | three DB repositories keyed by root / validator index | `keys`, `batchPut`, `batchDelete`, `entries`/`values` |
| Seen block proposers | `lodestar/src/chain/seenCache/seenBlockProposers.ts` | `proposerIndexesBySlot` (slot -> set), `finalizedSlot` | `isKnown`, `add` (throws below the horizon), `prune(finalizedSlot)` |
| Chain event coordinator | `lodestar/src/chain/eventHandlers.ts` | the emitter's handler table | `onClockSlot`, `onClockEpoch`, `onCheckpoint` (emits justified/finalized), `onForkChoiceFinalized` (prunes seen proposers and the op pool with the cached head state), `onForkChoiceHead`, `wrapHandler` (errors are logged, never propagated), abort unregisters all handlers |
| Beacon pool API | `lodestar/src/api/impl/beacon/pool/index.ts` | none of its own; writes the op pool, attestation pool, sync committee pool | `submitPoolAttesterSlashing` / `ProposerSlashing` / `VoluntaryExit` (await gossip validation, then insert and publish), `submitPoolAttestations` and `submitPoolSyncCommitteeSignatures` (items in parallel, errors collected, one error rethrown as is, several combined) |
| Validator signing store | `validator/src/services/validatorStore.ts` | `validators` pubkey -> Signer (local or remote), fee recipients | `addSigner` (replace), `removeSigner`, `signBlock` (future-slot guard, slashing protection, sign), `signAttestation` (future-epoch guard, duty consistency, slashing protection, sign), the other `sign*` duties (no protection), `getSignature` (unknown key error, local sign, remote call that may fail) |
| Slashing protection | not in `src/` (interface used by `validatorStore.ts`); `spec.md` §4.3 | per pubkey the signed-block and signed-attestation history, durable | `checkAndInsertBlockProposal`, `checkAndInsertAttestation`, interchange import/export |
| Block proposing service | `validator/src/services/block.ts` | none; may run several times at once for one slot | `notifyBlockProductionFn` (genesis guard, all proposers in parallel), `createAndPublishBlock` (randao, produce, fee-recipient check, `signBlock`, publish; errors caught per key) |
| Beacon state API | `lodestar/src/api/impl/beacon/state/index.ts` | none of its own; reads the queried state and the head state's pubkey index | `getStateValidators`, `getStateValidator`, `getStateValidatorBalances`, `getEpochCommittees`, `getEpochSyncCommittees` |
| Metrics HTTP server | `lodestar/src/metrics/server/http.ts` | the Node server, its tracked sockets, each connection's request in flight | `start` (listen / error), the request handler (404, or two awaited registries then 200 or 500), `stop` (destroy sockets, then close) |
| Not modelled | REST server/client glue, eth1 data cache, DB wiring, state root/fork/finality getters, gossip topic types, dev-chain init, network config, CLI wallet recovery, tests | - | pure I/O, wiring, formatting or read-only queries |

### Interactions

Gossip validation and the REST API (external) insert pre-validated
operations into the pool; block production reads the pool through
`getSlashingsAndExits` against the head state. Fork choice emits
`forkChoiceFinalized`; its handler prunes `seenBlockProposers` to the start
slot of the finalized epoch and, if the head state is still in the state
cache, prunes the pool against it. The pool is written to the DB by a
diff sync and read back on restart. On the validator side the block service
calls the signing store, which consults slashing protection before it asks a
local key or a remote signer for the signature. Everything runs on one
cooperative event loop: state read before an `await` may be stale after it,
and any other handler may run in between.

### What is hard

* the selection loop must produce a block the state transition accepts:
  slashings of one validator by two operations, an exit of a validator
  slashed in the same block, and the per-block maxima;
* pruning against a head state that is not the finalized state, and the
  seen-index set that is never pruned;
* the diff sync is three parallel writers with two awaits each; a crash
  may stop any of them between its put and its delete; it compares keys
  only, never values;
* two block productions for one slot may run at once; a remote signer may
  fail after the slashing-protection record was written; a signer may be
  removed while a request is in flight; the process may restart at any
  point, losing in-flight requests but keeping the protection history;
* parallel item submission with error collection (partial failure);
* state queries that resolve pubkeys in the head state but read a
  possibly older state; index arithmetic at the end of a list;
* a keep-alive connection that would hold `server.close()` forever, and a
  scrape that resumes after `stop()` destroyed its socket.

### Properties that make each component correct

* Pool: the selection is a valid block body for the state it was selected
  against (every operation applies in order, counts within the maxima); a
  completed persist leaves the DB equal to the pool it snapshotted.
* Seen caches: nothing below the horizon is accepted; a pair added above
  the horizon stays known until the horizon passes it.
* Signing: no two released signatures of one key are slashable (double
  block, double vote, surround vote); every released signature is in the
  durable history; the store implements the abstract "sign only what is
  not slashable" specification.
* Coordinator: pruning happens only after finality and eventually happens.
* State API: a query answers exactly what the Beacon API defines for the
  queried state.
* Metrics server: one response head per request; `stop()` resolves.

## 2. Modules

| Module | Models | State | Actions |
|---|---|---|---|
| `OpPool.tla` (`MCOpPool.tla`) | `opPool.ts`; the slashing/exit handlers of `pool/index.ts`; a chain environment | the three maps as insertion-ordered sequences of keys (`MapSet` = `Map.set`), `exitMessageEpoch`, `attesterSlashingIndexes`; the head state's validators, epoch and finalized epoch; `validated`, the submissions past their gossip validation and not yet inserted | `validatePool*` (gossip validation, up to the await), `submitPool*` (`insert*` after the await; the chain may have moved), `ProposeBlock` (`getSlashingsAndExits`, then the block is applied), `Finalize` (finality advances and `onForkChoiceFinalized` runs `pruneAll` with the head state, or skips it on a state-cache miss), epoch advance, other blocks exiting and slashing validators |
| `OpPoolPersistence.tla` | `toPersisted`, `persistDiff`, `fromPersisted` | OpPool's state + the three DB repositories (sets of key/value pairs; `PInit` is a fresh `BeaconDb`, whose constructor opens them empty) and each repository's persist phase | `toPersisted`, `persistDiffPut(r)`, `persistDiffDelete(r)`, `Restart` (any point; the pool is rebuilt by `fromPersisted`) |
| `SigningSafety.tla` | the promise of spec.md 4.3 | signatures released per key | `SignBlock`, `SignAttestation`, each allowed only if not slashable against what was released |
| `ValidatorSigning.tla` (`MCValidatorSigning.tla`) | `validatorStore.ts`, `block.ts`, slashing protection (spec-modelled) | signers, durable block/attestation history, one record per concurrent duty (its `pc` is the await it is suspended at), clock, released signatures | `addSigner`, `removeSigner`, `notifyBlockProductionFn`, `produceBlock`/`produceBlockError`, `checkBlockProposal`/`checkAttestation` (the protection's check, an await), `insertBlockProposal`/`insertAttestation` (the insert resolves and the caller runs `getSignature` up to its await in the same step: an unknown key throws, a local key signs, a remote signer is called), `remoteSignerResponse`/`remoteSignerError`, `publishBlock`, `signAttestation`, `signAggregateAndProof`, `signOther`, `signRandao` (part of `notifyBlockProductionFn`: a local key signs at once, a remote one awaits the signer), `importInterchange`, `Tick`, `Restart` |
| `SeenBlockProposers.tla` | `seenBlockProposers.ts` | `<<slot, proposer>>` pairs, `finalizedSlot` | `add`, `prune` (and `isKnown`) |
| `ChainEvents.tla` (`MCChainEvents.tla`) | `eventHandlers.ts` composed with `SeenBlockProposers` | clock; fork choice as the set of its blocks' post-states (epoch, justified and finalized epochs; `PostStates` is what the state transition allows a child of a known block; no handler reads more of a block, so blocks with equal states are one); fork choice's finalized epoch; the finalized epoch the pool was last pruned at; whether handlers are registered; accepted blocks; the epochs `onJustified`/`onFinalized` were called with (logging and gauges abstracted to these sets) | `ImportBlock(p, st)` (a child of any known block, in any order; for the first block of an epoch runs `onCheckpoint` against the parent block, and when fork choice finalizes a later epoch runs `onForkChoiceFinalized`, head state cached or not), `GossipBlock`, `Tick`, `Abort` |
| `PoolApi.tla` (`MCPoolApi.tla`) | `submitPoolAttestations`, `submitPoolSyncCommitteeSignatures` | per item whether it is a committee member, its positions (`indexesInCommittee`; an attestation's one subnet), pending publishes; pooled `<<item, position>>` pairs; the errors array; the result. `Init` is the synchronous part of every callback: a committee lookup may throw (error pushed) or find no position (silent return) | `validateOk`, `validateError`, `publishOk(i, x)`, `publishError(i, x)`, `returnResult` |
| `BeaconStateApi.tla` (`MCBeaconStateApi.tla`) | `state/index.ts` | the head state's validator count `headLen`; `lastResponse`, the last query with its inputs and result (queries are read-only, so each is one step recording its answer) | `Deposit` (the head grows), `QueryValidators`, `QueryValidator`, `QueryBalances` (a read past the end is 0 or a 500), `QueryCommittees` (400 for an uncached state, 500 when `getShufflingAtEpoch` throws for an epoch other than the state's previous, current or next), `QuerySyncCommittees` |
| `MetricsServer.tla` (`MCMetricsServer.tla`) | `http.ts` | server phase, `stop()` phase, per connection its socket state, request phase and `writeHead` count | `start`, `listening`, `listenError`, `onRequest`, `scrapeResolved`, `scrapeSelfResolved`, `scrapeSelfRejected` (the unwrapped second await rejects; no response), `stop`, `closeDone`, clients' `connect`/`clientClose` |

Every `await` in the code is a point where a model action ends; the code
between two awaits is one action, including the trailing writes. Each
module's header and the comment above each action say which code it is;
`PROJECT.json` "map" gives the exact lines.

## 3. Runs

| Run | Cfg | Expect | What it shows |
|---|---|---|---|
| oppool_selection | `OpPool.cfg` | pass (584,657 states) | every body `getSlashingsAndExits` returns applies, in order, to the head state it was selected against (`SelectionApplies`, checked against `ApplyBlockBody`, the acceptance rules of the state transition), also when submissions are inserted after the chain moved past their validation |
| oppool_spec | `OpPool_spec.cfg` | violation | `SelectionWithinMaxima` (spec.md 4.1: the selection is bounded by the protocol maxima) fails: finding 1 |
| persist_keys | `OpPoolPersistence.cfg` | pass (231,289 states) | a completed diff sync leaves exactly the snapshot's keys, also after restarts that cut earlier syncs (`PersistedKeysMatch`) |
| persist_values | `OpPoolPersistence_values.cfg` | violation | the diff compares keys only; a replaced exit keeps its stale value in the DB (`PersistedItemsMatch`, finding 2) |
| signing_safety | `ValidatorSigning.cfg` | pass (71,472 states) | every released signature is in the durable history (`ReleasedRecorded`) under concurrent duties, any beacon-node answer, signer changes, remote failures, imports and restarts |
| signing_race | `ValidatorSigning_race.cfg` | violation | the store does not refine `SigningSafety` (`SafetySpec`): two duties of one key both pass the check before either inserts (finding 3) |
| seen_cache_finality | `ChainEvents.cfg` | pass (119,148 states) | while the handlers are registered, an accepted block is known exactly while its slot is at or above the start slot of fork choice's finalized epoch (`KnownAboveHorizon`), and every justified and finalized epoch of any imported state was reported (`CheckpointsReported`), whatever order blocks of competing forks arrive in |
| pool_pruned_at_finality | `ChainEvents_prune.cfg` | violation | the pool is not pruned at the new finality on a head-state cache miss, or when the head state's finalized epoch trails fork choice's (`PoolPrunedAtFinality`, finding 4) |
| pool_api_batches | `PoolApi.cfg` | pass (537,088 states) | each item pushes at most one error, also when one publish of a multi-subnet item rejects while its others are in flight (`TypeOK`) |
| state_api_validators | `BeaconStateApi.cfg` | pass (3,663 states) | `getStateValidators`/`getStateValidator` answer exactly the selected validators of the queried state, though pubkeys resolve in the head state |
| state_api_reference | `BeaconStateApi_reference.cfg` | violation | `BalancesMatch` fails: finding 5 |
| metrics_server_stop | `MetricsServer.cfg` | pass (1,118 states) | one response head per request (`WriteHeadOnce`), and `stop()` resolves whatever clients keep alive (`StopResolves`) |

Every property of a passing run has a mutant in `PROJECT.json`: a plausible
bug in the mapped code (a dropped guard, a missing check, a swapped order)
under which the same run finds the property violated.

### Findings

1. `getSlashingsAndExits` never caps attester slashings at
   `MAX_ATTESTER_SLASHINGS` (opPool.ts:160): two applicable attester
   slashings in the pool give a body the state transition rejects.
2. `persistDiff` writes only new keys, so a changed value is not persisted
   (opPool.ts:280).
3. `ValidatorStore` has no per-key signing queue (spec.md 5) and awaits the
   protection's check-and-insert, so two duties of one key can both pass
   the check before either inserts: a double vote or double block
   (validatorStore.ts:138, :176).
4. `onForkChoiceFinalized` prunes the pool only on a state-cache hit, and
   then against the head state's finalized checkpoint, not the event's
   (eventHandlers.ts:149).
5. `getStateValidatorBalances` keeps a head-state pubkey index if
   `index <= state.validators.length`: for an older state the first
   validator that joined after it reads past the end (state/index.ts:123).

### Seen in the code, not checked by a run

The runs above are one per question; these disagreements were met while
modelling and are described here without a run of their own:

* `pruneVoluntaryExits` drops an exit once its message epoch is at or
  before the finalized epoch, which says nothing about whether the
  validator has exited (opPool.ts:254, the code's own TODO); spec.md 4.1
  says exits of exited validators are pruned.
* `getEpochCommittees` reports the outer position of
  `shuffling.committees` (per slot) as the committee index and the inner
  one as the slot, a position within the epoch rather than a slot number
  (state/index.ts:150); the index and slot filters select by the swapped
  values. The model keeps the code's naming.
* `submitPoolSyncCommitteeSignatures` returns silently for a signature of
  a validator with no committee position (pool/index.ts:121), while its
  docstring says a signature that fails validation must produce a 400.
* Slashings are pruned once `exitEpoch <= finalized epoch` (opPool.ts:223)
  although the validator stays slashable until it is withdrawable; this is
  the rule spec.md 4.1 gives, and spec.md 9 keeps it, so it is not a
  finding.

## 4. Bounds, fairness, deadlock

* OpPool: pruning happens only in `Finalize`, as `onForkChoiceFinalized`
  calls it; the cache miss is the other disjunct.
* OpPool: 2 validators, 3 attester slashings whose intersecting indices
  overlap (so one validator is covered by two slashings), epochs up to 3
  (`Finalize` finalizes at most the epoch two before the current one, as
  Casper FFG does, so epoch 3 is the first that can finalize epoch 1),
  every maximum 1 so that a full block is reached, withdrawability delay 2 so
  that "exited but still slashable" exists. The persistence runs use 1
  validator and 1 slashing: the hazards are about the three repositories'
  put/delete interleaving and the restart, which one item per repository
  already shows.
* ValidatorSigning: 1 key, 2 roots (a conflict needs two), 2 concurrent
  duties, slots up to 2 (1 in the race run), at most 2 duties or imports.
  Two duties of one key for one slot with different roots is the double
  block case; an attestation pair over epochs 0..2 can surround another.
* ChainEvents: epochs 0..3 of 2 slots and up to 5 distinct block states:
  a chain of three blocks past genesis is the shortest that finalizes an
  epoch (justify 1 at epoch 2, finalize 1 at epoch 3), and the fifth state
  is a competing fork imported before or after it; the head-state cache may miss. One proposer:
  a second one multiplied the seen cache's states past the time budget and
  adds nothing to the horizon properties, which are per slot.
  `onCheckpoint` reports a finalized epoch whenever it is later than the
  parent block's, so a side-fork block can report an older finalized epoch
  after a newer one (the gauge moves back); the reports are kept as sets,
  so that order is not checked.
* PoolApi: 3 items (so that "several errors" and "one error" both occur),
  2 attestation subnets, a sync committee of 3 whose positions 0..2 fall
  on subnets 0, 0, 1 (so one item has two or three publishes, two on one
  subnet, and one may fail while the others are in flight); every lookup
  outcome (throws, non-member, any non-empty set of positions) per item.
* OpPool: at most 1 submission between validation and insert
  (`MaxInFlight`), so a submission races other inserts, blocks and prunes;
  with 2 and epochs up to 3 the run takes over 5 minutes.
* BeaconStateApi: the head grows from 1 to 3 validators (so a queried
  state is older than the head, and its length is reachable as an index),
  2 statuses, id lists of length 1 and 2 (order matters), 2 slots of 2
  committees (so index and slot differ), states of epochs 0..1 around the
  Altair fork, and committee queries for epochs 0..3 (so the shuffling
  lookup can throw).
* MetricsServer: 2 connections and 3 requests: a keep-alive connection
  with a scrape in flight and a second one open during `stop()`.
* Fairness: only MetricsServer has a liveness property. There `listen`,
  the two registries' promises and Node's close callback are weakly fair
  (the runtime settles them); clients, `start` and `stop` are not, and
  clients are never forced to close. ValidatorSigning and PoolApi have no
  fairness: the remote signer call has no timeout in `validatorStore.ts`,
  and nothing in the code bounds when a publish settles.
* `CHECK_DEADLOCK FALSE` in ChainEvents (the clock is bounded, and a
  finished model clock is not a deadlock of the node), PoolApi (one call
  ends once its result is returned) and MetricsServer (a stopped server,
  or one whose start failed, is the end). The other runs check deadlock.

## 5. Not modelled

* The fork choice rule itself: head selection, the viability filter and
  pruning of fork choice's tree. ChainEvents imports competing forks, but
  in OpPool finality only moves forward.
* The exit queue churn (exits take effect at the next epoch).
* Gossip validation is one atomic step (its code is not under `src/`).
* Persisting rejected items for debugging, the read-only getters, the
  interchange export, metrics, logging.
* The clock handlers prune caches outside `src/`; they are the `Tick`.
* State API: `getStateRoot`, `getStateFork`, `getStateFinalityCheckpoints`
  and the state-id resolution only read one field or go to the DB; the
  model's queried state is any state from genesis to the head.
* Metrics server: `stop()` while `listen` is still pending (Node's
  behaviour there is not pinned down by the code), and response bodies.
* Components listed as `not_modelled` in `PROJECT.json`: REST glue, the
  eth1 data cache wrapper, DB wiring, type declarations and one-shot setup
  code. Of the chain event handlers, `onForkChoiceHead` and `onBlock` only
  call caches and the reprocess controller outside `src/` and set metrics,
  `onErrorBlock` persists invalid blocks for debugging, and the rest only
  log.
