# TLA+ models of the commit-pipeline buffer manager

This directory holds TLA+ models of the decoupled-execution commit pipeline in
`src/consensus/src/experimental/buffer_manager.rs` (struct `StateManager`),
of the contract it offers the persisting phase, and of
`ProcessedVMOutput::compute_result` in `src/execution/executor/src/types.rs`.
It also holds the model-checking configurations for them, and says what the
checks show.

## 1. Inventory

### Components

| Component | Source | State | Operations |
|---|---|---|---|
| StateManager (dispatcher) | `buffer_manager.rs` | `buffer`, `execution_root`, `signing_root`, `end_epoch`, all channel endpoints | `new`, `process_ordered_blocks`, `advance_execution_root`, `advance_signing_root`, `advance_head`, `reset_all_roots`, `process_sync_request`, `process_execution_response`, `process_signing_response`, `process_commit_message`, `retry_broadcasting_commit_votes`, `start` (the select! loop) |
| BufferItem | not under `src/` (spec 4.1) | Ordered / Executed / Signed / Aggregated, plus the signature map | `advance_to_executed`, `advance_to_signed`, `add_signature_if_matched`, `try_advance_to_aggregated`, `try_advance_to_aggregated_with_ledger_info` |
| Linked list | not under `src/` (spec 4.2) | nodes, head | `push_back`, `pop_front`, `find_elem`, `get/take/set_elem`, `get_next`, `link_eq` |
| ValidatorVerifier | not under `src/` | voting power per validator | `verify`, `check_voting_power`, aggregation |
| Execution / signing / persisting phases, consensus, state sync, network | not under `src/` | their channels | answer requests; send ordered blocks, sync requests, commit votes |
| Executor output types | `execution/executor/src/types.rs` | immutable records | accessors, `compute_result` (a pure fold) |
| StateStore | `storage/libradb/src/state_store/mod.rs` | DB handle; writes go to the caller's `ChangeSet` | Merkle-tree reads, `put_account_state_sets` |
| Unit tests | `diemdb/.../write_set/test.rs`, `vm_types.rs` | none | round-trip tests |

### How they interact

`StateManager::start` is one tokio task. Each loop iteration `select!`s one
ready event from six sources: ordered blocks from consensus, sync requests
from state sync, execution responses, signing responses, verified commit
votes from the network, and the retry interval. It then runs the handler and
the cursor advances that follow it, with no other handler in between. The
task owns the buffer and both cursors. Collaborators interact with it only
through unbounded channels:

- `advance_execution_root` sends execution requests and `advance_signing_root` sends signing requests;
- the phases answer their requests in FIFO order;
- `advance_head` sends persisting requests, and nothing answers them;
- a sync request is answered on a oneshot channel;
- commit votes go out as broadcasts.

### What is hard here

- The six sources interleave in any order. A sync request resets both cursors,
  so requests that are already in flight are sent again, and their
  responses come back duplicated or find their item gone.
- Execution and signing run in order, but quorums of votes complete out of
  order. A vote can arrive before the local item is Signed, and it is
  then dropped.
- Signing may fail. The only retry is the re-send that the unmoved cursor
  causes.
- The retry timer walks the list relative to `signing_root`, and its
  `unreachable!()` and `continue` arms are correct only if the list has a
  particular shape at that moment.
- A reconfig sync ends the loop, but the post-handler cursor advances still
  run in that last step.

### What makes each component correct

- **Dispatcher.** Items progress in buffer order, and the cursors sit on
  the first unprocessed item. Every
  ordered block is persisted exactly once and in order. Only an aggregated
  prefix is persisted. The asserts and `unreachable!()`s are never reached.
  The last step of an epoch sends nothing. Every ordered block is
  eventually persisted while the task runs.
- **BufferItem / aggregator.** An item reaches Aggregated only with quorum
  voting power or a valid external ledger info. So every persisting request
  carries a commit proof that verifies.
- **compute_result.** It reports one status per transaction. It reports the
  info hashes and new-epoch events of kept transactions only, in order.
- **Linked list.** A cursor is never used after its node is popped.
- **Stage channels.** They are unbounded, but duplicate requests must not
  pile up.

The hazards these properties aim at are listed, each at its source line, under
`hazards` in `PROJECT.json`.

## 2. Modules

### `BufferManager.tla`: the StateManager and its collaborators

State. `buffer` is a sequence of items `[id, st, sigs]`: one block per
item, identified by its block id, with the set of validators that signed.
`execution_root` and `signing_root` are the id of the node they point to,
or `None`. Each channel is a sequence:

- `execution_phase_tx/rx` and `signing_phase_tx/rx` hold the requests and responses of the two phases;
- `persisting_phase_tx` holds the persisting requests sent, each with a history field `popped` giving the state of every item it popped;
- `block_rx` and `sync_rx` hold the events not yet received.

`end_epoch` is the code's flag. `panic` records which panic or endless loop
ended the task. An item's `li` flag says whether it was aggregated with a
state-sync ledger info. A persisting request has these fields:

- `blocks`: the blocks it persists;
- `proof`: the target's `aggregated_proof`, as `[signers, li]`;
- `popped`: history only, the state of every item it popped.

Each StateManager method is an operator of the same name over the task's
local state `L`. The branches of `select!` are the actions
`ReceiveOrderedBlocks`, `ReceiveSyncRequest`, `ReceiveExecutionResponse`,
`ReceiveSigningResponse`, `ReceiveCommitVote` and `IntervalTick`. Each
composes its handler with the `if …is_none()` cursor advances that `start()`
runs after it, so the whole branch is one step. A panic (`expect`, `assert!`,
`unreachable!()`) stops the rest of the handler (`Then`) and ends the task.
The endless `continue` in the retry loop is recorded as
`panic = "retry_livelock"`.

The collaborators are environment actions:

- `OrderBlocks`: consensus orders blocks 1, 2, … in sequence.
- `RequestSync(b, reconfig, valid)`: state sync targets an already ordered block.
- `Execute(ok)` / `Sign(ok)`: the FIFO phases answer Ok or Err.
- A vote `(author, block, match)` from any validator for any ordered block. `match` says whether its commit info equals the local one.

BufferItem and the linked list are not under `src/`, so their operators are
modelled from the spec and marked `spec_modelled` in the map.
`find_elem` from `None` finds nothing. `link_eq(Some, None)` is false.
`try_advance_to_aggregated_with_ledger_info` aggregates an item in any state
when the ledger info is valid (spec 4.1). The doc comment of
`process_sync_request` (lines 243-244) says something else: an item that is
not yet executed only caches the ledger info, and is aggregated later. No
code under `src/` does that later aggregation, so the model follows the spec.
No property depends on this choice.

**Refinement.** `Abstract == INSTANCE CommitPipeline WITH ...` maps the
implementation onto the abstract specification:

- `ordered` is `sent`;
- `committed` is `persisting_phase_tx` without the `popped` history;
- `stopped` is `~Running`.

`ImplementsCommitPipeline` is `Abstract`'s specification, with the
stuttering disjunct written first. The two forms are equivalent. Putting
stuttering first lets TLC skip the search over `Commit(k, p)` on the many
steps that leave the abstract state alone.

### `CommitPipeline.tla`: what the buffer manager promises

This is the abstract specification, with no pipeline stages. Its variables
are `ordered`, `committed` (a log of batches `[blocks, proof]`) and
`stopped`. It has three actions:

- `Order` orders the next block.
- `Commit(k, p)` appends a batch of the next `k` ordered blocks. Its proof
  `p` must verify: either the signers' power reaches `QuorumPower`, or it is
  a state-sync ledger info.
- `Stop` ends everything.

It states spec 3 and 8.3 together: blocks are persisted in order and exactly
once, under proofs that verify, and not after the task stops.

### `ExecutorTypes.tla`: `compute_result`

`compute_result` is modelled as follows:

- `TransactionData(j, s, ks)` keeps the three fields that `compute_result`
  reads. `txn_info_hash` is Some exactly for kept transactions, as the
  field's doc says. An event records its key, its transaction and its
  position.
- `push_txn` is one iteration of the `for` loop, including the `expect()`
  that panics.
- `compute_loop` is the loop, as a RECURSIVE operator.
- `compute_result` starts the loop with empty vectors.

`Init` picks any block from `ProcessedVMOutputs`, and the one action
`ComputeResult` calls `compute_result`. `Reference` states the result over
the whole block at once, with `SelectSeq` and `FlattenSeq` and no loop. The
values `compute_result` only copies (accumulator root, frozen subtrees, leaf
counts, `epoch_state`) are left out.

### `MCBufferManager.tla`, `MCExecutorTypes.tla`: the model-checking instances

`MCBufferManager` sets up four validators `v1..v4` of power 1 with quorum
power 3, as in the spec's scenarios, and the local author is `v1`. Symmetry
over the peers `{v2, v3, v4}` is used in the safety runs. It is sound there
because nothing in the model tells the peers apart. The liveness run does
not use symmetry.

It also defines `PipelineView`, which drops the proofs of the persisting
requests already sent. No action reads them. The safety run fingerprints
states by this view. Its properties do not read the proofs: `TypeOK` checks
only the blocks and the `popped` history of persisting requests, and the
refinement run, which has no view, checks the proofs. States that differ only in that history have the same
successors, so this is sound.

`MCExecutorTypes` uses two event keys: the new-epoch key and one other.

## 3. Runs

| Run | cfg | Bounds | Result |
|---|---|---|---|
| safety | `MCBufferManager.cfg` | 3 blocks, 2 syncs, 1 tick | pass: 454,809 distinct states, ~55 s |
| refinement | `MCBufferManagerRefine.cfg` | 3 blocks, 2 syncs, no tick | pass: 366,572 distinct states, ~80 s |
| liveness | `MCBufferManagerLive.cfg` | 2 blocks, 1 sync, 1 tick | pass: 12,265 states, ~70 s |
| compute_result | `MCExecutorTypes.cfg` | 3 transactions, 2 events each | pass: 19,448 states, ~7 s |
| retry_panic | `MCBufferManagerRetry.cfg` | 1 block, 1 sync, 2 ticks | violation of `RetryNeverPanics` |
| unaggregated_prefix | `MCBufferManagerPrefix.cfg` | 2 blocks, no sync, no tick | violation of `PersistOnlyAggregatedPrefix` |

**safety** checks these properties:

- `PipelineInOrder`: no item is further along than an item ahead of it.
- `CursorsAtFirstUnprocessed`: while running, each cursor is exactly the first Ordered (respectively Executed) item, or `None` when there is none.
- `PersistedExactlyOnceInOrder`: the persisted blocks, then the buffer, then `block_rx`, are exactly `1..sent`.
- `ExecutionResponseFindsOrdered`: the `assert!(is_ordered)` in `process_execution_response` never fires.
- `ReconfigSendsNothing`: an action property. The step that sets `end_epoch` leaves the request channels unchanged.
- `StageRequestsBounded`: the requests in flight to each stage, sent and not yet answered or answered and not yet handled, never exceed one plus the number of syncs. The response handlers advance their root unconditionally, so a handled response sends at most one request. A new block or a sync sends a request only when its root is `None`. Only a sync's reset makes a root `None` while a request is in flight. The mutant advances the execution root after every new block, and duplicates then pile up.

Three blocks are enough for a block to be in each of the Ordered, Executed
and Signed states at once, and for the vote path to pop a two-item prefix.
Two syncs make possible a reset while requests are in flight, followed by a
second reset or a reconfig. One tick is enough to reach each arm of the
retry loop.

**liveness** checks `EventuallyPersisted`. Every ordered block is eventually
persisted, or the task stops, either at the end of the epoch or on a panic.
The fairness assumed, and why:

- Weak fairness on each `select!` branch. `tokio::select!` polls ready branches in random order, and a non-empty channel stays ready.
- Weak fairness on the execution phase.
- Strong fairness on a successful signature. Signing may fail, but not on every retry.
- Weak fairness on delivering some matching commit vote for a Signed item that lacks it. Peers re-broadcast their votes every interval until they commit. No single vote is assumed delivered: `commit_msg_rx` is a per-author `diem_channel` that drops messages when its queue is full (line 80).

Consensus, state sync and the timer get no fairness.

**refinement** checks `ImplementsCommitPipeline`. Every step of the buffer
manager either leaves the mapped state alone or is a `CommitPipeline` step:

- each persisting request holds exactly the next blocks in consensus order;
- its proof verifies, either by quorum power or as a valid state-sync
  ledger info;
- the step that stops the task persists nothing, and nothing follows it.

The retry timer is left out of this run (0 ticks). It changes no abstract
state except by panicking, and the execution-failure panic already covers
stopping. Its mutant lowers the quorum threshold of
`try_advance_to_aggregated` by one, and TLC then finds a batch committed
under a proof of two signers.

**compute_result** checks `ComputeResultMatchesReference` on all 9,724
blocks of up to 3 transactions, each a Keep, Discard or Retry with up to 2
events. Three transactions are enough for a kept transaction to lie between
two discarded ones, and the reverse. Two events per transaction are enough
for both orders of new-epoch and other events. The run stops after one
step, since `compute_result` is called once, so deadlock is not checked.

**Mutants.** Each property of the passing runs has a mutant in
`BufferManager.tla`: a plausible bug in one operator, defined just before
the operator it replaces. With that mutant, TLC finds the property violated
(see `mutants` in `PROJECT.json`). `ExecutorTypes.tla` has its own mutant,
`push_txn_events_of_all`, which collects the reconfiguration events outside
the Keep branch. For example, `advance_signing_root_on_move`
sends a signing request only when the cursor moves. After one signing
failure, no request is ever sent again and `EventuallyPersisted` fails.

## 4. Findings

1. **The retry timer panics (code bug).** When `signing_root` is `None`,
   `retry_broadcasting_commit_votes` walks the whole list. This happens
   whenever no item is Executed: before the first execution response, or
   after the last item was signed. The walk hits `unreachable!()` on any
   Ordered item (line 397). TLC finds it in 3 actions: order one block,
   receive it, then a tick. This relies on `link_eq(Some, None) = false`
   (linkedlist.rs is not in `src/`).
2. **Unaggregated items are persisted (spec/code divergence).** `start()`
   calls `advance_head` for any item a vote aggregates (line 440), and
   `advance_head` pops everything before it without looking at its state.
   If block 2's quorum forms before block 1's, block 1 is persisted while
   Signed. The spec (sections 3 and 4.3, scenario 2 in section 8) says only
   an Aggregated prefix is popped. From the consensus point of view this
   may be harmless, because a commit certificate for block 2 commits its
   ancestors.

## 5. Not modelled, and why

- **Block contents, ledger infos, signatures, callbacks.** They are
  reduced to block ids, a vote's `match` flag and signer sets. No property
  needs more.
- **Network broadcasts of commit votes.** They are output only and change
  no state of this node.
- **The sync oneshot ack (line 281).** The requester is outside `src/`.
- **A sync request that overtakes its ordered blocks.** `select!` may take
  a sync to block 1 while block 1 is still in `block_rx`. The sync then
  finds nothing and does nothing (line 262). The comment at lines 259-261
  expects this "not yet added" case. What happens when the block is added
  afterwards, and then executed again, depends on the executor and the
  storage, which are outside `src/`. No property is stated for it.
- **`StateStore::put_account_state_sets` (`state_store/mod.rs`).** It is one
  sequential call: it bumps the counters and puts the tree's node and
  stale-index rows into the caller's `ChangeSet`. The caller builds one
  `ChangeSet` per save. With one call, the only claim a model could check
  restates lines 71-97. The behaviours worth checking are outside `src/`:
  - the Jellyfish tree, which reads earlier nodes from the DB through
    `get_node`;
  - the caller, which decides what becomes of a `ChangeSet` after an Err.

  Both hazards are listed in `PROJECT.json` without a property.
  `get_account_state_with_proof_by_version` only reads.
- **The unit tests.** They are round-trip serialization tests with no state.
- **The rest of BufferItem, the linked list, ValidatorVerifier and the
  collaborators.** None of them is under `src/`. Each is modelled from the
  spec only as far as the buffer manager uses it, so these components stay
  "partly" modelled.
- **The execution-failure panic (line 287).** It is modelled: the
  `execution_failure` panic ends the task. No property is stated for it,
  because spec 7 makes it fatal by design (a documented TODO).

## 6. Plan

Done:

- `BufferManager`, with its safety properties, liveness and violation runs;
- the `CommitPipeline` refinement;
- the stage-channel bound;
- `ExecutorTypes`.

What is left is bounded by what lies outside `src/`:

1. **Aggregation with unequal voting power.** Duplicate votes (a set of
   signers) and mismatching votes (the `match` flag) are already in the
   model. A weighted instance would exercise the spec-modelled
   `try_advance_to_aggregated`, but not code under `src/`.
2. **A stricter abstract specification** in which every persisted block is
   itself certified. It would show finding 2 again, now as a refinement
   failure, and adds no new question.
3. **A larger liveness instance.** With 3 blocks, TLC checks
   `EventuallyPersisted` without error, but the run takes 4 to 8 minutes
   even when fingerprinting by `PipelineView`: 19,387 states with no tick,
   or 42,689 with one. That is above the time budget of a run.
