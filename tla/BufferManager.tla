---------------------------- MODULE BufferManager ----------------------------
(***************************************************************************)
(* The commit-pipeline buffer manager of the decoupled-execution consensus *)
(* (src/consensus/src/experimental/buffer_manager.rs, struct StateManager). *)
(*                                                                         *)
(* One StateManager task owns a linked list of BufferItems and two cursors *)
(* (execution_root, signing_root).  Each iteration of its select! loop     *)
(* handles exactly one event, so every handler below, with the cursor      *)
(* advances that start() runs right after it, is one atomic step.          *)
(*                                                                         *)
(* Abstractions.  An item carries one block: its block_id.  The commit     *)
(* info of a vote is reduced to whether it matches the local one.  Block   *)
(* contents, signatures, callbacks and logging are left out.  The          *)
(* collaborators (consensus, state sync, execution and signing phases,     *)
(* the network) are environment actions over the channels.  BufferItem    *)
(* and the linked list are not under src/: their operators are modelled   *)
(* from the spec (sections 4.1, 4.2).                                      *)
(***************************************************************************)
EXTENDS Naturals, Sequences, SequencesExt, Functions

CONSTANTS
    Validators,    \* the epoch's validator set (ValidatorVerifier)
    Author,        \* this node: StateManager.author
    Power,         \* voting power of each validator
    QuorumPower,   \* voting power check_voting_power asks for
    None,          \* an empty Link
    MaxBlocks,     \* bound: blocks consensus orders in the epoch
    MaxSyncs,      \* bound: sync requests state sync sends
    MaxTicks       \* bound: expiries of the retry interval

ASSUME /\ Author \in Validators
       /\ Power \in [Validators -> Nat]
       /\ QuorumPower \in Nat \ {0}
       /\ None \notin Nat
       /\ {MaxBlocks, MaxSyncs, MaxTicks} \subseteq Nat

Blocks == 1..MaxBlocks
States == {"Ordered", "Executed", "Signed", "Aggregated"}
\* li: the item was aggregated with a ledger info from state sync, whose
\* signatures are that ledger info's rather than the collected sigs.
Item   == [id : Blocks, st : States, sigs : SUBSET Validators, li : BOOLEAN]
Panics == {"none", "execution_failure", "not_ordered",
           "retry_unreachable", "retry_livelock"}

VARIABLES
    buffer,               \* List<BufferItem>, head first
    execution_root,       \* first unprocessed item for execution, or None
    signing_root,         \* first unprocessed item for signing, or None
    execution_phase_tx,   \* ExecutionRequests in flight (block ids)
    execution_phase_rx,   \* ExecutionResponses: [id, ok]
    signing_phase_tx,     \* SigningRequests in flight (block ids)
    signing_phase_rx,     \* SigningResponses: [id, ok]
    persisting_phase_tx,  \* PersistingRequests sent
    block_rx,             \* OrderedBlocks not yet received
    sync_rx,              \* SyncRequests not yet received
    end_epoch,
    panic,                \* the panic that ended the task, or "none"
    sent, syncs, ticks    \* environment counters, capped by the bounds

vars == <<buffer, execution_root, signing_root, execution_phase_tx,
          execution_phase_rx, signing_phase_tx, signing_phase_rx,
          persisting_phase_tx, block_rx, sync_rx, end_epoch, panic,
          sent, syncs, ticks>>

-----------------------------------------------------------------------------
(* BufferItem transitions (spec 4.1).                                      *)

advance_to_executed(it) == [it EXCEPT !.st = "Executed"]

\* The local commit vote seeds the signature map.
advance_to_signed(it) == [it EXCEPT !.st = "Signed", !.sigs = {Author}]

\* Only a Signed item whose commit info matches takes the signature.
signature_matches(it, match) == it.st = "Signed" /\ match

add_signature(it, author) == [it EXCEPT !.sigs = @ \cup {author}]

\* Mutant: the quorum check is off by one voting power.
try_advance_to_aggregated_below_quorum(it) ==
    IF it.st = "Signed" /\ SumFunctionOnSet(Power, it.sigs) >= QuorumPower - 1
    THEN [it EXCEPT !.st = "Aggregated"] ELSE it

try_advance_to_aggregated(it) ==
    IF it.st = "Signed" /\ SumFunctionOnSet(Power, it.sigs) >= QuorumPower
    THEN [it EXCEPT !.st = "Aggregated"] ELSE it

try_advance_to_aggregated_with_ledger_info(it, valid) ==
    IF valid THEN [it EXCEPT !.st = "Aggregated", !.li = TRUE] ELSE it

-----------------------------------------------------------------------------
(* The linked list (spec 4.2).  A Link is the id of the item it points to; *)
(* ids are unique in the buffer, so the id names the node.                 *)

Pos(buf, link) == SelectInSeq(buf, LAMBDA it : it.id = link)

HeadLink(buf) == IF buf = <<>> THEN None ELSE buf[1].id

LinkAt(buf, i) == IF i = 0 THEN None ELSE buf[i].id

\* find_elem: index of the first item from the cursor on passing Test, 0
\* if none; from None (or a node no longer in the list) it finds nothing.
find_elem(buf, cursor, Test(_)) ==
    IF Pos(buf, cursor) = 0 THEN 0
    ELSE SelectInSubSeq(buf, Pos(buf, cursor), Len(buf), Test)

-----------------------------------------------------------------------------
(* StateManager methods, as functions of the task's local state L.         *)

Local == [buf |-> buffer, er |-> execution_root, sr |-> signing_root,
          etx |-> execution_phase_tx, stx |-> signing_phase_tx,
          ptx |-> persisting_phase_tx, end |-> end_epoch, panic |-> panic]

\* A panic unwinds the task: nothing after it in the handler happens.
Then(L, F(_)) == IF L.panic = "none" THEN F(L) ELSE L

IsOrdered(it)  == it.st = "Ordered"
IsExecuted(it) == it.st = "Executed"

\* Mutant: the item gets the id of the block after the one received.
process_ordered_blocks_next_id(L, b) ==
    [L EXCEPT !.buf = Append(@, [id |-> b + 1, st |-> "Ordered", sigs |-> {}, li |-> FALSE])]

process_ordered_blocks(L, b) ==
    [L EXCEPT !.buf = Append(@, [id |-> b, st |-> "Ordered", sigs |-> {}, li |-> FALSE])]

advance_execution_root(L) ==
    LET cursor == IF L.er = None THEN HeadLink(L.buf) ELSE L.er
        i      == find_elem(L.buf, cursor, IsOrdered)
    IN  [L EXCEPT !.er  = LinkAt(L.buf, i),
                  !.etx = IF i = 0 THEN @ ELSE Append(@, L.buf[i].id)]

\* Mutant: the search starts after the cursor, so an item whose signing
\* failed is passed over.
advance_signing_root_after_cursor(L) ==
    LET i == IF L.sr = None THEN SelectInSeq(L.buf, IsExecuted)
             ELSE SelectInSubSeq(L.buf, Pos(L.buf, L.sr) + 1, Len(L.buf), IsExecuted)
    IN  [L EXCEPT !.sr  = LinkAt(L.buf, i),
                  !.stx = IF i = 0 THEN @ ELSE Append(@, L.buf[i].id)]

\* Mutant: a request is sent only when the cursor moves.
advance_signing_root_on_move(L) ==
    LET cursor == IF L.sr = None THEN HeadLink(L.buf) ELSE L.sr
        i      == find_elem(L.buf, cursor, IsExecuted)
    IN  [L EXCEPT !.sr  = LinkAt(L.buf, i),
                  !.stx = IF i = 0 \/ LinkAt(L.buf, i) = L.sr THEN @
                          ELSE Append(@, L.buf[i].id)]

advance_signing_root(L) ==
    LET cursor == IF L.sr = None THEN HeadLink(L.buf) ELSE L.sr
        i      == find_elem(L.buf, cursor, IsExecuted)
    IN  [L EXCEPT !.sr  = LinkAt(L.buf, i),
                  !.stx = IF i = 0 THEN @ ELSE Append(@, L.buf[i].id)]

\* Pop the prefix up to and including the aggregated item at index k and
\* send one PersistingRequest for it.  "popped" records, as history, the
\* state each popped item was in.
\* Mutant: the aggregated item itself is left in the list.
advance_head_keep_target(L, k) ==
    [L EXCEPT !.buf = SubSeq(@, k, Len(@)),
              !.ptx = Append(@, [blocks |-> [i \in 1..k |-> L.buf[i].id],
                                 proof  |-> [signers |-> L.buf[k].sigs,
                                             li      |-> L.buf[k].li],
                                 popped |-> [i \in 1..k |-> L.buf[i].st]])]

advance_head(L, k) ==
    [L EXCEPT !.buf = SubSeq(@, k + 1, Len(@)),
              !.ptx = Append(@, [blocks |-> [i \in 1..k |-> L.buf[i].id],
                                 proof  |-> [signers |-> L.buf[k].sigs,
                                             li      |-> L.buf[k].li],
                                 popped |-> [i \in 1..k |-> L.buf[i].st]])]

\* Mutant: only the signing root is reset.
reset_signing_root_only(L) == [L EXCEPT !.sr = None]

reset_all_roots(L) == [L EXCEPT !.er = None, !.sr = None]

\* Mutant: the roots are reset for a reconfiguration too.
process_sync_request_reset_always(L, req) ==
    IF req.reconfig THEN reset_all_roots([L EXCEPT !.end = TRUE])
    ELSE LET i    == find_elem(L.buf, HeadLink(L.buf),
                               LAMBDA it : it.id = req.id)
             item == try_advance_to_aggregated_with_ledger_info(L.buf[i],
                                                                 req.valid)
             L1   == IF i = 0 THEN L ELSE [L EXCEPT !.buf[i] = item]
             L2   == IF i # 0 /\ item.st = "Aggregated"
                     THEN advance_head(L1, i) ELSE L1
         IN  reset_all_roots(L2)

process_sync_request(L, req) ==
    IF req.reconfig THEN [L EXCEPT !.end = TRUE]
    ELSE LET i    == find_elem(L.buf, HeadLink(L.buf),
                               LAMBDA it : it.id = req.id)
             item == try_advance_to_aggregated_with_ledger_info(L.buf[i],
                                                                 req.valid)
             L1   == IF i = 0 THEN L ELSE [L EXCEPT !.buf[i] = item]
             L2   == IF i # 0 /\ item.st = "Aggregated"
                     THEN advance_head(L1, i) ELSE L1
         IN  reset_all_roots(L2)

\* Mutant: the response is looked up from the head, not execution_root.
process_execution_response_from_head(L, resp) ==
    LET i == find_elem(L.buf, HeadLink(L.buf), LAMBDA it : it.id = resp.id)
    IN  CASE ~resp.ok                         -> [L EXCEPT !.panic = "execution_failure"]
          [] i = 0                            -> L
          [] L.buf[i].st # "Ordered"          -> [L EXCEPT !.panic = "not_ordered"]
          [] OTHER -> [L EXCEPT !.buf[i] = advance_to_executed(@)]

process_execution_response(L, resp) ==
    LET i == find_elem(L.buf, L.er, LAMBDA it : it.id = resp.id)
    IN  CASE ~resp.ok                         -> [L EXCEPT !.panic = "execution_failure"]
          [] i = 0                            -> L
          [] L.buf[i].st # "Ordered"          -> [L EXCEPT !.panic = "not_ordered"]
          [] OTHER -> [L EXCEPT !.buf[i] = advance_to_executed(@)]

process_signing_response(L, resp) ==
    LET i == find_elem(L.buf, L.sr, LAMBDA it : it.id = resp.id)
    IN  IF resp.ok /\ i # 0 /\ L.buf[i].st = "Executed"
        THEN [L EXCEPT !.buf[i] = advance_to_signed(@)]
        ELSE L

\* The index of the aggregated item the vote produced, 0 if none.
process_commit_message(L, author, b, match) ==
    LET i == find_elem(L.buf, HeadLink(L.buf), LAMBDA it : it.id = b)
        new == IF signature_matches(L.buf[i], match)
               THEN try_advance_to_aggregated(add_signature(L.buf[i], author))
               ELSE L.buf[i]
    IN  IF i = 0 THEN [l |-> L, agg |-> 0]
        ELSE [l |-> [L EXCEPT !.buf[i] = new],
              agg |-> IF new.st = "Aggregated" THEN i ELSE 0]

\* Walk from the head until the item signing_root points to (link_eq);
\* with no such item the walk covers the whole list.  An Aggregated item
\* is skipped by a `continue` that never moves the cursor; any other
\* non-Signed item reaches unreachable!().
retry_broadcasting_commit_votes(L) ==
    LET stop == IF Pos(L.buf, L.sr) = 0 THEN Len(L.buf) + 1
                ELSE Pos(L.buf, L.sr)
        bad  == SelectInSubSeq(L.buf, 1, stop - 1,
                               LAMBDA it : it.st # "Signed")
    IN  CASE bad = 0                        -> L
          [] L.buf[bad].st = "Aggregated"   -> [L EXCEPT !.panic = "retry_livelock"]
          [] OTHER                          -> [L EXCEPT !.panic = "retry_unreachable"]

-----------------------------------------------------------------------------
(* The branches of start()'s select!.                                      *)

Install(L) ==
    /\ buffer' = L.buf
    /\ execution_root' = L.er
    /\ signing_root' = L.sr
    /\ execution_phase_tx' = L.etx
    /\ signing_phase_tx' = L.stx
    /\ persisting_phase_tx' = L.ptx
    /\ end_epoch' = L.end
    /\ panic' = L.panic

Running == panic = "none" /\ ~end_epoch

\* In the handlers below each intermediate local state is bound once with
\* \E L \in {...}, so that TLC computes it once, also under ENABLED.

\* Mutant: the execution root is advanced whether or not it is None.
IfExecutionRootNone_always(L) == advance_execution_root(L)

IfExecutionRootNone(L) ==
    IF L.er = None THEN advance_execution_root(L) ELSE L
IfSigningRootNone(L) ==
    IF L.sr = None THEN advance_signing_root(L) ELSE L

ReceiveOrderedBlocks ==
    /\ Running /\ block_rx # <<>>
    /\ \E L1 \in {process_ordered_blocks(Local, Head(block_rx))} :
          Install(IfExecutionRootNone(L1))
    /\ block_rx' = Tail(block_rx)
    /\ UNCHANGED <<execution_phase_rx, signing_phase_rx, sync_rx, sent, syncs, ticks>>

ReceiveSyncRequest ==
    /\ Running /\ sync_rx # <<>>
    /\ \E L1 \in {process_sync_request(Local, Head(sync_rx))} :
       \E L2 \in {IfExecutionRootNone(L1)} :
          Install(IfSigningRootNone(L2))
    /\ sync_rx' = Tail(sync_rx)
    /\ UNCHANGED <<execution_phase_rx, signing_phase_rx, block_rx, sent, syncs, ticks>>

ReceiveExecutionResponse ==
    /\ Running /\ execution_phase_rx # <<>>
    /\ \E L1 \in {process_execution_response(Local, Head(execution_phase_rx))} :
       \E L2 \in {Then(L1, advance_execution_root)} :
          Install(Then(L2, IfSigningRootNone))
    /\ execution_phase_rx' = Tail(execution_phase_rx)
    /\ UNCHANGED <<signing_phase_rx, block_rx, sync_rx, sent, syncs, ticks>>

ReceiveSigningResponse ==
    /\ Running /\ signing_phase_rx # <<>>
    /\ \E L1 \in {process_signing_response(Local, Head(signing_phase_rx))} :
          Install(advance_signing_root(L1))
    /\ signing_phase_rx' = Tail(signing_phase_rx)
    /\ UNCHANGED <<execution_phase_rx, block_rx, sync_rx, sent, syncs, ticks>>

\* A VerifiedEvent::CommitVote from any validator for any ordered block.
ReceiveCommitVote(author, b, match) ==
    /\ Running
    /\ \E r \in {process_commit_message(Local, author, b, match)} :
          Install(IF r.agg = 0 THEN r.l ELSE advance_head(r.l, r.agg))
    /\ UNCHANGED <<execution_phase_rx, signing_phase_rx, block_rx, sync_rx,
                   sent, syncs, ticks>>

IntervalTick ==
    /\ Running /\ ticks < MaxTicks
    /\ Install(retry_broadcasting_commit_votes(Local))
    /\ ticks' = ticks + 1
    /\ UNCHANGED <<execution_phase_rx, signing_phase_rx, block_rx, sync_rx, sent, syncs>>

-----------------------------------------------------------------------------
(* Collaborators.                                                          *)

OrderBlocks ==
    /\ Running /\ sent < MaxBlocks
    /\ sent' = sent + 1
    /\ block_rx' = Append(block_rx, sent + 1)
    /\ UNCHANGED <<buffer, execution_root, signing_root, execution_phase_tx,
                   execution_phase_rx, signing_phase_tx, signing_phase_rx,
                   persisting_phase_tx, sync_rx, end_epoch, panic, syncs, ticks>>

\* State sync asks to sync to a ledger info of an already ordered block.
RequestSync(b, reconfig, valid) ==
    /\ Running /\ syncs < MaxSyncs
    /\ syncs' = syncs + 1
    /\ sync_rx' = Append(sync_rx, [id |-> b, reconfig |-> reconfig, valid |-> valid])
    /\ UNCHANGED <<buffer, execution_root, signing_root, execution_phase_tx,
                   execution_phase_rx, signing_phase_tx, signing_phase_rx,
                   persisting_phase_tx, block_rx, end_epoch, panic, sent, ticks>>

\* The execution phase answers its requests in order, Ok or Err.
Execute(ok) ==
    /\ Running /\ execution_phase_tx # <<>>
    /\ execution_phase_tx' = Tail(execution_phase_tx)
    /\ execution_phase_rx' = Append(execution_phase_rx,
                                    [id |-> Head(execution_phase_tx), ok |-> ok])
    /\ UNCHANGED <<buffer, execution_root, signing_root, signing_phase_tx,
                   signing_phase_rx, persisting_phase_tx, block_rx, sync_rx,
                   end_epoch, panic, sent, syncs, ticks>>

\* The signing phase answers its requests in order; signing may fail.
Sign(ok) ==
    /\ Running /\ signing_phase_tx # <<>>
    /\ signing_phase_tx' = Tail(signing_phase_tx)
    /\ signing_phase_rx' = Append(signing_phase_rx,
                                  [id |-> Head(signing_phase_tx), ok |-> ok])
    /\ UNCHANGED <<buffer, execution_root, signing_root, execution_phase_tx,
                   execution_phase_rx, persisting_phase_tx, block_rx, sync_rx,
                   end_epoch, panic, sent, syncs, ticks>>

-----------------------------------------------------------------------------

Init ==
    /\ buffer = <<>>
    /\ execution_root = None
    /\ signing_root = None
    /\ execution_phase_tx = <<>> /\ execution_phase_rx = <<>>
    /\ signing_phase_tx = <<>>   /\ signing_phase_rx = <<>>
    /\ persisting_phase_tx = <<>>
    /\ block_rx = <<>> /\ sync_rx = <<>>
    /\ end_epoch = FALSE
    /\ panic = "none"
    /\ sent = 0 /\ syncs = 0 /\ ticks = 0

Next ==
    \/ ReceiveOrderedBlocks
    \/ ReceiveSyncRequest
    \/ ReceiveExecutionResponse
    \/ ReceiveSigningResponse
    \/ \E a \in Validators, b \in 1..sent, m \in BOOLEAN : ReceiveCommitVote(a, b, m)
    \/ IntervalTick
    \/ OrderBlocks
    \/ \E b \in 1..sent, r, v \in BOOLEAN : RequestSync(b, r, v)
    \/ \E ok \in BOOLEAN : Execute(ok)
    \/ \E ok \in BOOLEAN : Sign(ok)

Spec == Init /\ [][Next]_vars

(* Fairness.  tokio::select! polls the ready branches in random order, so *)
(* a handler whose channel stays non-empty is eventually run.  The phases *)
(* are tasks that serve their channels; a signer may fail, but not on     *)
(* every retry.  Peers re-broadcast their commit votes every interval      *)
(* until they commit, so while a Signed item lacks a matching vote some   *)
(* such vote is eventually delivered (each adds a signer, so none        *)
(* starves).  Consensus, state sync and the timer get none.   *)
Fairness ==
    /\ WF_vars(ReceiveOrderedBlocks)
    /\ WF_vars(ReceiveSyncRequest)
    /\ WF_vars(ReceiveExecutionResponse)
    /\ WF_vars(ReceiveSigningResponse)
    /\ WF_vars(\E ok \in BOOLEAN : Execute(ok))
    /\ SF_vars(Sign(TRUE))
    /\ WF_vars(\E a \in Validators, b \in 1..sent : ReceiveCommitVote(a, b, TRUE))

FairSpec == Spec /\ Fairness

-----------------------------------------------------------------------------
(* Properties.                                                             *)

TypeOK ==
    /\ buffer \in Seq(Item)
    /\ {execution_root, signing_root} \subseteq Blocks \cup {None}
    /\ execution_phase_tx \in Seq(Blocks) /\ signing_phase_tx \in Seq(Blocks)
    /\ execution_phase_rx \in Seq([id : Blocks, ok : BOOLEAN])
    /\ signing_phase_rx \in Seq([id : Blocks, ok : BOOLEAN])
    /\ \A r \in Range(persisting_phase_tx) :
          r.blocks \in Seq(Blocks) /\ r.popped \in Seq(States)
    /\ block_rx \in Seq(Blocks)
    /\ end_epoch \in BOOLEAN /\ panic \in Panics
    /\ sent \in 0..MaxBlocks /\ syncs \in 0..MaxSyncs /\ ticks \in 0..MaxTicks

Rank == [s \in States |-> CASE s = "Ordered" -> 0 [] s = "Executed" -> 1
                            [] s = "Signed" -> 2 [] s = "Aggregated" -> 3]

\* The pipeline runs in buffer order: no item is further along than an item
\* ahead of it.  The FIFO phases and the cursors that only move forward
\* must keep this although state sync resets both cursors and duplicates
\* requests; retry_broadcasting_commit_votes relies on it.
PipelineInOrder ==
    \A i, j \in DOMAIN buffer : i < j => Rank[buffer[i].st] >= Rank[buffer[j].st]

\* Each cursor points at the first item its stage has not processed, and
\* is None only when there is no such item (spec 8.5): handlers that
\* pop items or reset the cursors must leave none of them dangling or
\* stuck behind, or a stage request is never sent again.
CursorsAtFirstUnprocessed ==
    Running =>
      /\ execution_root = LinkAt(buffer, SelectInSeq(buffer, IsOrdered))
      /\ signing_root = LinkAt(buffer, SelectInSeq(buffer, IsExecuted))

\* Every ordered block is, in consensus order, persisted exactly once,
\* still in the buffer, or still in block_rx: advance_head pops exactly
\* the prefix it persists, whichever of votes or sync triggered it.
PersistedExactlyOnceInOrder ==
    FlattenSeq([r \in DOMAIN persisting_phase_tx |-> persisting_phase_tx[r].blocks])
      \o [i \in DOMAIN buffer |-> buffer[i].id] \o block_rx
    = [i \in 1..sent |-> i]

\* The assert!(buffer_item.is_ordered()) in process_execution_response
\* never fails: a late or duplicated execution response (after a sync
\* reset) never finds an item that was already executed.
ExecutionResponseFindsOrdered == panic # "not_ordered"

\* The step that ends the epoch sends no execution, signing or persisting
\* request (spec 8, scenario 5), although start() still runs the cursor
\* advances after process_sync_request.
ReconfigSendsNothing ==
    [][~end_epoch /\ end_epoch' =>
         UNCHANGED <<execution_phase_tx, signing_phase_tx, persisting_phase_tx>>]_vars

\* The retry timer only re-broadcasts the commit votes of Signed items
\* before signing_root (spec 4.3): retry_broadcasting_commit_votes never
\* reaches its unreachable!() nor spins on its `continue`.
RetryNeverPanics == panic \notin {"retry_unreachable", "retry_livelock"}

\* Only a contiguous prefix of Aggregated items is persisted (spec 3, and
\* PrefixNotAggregated in 4.3): every item advance_head pops had reached
\* Aggregated.
PersistOnlyAggregatedPrefix ==
    \A r \in Range(persisting_phase_tx) :
        \A i \in DOMAIN r.popped : r.popped[i] = "Aggregated"

Persisted(b) == \E r \in Range(persisting_phase_tx) : b \in Range(r.blocks)

\* Every block consensus orders is eventually persisted, unless the task
\* has stopped (end of epoch or a panic): signing failures, state-sync
\* resets that drop responses, and votes that arrive before the local
\* signature all leave a way forward.
EventuallyPersisted ==
    \A b \in Blocks : (sent >= b) ~> (Persisted(b) \/ ~Running)

\* Requests in flight to a stage (sent and not yet answered, or answered
\* and not yet handled).
InFlight(tx, rx) == Len(tx) + Len(rx)

\* The stage channels are unbounded, yet the requests in flight to a stage
\* stay within one plus the number of sync requests.  A handled response
\* sends at most one request (the response handlers advance their root
\* unconditionally, and a duplicate that finds nothing re-sends the item
\* the root is on); a new block or a sync sends one only when its root is
\* None; only a sync's reset_all_roots makes a root None while a request
\* is still in flight.  A root advanced on every event would let
\* duplicates pile up without bound.
StageRequestsBounded ==
    /\ InFlight(execution_phase_tx, execution_phase_rx) <= 1 + syncs
    /\ InFlight(signing_phase_tx, signing_phase_rx) <= 1 + syncs

(* Refinement.  The buffer manager implements CommitPipeline: consensus's *)
(* sent blocks are the ordered ones, the persisting requests (without the *)
(* popped history) are the committed batches, and the task has stopped    *)
(* when it no longer runs.                                                 *)
Abstract == INSTANCE CommitPipeline WITH
    ordered   <- sent,
    committed <- [r \in DOMAIN persisting_phase_tx |->
                    [blocks |-> persisting_phase_tx[r].blocks,
                     proof  |-> persisting_phase_tx[r].proof]],
    stopped   <- ~Running

\* Each persisting request hands over the next blocks in consensus order,
\* under a commit ledger info that verifies (spec 8.3: by the collected
\* signatures reaching quorum, or by a state-sync ledger info), and
\* nothing is persisted once the epoch ended or the task panicked.
\* (The abstract steps are stated stutter first: most steps of the manager
\* leave the abstract state alone, and TLC then skips the Commit search.)
ImplementsCommitPipeline ==
    Abstract!Init /\ [][UNCHANGED Abstract!vars \/ Abstract!Next]_Abstract!vars

====
