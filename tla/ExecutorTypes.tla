--------------------------- MODULE ExecutorTypes ---------------------------
(***************************************************************************)
(* ProcessedVMOutput::compute_result (src/execution/executor/src/types.rs) *)
(* turns the executed transactions of a block into the StateComputeResult *)
(* the execution phase hands back to consensus.                            *)
(*                                                                         *)
(* Abstractions.  A TransactionData keeps the three fields compute_result *)
(* reads: its status, its txn_info_hash and its events.  The blobs, node  *)
(* hashes, write set, state root, event tree and gas are left out, and so *)
(* are the values compute_result only copies (accumulator root, frozen    *)
(* subtrees, leaf counts, epoch_state).  An event is its key plus the      *)
(* transaction and position it came from, so that order is observable; a  *)
(* transaction's info hash is its index, as distinct transactions have     *)
(* distinct info hashes.  KeptVMStatus and StatusCode payloads are         *)
(* dropped.                                                                *)
(***************************************************************************)
EXTENDS Naturals, Sequences, SequencesExt

CONSTANTS
    Keys,          \* event keys
    NewEpochKey,   \* on_chain_config::new_epoch_event_key()
    None,          \* Option::None, and the result not yet computed
    MaxTxns,       \* bound: transactions in a block
    MaxEvents      \* bound: events of one transaction

ASSUME NewEpochKey \in Keys /\ None \notin Nat /\ {MaxTxns, MaxEvents} \subseteq Nat

\* TransactionStatus: Keep(KeptVMStatus) | Discard(StatusCode) | Retry.
Statuses == {"Keep", "Discard", "Retry"}

\* The TransactionData of transaction j with status s and events of keys
\* ks; txn_info_hash is Some only for a kept transaction (the field's doc).
TransactionData(j, s, ks) ==
    [status        |-> s,
     txn_info_hash |-> IF s = "Keep" THEN j ELSE None,
     events        |-> [n \in DOMAIN ks |-> [key |-> ks[n], txn |-> j, n |-> n]]]

\* The transaction_data vectors of a ProcessedVMOutput, up to the bounds.
ProcessedVMOutputs ==
    UNION {{[j \in 1..len |-> TransactionData(j, st[j], ev[j])] :
              st \in [1..len -> Statuses],
              ev \in [1..len -> BoundedSeq(Keys, MaxEvents)]} :
           len \in 0..MaxTxns}

VARIABLES
    transaction_data,   \* the input, self.transaction_data()
    result              \* the StateComputeResult, or None before the call

vars == <<transaction_data, result>>

-----------------------------------------------------------------------------
(* compute_result.  acc holds the three vectors the loop fills, and       *)
(* whether the expect() panicked, which ends the loop.                    *)

IsNewEpoch(e) == e.key = NewEpochKey

\* Mutant: the reconfiguration events are collected outside the Keep
\* branch, from discarded and retried transactions too.
push_txn_events_of_all(acc, txn_data) ==
    IF acc.panic THEN acc
    ELSE LET kept == txn_data.status = "Keep" IN
         [acc EXCEPT
            !.compute_status = Append(@, txn_data.status),
            !.transaction_info_hashes = IF kept THEN Append(@, txn_data.txn_info_hash) ELSE @,
            !.reconfig_events = @ \o SelectSeq(txn_data.events, IsNewEpoch),
            !.panic = kept /\ txn_data.txn_info_hash = None]

\* One iteration of the for loop.
push_txn(acc, txn_data) ==
    IF acc.panic THEN acc
    ELSE LET kept == txn_data.status = "Keep" IN
         [acc EXCEPT
            !.compute_status = Append(@, txn_data.status),
            !.transaction_info_hashes = IF kept THEN Append(@, txn_data.txn_info_hash) ELSE @,
            !.reconfig_events = IF kept THEN @ \o SelectSeq(txn_data.events, IsNewEpoch)
                                ELSE @,
            !.panic = kept /\ txn_data.txn_info_hash = None]

RECURSIVE compute_loop(_, _)
compute_loop(acc, rest) ==
    IF rest = <<>> THEN acc ELSE compute_loop(push_txn(acc, Head(rest)), Tail(rest))

compute_result(td) ==
    compute_loop([compute_status |-> <<>>, transaction_info_hashes |-> <<>>,
                  reconfig_events |-> <<>>, panic |-> FALSE], td)

-----------------------------------------------------------------------------

Init == transaction_data \in ProcessedVMOutputs /\ result = None

\* The execution phase calls compute_result once on the block's output.
ComputeResult ==
    /\ result = None
    /\ result' = compute_result(transaction_data)
    /\ UNCHANGED transaction_data

Next == ComputeResult

Spec == Init /\ [][Next]_vars

-----------------------------------------------------------------------------
(* Properties.                                                             *)

\* The reference: what StateComputeResult's three vectors are, stated over
\* the whole block at once.  Consensus reads compute_status entry by entry
\* against the block's transactions, and matches the Keep entries with
\* transaction_info_hashes in order; reconfig_events decides the epoch
\* change.
Kept(td) == SelectSeq(td, LAMBDA t : t.status = "Keep")

Reference(td) ==
    [compute_status          |-> [j \in DOMAIN td |-> td[j].status],
     transaction_info_hashes |-> [j \in DOMAIN Kept(td) |-> Kept(td)[j].txn_info_hash],
     reconfig_events         |-> FlattenSeq([j \in DOMAIN Kept(td) |->
                                    SelectSeq(Kept(td)[j].events, IsNewEpoch)]),
     panic                   |-> FALSE]

\* compute_result's loop produces the reference result on every block:
\* one status per transaction in order, one info hash per kept transaction
\* in order, and exactly the new-epoch events of kept transactions, in
\* emission order; the expect() never fires on a well-formed output.
ComputeResultMatchesReference ==
    result # None => result = Reference(transaction_data)

====
