--------------------------- MODULE CommitPipeline ---------------------------
(***************************************************************************)
(* What the buffer manager promises its consumer, the persisting phase    *)
(* (spec sections 3 and 8.3), with the pipeline stages abstracted away:   *)
(* consensus orders blocks 1, 2, ...; the manager commits them as a log   *)
(* of batches, each batch the next blocks in order, each carrying a       *)
(* commit proof that verifies under the epoch's validator set; once the  *)
(* manager stops (end of epoch or a panic) it commits nothing more.       *)
(*                                                                         *)
(* BufferManager implements it under the mapping in BufferManager.tla    *)
(* (Abstract == INSTANCE CommitPipeline WITH ...).                         *)
(***************************************************************************)
EXTENDS Naturals, Sequences, SequencesExt

CONSTANTS
    Validators,   \* the epoch's validator set
    Power,        \* voting power of each validator
    QuorumPower,  \* voting power a proof must carry
    MaxBlocks     \* bound: blocks ordered in the epoch

VARIABLES
    ordered,      \* blocks 1..ordered have been ordered by consensus
    committed,    \* the batches handed to persistence: [blocks, proof]
    stopped       \* the manager has stopped

vars == <<ordered, committed, stopped>>

\* A commit proof: either the signatures collected for the block, or a
\* ledger info taken from state sync that verified on its own.
Proofs == [signers : SUBSET Validators, li : BOOLEAN]

Verifies(p) == p.li \/ SumFunctionOnSet(Power, p.signers) >= QuorumPower

\* The blocks committed so far, in commit order.
CommittedBlocks == FlattenSeq([i \in DOMAIN committed |-> committed[i].blocks])

Init == ordered = 0 /\ committed = <<>> /\ stopped = FALSE

Order ==
    /\ ~stopped /\ ordered < MaxBlocks
    /\ ordered' = ordered + 1
    /\ UNCHANGED <<committed, stopped>>

\* Commit the next k ordered blocks as one batch under proof p.
Commit(k, p) ==
    LET done == Len(CommittedBlocks) IN
    /\ ~stopped /\ done + k <= ordered /\ Verifies(p)
    /\ committed' = Append(committed, [blocks |-> [i \in 1..k |-> done + i],
                                       proof  |-> p])
    /\ UNCHANGED <<ordered, stopped>>

Stop ==
    /\ ~stopped /\ stopped' = TRUE
    /\ UNCHANGED <<ordered, committed>>

Next ==
    \/ Order
    \/ \E k \in 1..MaxBlocks, p \in Proofs : Commit(k, p)
    \/ Stop

Spec == Init /\ [][Next]_vars

====
