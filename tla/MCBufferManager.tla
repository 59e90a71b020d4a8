--------------------------- MODULE MCBufferManager ---------------------------
(* Model-checking instance of BufferManager: four validators of equal     *)
(* power with quorum 3 (the spec's end-to-end scenarios), this node is v1. *)
EXTENDS BufferManager, TLC

CONSTANTS v1, v2, v3, v4

MCValidators == {v1, v2, v3, v4}
MCPower == [v \in MCValidators |-> 1]

\* The peers are interchangeable; the local author is not.
MCSymmetry == Permutations({v2, v3, v4})

\* The state without what no other variable depends on: the commit proofs
\* already handed to persistence.  Runs whose properties do not read them
\* fingerprint states by this view.
PipelineView ==
    <<buffer, execution_root, signing_root, execution_phase_tx,
      execution_phase_rx, signing_phase_tx, signing_phase_rx,
      [r \in DOMAIN persisting_phase_tx |->
          [blocks |-> persisting_phase_tx[r].blocks,
           popped |-> persisting_phase_tx[r].popped]],
      block_rx, sync_rx, end_epoch, panic, sent, syncs, ticks>>

====
