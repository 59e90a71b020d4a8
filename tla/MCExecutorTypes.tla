-------------------------- MODULE MCExecutorTypes --------------------------
(* Model-checking instance of ExecutorTypes: blocks of up to three        *)
(* transactions, each emitting up to two events, of the new-epoch key or  *)
(* one other key.                                                          *)
EXTENDS ExecutorTypes

CONSTANTS NewEpoch, Other

MCKeys == {NewEpoch, Other}
====
