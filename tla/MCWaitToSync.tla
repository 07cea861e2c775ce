---------------------------- MODULE MCWaitToSync ----------------------------
(***************************************************************************)
(* Instances of WaitToSync for TLC: which workers may read a negative      *)
(* addr_len from their stacks.                                             *)
(***************************************************************************)
EXTENDS WaitToSync

NoWorker == {}
FirstWorker == {<<1, 2>>}

=============================================================================
