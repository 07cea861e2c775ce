-------------------------- MODULE MCGlobalSnapshot --------------------------
(***************************************************************************)
(* GlobalSnapshot for TLC: what the hosts multicast.                       *)
(***************************************************************************)
EXTENDS GlobalSnapshotInv

\* The initiator multicasts again after it has taken the snapshot.
InitiatorTwice == [h \in Host |-> IF h = Initiator THEN 2 ELSE 0]

\* Every host multicasts one message.
OneEach == [h \in Host |-> 1]

=============================================================================
