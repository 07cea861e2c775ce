------------------------ MODULE MCReliableMulticast ------------------------
(***************************************************************************)
(* Instances of ReliableMulticast for TLC: who multicasts how much.        *)
(***************************************************************************)
EXTENDS MulticastOnWire

\* testone.sh in small: host 1 multicasts two messages, the others none.
OneSender == [h \in Host |-> IF h = 1 THEN 2 ELSE 0]

\* testtwo.sh in small: hosts 1 and 2 multicast one message each.
TwoSenders == [h \in Host |-> IF h =< 2 THEN 1 ELSE 0]

=============================================================================
