------------------------- MODULE MulticastRefinement -------------------------
(***************************************************************************)
(* ReliableMulticast implements AgreedMulticast.  The proposals are those  *)
(* that the hosts remember, the final key of a message is the one in its   *)
(* sender's history, and a host has learnt the finals in its own history.  *)
(* Packets, acks and resends, the counters and the caps are hidden.        *)
(***************************************************************************)
EXTENDS ReliableMulticastInv

\* The final key of m, if its sender has fixed it.
FinalKey(m) ==
    LET finals == FinalsOf(Sender(m), m)
    IN  IF finals = {}
        THEN [seq |-> 0, proposer |-> Sender(m)]
        ELSE LET f == CHOOSE f \in finals : TRUE
             IN  [seq |-> f.seq, proposer |-> f.proposer]

Learnt(h) == {m \in Msg : FinalsOf(h, m) # {}}

DeliveredMsgs(h) == [i \in DOMAIN deliveredMessage[h] |-> deliveredMessage[h][i].msg]

\* What the variables of AgreedMulticast are in a state of ReliableMulticast.
ProposalMap  == [h \in Host |-> [m \in Msg |-> Proposal(h, m)]]
FinalMap     == [m \in Msg |-> FinalKey(m)]
LearntMap    == [h \in Host |-> Learnt(h)]
DeliveredMap == [h \in Host |-> DeliveredMsgs(h)]

Agreed == INSTANCE AgreedMulticast
    WITH proposal <- ProposalMap, final <- FinalMap, learnt <- LearntMap,
         delivered <- DeliveredMap

\* Whatever is lost, delayed, repeated or cut off by a cap, the handlers do
\* nothing to proposals, final numbers and delivered messages that the three
\* actions of AgreedMulticast do not allow.
ImplementsAgreed == Agreed!Spec

-----------------------------------------------------------------------------
\* A message that waits for its final number is in the queue under the number
\* that its host proposed to the others.
QueuedUnderProposal ==
    \A h \in Host : \A e \in deliveryQueue[h] :
        e.status = UNDELIVERABLE => e.seq = Proposal(h, e.msg) /\ e.proposer = h

\* No host has proposed a number above its counter, so that the next one is
\* not below those it proposed before.
ProposalsCounted ==
    \A h \in Host, m \in Msg : Proposal(h, m) =< curr_seq_number[h]

\* The invariant that the refinement rests on.
RefInv == IndInv /\ QueuedUnderProposal /\ ProposalsCounted

=============================================================================
