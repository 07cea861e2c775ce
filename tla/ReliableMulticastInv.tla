------------------------ MODULE ReliableMulticastInv ------------------------
(***************************************************************************)
(* The inductive invariant of ReliableMulticast.  The safety properties of *)
(* that module are not inductive: what a packet or a history says must be  *)
(* tied to what its sender remembers.  The parts below say, in the order   *)
(* in which the protocol builds on them, that the proposals known to the   *)
(* sender are those that were made, that final numbers come from complete  *)
(* proposals and from nowhere else, and that a host which has proposed for *)
(* a message holds exactly one copy of it.                                 *)
(***************************************************************************)
EXTENDS ReliableMulticast

Sent(m) == ackHistory[m][Sender(m)] # 0

\* A message has its sender's own proposal exactly when it was multicast, and
\* no other host proposes for it before that.
SentMessages ==
    /\ \A m \in Msg : Sent(m) <=> m[2] < curr_msg_id[Sender(m)]
    /\ \A h \in Host, m \in Msg : alreadyAcked[h][m] # 0 => h # Sender(m) /\ Sent(m)

\* The sender has collected no proposal that its host did not make.
CollectedProposals ==
    \A h \in Host, m \in Msg :
        h # Sender(m) /\ ackHistory[m][h] # 0 => ackHistory[m][h] = alreadyAcked[h][m]

\* A packet in flight repeats what its sender remembers.
Truthful(x) ==
    /\ x.type = "DATAMSG" => Sent(x.msg) /\ x.to # Sender(x.msg)
    /\ x.type = "ACKMSG" =>
         /\ x.proposer # Sender(x.msg)
         /\ x.seq # 0
         /\ x.seq = alreadyAcked[x.proposer][x.msg]
    /\ x.type = "SEQMSG" =>
         Final(x.msg, x.seq, x.proposer) \in seqMessageHistory[Sender(x.msg)]

TruthfulPackets == \A x \in network : Truthful(x)

\* Every history agrees with that of the message's sender, and the sender's is
\* the largest of complete proposals.
TruthfulHistories ==
    \A h \in Host : \A f \in seqMessageHistory[h] :
        /\ f \in seqMessageHistory[Sender(f.msg)]
        /\ Complete(ackHistory[f.msg])
        /\ ackHistory[f.msg][f.proposer] = f.seq
        /\ IsMaxSequence(ackHistory[f.msg], f.proposer)

\* With all proposals in, the final number is in the sender's history.  (A
\* host alone in its group completes its proposals but never finalizes.)
FinalizedWhenComplete ==
    \A m \in Msg :
        Complete(ackHistory[m]) /\ Host # {Sender(m)} => FinalsOf(Sender(m), m) # {}

\* A host holds a message exactly when it has proposed for it.
HeldWhenProposed ==
    \A h \in Host, m \in Msg : Proposal(h, m) # 0 <=> Queued(h, m) \/ Delivered(h, m)

\* An entry of the queue of host h that has its final number.
Deliverable(h, m) == \E e \in deliveryQueue[h] : e.msg = m /\ e.status = DELIVERABLE

\* A final number in a queue or among the delivered is in the host's history.
DeliverableWhenFinal ==
    \A h \in Host :
        /\ \A e \in deliveryQueue[h] : e.status = DELIVERABLE =>
             Final(e.msg, e.seq, e.proposer) \in seqMessageHistory[h]
        /\ \A i \in DOMAIN deliveredMessage[h] :
             Final(deliveredMessage[h][i].msg, deliveredMessage[h][i].seq,
                   deliveredMessage[h][i].proposer) \in seqMessageHistory[h]

\* The loop that delivers stops at an entry without its final number: such an
\* entry is in front of every queue that is not empty.  IndInv does not build
\* on this, so it is kept apart.
FrontWaits ==
    \A h \in Host :
        \/ deliveryQueue[h] = {}
        \/ \E e \in HeapFront(deliveryQueue[h]) : e.status = UNDELIVERABLE

\* The inductive invariant.
IndInv ==
    /\ TypeOK
    /\ SentMessages
    /\ CollectedProposals
    /\ TruthfulPackets
    /\ TruthfulHistories
    /\ FinalizedWhenComplete
    /\ HeldWhenProposed
    /\ ExactlyOnce
    /\ DeliverableWhenFinal
    /\ WatchdogsStopWhenDone
    /\ NoHostExits

=============================================================================
