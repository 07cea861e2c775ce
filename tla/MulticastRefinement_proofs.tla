--------------------- MODULE MulticastRefinement_proofs ---------------------
(***************************************************************************)
(* ReliableMulticast implements AgreedMulticast, for any group of hosts,   *)
(* any number of messages, any losses and any caps; and what is proved of  *)
(* the order of AgreedMulticast holds of ReliableMulticast.                *)
(*                                                                         *)
(* A multicast and the first receipt of a message are proposals, the ack   *)
(* that completes the proposals decides, and a final number applied to the *)
(* queue is learnt.  Every other step leaves the mapped variables alone.   *)
(***************************************************************************)
EXTENDS MulticastRefinement, ReliableMulticast_proofs

-----------------------------------------------------------------------------
(***************************************************************************)
(* The invariant of the refinement.                                        *)
(***************************************************************************)

\* The invariant holds initially.
LEMMA RefInit == Init => RefInv
<1> SUFFICES ASSUME Init PROVE RefInv
    OBVIOUS
<1>1. IndInv
    BY IndInit
<1>2. QueuedUnderProposal /\ ProposalsCounted
    BY MsgFacts DEF Init, QueuedUnderProposal, ProposalsCounted, Proposal
<1> QED
    BY <1>1, <1>2 DEF RefInv

\* Setting a final number and delivering leave the entries that wait for theirs
\* as they are.
LEMMA DeliveryKeepsWaiting ==
    ASSUME RefInv, NEW h \in Host, NEW m \in Msg, NEW seq \in Nat, NEW proposer \in Host,
           DeliverFrom(h, ChangeQueued(deliveryQueue[h], m, seq, proposer)),
           \A k \in Host, n \in Msg : Proposal(k, n)' = Proposal(k, n)
    PROVE  QueuedUnderProposal'
<1> DEFINE queue == ChangeQueued(deliveryQueue[h], m, seq, proposer)
<1>1. /\ deliveryQueue \in [Host -> SUBSET QueueEntry]
      /\ \A k \in Host : IsFiniteSet(deliveryQueue[k])
      /\ deliveredMessage \in [Host -> Seq(QueueEntry)]
    BY DEF RefInv, IndInv, TypeOK
<1>2. /\ queue \in SUBSET QueueEntry
      /\ IsFiniteSet(queue)
      /\ \A e \in queue : e.status = UNDELIVERABLE => e \in deliveryQueue[h]
  <2>1. /\ queue \in SUBSET QueueEntry
        /\ IsFiniteSet(queue)
        /\ \A e \in queue : \/ e = QueuedMessage(m, seq, proposer, DELIVERABLE)
                            \/ e \in deliveryQueue[h] /\ e.msg # m
      BY <1>1, ChangeQueuedFacts
  <2> HIDE DEF queue
  <2> QED
      BY <2>1 DEF QueuedMessage, UNDELIVERABLE, DELIVERABLE
<1>3. /\ deliveryQueue' \in [Host -> SUBSET QueueEntry]
      /\ deliveryQueue'[h] \subseteq queue
      /\ \A k \in Host \ {h} : deliveryQueue'[k] = deliveryQueue[k]
  <2>1. DeliverFrom(h, queue)
      OBVIOUS
  <2> HIDE DEF queue
  <2> QED
      BY <1>1, <1>2, <2>1, DeliverFacts
<1> HIDE DEF queue
<1>4. \A k \in Host : \A e \in deliveryQueue'[k] :
        e.status = UNDELIVERABLE => e \in deliveryQueue[k] /\ e.msg \in Msg
  <2>1. ASSUME NEW k \in Host, NEW e \in deliveryQueue'[k]
        PROVE  e.msg \in Msg
      BY <1>3 DEF QueueEntry
  <2>2. ASSUME NEW k \in Host, NEW e \in deliveryQueue'[k], e.status = UNDELIVERABLE
        PROVE  e \in deliveryQueue[k]
      BY <1>2, <1>3, <2>2
  <2> QED
      BY <2>1, <2>2
<1> QED
    BY <1>4 DEF RefInv, QueuedUnderProposal

\* No step takes an entry that waits from the number its host proposed, or
\* proposes a number that is not counted.
LEMMA RefNext == RefInv /\ [Next]_vars => RefInv'
<1> SUFFICES ASSUME RefInv, [Next]_vars PROVE RefInv'
    OBVIOUS
<1> USE DEF RefInv
<1>1. IndInv'
    BY IndNext
<1>2. /\ curr_seq_number \in [Host -> Nat \ {0}]
      /\ ackHistory \in [Msg -> [Host -> Nat]]
      /\ alreadyAcked \in [Host -> [Msg -> Nat]]
      /\ deliveryQueue \in [Host -> SUBSET QueueEntry]
      /\ \A k \in Host, n \in Msg : Proposal(k, n) \in Nat
    BY DEF IndInv, TypeOK, Proposal
<1>3. ASSUME NEW h \in Host, MulticastDatamsg(h)
      PROVE  QueuedUnderProposal' /\ ProposalsCounted'
  <2> DEFINE m   == <<h, curr_msg_id[h]>>
             seq == curr_seq_number[h] + 1
             new == QueuedMessage(m, seq, h, UNDELIVERABLE)
  <2>1. m \in Msg /\ Sender(m) = h
    <3>1. curr_msg_id[h] \in Nat /\ curr_msg_id[h] < NumMsgToSend[h]
        BY <1>3 DEF MulticastDatamsg, IndInv, TypeOK
    <3> QED
        BY <3>1, MsgFacts
  <2>2. /\ curr_seq_number' = [curr_seq_number EXCEPT ![h] = seq]
        /\ ackHistory' = [ackHistory EXCEPT ![m][h] = seq]
        /\ deliveryQueue' = [deliveryQueue EXCEPT ![h] = @ \cup {new}]
        /\ UNCHANGED alreadyAcked
      BY <1>3 DEF MulticastDatamsg
  <2>3. seq \in Nat /\ seq = curr_seq_number[h] + 1
      BY <1>2
  <2>4. ~ Queued(h, m)
    <3>1. ~ Sent(m)
        BY <1>3, <2>1 DEF MulticastDatamsg, IndInv, TypeOK, SentMessages
    <3> QED
        BY <2>1, <3>1, UnsentMessages
  <2>5. new.msg = m /\ new.seq = seq /\ new.proposer = h
      BY DEF QueuedMessage
  <2> HIDE DEF m, seq, new
  <2>6. \A k \in Host, n \in Msg :
          Proposal(k, n)' = IF k = h /\ n = m THEN seq ELSE Proposal(k, n)
      BY <1>2, <2>1, <2>2 DEF Proposal
  <2>7. QueuedUnderProposal'
      BY <1>2, <2>1, <2>2, <2>4, <2>5, <2>6 DEF QueuedUnderProposal, QueueEntry, Queued
  <2>8. ProposalsCounted'
      BY <1>2, <2>2, <2>3, <2>6 DEF ProposalsCounted
  <2> QED
      BY <2>7, <2>8
<1>4. ASSUME NEW h \in Host, NEW m \in Msg, Propose(h, m)
      PROVE  QueuedUnderProposal' /\ ProposalsCounted'
  <2> DEFINE seq == curr_seq_number[h]
             new == QueuedMessage(m, seq, h, UNDELIVERABLE)
  <2>1. /\ DataMessage(h, m) \in network
        /\ curr_seq_number' = [curr_seq_number EXCEPT ![h] = seq + 1]
        /\ alreadyAcked' = [alreadyAcked EXCEPT ![h][m] = seq]
        /\ deliveryQueue' = [deliveryQueue EXCEPT ![h] = @ \cup {new}]
        /\ UNCHANGED ackHistory
        /\ alreadyAcked[h][m] = 0
      BY <1>4 DEF Propose, Receive
  <2>2. h # Sender(m)
      BY <2>1, PacketTruth DEF IndInv, TruthfulPackets
  <2>3. ~ Queued(h, m)
      BY <2>1, <2>2 DEF IndInv, HeldWhenProposed, Proposal
  <2>4. seq \in Nat /\ seq = curr_seq_number[h]
      BY <1>2
  <2>5. new.msg = m /\ new.seq = seq /\ new.proposer = h
      BY DEF QueuedMessage
  <2> HIDE DEF seq, new
  <2>6. \A k \in Host, n \in Msg :
          Proposal(k, n)' = IF k = h /\ n = m THEN seq ELSE Proposal(k, n)
      BY <1>2, <2>1, <2>2 DEF Proposal
  <2>7. QueuedUnderProposal'
      BY <1>2, <2>1, <2>3, <2>5, <2>6 DEF QueuedUnderProposal, QueueEntry, Queued
  <2>8. ProposalsCounted'
      BY <1>2, <2>1, <2>4, <2>6 DEF ProposalsCounted
  <2> QED
      BY <2>7, <2>8
<1>5. ASSUME NEW m \in Msg, NEW p \in Host, NEW seq, CollectAck(m, p, seq) \/ Finalize(m, p, seq)
      PROVE  QueuedUnderProposal' /\ ProposalsCounted'
  <2>1. /\ AckMessage(m, seq, p) \in network
        /\ ackHistory[m][p] = 0
        /\ ackHistory' = [ackHistory EXCEPT ![m] = [ackHistory[m] EXCEPT ![p] = seq]]
        /\ curr_seq_number' = [curr_seq_number EXCEPT ![Sender(m)] = @ + 1]
        /\ UNCHANGED <<curr_msg_id, alreadyAcked>>
      BY <1>5 DEF CollectAck, Finalize, Receive
  <2>2. \A k \in Host, n \in Msg : Proposal(k, n)' = Proposal(k, n)
      BY <2>1, NewAck
  <2>3. ProposalsCounted'
      BY <1>2, <2>1, <2>2 DEF ProposalsCounted
  <2>4. CASE CollectAck(m, p, seq)
    <3>1. UNCHANGED deliveryQueue
        BY <2>4 DEF CollectAck
    <3> QED
        BY <1>2, <2>2, <2>3, <3>1 DEF QueuedUnderProposal, QueueEntry
  <2>5. CASE Finalize(m, p, seq)
    <3> DEFINE acks == [ackHistory[m] EXCEPT ![p] = seq]
    <3>1. PICK top \in Host :
            DeliverFrom(Sender(m), ChangeQueued(deliveryQueue[Sender(m)], m, acks[top], top))
        BY <2>5 DEF Finalize
    <3>2. Sender(m) \in Host /\ acks[top] \in Nat
        BY <1>2, <2>1, AckTruth, MsgFacts
    <3> HIDE DEF acks
    <3> QED
        BY <2>2, <2>3, <3>1, <3>2, DeliveryKeepsWaiting
  <2> QED
      BY <1>5, <2>4, <2>5
<1>6. ASSUME NEW h \in Host, NEW m \in Msg, NEW seq, NEW proposer, ApplyFinal(h, m, seq, proposer)
      PROVE  QueuedUnderProposal' /\ ProposalsCounted'
  <2>1. /\ SeqMessage(h, m, seq, proposer) \in network
        /\ DeliverFrom(h, ChangeQueued(deliveryQueue[h], m, seq, proposer))
        /\ UNCHANGED <<ackHistory, alreadyAcked, curr_seq_number>>
      BY <1>6 DEF ApplyFinal, Receive
  <2>2. seq \in Nat /\ proposer \in Host
      BY <2>1, FinalTruth
  <2>3. \A k \in Host, n \in Msg : Proposal(k, n)' = Proposal(k, n)
      BY <2>1 DEF Proposal
  <2> QED
      BY <2>1, <2>2, <2>3, DeliveryKeepsWaiting DEF ProposalsCounted
<1>7. CASE UNCHANGED <<ackHistory, alreadyAcked, curr_seq_number, deliveryQueue>>
    BY <1>1, <1>7 DEF QueuedUnderProposal, ProposalsCounted, Proposal
<1>8. CASE UNCHANGED vars
    BY <1>7, <1>8 DEF vars
<1>9. ASSUME NEW h \in Host, NEW m \in Msg,
             \/ HandleDatamsg(h, m) \/ HandleAckmsg(m, h) \/ HandleSeqmsg(h, m)
             \/ DatamsgWatchdog(m, h) \/ AckmsgWatchdog(h, m)
      PROVE  RefInv'
  <2>1. CASE HandleDatamsg(h, m)
      BY <1>1, <1>4, <1>7, <2>1 DEF HandleDatamsg, ReAck
  <2>2. CASE HandleAckmsg(m, h)
    <3>1. PICK a \in network :
            \/ CollectAck(m, h, a.seq) \/ Finalize(m, h, a.seq)
            \/ ResendFinal(m, h, a.seq) \/ IgnoreAck(m, h, a.seq)
        BY <2>2 DEF HandleAckmsg
    <3>2. CASE CollectAck(m, h, a.seq) \/ Finalize(m, h, a.seq)
        BY <1>1, <1>5, <3>2
    <3>3. CASE ResendFinal(m, h, a.seq) \/ IgnoreAck(m, h, a.seq)
        BY <1>7, <3>3 DEF ResendFinal, IgnoreAck
    <3> QED
        BY <3>1, <3>2, <3>3
  <2>3. CASE HandleSeqmsg(h, m)
    <3>1. PICK f \in network :
            ApplyFinal(h, m, f.seq, f.proposer) \/ DropFinal(h, m, f.seq, f.proposer)
        BY <2>3 DEF HandleSeqmsg
    <3>2. CASE ApplyFinal(h, m, f.seq, f.proposer)
        BY <1>1, <1>6, <3>2
    <3>3. CASE DropFinal(h, m, f.seq, f.proposer)
        BY <1>7, <3>3 DEF DropFinal
    <3> QED
        BY <3>1, <3>2, <3>3
  <2>4. CASE DatamsgWatchdog(m, h) \/ AckmsgWatchdog(h, m)
      BY <1>7, <2>4 DEF DatamsgWatchdog, AckmsgWatchdog
  <2> QED
      BY <1>9, <2>1, <2>2, <2>3, <2>4
<1> QED
    BY <1>1, <1>3, <1>8, <1>9 DEF Next

\* Every entry that waits has the number its host proposed, and every proposal
\* is counted, in all reachable states.
THEOREM RefInvariance == Spec => []RefInv
<1> QED
    BY RefInit, RefNext, PTL DEF Spec

-----------------------------------------------------------------------------
(***************************************************************************)
(* The mapped state.                                                       *)
(***************************************************************************)

\* A final number in any history is the final key of its message; a message
\* with none in its sender's history has the key 0.
FinalKeysKnown ==
    /\ \A h \in Host : \A f \in seqMessageHistory[h] :
         /\ f.msg \in Msg
         /\ FinalKey(f.msg) = [seq |-> f.seq, proposer |-> f.proposer]
         /\ f.seq # 0
    /\ \A m \in Msg : FinalsOf(Sender(m), m) = {} =>
         FinalKey(m) = [seq |-> 0, proposer |-> Sender(m)]

\* Two entries of one message in a history are equal, so the choice in FinalKey
\* is no choice.
LEMMA FinalKeys == IndInv => FinalKeysKnown
<1> SUFFICES ASSUME IndInv PROVE FinalKeysKnown
    OBVIOUS
<1>1. seqMessageHistory \in [Host -> SUBSET [msg : Msg, seq : Nat, proposer : Host]]
      /\ ackHistory \in [Msg -> [Host -> Nat]]
    BY DEF IndInv, TypeOK
<1>2. ASSUME NEW h \in Host, NEW f \in seqMessageHistory[h]
      PROVE  /\ f.msg \in Msg
             /\ FinalKey(f.msg) = [seq |-> f.seq, proposer |-> f.proposer]
             /\ f.seq # 0
  <2> DEFINE m == f.msg
             s == Sender(m)
  <2>1. /\ f \in [msg : Msg, seq : Nat, proposer : Host]
        /\ f \in seqMessageHistory[s]
        /\ Complete(ackHistory[m])
        /\ ackHistory[m][f.proposer] = f.seq
      BY <1>1 DEF IndInv, TruthfulHistories
  <2>2. m \in Msg /\ s \in Host /\ f.proposer \in Host
      BY <2>1, MsgFacts
  <2>3. f.seq # 0
      BY <2>1, <2>2 DEF Complete
  <2>4. f \in FinalsOf(s, m)
      BY <2>1 DEF FinalsOf
  <2>5. ASSUME NEW g \in FinalsOf(s, m) PROVE g.seq = f.seq /\ g.proposer = f.proposer
    <3>1. /\ g \in seqMessageHistory[s] /\ g.msg = m
          /\ g \in [msg : Msg, seq : Nat, proposer : Host]
        BY <1>1, <2>2 DEF FinalsOf
    <3>2. /\ ackHistory[m][g.proposer] = g.seq /\ IsMaxSequence(ackHistory[m], g.proposer)
          /\ ackHistory[m][f.proposer] = f.seq /\ IsMaxSequence(ackHistory[m], f.proposer)
        BY <2>2, <3>1 DEF IndInv, TruthfulHistories
    <3>3. f.proposer \in Nat /\ g.proposer \in Nat /\ f.seq \in Nat /\ g.seq \in Nat
        BY <2>1, <3>1, HostAssumption
    <3> HIDE DEF m, s
    <3>4. f.seq =< g.seq /\ g.seq =< f.seq
        BY <2>1, <2>2, <3>1, <3>2 DEF IsMaxSequence
    <3>5. f.seq = g.seq
        BY <3>3, <3>4
    <3>6. f.proposer =< g.proposer /\ g.proposer =< f.proposer
        BY <2>1, <2>2, <3>1, <3>2, <3>5 DEF IsMaxSequence
    <3> QED
        BY <3>3, <3>5, <3>6
  <2>6. (CHOOSE g \in FinalsOf(s, m) : TRUE) \in FinalsOf(s, m)
      BY <2>4
  <2>7. FinalKey(m) = [seq |-> f.seq, proposer |-> f.proposer]
      BY <2>4, <2>5, <2>6 DEF FinalKey
  <2> QED
      BY <2>2, <2>3, <2>7
<1>3. \A m \in Msg : FinalsOf(Sender(m), m) = {} =>
        FinalKey(m) = [seq |-> 0, proposer |-> Sender(m)]
    BY DEF FinalKey
<1> QED
    BY <1>2, <1>3 DEF FinalKeysKnown

\* The same in the state after a step.
LEMMA FinalKeysNext == IndInv' => FinalKeysKnown'
    BY FinalKeys, PTL

\* What waits at a host in the abstract state are the messages of its queue.
LEMMA WaitingMessages ==
    ASSUME IndInv, NEW h \in Host
    PROVE  /\ Agreed!Waiting(h) = {e.msg : e \in deliveryQueue[h]}
           /\ Agreed!Waiting(h) \subseteq Msg
           /\ \A k \in Agreed!Waiting(h) : \A i \in DOMAIN deliveredMessage[h] :
                deliveredMessage[h][i].msg # k
<1>1. deliveryQueue \in [Host -> SUBSET QueueEntry]
    BY DEF IndInv, TypeOK
<1>2. \A k : k \in Agreed!Range(DeliveredMap[h]) <=> Delivered(h, k)
    BY DEF Agreed!Range, DeliveredMap, DeliveredMsgs, Delivered
<1>3. \A k \in Msg : k \in Agreed!Waiting(h) <=> Queued(h, k)
  <2>1. \A k \in Msg : k \in Agreed!Waiting(h) <=> Proposal(h, k) # 0 /\ ~ Delivered(h, k)
      BY <1>2 DEF Agreed!Waiting, ProposalMap
  <2>2. \A k \in Msg : Queued(h, k) => ~ Delivered(h, k)
      BY DEF IndInv, ExactlyOnce, Queued
  <2> QED
      BY <2>1, <2>2 DEF IndInv, HeldWhenProposed
<1>4. Agreed!Waiting(h) \subseteq Msg
    BY DEF Agreed!Waiting
<1>5. \A e \in deliveryQueue[h] : e.msg \in Msg
    BY <1>1 DEF QueueEntry
<1>6. \A k \in Agreed!Waiting(h) : ~ Delivered(h, k)
    BY <1>2 DEF Agreed!Waiting
<1> QED
    BY <1>3, <1>4, <1>5, <1>6 DEF Queued, Delivered

-----------------------------------------------------------------------------
(***************************************************************************)
(* Delivery.                                                               *)
(***************************************************************************)

\* An entry in front of a queue is the entry of a message in front of those
\* that wait, when entries have the keys of their messages.
LEMMA FrontMessage ==
    ASSUME NEW h \in Host, NEW rest, NEW known, NEW keys, NEW e \in HeapFront(rest),
           \A x \in rest : Agreed!KeyAt(h, x.msg, known, keys)
                             = [seq |-> x.seq, proposer |-> x.proposer]
    PROVE  Agreed!InFront(h, e.msg, {x.msg : x \in rest}, known, keys)
<1>1. e \in rest /\ \A x \in rest : ~ cmp(x, e)
    BY DEF HeapFront
<1>2. \A x \in rest : ~ Agreed!Before([seq |-> x.seq, proposer |-> x.proposer],
                                      [seq |-> e.seq, proposer |-> e.proposer])
    BY <1>1 DEF cmp, Agreed!Before
<1>3. \A w \in {x.msg : x \in rest} :
        ~ Agreed!Before(Agreed!KeyAt(h, w, known, keys), Agreed!KeyAt(h, e.msg, known, keys))
  <2> SUFFICES ASSUME NEW x \in rest
               PROVE  ~ Agreed!Before(Agreed!KeyAt(h, x.msg, known, keys),
                                      Agreed!KeyAt(h, e.msg, known, keys))
      OBVIOUS
  <2>1. /\ Agreed!KeyAt(h, x.msg, known, keys) = [seq |-> x.seq, proposer |-> x.proposer]
        /\ Agreed!KeyAt(h, e.msg, known, keys) = [seq |-> e.seq, proposer |-> e.proposer]
      BY <1>1
  <2> QED
      BY <1>2, <2>1
<1>4. e.msg \in {x.msg : x \in rest}
    BY <1>1
<1> QED
    BY <1>3, <1>4 DEF Agreed!InFront

\* What a queue is at host h once the final number of m is set in it: its
\* entries are those of the waiting messages, under their abstract keys.
LEMMA QueueKeys ==
    ASSUME RefInv, NEW h \in Host, NEW m \in Msg, NEW seq \in Nat, NEW proposer \in Host,
           NEW keys, keys[m] = [seq |-> seq, proposer |-> proposer],
           \A k \in Learnt(h) \ {m} : keys[k] = FinalKey(k),
           NEW queue, queue = ChangeQueued(deliveryQueue[h], m, seq, proposer)
    PROVE  /\ queue \in SUBSET QueueEntry
           /\ IsFiniteSet(queue)
           /\ \A d, e \in queue : d.msg = e.msg => d = e
           /\ Agreed!Waiting(h) = {e.msg : e \in queue}
           /\ \A e \in queue :
                /\ e.status = DELIVERABLE <=> e.msg \in Learnt(h) \cup {m}
                /\ Agreed!KeyAt(h, e.msg, Learnt(h) \cup {m}, keys)
                     = [seq |-> e.seq, proposer |-> e.proposer]
<1> DEFINE new   == QueuedMessage(m, seq, proposer, DELIVERABLE)
           known == Learnt(h) \cup {m}
<1>1. /\ deliveryQueue \in [Host -> SUBSET QueueEntry]
      /\ deliveryQueue[h] \in SUBSET QueueEntry
      /\ IsFiniteSet(deliveryQueue[h])
      /\ \A d, e \in deliveryQueue[h] : d.msg = e.msg => d = e
    BY DEF RefInv, IndInv, TypeOK, ExactlyOnce
<1>2. /\ queue \in SUBSET QueueEntry
      /\ IsFiniteSet(queue)
      /\ \A d, e \in queue : d.msg = e.msg => d = e
      /\ \A k \in Msg :
           (\E e \in queue : e.msg = k) <=> (\E e \in deliveryQueue[h] : e.msg = k)
      /\ \A e \in queue : e = new \/ (e \in deliveryQueue[h] /\ e.msg # m)
    BY <1>1, ChangeQueuedFacts
<1>3. Agreed!Waiting(h) = {e.msg : e \in queue}
  <2>1. Agreed!Waiting(h) = {e.msg : e \in deliveryQueue[h]}
      BY WaitingMessages DEF RefInv
  <2>2. (\A e \in queue : e.msg \in Msg) /\ (\A e \in deliveryQueue[h] : e.msg \in Msg)
      BY <1>1, <1>2 DEF QueueEntry
  <2> QED
      BY <1>2, <2>1, <2>2
<1>4. /\ new.msg = m /\ new.seq = seq /\ new.proposer = proposer
      /\ new.status = DELIVERABLE
    BY DEF QueuedMessage
<1> HIDE DEF new
<1>5. ASSUME NEW e \in deliveryQueue[h], e.msg # m
      PROVE  /\ e.status = DELIVERABLE <=> e.msg \in known
             /\ Agreed!KeyAt(h, e.msg, known, keys) = [seq |-> e.seq, proposer |-> e.proposer]
  <2>1. e.msg \in Msg /\ e.status \in {UNDELIVERABLE, DELIVERABLE}
      BY <1>1 DEF QueueEntry
  <2>2. CASE e.status = DELIVERABLE
    <3> DEFINE f == Final(e.msg, e.seq, e.proposer)
    <3>1. f \in seqMessageHistory[h]
        BY <2>2 DEF RefInv, IndInv, DeliverableWhenFinal
    <3>2. f.msg = e.msg /\ f.seq = e.seq /\ f.proposer = e.proposer
        BY DEF Final
    <3> HIDE DEF f
    <3>3. e.msg \in Learnt(h)
        BY <2>1, <3>1, <3>2 DEF Learnt, FinalsOf
    <3>4. FinalKey(e.msg) = [seq |-> e.seq, proposer |-> e.proposer]
        BY <3>1, <3>2, FinalKeys DEF RefInv, FinalKeysKnown
    <3>5. keys[e.msg] = [seq |-> e.seq, proposer |-> e.proposer]
        BY <1>5, <3>3, <3>4
    <3> QED
        BY <2>2, <3>3, <3>5 DEF Agreed!KeyAt
  <2>3. CASE e.status = UNDELIVERABLE
    <3>1. e.msg \notin Learnt(h)
      <4>1. ~ Delivered(h, e.msg)
          BY DEF RefInv, IndInv, ExactlyOnce
      <4>2. \A d \in deliveryQueue[h] : d.msg = e.msg => d.status # DELIVERABLE
          BY <1>1, <2>3 DEF UNDELIVERABLE, DELIVERABLE
      <4> QED
          BY <2>1, <4>1, <4>2 DEF Learnt, RefInv, IndInv, WatchdogsStopWhenDone
    <3>2. e.seq = Proposal(h, e.msg) /\ e.proposer = h
        BY <2>3 DEF RefInv, QueuedUnderProposal
    <3>3. ProposalMap[h][e.msg] = Proposal(h, e.msg)
        BY <2>1 DEF ProposalMap
    <3> QED
        BY <1>5, <2>3, <3>1, <3>2, <3>3
           DEF Agreed!KeyAt, Agreed!Key, UNDELIVERABLE, DELIVERABLE
  <2> QED
      BY <2>1, <2>2, <2>3
<1>6. /\ new.status = DELIVERABLE <=> new.msg \in known
      /\ Agreed!KeyAt(h, new.msg, known, keys) = [seq |-> new.seq, proposer |-> new.proposer]
    BY <1>4 DEF Agreed!KeyAt
<1> QED
    BY <1>2, <1>3, <1>5, <1>6

\* The messages of a delivery that is appended to those before it.
LEMMA AppendedMessages ==
    ASSUME NEW old \in Seq(QueueEntry), NEW batch \in Seq(QueueEntry)
    PROVE  LET news == [i \in DOMAIN (old \o batch) |-> (old \o batch)[i].msg]
           IN  /\ news \in Seq(Msg)
               /\ Len(news) = Len(old) + Len(batch)
               /\ \A i \in 1 .. Len(old) : news[i] = old[i].msg
               /\ \A i \in 1 .. Len(batch) : news[Len(old) + i] = batch[i].msg
<1> DEFINE new  == old \o batch
           news == [i \in DOMAIN new |-> new[i].msg]
<1>1. /\ Len(old) \in Nat /\ Len(batch) \in Nat
      /\ new \in Seq(QueueEntry)
      /\ Len(new) = Len(old) + Len(batch)
      /\ DOMAIN new = 1 .. Len(new)
    OBVIOUS
<1>2. /\ \A i \in 1 .. Len(old) : new[i] = old[i]
      /\ \A i \in 1 .. Len(batch) : new[Len(old) + i] = batch[i]
    OBVIOUS
<1>3. \A i \in DOMAIN new : new[i].msg \in Msg
  <2>1. \A i \in DOMAIN new : new[i] \in QueueEntry
      BY <1>1
  <2> QED
      BY <2>1 DEF QueueEntry
<1>4. news \in Seq(Msg) /\ Len(news) = Len(new)
    BY <1>1, <1>3
<1>5. /\ \A i \in 1 .. Len(old) : i \in DOMAIN new
      /\ \A i \in 1 .. Len(batch) : Len(old) + i \in DOMAIN new
  <2> DEFINE lo == Len(old)
             lb == Len(batch)
  <2>1. lo \in Nat /\ lb \in Nat /\ DOMAIN new = 1 .. (lo + lb)
      BY <1>1
  <2> HIDE DEF lo, lb
  <2>2. /\ \A i \in 1 .. lo : i \in DOMAIN new
        /\ \A i \in 1 .. lb : lo + i \in DOMAIN new
      BY <2>1
  <2> QED
      BY <2>2 DEF lo, lb
<1> HIDE DEF new
<1>6. /\ news \in Seq(Msg)
      /\ Len(news) = Len(old) + Len(batch)
      /\ \A i \in 1 .. Len(old) : news[i] = old[i].msg
      /\ \A i \in 1 .. Len(batch) : news[Len(old) + i] = batch[i].msg
    BY <1>1, <1>2, <1>4, <1>5
<1> QED
    BY <1>6 DEF new

\* The messages news continue lo earlier ones, of which none is in the queue,
\* with those of a batch of lb entries of the queue.
Continues(news, lo, batch, lb, queue) ==
    /\ lo \in Nat /\ lb \in Nat
    /\ \A d, e \in queue : d.msg = e.msg => d = e
    /\ \A i \in 1 .. lo : \A e \in queue : news[i] # e.msg
    /\ \A i \in 1 .. lb : batch[i] \in queue /\ news[lo + i] = batch[i].msg

\* What is left of a queue when the first j entries of a batch are delivered.
LEMMA LeftMessages ==
    ASSUME NEW news, NEW lo, NEW batch, NEW lb, NEW queue,
           Continues(news, lo, batch, lb, queue), NEW j \in 0 .. lb
    PROVE  {e.msg : e \in queue} \ {news[i] : i \in 1 .. (lo + j)}
             = {e.msg : e \in queue \ {batch[i] : i \in 1 .. j}}
<1> USE DEF Continues
<1>1. ASSUME NEW e \in queue, NEW i \in 1 .. (lo + j), news[i] = e.msg
      PROVE  \E k \in 1 .. j : e = batch[k]
  <2>1. i \notin 1 .. lo
      BY <1>1
  <2>2. PICK k \in 1 .. j : i = lo + k
    <3>1. i - lo \in 1 .. j /\ i = lo + (i - lo)
        BY <2>1
    <3> QED
        BY <3>1
  <2>3. k \in 1 .. lb
      OBVIOUS
  <2>4. batch[k] \in queue /\ batch[k].msg = e.msg
      BY <1>1, <2>2, <2>3
  <2> QED
      BY <2>4
<1>2. ASSUME NEW k \in 1 .. j
      PROVE  lo + k \in 1 .. (lo + j) /\ news[lo + k] = batch[k].msg
  <2>1. k \in 1 .. lb /\ lo + k \in 1 .. (lo + j)
      OBVIOUS
  <2> QED
      BY <2>1
<1>3. \A e \in queue : e.msg \in {news[i] : i \in 1 .. (lo + j)}
                         <=> e \in {batch[i] : i \in 1 .. j}
  <2> TAKE e \in queue
  <2>1. ASSUME e.msg \in {news[i] : i \in 1 .. (lo + j)}
        PROVE  e \in {batch[i] : i \in 1 .. j}
    <3>1. PICK i \in 1 .. (lo + j) : news[i] = e.msg
        BY <2>1
    <3>2. \E k \in 1 .. j : e = batch[k]
        BY <1>1, <3>1
    <3> QED
        BY <3>2
  <2>2. ASSUME e \in {batch[i] : i \in 1 .. j}
        PROVE  e.msg \in {news[i] : i \in 1 .. (lo + j)}
    <3>1. PICK k \in 1 .. j : e = batch[k]
        BY <2>2
    <3>2. lo + k \in 1 .. (lo + j) /\ news[lo + k] = e.msg
        BY <1>2, <3>1
    <3> QED
        BY <3>2
  <2> QED
      BY <2>1, <2>2
<1> DEFINE gone == {news[i] : i \in 1 .. (lo + j)}
           out  == {batch[i] : i \in 1 .. j}
<1>4. \A e \in queue : e.msg \in gone <=> e \in out
    BY <1>3
<1> HIDE DEF gone, out
<1>5. {e.msg : e \in queue} \ gone = {e.msg : e \in queue \ out}
    BY <1>4
<1> QED
    BY <1>5 DEF gone, out

\* A handler that enters the final number of a queued message in the history,
\* sets it in the queue and delivers, does what the abstract multicast does.
LEMMA AgreedDeliver ==
    ASSUME RefInv, NEW h \in Host, NEW m \in Msg, NEW seq \in Nat, NEW proposer \in Host,
           NEW keys, keys[m] = [seq |-> seq, proposer |-> proposer],
           \A k \in Learnt(h) \ {m} : keys[k] = FinalKey(k),
           seqMessageHistory' = [seqMessageHistory EXCEPT
                                   ![h] = @ \cup {Final(m, seq, proposer)}],
           DeliverFrom(h, ChangeQueued(deliveryQueue[h], m, seq, proposer))
    PROVE  Agreed!Deliver(h, m, keys)
<1> DEFINE queue == ChangeQueued(deliveryQueue[h], m, seq, proposer)
           known == Learnt(h) \cup {m}
           old   == deliveredMessage[h]
           new   == deliveredMessage'[h]
           olds  == DeliveredMsgs(h)
           news  == [i \in DOMAIN new |-> new[i].msg]
<1>1. /\ seqMessageHistory \in [Host -> SUBSET [msg : Msg, seq : Nat, proposer : Host]]
      /\ deliveryQueue \in [Host -> SUBSET QueueEntry]
      /\ deliveredMessage \in [Host -> Seq(QueueEntry)]
    BY DEF RefInv, IndInv, TypeOK
<1>2. queue = ChangeQueued(deliveryQueue[h], m, seq, proposer) /\ DeliverFrom(h, queue)
    OBVIOUS
<1>3. LearntMap' = [LearntMap EXCEPT ![h] = known]
  <2>1. \A k \in Host : seqMessageHistory'[k] =
          IF k = h THEN seqMessageHistory[k] \cup {Final(m, seq, proposer)}
          ELSE seqMessageHistory[k]
      BY <1>1
  <2>2. Final(m, seq, proposer).msg = m
      BY DEF Final
  <2>3. \A k \in Host : Learnt(k)' = IF k = h THEN known ELSE Learnt(k)
      BY <2>1, <2>2 DEF Learnt, FinalsOf
  <2> HIDE DEF known
  <2> QED
      BY <2>3 DEF LearntMap
<1> HIDE DEF queue
<1>4. /\ queue \in SUBSET QueueEntry
      /\ IsFiniteSet(queue)
      /\ \A d, e \in queue : d.msg = e.msg => d = e
      /\ Agreed!Waiting(h) = {e.msg : e \in queue}
      /\ \A e \in queue :
           /\ e.status = DELIVERABLE <=> e.msg \in known
           /\ Agreed!KeyAt(h, e.msg, known, keys) = [seq |-> e.seq, proposer |-> e.proposer]
    BY <1>2, QueueKeys
<1> HIDE DEF known
<1>5. PICK batch \in Batches(queue) :
        /\ deliveryQueue' = [deliveryQueue EXCEPT ![h] = queue \ Range(batch)]
        /\ deliveredMessage' = [deliveredMessage EXCEPT ![h] = @ \o batch]
    BY <1>2 DEF DeliverFrom
<1> DEFINE lo == Len(old)
           lb == Len(batch)
<1>6. /\ lb \in Nat
      /\ DOMAIN batch = 1 .. lb
      /\ batch \in Seq({e \in queue : e.status = DELIVERABLE})
      /\ Range(batch) = {batch[i] : i \in 1 .. lb}
  <2>1. IsFiniteSet(queue)
      BY <1>4
  <2> QED
      BY <1>5, <2>1, BatchFacts
<1>7. /\ \A i \in 1 .. lb : batch[i] \in queue /\ batch[i].status = DELIVERABLE
      /\ batch \in Seq(QueueEntry)
  <2>1. {e \in queue : e.status = DELIVERABLE} \subseteq QueueEntry
      BY <1>4
  <2> QED
      BY <1>6, <2>1
<1>8. /\ \A i \in 1 .. lb : batch[i] \in HeapFront(queue \ {batch[j] : j \in 1 .. (i - 1)})
      /\ \/ queue = Range(batch)
         \/ \E e \in HeapFront(queue \ Range(batch)) : e.status = UNDELIVERABLE
    BY <1>5, <1>6 DEF Batches
<1>9. /\ new = old \o batch
      /\ old \in Seq(QueueEntry)
      /\ \A k \in Host \ {h} : deliveredMessage'[k] = deliveredMessage[k]
      /\ lo \in Nat /\ DOMAIN old = 1 .. lo
    BY <1>1, <1>5
<1>10. news = [i \in DOMAIN new |-> new[i].msg]
    OBVIOUS
<1>11. olds = [i \in 1 .. lo |-> old[i].msg] /\ Len(olds) = lo
    BY <1>9 DEF DeliveredMsgs
<1>12. /\ DeliveredMap[h] = olds
       /\ DeliveredMap' = [DeliveredMap EXCEPT ![h] = news]
       /\ DeliveredMap'[h] = news
    BY <1>9 DEF DeliveredMap, DeliveredMsgs
<1> HIDE DEF new, news
<1>13. /\ news \in Seq(Msg)
       /\ Len(news) = lo + lb
       /\ \A i \in 1 .. lo : news[i] = old[i].msg
       /\ \A i \in 1 .. lb : news[lo + i] = batch[i].msg
  <2>1. old \in Seq(QueueEntry) /\ batch \in Seq(QueueEntry)
      BY <1>7, <1>9
  <2>2. news = [i \in DOMAIN (old \o batch) |-> (old \o batch)[i].msg]
      BY <1>9, <1>10
  <2> HIDE DEF old
  <2> QED
      BY <2>1, <2>2, AppendedMessages
<1>14. \A i \in 1 .. lo : \A e \in queue : news[i] # e.msg
  <2>1. \A k \in Agreed!Waiting(h) : \A i \in DOMAIN old : old[i].msg # k
      BY WaitingMessages DEF RefInv
  <2>2. \A i \in 1 .. lo : \A e \in queue : old[i].msg # e.msg
      BY <1>4, <1>9, <2>1
  <2> QED
      BY <1>13, <2>2
<1> HIDE DEF old, olds, lo, lb
<1>15. \A i \in 1 .. lo : news[i] = olds[i]
    BY <1>11, <1>13
<1> DEFINE left == [n \in lo .. (lo + lb) |-> Agreed!Waiting(h) \ {news[i] : i \in 1 .. n}]
<1>16. \A n \in lo .. (lo + lb) : left[n] = {e.msg : e \in queue} \ {news[i] : i \in 1 .. n}
    BY <1>4
<1>17. \A n \in lo .. (lo + lb) : left[n] = Agreed!Waiting(h) \ {news[i] : i \in 1 .. n}
    OBVIOUS
<1> HIDE DEF left
<1>18. /\ \A n \in lo .. (lo + lb - 1) :
            news[n + 1] \in known /\ Agreed!InFront(h, news[n + 1], left[n], known, keys)
       /\ \/ left[lo + lb] = {}
          \/ \E k \in left[lo + lb] \ known :
               Agreed!InFront(h, k, left[lo + lb], known, keys)
  <2> DEFINE end == Range(batch)
  <2>1. \A d, e \in queue : d.msg = e.msg => d = e
      BY <1>4
  <2>2. \A e \in queue : e.status = DELIVERABLE <=> e.msg \in known
      BY <1>4
  <2>3. \A e \in queue : Agreed!KeyAt(h, e.msg, known, keys)
                            = [seq |-> e.seq, proposer |-> e.proposer]
      BY <1>4
  <2>4. lo \in Nat /\ lb \in Nat
      BY <1>6, <1>9
  <2> DEFINE rest(j) == queue \ {batch[i] : i \in 1 .. j}
  <2>5. \A j \in 0 .. lb : left[lo + j] = {e.msg : e \in rest(j)}
    <3> TAKE j \in 0 .. lb
    <3>1. lo + j \in lo .. (lo + lb)
        BY <2>4
    <3>2. left[lo + j] = {e.msg : e \in queue} \ {news[i] : i \in 1 .. (lo + j)}
        BY <1>16, <3>1
    <3>3. {e.msg : e \in queue} \ {news[i] : i \in 1 .. (lo + j)}
            = {e.msg : e \in queue \ {batch[i] : i \in 1 .. j}}
      <4>1. Continues(news, lo, batch, lb, queue)
          BY <1>7, <1>13, <1>14, <2>1, <2>4 DEF Continues
      <4> QED
          BY <4>1, LeftMessages
    <3> QED
        BY <3>2, <3>3
  <2>6. \A j \in 0 .. lb : rest(j) \subseteq queue
      OBVIOUS
  <2>7. \A i \in 1 .. lb : batch[i] \in HeapFront(rest(i - 1))
      BY <1>8
  <2>8. rest(lb) = queue \ end
      BY <1>6
  <2> HIDE DEF rest
  <2>9. ASSUME NEW n \in lo .. (lo + lb - 1)
        PROVE  news[n + 1] \in known /\ Agreed!InFront(h, news[n + 1], left[n], known, keys)
    <3>1. PICK i \in 1 .. lb : i - 1 \in 0 .. lb /\ n = lo + (i - 1) /\ n + 1 = lo + i
      <4>1. /\ n - lo + 1 \in 1 .. lb /\ n - lo \in 0 .. lb
            /\ (n - lo + 1) - 1 = n - lo
            /\ n = lo + (n - lo) /\ n + 1 = lo + (n - lo + 1)
          BY <2>4
      <4> QED
          BY <4>1
    <3>2. news[n + 1] = batch[i].msg
        BY <1>13, <3>1
    <3>3. batch[i].msg \in known
        BY <1>7, <2>2
    <3>4. left[n] = {e.msg : e \in rest(i - 1)}
        BY <2>5, <3>1
    <3>5. \A x \in rest(i - 1) : Agreed!KeyAt(h, x.msg, known, keys)
                                   = [seq |-> x.seq, proposer |-> x.proposer]
        BY <2>3, <2>6, <3>1
    <3>6. Agreed!InFront(h, batch[i].msg, {x.msg : x \in rest(i - 1)}, known, keys)
        BY <2>7, <3>5, FrontMessage
    <3> QED
        BY <3>2, <3>3, <3>4, <3>6
  <2>10. left[lo + lb] = {e.msg : e \in rest(lb)}
      BY <2>4, <2>5
  <2>11. CASE queue = end
    <3>1. rest(lb) = {}
        BY <2>8, <2>11
    <3>2. left[lo + lb] = {}
        BY <2>10, <3>1
    <3> QED
        BY <2>9, <3>2
  <2>12. ASSUME NEW e \in HeapFront(queue \ end), e.status = UNDELIVERABLE
        PROVE  e.msg \in left[lo + lb] \ known
               /\ Agreed!InFront(h, e.msg, left[lo + lb], known, keys)
    <3>1. e \in HeapFront(rest(lb)) /\ e \in rest(lb) /\ e \in queue
        BY <2>8, <2>12 DEF HeapFront
    <3>2. e.msg \notin known
      <4>1. e.status # DELIVERABLE
          BY <2>12 DEF UNDELIVERABLE, DELIVERABLE
      <4>2. e.status = DELIVERABLE <=> e.msg \in known
          BY <2>2, <3>1
      <4> QED
          BY <4>1, <4>2
    <3>3. \A x \in rest(lb) : Agreed!KeyAt(h, x.msg, known, keys)
                                = [seq |-> x.seq, proposer |-> x.proposer]
        BY <2>3, <2>8
    <3>4. Agreed!InFront(h, e.msg, {x.msg : x \in rest(lb)}, known, keys)
        BY <3>1, <3>3, FrontMessage
    <3> QED
        BY <2>10, <3>1, <3>2, <3>4
  <2> QED
      BY <1>8, <2>9, <2>11, <2>12
<1>19. LearntMap[h] = Learnt(h)
    BY DEF LearntMap
<1>20. /\ LearntMap' = [LearntMap EXCEPT ![h] = LearntMap[h] \cup {m}]
       /\ LearntMap[h] \cup {m} = known
    BY <1>3, <1>19 DEF known
<1>21. /\ DeliveredMap' = [DeliveredMap EXCEPT ![h] = DeliveredMap'[h]]
       /\ DeliveredMap'[h] \in Seq(Msg)
       /\ Len(DeliveredMap[h]) = lo /\ Len(DeliveredMap'[h]) = lo + lb
       /\ \A i \in 1 .. lo : DeliveredMap'[h][i] = DeliveredMap[h][i]
    BY <1>11, <1>12, <1>13, <1>15
<1>22. lo =< lo + lb /\ lo + lb \in lo .. (lo + lb)
       /\ \A n \in lo .. (lo + lb - 1) : n \in lo .. (lo + lb)
    BY <1>6, <1>9
<1>23. \A n \in lo .. (lo + lb) :
         left[n] = Agreed!Waiting(h) \ {DeliveredMap'[h][i] : i \in 1 .. n}
    BY <1>12, <1>17
<1>24. /\ Len(DeliveredMap[h]) =< Len(DeliveredMap'[h])
       /\ \A i \in 1 .. Len(DeliveredMap[h]) : DeliveredMap'[h][i] = DeliveredMap[h][i]
    BY <1>21, <1>22
<1>25. \A n \in Len(DeliveredMap[h]) .. (Len(DeliveredMap'[h]) - 1) :
         /\ DeliveredMap'[h][n + 1] \in known
         /\ Agreed!InFront(h, DeliveredMap'[h][n + 1],
                           Agreed!Waiting(h) \ {DeliveredMap'[h][i] : i \in 1 .. n},
                           known, keys)
  <2>1. \A n \in lo .. (lo + lb - 1) :
          /\ DeliveredMap'[h][n + 1] \in known
          /\ Agreed!InFront(h, DeliveredMap'[h][n + 1], left[n], known, keys)
      BY <1>12, <1>18
  <2>2. \A n \in lo .. (lo + lb - 1) :
          left[n] = Agreed!Waiting(h) \ {DeliveredMap'[h][i] : i \in 1 .. n}
      BY <1>22, <1>23
  <2>3. \A n \in lo .. (lo + lb - 1) :
          /\ DeliveredMap'[h][n + 1] \in known
          /\ Agreed!InFront(h, DeliveredMap'[h][n + 1],
                            Agreed!Waiting(h) \ {DeliveredMap'[h][i] : i \in 1 .. n},
                            known, keys)
    <3> TAKE n \in lo .. (lo + lb - 1)
    <3>1. left[n] = Agreed!Waiting(h) \ {DeliveredMap'[h][i] : i \in 1 .. n}
        BY <2>2
    <3>2. /\ DeliveredMap'[h][n + 1] \in known
          /\ Agreed!InFront(h, DeliveredMap'[h][n + 1], left[n], known, keys)
        BY <2>1
    <3> QED
        BY <3>1, <3>2
  <2> TAKE n \in Len(DeliveredMap[h]) .. (Len(DeliveredMap'[h]) - 1)
  <2>4. /\ Len(DeliveredMap[h]) = lo /\ Len(DeliveredMap'[h]) = lo + lb
        /\ lo \in Nat /\ lb \in Nat
      BY <1>6, <1>9, <1>21
  <2>5. n \in lo .. (lo + lb - 1)
      BY <2>4
  <2> QED
      BY <2>3, <2>5
<1>26. LET end == Agreed!Waiting(h) \ {DeliveredMap'[h][i] : i \in 1 .. Len(DeliveredMap'[h])}
       IN  \/ end = {}
           \/ \E k \in end \ known : Agreed!InFront(h, k, end, known, keys)
    BY <1>18, <1>21, <1>22, <1>23
<1> QED
    BY <1>20, <1>21, <1>24, <1>25, <1>26 DEF Agreed!Deliver

-----------------------------------------------------------------------------
(***************************************************************************)
(* Every step is a step of AgreedMulticast or leaves its state alone.      *)
(***************************************************************************)

\* What is not mapped may change.
LEMMA Stutters ==
    ASSUME UNCHANGED <<seqMessageHistory, deliveredMessage>>,
           \A k \in Host, n \in Msg : Proposal(k, n)' = Proposal(k, n)
    PROVE  UNCHANGED Agreed!vars
<1>1. UNCHANGED ProposalMap
    BY DEF ProposalMap
<1>2. UNCHANGED FinalMap
    BY DEF FinalMap, FinalKey, FinalsOf
<1>3. UNCHANGED LearntMap /\ UNCHANGED DeliveredMap
    BY DEF LearntMap, Learnt, FinalsOf, DeliveredMap, DeliveredMsgs
<1> QED
    BY <1>1, <1>2, <1>3 DEF Agreed!vars

\* A counter that has grown since the last proposal is a legal next one.
LEMMA AgreedPropose ==
    ASSUME RefInv, NEW h \in Host, NEW m \in Msg, NEW seq \in Nat \ {0},
           h = Sender(m) \/ Sent(m),
           Proposal(h, m) = 0,
           curr_seq_number[h] =< seq,
           \A k \in Host, n \in Msg :
             Proposal(k, n)' = IF k = h /\ n = m THEN seq ELSE Proposal(k, n),
           UNCHANGED <<seqMessageHistory, deliveredMessage>>
    PROVE  Agreed!Propose(h, m)
<1>1. /\ \A k \in Host, n \in Msg : ProposalMap[k][n] = Proposal(k, n)
      /\ \A k \in Host, n \in Msg : ProposalMap'[k][n] = Proposal(k, n)'
    BY DEF ProposalMap
<1>2. /\ ProposalMap'[h][m] = seq
      /\ ProposalMap[h][m] = 0
    BY <1>1
<1>3. Sender(m) \in Host
    BY MsgFacts
<1>4. h = Agreed!Sender(m) \/ ProposalMap[Agreed!Sender(m)][m] # 0
  <2>1. Sent(m) => Proposal(Sender(m), m) # 0
      BY DEF Sent, Proposal
  <2> QED
      BY <1>1, <1>3, <2>1 DEF Agreed!Sender, Sender
<1>5. \A k \in Msg : ProposalMap[h][k] =< seq
  <2>1. \A k \in Msg : Proposal(h, k) \in Nat
      BY DEF Proposal, RefInv, IndInv, TypeOK
  <2>2. \A k \in Msg : Proposal(h, k) =< curr_seq_number[h]
      BY DEF RefInv, ProposalsCounted
  <2>3. curr_seq_number[h] \in Nat
      BY DEF RefInv, IndInv, TypeOK
  <2> QED
      BY <1>1, <2>1, <2>2, <2>3
<1>6. ProposalMap' = [ProposalMap EXCEPT ![h][m] = seq]
  <2>1. ProposalMap = [k \in Host |-> [n \in Msg |-> Proposal(k, n)]]
      BY DEF ProposalMap
  <2>2. ProposalMap' = [k \in Host |->
                          [n \in Msg |-> IF k = h /\ n = m THEN seq ELSE Proposal(k, n)]]
      BY DEF ProposalMap
  <2> QED
      BY <2>1, <2>2
<1>7. UNCHANGED FinalMap
    BY DEF FinalMap, FinalKey, FinalsOf
<1>8. UNCHANGED LearntMap /\ UNCHANGED DeliveredMap
    BY DEF LearntMap, Learnt, FinalsOf, DeliveredMap, DeliveredMsgs
<1> QED
    BY <1>2, <1>4, <1>5, <1>6, <1>7, <1>8 DEF Agreed!Propose

\* A multicast proposes the number above the counter of its host.
LEMMA AgreedMulticastDatamsg ==
    ASSUME RefInv, NEW h \in Host, MulticastDatamsg(h)
    PROVE  Agreed!Next
<1> DEFINE m   == <<h, curr_msg_id[h]>>
           seq == curr_seq_number[h] + 1
<1>1. m \in Msg /\ Sender(m) = h
  <2>1. curr_msg_id[h] \in Nat /\ curr_msg_id[h] < NumMsgToSend[h]
      BY DEF MulticastDatamsg, RefInv, IndInv, TypeOK
  <2> QED
      BY <2>1, MsgFacts
<1>2. /\ ackHistory' = [ackHistory EXCEPT ![m][h] = seq]
      /\ UNCHANGED <<alreadyAcked, seqMessageHistory, deliveredMessage>>
    BY DEF MulticastDatamsg
<1>3. seq \in Nat \ {0} /\ curr_seq_number[h] =< seq
    BY DEF RefInv, IndInv, TypeOK
<1>4. Proposal(h, m) = 0
  <2>1. ~ Sent(m)
      BY <1>1 DEF MulticastDatamsg, RefInv, IndInv, TypeOK, SentMessages
  <2> QED
      BY <1>1, <2>1, UnsentMessages DEF RefInv
<1> HIDE DEF m, seq
<1>5. \A k \in Host, n \in Msg :
        Proposal(k, n)' = IF k = h /\ n = m THEN seq ELSE Proposal(k, n)
    BY <1>1, <1>2 DEF Proposal, RefInv, IndInv, TypeOK
<1>6. Agreed!Propose(h, m)
    BY <1>1, <1>2, <1>3, <1>4, <1>5, AgreedPropose
<1> QED
    BY <1>1, <1>6 DEF Agreed!Next

\* The first copy of a message gets the value of the counter.
LEMMA AgreedFirstReceipt ==
    ASSUME RefInv, NEW h \in Host, NEW m \in Msg, Propose(h, m)
    PROVE  Agreed!Next
<1> DEFINE seq == curr_seq_number[h]
<1>1. /\ DataMessage(h, m) \in network
      /\ alreadyAcked' = [alreadyAcked EXCEPT ![h][m] = seq]
      /\ UNCHANGED <<ackHistory, seqMessageHistory, deliveredMessage>>
      /\ alreadyAcked[h][m] = 0
    BY DEF Propose, Receive
<1>2. h # Sender(m) /\ Sent(m)
    BY <1>1, PacketTruth DEF RefInv, IndInv, TruthfulPackets
<1>3. seq \in Nat \ {0} /\ curr_seq_number[h] =< seq
    BY DEF RefInv, IndInv, TypeOK
<1>4. Proposal(h, m) = 0
    BY <1>1, <1>2 DEF Proposal
<1> HIDE DEF seq
<1>5. \A k \in Host, n \in Msg :
        Proposal(k, n)' = IF k = h /\ n = m THEN seq ELSE Proposal(k, n)
    BY <1>1, <1>2 DEF Proposal, RefInv, IndInv, TypeOK
<1>6. Agreed!Propose(h, m)
    BY <1>1, <1>2, <1>3, <1>4, <1>5, AgreedPropose
<1> QED
    BY <1>6 DEF Agreed!Next

\* The last proposal decides.
LEMMA AgreedFinalize ==
    ASSUME RefInv, RefInv', NEW m \in Msg, NEW p \in Host, NEW seq, Finalize(m, p, seq)
    PROVE  Agreed!Next
<1> DEFINE s    == Sender(m)
           acks == [ackHistory[m] EXCEPT ![p] = seq]
<1>1. /\ AckMessage(m, seq, p) \in network
      /\ ackHistory[m][p] = 0
      /\ Complete(acks)
      /\ ackHistory' = [ackHistory EXCEPT ![m] = acks]
      /\ UNCHANGED <<curr_msg_id, alreadyAcked>>
    BY DEF Finalize, Receive
<1>2. PICK top \in Host :
        /\ IsMaxSequence(acks, top)
        /\ seqMessageHistory' = [seqMessageHistory EXCEPT
                                   ![s] = @ \cup {Final(m, acks[top], top)}]
        /\ DeliverFrom(s, ChangeQueued(deliveryQueue[s], m, acks[top], top))
    BY DEF Finalize
<1>3. s \in Host
    BY MsgFacts
<1>4. /\ ackHistory'[m] = acks
      /\ ackHistory \in [Msg -> [Host -> Nat]]
      /\ \A k \in Host : acks[k] \in Nat
  <2>1. ackHistory \in [Msg -> [Host -> Nat]] /\ ackHistory' \in [Msg -> [Host -> Nat]]
      BY DEF RefInv, IndInv, TypeOK
  <2>2. ackHistory'[m] = acks
      BY <1>1, <2>1
  <2> HIDE DEF acks
  <2> QED
      BY <2>1, <2>2
<1>5. /\ \A k \in Host, n \in Msg : Proposal(k, n)' = Proposal(k, n)
      /\ \A k \in Host : FinalsOf(k, m) = {}
    BY <1>1, NewAck DEF RefInv
<1> HIDE DEF acks
<1>6. \A k \in Host : Proposal(k, m) = acks[k]
  <2>1. \A k \in Host : acks[k] # 0
      BY <1>1 DEF Complete
  <2>2. \A k \in Host : k # Sender(m) /\ ackHistory'[m][k] # 0 =>
          ackHistory'[m][k] = alreadyAcked'[k][m]
      BY DEF RefInv, IndInv, CollectedProposals
  <2>3. \A k \in Host : Proposal(k, m)' = ackHistory'[m][k]
      BY <1>4, <2>1, <2>2 DEF Proposal
  <2> QED
      BY <1>4, <1>5, <2>3
<1>7. UNCHANGED ProposalMap /\ \A k \in Host : ProposalMap[k][m] = acks[k]
    BY <1>5, <1>6 DEF ProposalMap
<1>8. FinalMap[m].seq = 0
  <2>1. FinalKey(m) = [seq |-> 0, proposer |-> Sender(m)]
      BY <1>3, <1>5, FinalKeys DEF RefInv, FinalKeysKnown
  <2> QED
      BY <2>1 DEF FinalMap
<1> DEFINE key == [seq |-> acks[top], proposer |-> top]
           f   == Final(m, acks[top], top)
<1>9. FinalKey(m)' = key
  <2>1. f \in seqMessageHistory'[s] /\ f.msg = m /\ f.seq = acks[top] /\ f.proposer = top
      BY <1>2, <1>3 DEF Final, RefInv, IndInv, TypeOK
  <2>2. FinalKeysKnown'
      BY FinalKeysNext DEF RefInv
  <2> HIDE DEF f
  <2> QED
      BY <1>3, <2>1, <2>2 DEF FinalKeysKnown
<1>10. \A n \in Msg \ {m} : FinalKey(n)' = FinalKey(n)
  <2>1. \A k \in Host : seqMessageHistory'[k] =
          IF k = s THEN seqMessageHistory[k] \cup {f} ELSE seqMessageHistory[k]
      BY <1>2 DEF RefInv, IndInv, TypeOK
  <2>2. f.msg = m
      BY DEF Final
  <2> HIDE DEF f
  <2>3. \A k \in Host : \A n \in Msg \ {m} : FinalsOf(k, n)' = FinalsOf(k, n)
      BY <2>1, <2>2 DEF FinalsOf
  <2> QED
      BY <2>3, MsgFacts DEF FinalKey
<1>11. /\ FinalMap' = [FinalMap EXCEPT ![m] = key]
       /\ FinalMap'[m] = key
       /\ \A k \in Learnt(s) \ {m} : FinalMap'[k] = FinalKey(k)
  <2> HIDE DEF key
  <2>1. FinalMap' = [n \in Msg |-> IF n = m THEN key ELSE FinalKey(n)]
      BY <1>9, <1>10 DEF FinalMap
  <2>2. FinalMap = [n \in Msg |-> FinalKey(n)]
      BY DEF FinalMap
  <2>3. \A k \in Learnt(s) : k \in Msg
      BY DEF Learnt
  <2> QED
      BY <2>1, <2>2, <2>3
<1>12. Agreed!Deliver(s, m, FinalMap')
    BY <1>2, <1>3, <1>4, <1>11, AgreedDeliver
<1>13. \A k \in Host :
         /\ ProposalMap[k][m] # 0
         /\ ProposalMap[k][m] =< ProposalMap[top][m]
         /\ ProposalMap[k][m] = ProposalMap[top][m] => top =< k
    BY <1>1, <1>2, <1>7 DEF Complete, IsMaxSequence
<1>14. FinalMap' = [FinalMap EXCEPT ![m] = Agreed!Key(ProposalMap[top][m], top)]
    BY <1>7, <1>11 DEF Agreed!Key
<1>15. Agreed!Decide(s, m)
    BY <1>3, <1>7, <1>8, <1>12, <1>13, <1>14 DEF Agreed!Decide, Agreed!Sender, Sender
<1> QED
    BY <1>3, <1>15 DEF Agreed!Next

\* A final number that reaches a queue is learnt.
LEMMA AgreedApplyFinal ==
    ASSUME RefInv, RefInv', NEW h \in Host, NEW m \in Msg, NEW seq, NEW proposer,
           ApplyFinal(h, m, seq, proposer)
    PROVE  Agreed!Next
<1> DEFINE f   == Final(m, seq, proposer)
           key == [seq |-> seq, proposer |-> proposer]
<1>1. /\ SeqMessage(h, m, seq, proposer) \in network
      /\ seqMessageHistory' = [seqMessageHistory EXCEPT ![h] = @ \cup {f}]
      /\ DeliverFrom(h, ChangeQueued(deliveryQueue[h], m, seq, proposer))
      /\ UNCHANGED <<ackHistory, alreadyAcked>>
    BY DEF ApplyFinal, Receive
<1>2. /\ seq \in Nat /\ proposer \in Host
      /\ f \in seqMessageHistory[Sender(m)]
      /\ Sender(m) \in Host
    BY <1>1, FinalTruth, MsgFacts DEF RefInv
<1>3. f.msg = m /\ f.seq = seq /\ f.proposer = proposer
    BY DEF Final
<1>4. FinalKey(m) = key /\ seq # 0
  <2> HIDE DEF f
  <2> QED
      BY <1>2, <1>3, FinalKeys DEF RefInv, FinalKeysKnown
<1>5. \A n \in Msg : FinalKey(n)' = FinalKey(n)
  <2>1. \A k \in Host : seqMessageHistory'[k] =
          IF k = h THEN seqMessageHistory[k] \cup {f} ELSE seqMessageHistory[k]
      BY <1>1 DEF RefInv, IndInv, TypeOK
  <2> HIDE DEF f
  <2>2. \A n \in Msg : FinalsOf(Sender(n), n)' = FinalsOf(Sender(n), n)
      BY <1>2, <1>3, <2>1, MsgFacts DEF FinalsOf
  <2> QED
      BY <2>2 DEF FinalKey
<1>6. UNCHANGED ProposalMap /\ UNCHANGED FinalMap
  <2>1. \A k \in Host, n \in Msg : Proposal(k, n)' = Proposal(k, n)
      BY <1>1 DEF Proposal
  <2> QED
      BY <1>5, <2>1 DEF ProposalMap, FinalMap
<1>7. /\ FinalMap[m] = key
      /\ \A k \in Learnt(h) \ {m} : FinalMap[k] = FinalKey(k)
  <2>1. \A k \in Learnt(h) : k \in Msg
      BY DEF Learnt
  <2> QED
      BY <1>4, <2>1 DEF FinalMap
<1>8. Agreed!Deliver(h, m, FinalMap)
    BY <1>1, <1>2, <1>7, AgreedDeliver
<1>9. Agreed!Learn(h, m)
    BY <1>4, <1>6, <1>7, <1>8 DEF Agreed!Learn
<1> QED
    BY <1>9 DEF Agreed!Next

\* The initial state is that of AgreedMulticast.
LEMMA AgreedInit == Init => Agreed!Init
<1> SUFFICES ASSUME Init PROVE Agreed!Init
    OBVIOUS
<1>1. ProposalMap = [h \in Host |-> [m \in Msg |-> 0]]
    BY MsgFacts DEF Init, ProposalMap, Proposal
<1>2. \A h \in Host, m \in Msg : FinalsOf(h, m) = {}
    BY DEF Init, FinalsOf
<1>3. FinalMap = [m \in Msg |-> Agreed!Key(0, Agreed!Sender(m))]
    BY <1>2, MsgFacts DEF FinalMap, FinalKey, Agreed!Key, Agreed!Sender, Sender
<1>4. LearntMap = [h \in Host |-> {}]
    BY <1>2 DEF LearntMap, Learnt
<1>5. DeliveredMap = [h \in Host |-> <<>>]
    BY DEF Init, DeliveredMap, DeliveredMsgs
<1> QED
    BY <1>1, <1>3, <1>4, <1>5 DEF Agreed!Init

\* Every step maps to a step or to a stutter.
LEMMA AgreedStep ==
    RefInv /\ RefInv' /\ [Next]_vars => Agreed!Next \/ UNCHANGED Agreed!vars
<1> SUFFICES ASSUME RefInv, RefInv', [Next]_vars
             PROVE  Agreed!Next \/ UNCHANGED Agreed!vars
    OBVIOUS
<1>1. ASSUME UNCHANGED <<ackHistory, alreadyAcked, seqMessageHistory, deliveredMessage>>
      PROVE  UNCHANGED Agreed!vars
  <2>1. \A k \in Host, n \in Msg : Proposal(k, n)' = Proposal(k, n)
      BY <1>1 DEF Proposal
  <2> QED
      BY <1>1, <2>1, Stutters
<1>2. CASE UNCHANGED vars
    BY <1>1, <1>2 DEF vars
<1>3. ASSUME NEW m \in Msg, NEW p \in Host, NEW seq, CollectAck(m, p, seq)
      PROVE  UNCHANGED Agreed!vars
  <2>1. /\ AckMessage(m, seq, p) \in network
        /\ ackHistory[m][p] = 0
        /\ ackHistory' = [ackHistory EXCEPT ![m] = [ackHistory[m] EXCEPT ![p] = seq]]
        /\ UNCHANGED <<curr_msg_id, alreadyAcked, seqMessageHistory, deliveredMessage>>
      BY <1>3 DEF CollectAck, Receive
  <2> QED
      BY <2>1, NewAck, Stutters DEF RefInv
<1>4. ASSUME NEW h \in Host, NEW m \in Msg,
             \/ HandleDatamsg(h, m) \/ HandleAckmsg(m, h) \/ HandleSeqmsg(h, m)
             \/ DatamsgWatchdog(m, h) \/ AckmsgWatchdog(h, m)
      PROVE  Agreed!Next \/ UNCHANGED Agreed!vars
  <2>1. CASE HandleDatamsg(h, m)
      BY <1>1, <2>1, AgreedFirstReceipt DEF HandleDatamsg, ReAck
  <2>2. CASE HandleAckmsg(m, h)
    <3>1. PICK a \in network :
            \/ CollectAck(m, h, a.seq) \/ Finalize(m, h, a.seq)
            \/ ResendFinal(m, h, a.seq) \/ IgnoreAck(m, h, a.seq)
        BY <2>2 DEF HandleAckmsg
    <3>2. CASE CollectAck(m, h, a.seq)
        BY <1>3, <3>2
    <3>3. CASE Finalize(m, h, a.seq)
        BY <3>3, AgreedFinalize
    <3>4. CASE ResendFinal(m, h, a.seq) \/ IgnoreAck(m, h, a.seq)
        BY <1>1, <3>4 DEF ResendFinal, IgnoreAck
    <3> QED
        BY <3>1, <3>2, <3>3, <3>4
  <2>3. CASE HandleSeqmsg(h, m)
    <3>1. PICK f \in network :
            ApplyFinal(h, m, f.seq, f.proposer) \/ DropFinal(h, m, f.seq, f.proposer)
        BY <2>3 DEF HandleSeqmsg
    <3>2. CASE ApplyFinal(h, m, f.seq, f.proposer)
        BY <3>2, AgreedApplyFinal
    <3>3. CASE DropFinal(h, m, f.seq, f.proposer)
        BY <1>1, <3>3 DEF DropFinal
    <3> QED
        BY <3>1, <3>2, <3>3
  <2>4. CASE DatamsgWatchdog(m, h) \/ AckmsgWatchdog(h, m)
      BY <1>1, <2>4 DEF DatamsgWatchdog, AckmsgWatchdog
  <2> QED
      BY <1>4, <2>1, <2>2, <2>3, <2>4
<1> QED
    BY <1>2, <1>4, AgreedMulticastDatamsg DEF Next

\* Whatever is lost, delayed, repeated or cut off by a cap, the handlers do
\* nothing to proposals, final numbers and delivered messages that the three
\* actions of AgreedMulticast do not allow.
THEOREM MulticastRefines == Spec => ImplementsAgreed
<1> QED
    BY AgreedInit, AgreedStep, RefInvariance, PTL DEF Spec, ImplementsAgreed, Agreed!Spec

-----------------------------------------------------------------------------
(***************************************************************************)
(* What AgreedMulticast promises, ReliableMulticast keeps.                 *)
(***************************************************************************)
AgreedOrders == INSTANCE AgreedMulticast_proofs
    WITH proposal <- ProposalMap, final <- FinalMap, learnt <- LearntMap,
         delivered <- DeliveredMap

\* The theorems about AgreedMulticast hold of the mapped variables.
LEMMA MappedOrder == Spec => []Agreed!OvertakenByLateArrivals
<1>1. Agreed!Init => AgreedOrders!Init
    BY DEF Agreed!Init, AgreedOrders!Init, Agreed!Key, AgreedOrders!Key, Agreed!Sender,
           AgreedOrders!Sender
<1>2. Agreed!Next => AgreedOrders!Next
    BY DEF Agreed!Next, AgreedOrders!Next, Agreed!Propose, AgreedOrders!Propose,
           Agreed!Decide, AgreedOrders!Decide, Agreed!Learn, AgreedOrders!Learn,
           Agreed!Deliver, AgreedOrders!Deliver, Agreed!InFront, AgreedOrders!InFront,
           Agreed!KeyAt, AgreedOrders!KeyAt, Agreed!Key, AgreedOrders!Key,
           Agreed!Before, AgreedOrders!Before, Agreed!Sender, AgreedOrders!Sender,
           Agreed!Waiting, AgreedOrders!Waiting, Agreed!Range, AgreedOrders!Range
<1>3. UNCHANGED Agreed!vars => UNCHANGED AgreedOrders!vars
    BY DEF Agreed!vars, AgreedOrders!vars
<1>4. AgreedOrders!OvertakenByLateArrivals => Agreed!OvertakenByLateArrivals
    BY DEF Agreed!OvertakenByLateArrivals, AgreedOrders!OvertakenByLateArrivals
<1>5. ImplementsAgreed => AgreedOrders!Spec
    BY <1>1, <1>2, <1>3, PTL DEF ImplementsAgreed, Agreed!Spec, AgreedOrders!Spec
<1> QED
    BY <1>4, <1>5, MulticastRefines, AgreedOrders!AgreedOrder, PTL

\* The final key of a delivered message is the one it was delivered under.
LEMMA DeliveredKeys ==
    ASSUME IndInv, NEW h \in Host, NEW i \in DOMAIN deliveredMessage[h]
    PROVE  /\ deliveredMessage[h][i].msg \in Msg
           /\ DeliveredMap[h][i] = deliveredMessage[h][i].msg
           /\ FinalMap[deliveredMessage[h][i].msg].seq = deliveredMessage[h][i].seq
<1> DEFINE e == deliveredMessage[h][i]
           f == Final(e.msg, e.seq, e.proposer)
<1>1. f \in seqMessageHistory[h] /\ f.msg = e.msg /\ f.seq = e.seq /\ f.proposer = e.proposer
    BY DEF IndInv, DeliverableWhenFinal, Final
<1>2. DeliveredMap[h][i] = e.msg
    BY DEF DeliveredMap, DeliveredMsgs
<1> HIDE DEF e, f
<1>3. e.msg \in Msg /\ FinalKey(e.msg).seq = e.seq
  <2>1. f.msg \in Msg /\ FinalKey(f.msg) = [seq |-> f.seq, proposer |-> f.proposer]
      BY <1>1, FinalKeys DEF FinalKeysKnown
  <2>2. FinalKey(e.msg) = [seq |-> f.seq, proposer |-> f.proposer]
      BY <1>1, <2>1
  <2> QED
      BY <1>1, <2>1, <2>2
<1> QED
    BY <1>2, <1>3 DEF FinalMap, e

\* A host delivers two messages against their final numbers only if it came to
\* propose for the second one no earlier than for the first.
THEOREM InversionsHold == Spec => []InversionsAreLateArrivals
<1>1. ASSUME IndInv, Agreed!OvertakenByLateArrivals
      PROVE  InversionsAreLateArrivals
  <2> SUFFICES ASSUME NEW h \in Host, NEW j \in DOMAIN deliveredMessage[h],
                      NEW i \in 1 .. (j - 1),
                      deliveredMessage[h][j].seq < deliveredMessage[h][i].seq
               PROVE  Proposal(h, deliveredMessage[h][i].msg)
                        =< Proposal(h, deliveredMessage[h][j].msg)
      BY DEF InversionsAreLateArrivals
  <2> DEFINE first  == deliveredMessage[h][i]
             second == deliveredMessage[h][j]
  <2>1. i \in DOMAIN deliveredMessage[h] /\ DOMAIN DeliveredMap[h] = DOMAIN deliveredMessage[h]
      BY <1>1 DEF IndInv, TypeOK, DeliveredMap, DeliveredMsgs
  <2>2. /\ first.msg \in Msg /\ DeliveredMap[h][i] = first.msg
        /\ FinalMap[first.msg].seq = first.seq
        /\ second.msg \in Msg /\ DeliveredMap[h][j] = second.msg
        /\ FinalMap[second.msg].seq = second.seq
      BY <1>1, <2>1, DeliveredKeys
  <2>3. FinalMap[second.msg].seq < FinalMap[first.msg].seq =>
          ProposalMap[h][first.msg] =< ProposalMap[h][second.msg]
    <3>1. LET a == DeliveredMap[h][i]
              b == DeliveredMap[h][j]
          IN  FinalMap[b].seq < FinalMap[a].seq => ProposalMap[h][a] =< ProposalMap[h][b]
        BY <1>1, <2>1 DEF Agreed!OvertakenByLateArrivals
    <3> QED
        BY <2>2, <3>1
  <2>4. /\ ProposalMap[h][first.msg] = Proposal(h, first.msg)
        /\ ProposalMap[h][second.msg] = Proposal(h, second.msg)
      BY <2>2 DEF ProposalMap
  <2> QED
      BY <2>2, <2>3, <2>4
<1> QED
    BY <1>1, Invariance, MappedOrder, PTL

=============================================================================
