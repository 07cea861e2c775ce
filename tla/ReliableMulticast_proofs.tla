---------------------- MODULE ReliableMulticast_proofs ----------------------
(***************************************************************************)
(* Proofs about ReliableMulticast, for any group of hosts, any number of   *)
(* messages and any caps.                                                  *)
(***************************************************************************)
EXTENDS ReliableMulticastInv, FiniteSetTheorems, TLAPS

-----------------------------------------------------------------------------
(***************************************************************************)
(* Lemmas about the operators of the model.                                *)
(***************************************************************************)

\* A message is a pair of its sender and a message id below the sender's bound
\* or another's.
LEMMA MsgFacts ==
    /\ Host \subseteq Nat \ {0}
    /\ MsgId \subseteq Nat
    /\ \A m \in Msg : Sender(m) \in Host /\ m[2] \in MsgId
    /\ \A h \in Host, i \in MsgId : <<h, i>> \in Msg /\ Sender(<<h, i>>) = h
    /\ \A h \in Host, i \in Nat : i < NumMsgToSend[h] => i \in MsgId
<1>1. \A h \in Host : NumMsgToSend[h] \in Nat
    BY NumMsgAssumption
<1>2. MsgId \subseteq Nat
    BY <1>1 DEF MsgId
<1>3. \A h \in Host, i \in Nat : i < NumMsgToSend[h] => i \in MsgId
    BY <1>1 DEF MsgId
<1> QED
    BY <1>2, <1>3, HostAssumption DEF Msg, Sender

\* What the loop of deliver_msg_from_deliveryqueue pops is a sequence of
\* deliverable entries of the queue, each popped once.
LEMMA BatchFacts ==
    ASSUME NEW queue, IsFiniteSet(queue), NEW batch \in Batches(queue)
    PROVE  /\ Len(batch) \in Nat
           /\ DOMAIN batch = 1 .. Len(batch)
           /\ batch \in Seq({e \in queue : e.status = DELIVERABLE})
           /\ \A i, j \in 1 .. Len(batch) : i # j => batch[i] # batch[j]
           /\ Range(batch) = {batch[i] : i \in 1 .. Len(batch)}
<1> DEFINE deliverable == {e \in queue : e.status = DELIVERABLE}
<1>1. PICK S \in SUBSET deliverable : batch \in SetToSeqs(S)
    BY DEF Batches
<1>2. IsFiniteSet(S)
    BY <1>1, FS_Subset
<1>3. Cardinality(S) \in Nat
    BY <1>2, FS_CardinalityType
<1>4. /\ batch \in [1 .. Cardinality(S) -> S]
      /\ \A i, j \in 1 .. Cardinality(S) : i # j => batch[i] # batch[j]
    BY <1>1 DEF SetToSeqs
<1>5. batch \in Seq(deliverable) /\ Len(batch) = Cardinality(S)
    BY <1>1, <1>3, <1>4
<1>6. Range(batch) = {batch[i] : i \in 1 .. Len(batch)}
    BY <1>4, <1>5 DEF Range
<1> QED
    BY <1>3, <1>4, <1>5, <1>6

\* Setting the number of one message leaves the other entries alone and the
\* messages in the queue the same.
LEMMA ChangeQueuedFacts ==
    ASSUME NEW queue \in SUBSET QueueEntry, IsFiniteSet(queue),
           NEW m \in Msg, NEW seq \in Nat, NEW proposer \in Host,
           NEW changed, changed = ChangeQueued(queue, m, seq, proposer)
    PROVE  /\ changed \in SUBSET QueueEntry
           /\ IsFiniteSet(changed)
           /\ (\A d, e \in queue : d.msg = e.msg => d = e)
                => (\A d, e \in changed : d.msg = e.msg => d = e)
           /\ \A k \in Msg :
                (\E e \in changed : e.msg = k) <=> (\E e \in queue : e.msg = k)
           /\ \A e \in changed :
                \/ e = QueuedMessage(m, seq, proposer, DELIVERABLE)
                \/ e \in queue /\ e.msg # m
           /\ (\E e \in queue : e.msg = m) =>
                QueuedMessage(m, seq, proposer, DELIVERABLE) \in changed
           /\ \A e \in queue : e.msg # m => e \in changed
<1> DEFINE new == QueuedMessage(m, seq, proposer, DELIVERABLE)
           set(e) == IF e.msg = m THEN new ELSE e
<1>1. changed = {set(e) : e \in queue}
    BY DEF ChangeQueued
<1>2. IsFiniteSet(changed)
  <2> DEFINE f == [e \in queue |-> set(e)]
  <2>1. f \in Surjection(queue, changed)
    BY <1>1 DEF Surjection
  <2> QED
    BY <2>1, FS_Surjection
<1>3. new \in QueueEntry /\ new.msg = m
    BY DEF QueuedMessage, QueueEntry, DELIVERABLE
<1> HIDE DEF new
<1>4. \A e \in changed : e = new \/ (e \in queue /\ e.msg # m)
    BY <1>1
<1>5. (\E e \in queue : e.msg = m) => new \in changed
    BY <1>1
<1>6. \A e \in queue : e.msg # m => e \in changed
    BY <1>1
<1>7. \A e \in changed : \E d \in queue : d.msg = e.msg
    BY <1>1, <1>3
<1> QED
    BY <1>2, <1>3, <1>4, <1>5, <1>6, <1>7 DEF new

\* A transmission adds no packet but those sent, and counts the losses.
LEMMA TransmitFacts ==
    ASSUME NEW consumed, NEW sent, IsFiniteSet(sent), drops \in 0 .. MaxDrops,
           Transmit(consumed, sent)
    PROVE  /\ network' \subseteq network \cup sent
           /\ drops' \in 0 .. MaxDrops
<1>1. PICK lost \in SUBSET sent :
        /\ drops + Cardinality(lost) =< MaxDrops
        /\ drops' = drops + Cardinality(lost)
        /\ network' = (network \ consumed) \cup (sent \ lost)
    BY DEF Transmit
<1>2. Cardinality(lost) \in Nat
    BY <1>1, FS_Subset, FS_CardinalityType
<1> QED
    BY <1>1, <1>2, CapAssumption

\* A multicast sends finitely many packets.
LEMMA FinitelySent ==
    ASSUME NEW h \in Host, NEW m
    PROVE  IsFiniteSet({DataMessage(to, m) : to \in Host \ {h}})
<1> DEFINE T == {DataMessage(to, m) : to \in Host \ {h}}
           g == [to \in Host \ {h} |-> DataMessage(to, m)]
<1>1. IsFiniteSet(Host \ {h})
    BY HostAssumption, FS_Subset
<1>2. g \in Surjection(Host \ {h}, T)
    BY DEF Surjection
<1> QED
    BY <1>1, <1>2, FS_Surjection

\* So does the announcement of a final number.
LEMMA FinitelyAnnounced ==
    ASSUME NEW h \in Host, NEW m, NEW seq, NEW proposer
    PROVE  IsFiniteSet({SeqMessage(to, m, seq, proposer) : to \in Host \ {h}})
<1> DEFINE T == {SeqMessage(to, m, seq, proposer) : to \in Host \ {h}}
           g == [to \in Host \ {h} |-> SeqMessage(to, m, seq, proposer)]
<1>1. IsFiniteSet(Host \ {h})
    BY HostAssumption, FS_Subset
<1>2. g \in Surjection(Host \ {h}, T)
    BY DEF Surjection
<1> QED
    BY <1>1, <1>2, FS_Surjection

\* What a delivery from the delivery queue of h does: it moves deliverable
\* entries to the end of the delivered messages, and loses and repeats none.
LEMMA DeliverFacts ==
    ASSUME deliveryQueue \in [Host -> SUBSET QueueEntry],
           deliveredMessage \in [Host -> Seq(QueueEntry)],
           NEW h \in Host, NEW queue \in SUBSET QueueEntry, IsFiniteSet(queue),
           DeliverFrom(h, queue)
    PROVE  /\ deliveryQueue' \in [Host -> SUBSET QueueEntry]
           /\ deliveredMessage' \in [Host -> Seq(QueueEntry)]
           /\ deliveryQueue'[h] \subseteq queue
           /\ \A k \in Host \ {h} : /\ deliveryQueue'[k] = deliveryQueue[k]
                                   /\ deliveredMessage'[k] = deliveredMessage[k]
           /\ \A i \in DOMAIN deliveredMessage[h] :
                /\ i \in DOMAIN deliveredMessage'[h]
                /\ deliveredMessage'[h][i] = deliveredMessage[h][i]
           /\ \A i \in DOMAIN deliveredMessage'[h] :
                i \notin DOMAIN deliveredMessage[h] =>
                  /\ deliveredMessage'[h][i] \in queue
                  /\ deliveredMessage'[h][i].status = DELIVERABLE
                  /\ deliveredMessage'[h][i] \notin deliveryQueue'[h]
           /\ \A i, j \in DOMAIN deliveredMessage'[h] :
                /\ i \notin DOMAIN deliveredMessage[h]
                /\ j \notin DOMAIN deliveredMessage[h]
                /\ deliveredMessage'[h][i] = deliveredMessage'[h][j]
                => i = j
           /\ \A e \in queue :
                \/ e \in deliveryQueue'[h]
                \/ \E i \in DOMAIN deliveredMessage'[h] : deliveredMessage'[h][i] = e
<1> DEFINE old == deliveredMessage[h]
           new == deliveredMessage'[h]
<1>1. PICK batch \in Batches(queue) :
        /\ deliveryQueue' = [deliveryQueue EXCEPT ![h] = queue \ Range(batch)]
        /\ deliveredMessage' = [deliveredMessage EXCEPT ![h] = @ \o batch]
    BY DEF DeliverFrom
<1>2. /\ Len(batch) \in Nat
      /\ DOMAIN batch = 1 .. Len(batch)
      /\ batch \in Seq({e \in queue : e.status = DELIVERABLE})
      /\ \A i, j \in 1 .. Len(batch) : i # j => batch[i] # batch[j]
      /\ Range(batch) = {batch[i] : i \in 1 .. Len(batch)}
    BY <1>1, BatchFacts
<1>3. batch \in Seq(QueueEntry) /\ \A i \in 1 .. Len(batch) :
        batch[i] \in queue /\ batch[i].status = DELIVERABLE
    BY <1>2
<1>4. old \in Seq(QueueEntry) /\ new = old \o batch
    BY <1>1
<1>5. /\ new \in Seq(QueueEntry)
      /\ Len(old) \in Nat
      /\ DOMAIN old = 1 .. Len(old)
      /\ DOMAIN new = 1 .. (Len(old) + Len(batch))
      /\ \A i \in 1 .. Len(old) : new[i] = old[i]
      /\ \A i \in 1 .. Len(batch) : new[Len(old) + i] = batch[i]
    BY <1>2, <1>3, <1>4
<1>6. \A i \in DOMAIN new : i \notin DOMAIN old =>
        i - Len(old) \in 1 .. Len(batch) /\ new[i] = batch[i - Len(old)]
  <2> SUFFICES ASSUME NEW i \in DOMAIN new, i \notin DOMAIN old
               PROVE  i - Len(old) \in 1 .. Len(batch) /\ new[i] = batch[i - Len(old)]
      OBVIOUS
  <2>1. i - Len(old) \in 1 .. Len(batch) /\ Len(old) + (i - Len(old)) = i
      BY <1>2, <1>5
  <2> QED
      BY <2>1, <1>5
<1>7. deliveryQueue'[h] = queue \ {batch[i] : i \in 1 .. Len(batch)}
    BY <1>1, <1>2
<1>8. /\ deliveryQueue' \in [Host -> SUBSET QueueEntry]
      /\ deliveredMessage' \in [Host -> Seq(QueueEntry)]
      /\ \A k \in Host \ {h} : /\ deliveryQueue'[k] = deliveryQueue[k]
                              /\ deliveredMessage'[k] = deliveredMessage[k]
    BY <1>1, <1>4, <1>5
<1>9. \A i \in DOMAIN new : i \notin DOMAIN old =>
        new[i] \in queue /\ new[i].status = DELIVERABLE /\ new[i] \notin deliveryQueue'[h]
    BY <1>3, <1>6, <1>7
<1>10. \A i, j \in DOMAIN new :
         i \notin DOMAIN old /\ j \notin DOMAIN old /\ new[i] = new[j] => i = j
  <2> SUFFICES ASSUME NEW i \in DOMAIN new, NEW j \in DOMAIN new,
                      i \notin DOMAIN old, j \notin DOMAIN old, new[i] = new[j]
               PROVE  i = j
      OBVIOUS
  <2>1. i - Len(old) = j - Len(old)
      BY <1>2, <1>6
  <2>2. i \in Int /\ j \in Int /\ Len(old) \in Int
      BY <1>2, <1>5
  <2> QED
      BY <2>1, <2>2
<1>11. \A e \in queue : e \in deliveryQueue'[h] \/ \E i \in DOMAIN new : new[i] = e
  <2> SUFFICES ASSUME NEW i \in 1 .. Len(batch)
               PROVE  Len(old) + i \in DOMAIN new /\ new[Len(old) + i] = batch[i]
      BY <1>7
  <2> QED
      BY <1>2, <1>5
<1>12. \A i \in DOMAIN old : i \in DOMAIN new /\ new[i] = old[i]
    BY <1>2, <1>5
<1> QED
    BY <1>7, <1>8, <1>9, <1>10, <1>11, <1>12

-----------------------------------------------------------------------------
(***************************************************************************)
(* Type correctness.                                                       *)
(***************************************************************************)

\* A reception counts no further than RECV_CAP.
LEMMA ReceiveFacts ==
    ASSUME recv_cap \in [Host -> 1 .. RECV_CAP], NEW h \in Host, NEW packet,
           Receive(h, packet)
    PROVE  /\ packet \in network
           /\ h \notin exited
           /\ recv_cap' \in [Host -> 1 .. RECV_CAP]
<1>1. recv_cap[h] \in 1 .. RECV_CAP /\ recv_cap[h] < RECV_CAP /\ RECV_CAP \in Nat
    BY CapAssumption DEF Receive
<1>2. Tick(recv_cap[h]) \in 1 .. RECV_CAP
    BY <1>1 DEF Tick
<1> QED
    BY <1>2 DEF Receive

\* The packets have the types of their constructors.
LEMMA PacketFacts ==
    ASSUME NEW to \in Host, NEW m \in Msg, NEW seq \in Nat, NEW proposer \in Host
    PROVE  /\ DataMessage(to, m) \in Packet
           /\ AckMessage(m, seq, proposer) \in Packet
           /\ SeqMessage(to, m, seq, proposer) \in Packet
           /\ Final(m, seq, proposer) \in [msg : Msg, seq : Nat, proposer : Host]
           /\ QueuedMessage(m, seq, proposer, UNDELIVERABLE) \in QueueEntry
    BY MsgFacts DEF DataMessage, AckMessage, SeqMessage, Final, Packet,
                    QueuedMessage, QueueEntry, UNDELIVERABLE

\* A transmission of packets keeps the type of the network.
LEMMA TransmitTypes ==
    ASSUME TypeOK, NEW consumed, NEW sent, IsFiniteSet(sent), sent \subseteq Packet,
           Transmit(consumed, sent)
    PROVE  network' \subseteq Packet /\ drops' \in 0 .. MaxDrops
<1>1. network \subseteq Packet /\ drops \in 0 .. MaxDrops
    BY DEF TypeOK
<1> QED
    BY <1>1, TransmitFacts

\* The same of a transmission of one packet or none.
LEMMA TransmitOneType ==
    ASSUME TypeOK, NEW consumed, NEW packet \in Packet, Transmit(consumed, {packet})
    PROVE  network' \subseteq Packet /\ drops' \in 0 .. MaxDrops
<1>1. IsFiniteSet({packet}) /\ {packet} \subseteq Packet
    BY FS_Singleton
<1> QED
    BY <1>1, TransmitTypes

\* The initial state is well typed.
LEMMA TypeInit == Init => TypeOK
<1> SUFFICES ASSUME Init PROVE TypeOK
    OBVIOUS
<1>1. 1 \in 1 .. RECV_CAP /\ 0 \in 0 .. WATCHDOG_RESEND_CAP /\ 0 \in 0 .. MaxDrops
    BY CapAssumption
<1>2. \A h \in Host : NumMsgToSend[h] \in Nat
    BY NumMsgAssumption
<1>3. IsFiniteSet({})
    BY FS_EmptySet
<1>4. <<>> \in Seq(QueueEntry)
    OBVIOUS
<1> QED
    BY <1>1, <1>2, <1>3, <1>4 DEF Init, TypeOK

\* multicast_datamsg keeps every variable in its type.
LEMMA TypeMulticastDatamsg ==
    ASSUME TypeOK, NEW h \in Host, MulticastDatamsg(h)
    PROVE  TypeOK'
<1> DEFINE m   == <<h, curr_msg_id[h]>>
           seq == curr_seq_number[h] + 1
<1>1. curr_msg_id[h] \in Nat /\ NumMsgToSend[h] \in Nat /\ curr_msg_id[h] < NumMsgToSend[h]
    BY NumMsgAssumption DEF MulticastDatamsg, TypeOK
<1>2. m \in Msg
    BY <1>1, MsgFacts
<1>3. seq \in Nat \ {0}
    BY DEF TypeOK
<1>4. /\ curr_msg_id' \in [Host -> Nat]
      /\ \A k \in Host : curr_msg_id'[k] =< NumMsgToSend[k]
    BY <1>1 DEF MulticastDatamsg, TypeOK
<1>5. /\ curr_seq_number' \in [Host -> Nat \ {0}]
      /\ ackHistory' \in [Msg -> [Host -> Nat]]
    BY <1>2, <1>3 DEF MulticastDatamsg, TypeOK
<1>6. /\ deliveryQueue' \in [Host -> SUBSET QueueEntry]
      /\ \A k \in Host : IsFiniteSet(deliveryQueue'[k])
  <2>1. QueuedMessage(m, seq, h, UNDELIVERABLE) \in QueueEntry
      BY <1>2, <1>3, PacketFacts
  <2>2. IsFiniteSet(deliveryQueue[h] \cup {QueuedMessage(m, seq, h, UNDELIVERABLE)})
      BY FS_AddElement DEF TypeOK
  <2> QED
      BY <2>1, <2>2 DEF MulticastDatamsg, TypeOK
<1>7. network' \subseteq Packet /\ drops' \in 0 .. MaxDrops
  <2> DEFINE sent == {DataMessage(to, m) : to \in Host \ {h}}
  <2>1. IsFiniteSet(sent)
      BY FinitelySent
  <2>2. sent \subseteq Packet
      BY <1>2, <1>3, PacketFacts
  <2>3. Transmit({}, sent)
      BY DEF MulticastDatamsg
  <2> HIDE DEF sent
  <2> QED
      BY <2>1, <2>2, <2>3, TransmitTypes
<1> QED
    BY <1>4, <1>5, <1>6, <1>7 DEF MulticastDatamsg, TypeOK

\* handle_datamsg keeps every variable in its type, on both of its branches.
LEMMA TypeHandleDatamsg ==
    ASSUME TypeOK, NEW h \in Host, NEW m \in Msg, HandleDatamsg(h, m)
    PROVE  TypeOK'
<1>1. CASE ReAck(h, m)
  <2>1. recv_cap' \in [Host -> 1 .. RECV_CAP]
      BY <1>1, ReceiveFacts DEF ReAck, TypeOK
  <2>2. AckMessage(m, alreadyAcked[h][m], h) \in Packet
      BY PacketFacts DEF TypeOK
  <2>3. Transmit({DataMessage(h, m)}, {AckMessage(m, alreadyAcked[h][m], h)})
      BY <1>1 DEF ReAck
  <2>4. network' \subseteq Packet /\ drops' \in 0 .. MaxDrops
      BY <2>2, <2>3, TransmitOneType
  <2> QED
      BY <1>1, <2>1, <2>4 DEF ReAck, TypeOK
<1>2. CASE Propose(h, m)
  <2> DEFINE seq == curr_seq_number[h]
  <2>1. seq \in Nat \ {0} /\ seq + 1 \in Nat \ {0}
      BY DEF TypeOK
  <2>2. recv_cap' \in [Host -> 1 .. RECV_CAP]
      BY <1>2, ReceiveFacts DEF Propose, TypeOK
  <2>3. AckMessage(m, seq, h) \in Packet /\ QueuedMessage(m, seq, h, UNDELIVERABLE) \in QueueEntry
      BY <2>1, PacketFacts
  <2>4. network' \subseteq Packet /\ drops' \in 0 .. MaxDrops
    <3>1. Transmit({DataMessage(h, m)}, {AckMessage(m, seq, h)})
        BY <1>2 DEF Propose
    <3> QED
        BY <2>3, <3>1, TransmitOneType
  <2>5. IsFiniteSet(deliveryQueue[h] \cup {QueuedMessage(m, seq, h, UNDELIVERABLE)})
      BY FS_AddElement DEF TypeOK
  <2>6. /\ deliveryQueue' \in [Host -> SUBSET QueueEntry]
        /\ \A k \in Host : IsFiniteSet(deliveryQueue'[k])
      BY <1>2, <2>3, <2>5 DEF Propose, TypeOK
  <2>7. /\ alreadyAcked' \in [Host -> [Msg -> Nat]]
        /\ curr_seq_number' \in [Host -> Nat \ {0}]
      BY <1>2, <2>1 DEF Propose, TypeOK
  <2> QED
      BY <1>2, <2>2, <2>4, <2>6, <2>7 DEF Propose, TypeOK
<1> QED
    BY <1>1, <1>2 DEF HandleDatamsg

\* The queue from which a handler delivers once a final number is known.
LEMMA TypeDeliver ==
    ASSUME TypeOK, NEW h \in Host, NEW m \in Msg, NEW seq \in Nat, NEW proposer \in Host,
           DeliverFrom(h, ChangeQueued(deliveryQueue[h], m, seq, proposer))
    PROVE  /\ deliveryQueue' \in [Host -> SUBSET QueueEntry]
           /\ \A k \in Host : IsFiniteSet(deliveryQueue'[k])
           /\ deliveredMessage' \in [Host -> Seq(QueueEntry)]
<1> DEFINE queue == ChangeQueued(deliveryQueue[h], m, seq, proposer)
<1>1. /\ deliveryQueue \in [Host -> SUBSET QueueEntry]
      /\ \A k \in Host : IsFiniteSet(deliveryQueue[k])
      /\ deliveredMessage \in [Host -> Seq(QueueEntry)]
    BY DEF TypeOK
<1>2. queue \in SUBSET QueueEntry /\ IsFiniteSet(queue)
    BY <1>1, ChangeQueuedFacts
<1>3. /\ deliveryQueue' \in [Host -> SUBSET QueueEntry]
      /\ deliveredMessage' \in [Host -> Seq(QueueEntry)]
      /\ deliveryQueue'[h] \subseteq queue
      /\ \A k \in Host \ {h} : deliveryQueue'[k] = deliveryQueue[k]
  <2> HIDE DEF queue
  <2>1. DeliverFrom(h, queue)
      BY DEF queue
  <2> QED
      BY <1>1, <1>2, <2>1, DeliverFacts
<1>4. IsFiniteSet(deliveryQueue'[h])
    BY <1>2, <1>3, FS_Subset
<1> QED
    BY <1>1, <1>3, <1>4

\* A history gains one final number.
LEMMA TypeHistory ==
    ASSUME TypeOK, NEW h \in Host, NEW m \in Msg, NEW seq \in Nat, NEW proposer \in Host,
           seqMessageHistory' = [seqMessageHistory EXCEPT
                                   ![h] = @ \cup {Final(m, seq, proposer)}]
    PROVE  /\ seqMessageHistory' \in [Host -> SUBSET [msg : Msg, seq : Nat, proposer : Host]]
           /\ \A k \in Host : IsFiniteSet(seqMessageHistory'[k])
<1>1. Final(m, seq, proposer) \in [msg : Msg, seq : Nat, proposer : Host]
    BY PacketFacts
<1>2. IsFiniteSet(seqMessageHistory[h] \cup {Final(m, seq, proposer)})
    BY FS_AddElement DEF TypeOK
<1> QED
    BY <1>1, <1>2 DEF TypeOK

\* handle_ackmsg keeps every variable in its type, on all of its branches.
LEMMA TypeHandleAckmsg ==
    ASSUME TypeOK, NEW m \in Msg, NEW p \in Host, HandleAckmsg(m, p)
    PROVE  TypeOK'
<1> DEFINE s == Sender(m)
<1>1. s \in Host
    BY MsgFacts
<1>2. PICK a \in network :
        /\ a.type = "ACKMSG"
        /\ \/ CollectAck(m, p, a.seq)
           \/ Finalize(m, p, a.seq)
           \/ ResendFinal(m, p, a.seq)
           \/ IgnoreAck(m, p, a.seq)
    BY DEF HandleAckmsg
<1>3. a.seq \in Nat
    BY <1>2 DEF TypeOK, Packet
<1> DEFINE packet == AckMessage(m, a.seq, p)
           acks   == [ackHistory[m] EXCEPT ![p] = a.seq]
<1>4. acks \in [Host -> Nat]
    BY <1>3 DEF TypeOK
<1>5. ASSUME NEW ack, Receive(s, ack) PROVE recv_cap' \in [Host -> 1 .. RECV_CAP]
    BY <1>1, <1>5, ReceiveFacts DEF TypeOK
<1>6. IsFiniteSet({}) /\ {} \subseteq Packet
    BY FS_EmptySet
<1>7. CASE CollectAck(m, p, a.seq)
  <2>1. network' \subseteq Packet /\ drops' \in 0 .. MaxDrops
    <3>1. Transmit({packet}, {})
        BY <1>7 DEF CollectAck
    <3> QED
        BY <1>6, <3>1, TransmitTypes
  <2>2. recv_cap' \in [Host -> 1 .. RECV_CAP]
      BY <1>5, <1>7 DEF CollectAck
  <2>3. curr_seq_number' \in [Host -> Nat \ {0}]
    <3>1. curr_seq_number' = [curr_seq_number EXCEPT ![s] = @ + 1]
        BY <1>7 DEF CollectAck
    <3>2. curr_seq_number \in [Host -> Nat \ {0}]
        BY DEF TypeOK
    <3>3. \A n \in Nat \ {0} : n + 1 \in Nat \ {0}
        OBVIOUS
    <3>4. curr_seq_number[s] + 1 \in Nat \ {0}
        BY <1>1, <3>2, <3>3
    <3> QED
        BY <3>1, <3>2, <3>4
  <2>4. ackHistory' \in [Msg -> [Host -> Nat]]
    <3>1. ackHistory' = [ackHistory EXCEPT ![m] = acks]
        BY <1>7 DEF CollectAck
    <3> QED
        BY <1>4, <3>1 DEF TypeOK
  <2> QED
      BY <1>7, <2>1, <2>2, <2>3, <2>4 DEF CollectAck, TypeOK
<1>8. CASE Finalize(m, p, a.seq)
  <2>1. PICK top \in Host :
          /\ seqMessageHistory' = [seqMessageHistory EXCEPT
                                     ![s] = @ \cup {Final(m, acks[top], top)}]
          /\ Transmit({packet}, {SeqMessage(to, m, acks[top], top) : to \in Host \ {s}})
          /\ DeliverFrom(s, ChangeQueued(deliveryQueue[s], m, acks[top], top))
      BY <1>8 DEF Finalize
  <2>2. acks[top] \in Nat
      BY <1>4
  <2>5. /\ curr_seq_number' \in [Host -> Nat \ {0}]
        /\ ackHistory' \in [Msg -> [Host -> Nat]]
    <3>1. /\ curr_seq_number' = [curr_seq_number EXCEPT ![s] = @ + 1]
          /\ ackHistory' = [ackHistory EXCEPT ![m] = acks]
        BY <1>8 DEF Finalize
    <3> HIDE DEF acks, s
    <3>2. curr_seq_number' \in [Host -> Nat \ {0}]
      <4>1. curr_seq_number \in [Host -> Nat \ {0}]
          BY DEF TypeOK
      <4>2. curr_seq_number[s] + 1 \in Nat \ {0}
          BY <1>1, <4>1
      <4> QED
          BY <3>1, <4>1, <4>2
    <3>3. ackHistory' \in [Msg -> [Host -> Nat]]
        BY <1>4, <3>1 DEF TypeOK
    <3> QED
        BY <3>2, <3>3
  <2> HIDE DEF acks
  <2>3. network' \subseteq Packet /\ drops' \in 0 .. MaxDrops
    <3> DEFINE sent == {SeqMessage(to, m, acks[top], top) : to \in Host \ {s}}
    <3>1. IsFiniteSet(sent)
        BY <1>1, FinitelyAnnounced
    <3>2. sent \subseteq Packet
        BY <2>2, PacketFacts
    <3>3. Transmit({packet}, sent)
        BY <2>1
    <3> HIDE DEF sent
    <3> QED
        BY <3>1, <3>2, <3>3, TransmitTypes
  <2>4. recv_cap' \in [Host -> 1 .. RECV_CAP]
      BY <1>5, <1>8 DEF Finalize
  <2>6. /\ seqMessageHistory' \in [Host -> SUBSET [msg : Msg, seq : Nat, proposer : Host]]
        /\ \A k \in Host : IsFiniteSet(seqMessageHistory'[k])
      BY <1>1, <2>1, <2>2, TypeHistory
  <2>7. /\ deliveryQueue' \in [Host -> SUBSET QueueEntry]
        /\ \A k \in Host : IsFiniteSet(deliveryQueue'[k])
        /\ deliveredMessage' \in [Host -> Seq(QueueEntry)]
      BY <1>1, <2>1, <2>2, TypeDeliver
  <2> QED
      BY <1>8, <2>3, <2>4, <2>5, <2>6, <2>7 DEF Finalize, TypeOK
<1>9. CASE ResendFinal(m, p, a.seq)
  <2>1. network' \subseteq Packet /\ drops' \in 0 .. MaxDrops
    <3> DEFINE sent == {SeqMessage(p, m, f.seq, f.proposer) : f \in FinalsOf(s, m)}
    <3>1. FinalsOf(s, m) \subseteq [msg : Msg, seq : Nat, proposer : Host]
        BY <1>1 DEF FinalsOf, TypeOK
    <3>2. IsFiniteSet(FinalsOf(s, m))
        BY <1>1, FS_Subset DEF FinalsOf, TypeOK
    <3>3. IsFiniteSet(sent)
      <4> DEFINE g == [f \in FinalsOf(s, m) |-> SeqMessage(p, m, f.seq, f.proposer)]
      <4>1. g \in Surjection(FinalsOf(s, m), sent)
          BY DEF Surjection
      <4> QED
          BY <3>2, <4>1, FS_Surjection
    <3>4. sent \subseteq Packet
        BY <3>1, PacketFacts
    <3>5. Transmit({packet}, sent)
        BY <1>9 DEF ResendFinal
    <3> HIDE DEF sent
    <3> QED
        BY <3>3, <3>4, <3>5, TransmitTypes
  <2>2. recv_cap' \in [Host -> 1 .. RECV_CAP]
      BY <1>5, <1>9 DEF ResendFinal
  <2> QED
      BY <1>1, <1>9, <2>1, <2>2 DEF ResendFinal, TypeOK
<1>10. CASE IgnoreAck(m, p, a.seq)
  <2>1. network' \subseteq Packet /\ drops' \in 0 .. MaxDrops
    <3>1. Transmit({packet}, {})
        BY <1>10 DEF IgnoreAck
    <3> QED
        BY <1>6, <3>1, TransmitTypes
  <2>2. recv_cap' \in [Host -> 1 .. RECV_CAP]
      BY <1>5, <1>10 DEF IgnoreAck
  <2> QED
      BY <1>10, <2>1, <2>2 DEF IgnoreAck, TypeOK
<1> QED
    BY <1>2, <1>7, <1>8, <1>9, <1>10

\* handle_seqmsg keeps every variable in its type, new or repeated.
LEMMA TypeHandleSeqmsg ==
    ASSUME TypeOK, NEW h \in Host, NEW m \in Msg, HandleSeqmsg(h, m)
    PROVE  TypeOK'
<1>1. PICK f \in network :
        /\ f.type = "SEQMSG"
        /\ ApplyFinal(h, m, f.seq, f.proposer) \/ DropFinal(h, m, f.seq, f.proposer)
    BY DEF HandleSeqmsg
<1>2. f.seq \in Nat /\ f.proposer \in Host
    BY <1>1 DEF TypeOK, Packet
<1> DEFINE packet == SeqMessage(h, m, f.seq, f.proposer)
<1>3. Receive(h, packet) /\ Transmit({packet}, {})
    BY <1>1 DEF ApplyFinal, DropFinal
<1>4. recv_cap' \in [Host -> 1 .. RECV_CAP]
    BY <1>3, ReceiveFacts DEF TypeOK
<1>5. network' \subseteq Packet /\ drops' \in 0 .. MaxDrops
  <2>1. IsFiniteSet({}) /\ {} \subseteq Packet
      BY FS_EmptySet
  <2> QED
      BY <1>3, <2>1, TransmitTypes
<1>6. CASE ApplyFinal(h, m, f.seq, f.proposer)
  <2>1. /\ seqMessageHistory' \in [Host -> SUBSET [msg : Msg, seq : Nat, proposer : Host]]
        /\ \A k \in Host : IsFiniteSet(seqMessageHistory'[k])
      BY <1>2, <1>6, TypeHistory DEF ApplyFinal
  <2>2. /\ deliveryQueue' \in [Host -> SUBSET QueueEntry]
        /\ \A k \in Host : IsFiniteSet(deliveryQueue'[k])
        /\ deliveredMessage' \in [Host -> Seq(QueueEntry)]
      BY <1>2, <1>6, TypeDeliver DEF ApplyFinal
  <2> QED
      BY <1>4, <1>5, <1>6, <2>1, <2>2 DEF ApplyFinal, TypeOK
<1>7. CASE DropFinal(h, m, f.seq, f.proposer)
  <2>1. exited' \subseteq Host
      BY <1>7 DEF DropFinal, TypeOK
  <2> QED
      BY <1>4, <1>5, <1>7, <2>1 DEF DropFinal, TypeOK
<1> QED
    BY <1>1, <1>6, <1>7

\* A resend of a watchdog keeps every variable in its type.
LEMMA TypeWatchdogs ==
    ASSUME TypeOK, NEW h \in Host, NEW m \in Msg,
           DatamsgWatchdog(m, h) \/ AckmsgWatchdog(h, m)
    PROVE  TypeOK'
<1>1. ASSUME NEW n \in 0 .. WATCHDOG_RESEND_CAP, n < WATCHDOG_RESEND_CAP
      PROVE  Tick(n) \in 0 .. WATCHDOG_RESEND_CAP
    BY <1>1, CapAssumption DEF Tick
<1>2. CASE DatamsgWatchdog(m, h)
  <2>1. network' \subseteq Packet /\ drops' \in 0 .. MaxDrops
    <3>1. Transmit({}, {DataMessage(h, m)}) /\ DataMessage(h, m) \in Packet
        BY <1>2, PacketFacts DEF DatamsgWatchdog
    <3> QED
        BY <3>1, TransmitOneType
  <2>2. dataResends' \in [Msg -> [Host -> 0 .. WATCHDOG_RESEND_CAP]]
      BY <1>1, <1>2 DEF DatamsgWatchdog, TypeOK
  <2> QED
      BY <1>2, <2>1, <2>2 DEF DatamsgWatchdog, TypeOK
<1>3. CASE AckmsgWatchdog(h, m)
  <2>1. network' \subseteq Packet /\ drops' \in 0 .. MaxDrops
    <3>1. /\ Transmit({}, {AckMessage(m, alreadyAcked[h][m], h)})
          /\ alreadyAcked[h][m] \in Nat
        BY <1>3 DEF AckmsgWatchdog, TypeOK
    <3> QED
        BY <3>1, PacketFacts, TransmitOneType
  <2>2. ackResends' \in [Host -> [Msg -> 0 .. WATCHDOG_RESEND_CAP]]
      BY <1>1, <1>3 DEF AckmsgWatchdog, TypeOK
  <2> QED
      BY <1>3, <2>1, <2>2 DEF AckmsgWatchdog, TypeOK
<1> QED
    BY <1>2, <1>3

\* Every step, and every stutter, keeps the type invariant.
LEMMA TypeNext == TypeOK /\ [Next]_vars => TypeOK'
<1> SUFFICES ASSUME TypeOK, [Next]_vars PROVE TypeOK'
    OBVIOUS
<1>1. ASSUME NEW h \in Host, MulticastDatamsg(h) PROVE TypeOK'
    BY <1>1, TypeMulticastDatamsg
<1>2. ASSUME NEW h \in Host, NEW m \in Msg, HandleDatamsg(h, m) PROVE TypeOK'
    BY <1>2, TypeHandleDatamsg
<1>3. ASSUME NEW h \in Host, NEW m \in Msg, HandleAckmsg(m, h) PROVE TypeOK'
    BY <1>3, TypeHandleAckmsg
<1>4. ASSUME NEW h \in Host, NEW m \in Msg, HandleSeqmsg(h, m) PROVE TypeOK'
    BY <1>4, TypeHandleSeqmsg
<1>5. ASSUME NEW h \in Host, NEW m \in Msg, DatamsgWatchdog(m, h) \/ AckmsgWatchdog(h, m)
      PROVE  TypeOK'
    BY <1>5, TypeWatchdogs
<1>6. CASE UNCHANGED vars
    BY <1>6 DEF vars, TypeOK
<1> QED
    BY <1>1, <1>2, <1>3, <1>4, <1>5, <1>6 DEF Next

\* Every variable keeps its type; in particular no receiver thread handles
\* more packets than RECV_CAP allows and no watchdog resends more often than
\* WATCHDOG_RESEND_CAP, whatever the two caps are.
THEOREM TypeCorrect == Spec => []TypeOK
    BY TypeInit, TypeNext, PTL DEF Spec

-----------------------------------------------------------------------------
(***************************************************************************)
(* The inductive invariant.                                                *)
(***************************************************************************)

\* What applying a final number to a queued message does to what hosts hold.
LEMMA ApplyFacts ==
    ASSUME TypeOK, ExactlyOnce,
           NEW h \in Host, NEW m \in Msg, NEW seq \in Nat, NEW proposer \in Host,
           Queued(h, m),
           DeliverFrom(h, ChangeQueued(deliveryQueue[h], m, seq, proposer))
    PROVE  /\ ExactlyOnce'
           /\ \A k \in Host, n \in Msg :
                (Queued(k, n) \/ Delivered(k, n))' <=> (Queued(k, n) \/ Delivered(k, n))
           /\ \A k \in Host, n \in Msg :
                Delivered(k, n) \/ Deliverable(k, n) => (Delivered(k, n) \/ Deliverable(k, n))'
           /\ (Delivered(h, m) \/ Deliverable(h, m))'
           /\ \A k \in Host : \A e \in deliveryQueue'[k] :
                e.status = DELIVERABLE =>
                  \/ e \in deliveryQueue[k]
                  \/ k = h /\ Final(e.msg, e.seq, e.proposer) = Final(m, seq, proposer)
           /\ \A k \in Host : \A i \in DOMAIN deliveredMessage'[k] :
                LET e == deliveredMessage'[k][i]
                IN  \/ i \in DOMAIN deliveredMessage[k] /\ e = deliveredMessage[k][i]
                    \/ e \in deliveryQueue[k] /\ e.status = DELIVERABLE
                    \/ k = h /\ Final(e.msg, e.seq, e.proposer) = Final(m, seq, proposer)
<1> DEFINE queue == ChangeQueued(deliveryQueue[h], m, seq, proposer)
           new   == QueuedMessage(m, seq, proposer, DELIVERABLE)
<1>1. /\ deliveryQueue \in [Host -> SUBSET QueueEntry]
      /\ deliveredMessage \in [Host -> Seq(QueueEntry)]
      /\ deliveryQueue[h] \in SUBSET QueueEntry
      /\ IsFiniteSet(deliveryQueue[h])
    BY DEF TypeOK
<1>2. \A d, e \in deliveryQueue[h] : d.msg = e.msg => d = e
    BY DEF ExactlyOnce
<1>0. queue = ChangeQueued(deliveryQueue[h], m, seq, proposer) /\ DeliverFrom(h, queue)
    OBVIOUS
<1> HIDE DEF queue
<1>3. /\ queue \in SUBSET QueueEntry
      /\ IsFiniteSet(queue)
      /\ (\A d, e \in deliveryQueue[h] : d.msg = e.msg => d = e)
           => (\A d, e \in queue : d.msg = e.msg => d = e)
      /\ \A k \in Msg :
           (\E e \in queue : e.msg = k) <=> (\E e \in deliveryQueue[h] : e.msg = k)
      /\ \A e \in queue : e = new \/ (e \in deliveryQueue[h] /\ e.msg # m)
      /\ (\E e \in deliveryQueue[h] : e.msg = m) => new \in queue
      /\ \A e \in deliveryQueue[h] : e.msg # m => e \in queue
  <2> DEFINE old == deliveryQueue[h]
  <2>1. old \in SUBSET QueueEntry /\ IsFiniteSet(old) /\ queue = ChangeQueued(old, m, seq, proposer)
      BY <1>0, <1>1
  <2> HIDE DEF old
  <2>2. /\ queue \in SUBSET QueueEntry
        /\ IsFiniteSet(queue)
      BY <2>1, ChangeQueuedFacts
  <2>3. (\A d, e \in old : d.msg = e.msg => d = e)
          => (\A d, e \in queue : d.msg = e.msg => d = e)
      BY <2>1, ChangeQueuedFacts
  <2>4. \A k \in Msg : (\E e \in queue : e.msg = k) <=> (\E e \in old : e.msg = k)
      BY <2>1, ChangeQueuedFacts
  <2>5. \A e \in queue : e = new \/ (e \in old /\ e.msg # m)
      BY <2>1, ChangeQueuedFacts
  <2>6. (\E e \in old : e.msg = m) => new \in queue
      BY <2>1, ChangeQueuedFacts
  <2>7. \A e \in old : e.msg # m => e \in queue
      BY <2>1, ChangeQueuedFacts
  <2> QED
      BY <2>2, <2>3, <2>4, <2>5, <2>6, <2>7 DEF old
<1>4. /\ DeliverFrom(h, queue)
      /\ \A d, e \in queue : d.msg = e.msg => d = e
      /\ new \in queue
    BY <1>0, <1>2, <1>3 DEF Queued
<1>5. /\ deliveryQueue' \in [Host -> SUBSET QueueEntry]
      /\ deliveredMessage' \in [Host -> Seq(QueueEntry)]
      /\ deliveryQueue'[h] \subseteq queue
      /\ \A k \in Host \ {h} : /\ deliveryQueue'[k] = deliveryQueue[k]
                              /\ deliveredMessage'[k] = deliveredMessage[k]
      /\ \A i \in DOMAIN deliveredMessage[h] :
           /\ i \in DOMAIN deliveredMessage'[h]
           /\ deliveredMessage'[h][i] = deliveredMessage[h][i]
      /\ \A i \in DOMAIN deliveredMessage'[h] :
           i \notin DOMAIN deliveredMessage[h] =>
             /\ deliveredMessage'[h][i] \in queue
             /\ deliveredMessage'[h][i].status = DELIVERABLE
             /\ deliveredMessage'[h][i] \notin deliveryQueue'[h]
      /\ \A i, j \in DOMAIN deliveredMessage'[h] :
           /\ i \notin DOMAIN deliveredMessage[h]
           /\ j \notin DOMAIN deliveredMessage[h]
           /\ deliveredMessage'[h][i] = deliveredMessage'[h][j]
           => i = j
      /\ \A e \in queue :
           \/ e \in deliveryQueue'[h]
           \/ \E i \in DOMAIN deliveredMessage'[h] : deliveredMessage'[h][i] = e
    BY <1>1, <1>3, <1>4, DeliverFacts
<1>5a. \A k \in Host \ {h} : /\ deliveryQueue'[k] = deliveryQueue[k]
                              /\ deliveredMessage'[k] = deliveredMessage[k]
    BY <1>5
<1>6. new.msg = m /\ new.status = DELIVERABLE
      /\ Final(new.msg, new.seq, new.proposer) = Final(m, seq, proposer)
    BY DEF QueuedMessage
<1> HIDE DEF new
<1>7. \A e \in queue : ~ Delivered(h, e.msg)
    BY <1>3, <1>6 DEF ExactlyOnce, Queued
<1>8. ExactlyOnce'
  <2>1. \A d, e \in deliveryQueue'[h] : d.msg = e.msg => d = e
      BY <1>4, <1>5
  <2>2. \A i, j \in DOMAIN deliveredMessage'[h] :
          deliveredMessage'[h][i].msg = deliveredMessage'[h][j].msg => i = j
    <3> SUFFICES ASSUME NEW i \in DOMAIN deliveredMessage'[h],
                        NEW j \in DOMAIN deliveredMessage'[h],
                        deliveredMessage'[h][i].msg = deliveredMessage'[h][j].msg
                 PROVE  i = j
        OBVIOUS
    <3>1. CASE i \in DOMAIN deliveredMessage[h] /\ j \in DOMAIN deliveredMessage[h]
        BY <1>5, <3>1 DEF ExactlyOnce
    <3>2. CASE i \notin DOMAIN deliveredMessage[h] /\ j \notin DOMAIN deliveredMessage[h]
        BY <1>4, <1>5, <3>2
    <3>3. CASE i \in DOMAIN deliveredMessage[h] /\ j \notin DOMAIN deliveredMessage[h]
        BY <1>5, <1>7, <3>3 DEF Delivered
    <3>4. CASE i \notin DOMAIN deliveredMessage[h] /\ j \in DOMAIN deliveredMessage[h]
        BY <1>5, <1>7, <3>4 DEF Delivered
    <3> QED
        BY <3>1, <3>2, <3>3, <3>4
  <2>3. \A e \in deliveryQueue'[h] : ~ Delivered(h, e.msg)'
    <3> SUFFICES ASSUME NEW e \in deliveryQueue'[h], NEW i \in DOMAIN deliveredMessage'[h],
                        deliveredMessage'[h][i].msg = e.msg
                 PROVE  FALSE
        BY DEF Delivered
    <3>1. CASE i \in DOMAIN deliveredMessage[h]
        BY <1>5, <1>7, <3>1 DEF Delivered
    <3>2. CASE i \notin DOMAIN deliveredMessage[h]
        BY <1>4, <1>5, <3>2
    <3> QED
        BY <3>1, <3>2
  <2>4. \A k \in Host \ {h} :
          /\ \A d, e \in deliveryQueue'[k] : d.msg = e.msg => d = e
          /\ \A i, j \in DOMAIN deliveredMessage'[k] :
               deliveredMessage'[k][i].msg = deliveredMessage'[k][j].msg => i = j
          /\ \A e \in deliveryQueue'[k] : ~ Delivered(k, e.msg)'
    <3> SUFFICES ASSUME NEW k \in Host \ {h}
                 PROVE  /\ \A d, e \in deliveryQueue'[k] : d.msg = e.msg => d = e
                        /\ \A i, j \in DOMAIN deliveredMessage'[k] :
                             deliveredMessage'[k][i].msg = deliveredMessage'[k][j].msg => i = j
                        /\ \A e \in deliveryQueue'[k] : ~ Delivered(k, e.msg)'
        OBVIOUS
    <3>1. deliveryQueue'[k] = deliveryQueue[k] /\ deliveredMessage'[k] = deliveredMessage[k]
        BY <1>5a
    <3> QED
        BY <3>1 DEF ExactlyOnce, Delivered
  <2> QED
      BY <2>1, <2>2, <2>3, <2>4 DEF ExactlyOnce
<1>9. \A k \in Host \ {h}, n \in Msg :
        /\ Queued(k, n)' <=> Queued(k, n)
        /\ Delivered(k, n)' <=> Delivered(k, n)
        /\ Deliverable(k, n)' <=> Deliverable(k, n)
    BY <1>5a DEF Queued, Delivered, Deliverable
<1>10. ASSUME NEW n \in Msg
       PROVE  (Queued(h, n) \/ Delivered(h, n))' <=> (Queued(h, n) \/ Delivered(h, n))
  <2>1. Queued(h, n) <=> \E e \in queue : e.msg = n
      BY <1>3 DEF Queued
  <2>2. Delivered(h, n) => Delivered(h, n)'
      BY <1>5 DEF Delivered
  <2>3. Queued(h, n) => (Queued(h, n) \/ Delivered(h, n))'
      BY <1>5, <2>1 DEF Queued, Delivered
  <2>4. Queued(h, n)' => Queued(h, n)
      BY <1>5, <2>1 DEF Queued
  <2>5. Delivered(h, n)' => Queued(h, n) \/ Delivered(h, n)
      BY <1>5, <2>1 DEF Delivered
  <2> QED
      BY <2>2, <2>3, <2>4, <2>5
<1>11. ASSUME NEW n \in Msg, \E e \in queue : e.msg = n /\ e.status = DELIVERABLE
       PROVE  (Delivered(h, n) \/ Deliverable(h, n))'
    BY <1>5, <1>11 DEF Delivered, Deliverable
<1>12. ASSUME NEW n \in Msg, Delivered(h, n) \/ Deliverable(h, n)
       PROVE  (Delivered(h, n) \/ Deliverable(h, n))'
  <2>1. CASE Delivered(h, n)
      BY <1>5, <2>1 DEF Delivered
  <2>2. CASE Deliverable(h, n)
      BY <1>3, <1>6, <1>11, <2>2 DEF Deliverable
  <2> QED
      BY <1>12, <2>1, <2>2
<1>13. (Delivered(h, m) \/ Deliverable(h, m))'
    BY <1>4, <1>6, <1>11
<1>14. \A k \in Host : \A e \in deliveryQueue'[k] :
         e \in deliveryQueue[k] \/ (k = h /\ e = new)
    BY <1>3, <1>5
<1>15. \A k \in Host : \A i \in DOMAIN deliveredMessage'[k] :
         LET e == deliveredMessage'[k][i]
         IN  \/ i \in DOMAIN deliveredMessage[k] /\ e = deliveredMessage[k][i]
             \/ e \in deliveryQueue[k] /\ e.status = DELIVERABLE
             \/ k = h /\ e = new
    BY <1>3, <1>5
<1> QED
    BY <1>6, <1>8, <1>9, <1>10, <1>12, <1>13, <1>14, <1>15

\* What the packets say when their sender tells the truth.
LEMMA PacketTruth ==
    ASSUME NEW to \in Host, NEW m \in Msg, NEW seq, NEW proposer
    PROVE  /\ Truthful(DataMessage(to, m)) <=> Sent(m) /\ to # Sender(m)
           /\ Truthful(AckMessage(m, seq, proposer)) <=>
                /\ proposer # Sender(m)
                /\ seq # 0
                /\ seq = alreadyAcked[proposer][m]
           /\ Truthful(SeqMessage(to, m, seq, proposer)) <=>
                Final(m, seq, proposer) \in seqMessageHistory[Sender(m)]
    BY DEF Truthful, DataMessage, AckMessage, SeqMessage

\* A step that only sends and receives packets keeps the invariant when what
\* it sends is true.
LEMMA OnlyPackets ==
    ASSUME IndInv, TypeOK',
           UNCHANGED <<curr_msg_id, ackHistory, alreadyAcked, seqMessageHistory,
                       deliveryQueue, deliveredMessage, exited>>,
           \A x \in network' : x \in network \/ Truthful(x)
    PROVE  IndInv'
<1>1. TruthfulPackets'
  <2>1. \A x \in network' : Truthful(x)
      BY DEF IndInv, TruthfulPackets
  <2>2. \A x : Truthful(x) => Truthful(x)'
      BY DEF Truthful, Sent
  <2> QED
      BY <2>1, <2>2 DEF TruthfulPackets
<1>2. SentMessages' /\ CollectedProposals'
    BY DEF IndInv, SentMessages, CollectedProposals, Sent
<1>3. TruthfulHistories' /\ FinalizedWhenComplete'
    BY DEF IndInv, TruthfulHistories, FinalizedWhenComplete, FinalsOf
<1>4. HeldWhenProposed' /\ ExactlyOnce'
    BY DEF IndInv, HeldWhenProposed, ExactlyOnce, Proposal, Queued, Delivered
<1>5. DeliverableWhenFinal' /\ WatchdogsStopWhenDone' /\ NoHostExits'
    BY DEF IndInv, DeliverableWhenFinal, WatchdogsStopWhenDone, NoHostExits, FinalsOf,
           Queued, Delivered
<1> QED
    BY <1>1, <1>2, <1>3, <1>4, <1>5 DEF IndInv

\* The network after a transmission, without the loss count.
LEMMA TransmitSubset ==
    ASSUME NEW consumed, NEW sent, Transmit(consumed, sent)
    PROVE  network' \subseteq network \cup sent
    BY DEF Transmit

\* The inductive invariant survives a repeated data message.
LEMMA IndReAck ==
    ASSUME IndInv, TypeOK', NEW h \in Host, NEW m \in Msg, ReAck(h, m)
    PROVE  IndInv'
<1> PICK ack : ack = AckMessage(m, alreadyAcked[h][m], h)
    OBVIOUS
<1>1. Truthful(ack)
  <2>1. alreadyAcked[h][m] # 0 /\ h # Sender(m)
      BY DEF ReAck, IndInv, SentMessages
  <2> QED
      BY <2>1, PacketTruth
<1>2. network' \subseteq network \cup {ack}
    BY TransmitSubset DEF ReAck
<1>3. UNCHANGED <<curr_msg_id, ackHistory, alreadyAcked, seqMessageHistory,
                  deliveryQueue, deliveredMessage, exited>>
    BY DEF ReAck
<1>4. \A x \in network' : x \in network \/ Truthful(x)
    BY <1>1, <1>2
<1> QED
    BY <1>3, <1>4, OnlyPackets

\* The inductive invariant survives the resends of the watchdogs.
LEMMA IndWatchdogs ==
    ASSUME IndInv, TypeOK', NEW h \in Host, NEW m \in Msg,
           DatamsgWatchdog(m, h) \/ AckmsgWatchdog(h, m)
    PROVE  IndInv'
<1>1. CASE DatamsgWatchdog(m, h)
  <2> PICK data : data = DataMessage(h, m)
      OBVIOUS
  <2>1. Truthful(data)
    <3>1. Sent(m) /\ h # Sender(m)
        BY <1>1 DEF DatamsgWatchdog, IndInv, SentMessages
    <3> QED
        BY <3>1, PacketTruth
  <2>2. network' \subseteq network \cup {data}
      BY <1>1, TransmitSubset DEF DatamsgWatchdog
  <2>3. UNCHANGED <<curr_msg_id, ackHistory, alreadyAcked, seqMessageHistory,
                    deliveryQueue, deliveredMessage, exited>>
      BY <1>1 DEF DatamsgWatchdog
  <2>4. \A x \in network' : x \in network \/ Truthful(x)
      BY <2>1, <2>2
  <2> QED
      BY <2>3, <2>4, OnlyPackets
<1>2. CASE AckmsgWatchdog(h, m)
  <2> PICK ack : ack = AckMessage(m, alreadyAcked[h][m], h)
      OBVIOUS
  <2>1. Truthful(ack)
    <3>1. alreadyAcked[h][m] # 0 /\ h # Sender(m)
        BY <1>2 DEF AckmsgWatchdog, IndInv, SentMessages
    <3> QED
        BY <3>1, PacketTruth
  <2>2. network' \subseteq network \cup {ack}
      BY <1>2, TransmitSubset DEF AckmsgWatchdog
  <2>3. UNCHANGED <<curr_msg_id, ackHistory, alreadyAcked, seqMessageHistory,
                    deliveryQueue, deliveredMessage, exited>>
      BY <1>2 DEF AckmsgWatchdog
  <2>4. \A x \in network' : x \in network \/ Truthful(x)
      BY <2>1, <2>2
  <2> QED
      BY <2>3, <2>4, OnlyPackets
<1> QED
    BY <1>1, <1>2

\* Nobody has proposed for a message that was not multicast.
LEMMA UnsentMessages ==
    ASSUME IndInv, NEW m \in Msg, ~ Sent(m)
    PROVE  /\ \A h \in Host : ackHistory[m][h] = 0 /\ alreadyAcked[h][m] = 0
           /\ \A h \in Host : Proposal(h, m) = 0 /\ ~ Queued(h, m) /\ ~ Delivered(h, m)
           /\ \A h \in Host : FinalsOf(h, m) = {}
<1>1. ASSUME NEW h \in Host PROVE ackHistory[m][h] = 0 /\ alreadyAcked[h][m] = 0
    BY DEF IndInv, SentMessages, CollectedProposals, Sent
<1>2. ASSUME NEW h \in Host
      PROVE  Proposal(h, m) = 0 /\ ~ Queued(h, m) /\ ~ Delivered(h, m)
    BY <1>1 DEF IndInv, HeldWhenProposed, Proposal
<1>3. ASSUME NEW h \in Host PROVE FinalsOf(h, m) = {}
    BY <1>1, MsgFacts DEF IndInv, TruthfulHistories, FinalsOf, Complete
<1> QED
    BY <1>1, <1>2, <1>3

\* The inductive invariant survives a multicast.
LEMMA IndMulticastDatamsg ==
    ASSUME IndInv, TypeOK', NEW h \in Host, MulticastDatamsg(h)
    PROVE  IndInv'
<1> DEFINE m   == <<h, curr_msg_id[h]>>
           seq == curr_seq_number[h] + 1
           new == QueuedMessage(m, seq, h, UNDELIVERABLE)
<1>1. /\ curr_msg_id[h] \in Nat /\ NumMsgToSend[h] \in Nat /\ curr_msg_id[h] < NumMsgToSend[h]
      /\ curr_msg_id \in [Host -> Nat]
      /\ ackHistory \in [Msg -> [Host -> Nat]]
      /\ deliveryQueue \in [Host -> SUBSET QueueEntry]
    BY NumMsgAssumption DEF MulticastDatamsg, TypeOK, IndInv
<1>2. m \in Msg /\ Sender(m) = h /\ m[2] = curr_msg_id[h]
    BY <1>1, MsgFacts
<1>3. seq # 0 /\ seq \in Nat
    BY DEF TypeOK, IndInv
<1>4. /\ curr_msg_id' = [curr_msg_id EXCEPT ![h] = @ + 1]
      /\ ackHistory' = [ackHistory EXCEPT ![m][h] = seq]
      /\ deliveryQueue' = [deliveryQueue EXCEPT ![h] = @ \cup {new}]
      /\ UNCHANGED <<alreadyAcked, seqMessageHistory, deliveredMessage, exited>>
      /\ Transmit({}, {DataMessage(to, m) : to \in Host \ {h}})
    BY DEF MulticastDatamsg
<1>5. new.msg = m /\ new.status = UNDELIVERABLE
    BY DEF QueuedMessage
<1>6. ~ Sent(m)
    BY <1>1, <1>2 DEF IndInv, SentMessages
<1> HIDE DEF m, seq, new
<1>7. /\ \A k \in Host : ackHistory[m][k] = 0 /\ alreadyAcked[k][m] = 0
      /\ \A k \in Host : Proposal(k, m) = 0 /\ ~ Queued(k, m) /\ ~ Delivered(k, m)
      /\ \A k \in Host : FinalsOf(k, m) = {}
    BY <1>2, <1>6, UnsentMessages
<1>8. /\ \A n \in Msg \ {m} : ackHistory'[n] = ackHistory[n]
      /\ ackHistory'[m][h] = seq
      /\ \A k \in Host \ {h} : ackHistory'[m][k] = 0
    BY <1>1, <1>2, <1>4, <1>7
<1>9. \A n \in Msg : Sent(n)' <=> (Sent(n) \/ n = m)
    BY <1>2, <1>3, <1>8 DEF Sent
<1>10. SentMessages'
  <2>1. ASSUME NEW n \in Msg PROVE Sent(n)' <=> n[2] < curr_msg_id'[Sender(n)]
    <3>1. Sender(n) \in Host /\ n[2] \in Nat
        BY MsgFacts
    <3>2. CASE Sender(n) # h
        BY <1>1, <1>2, <1>4, <1>9, <3>1, <3>2 DEF IndInv, SentMessages
    <3>3. CASE Sender(n) = h
      <4>1. curr_msg_id'[Sender(n)] = curr_msg_id[h] + 1
          BY <1>1, <1>4, <3>3
      <4>2. n = m <=> n[2] = curr_msg_id[h]
          BY <1>2, <3>3 DEF m, Msg, Sender
      <4>3. Sent(n) <=> n[2] < curr_msg_id[h]
          BY <3>3 DEF IndInv, SentMessages
      <4>4. Sent(n)' <=> (n[2] < curr_msg_id[h] \/ n[2] = curr_msg_id[h])
          BY <1>9, <4>2, <4>3
      <4>5. n[2] < curr_msg_id[h] + 1 <=> (n[2] < curr_msg_id[h] \/ n[2] = curr_msg_id[h])
        <5>1. \A i, j \in Nat : i < j + 1 <=> (i < j \/ i = j)
            OBVIOUS
        <5>2. n[2] \in Nat /\ curr_msg_id[h] \in Nat
            BY <1>1, <3>1
        <5> QED
            BY <5>1, <5>2
      <4>6. Sent(n)' <=> n[2] < curr_msg_id[h] + 1
          BY <4>4, <4>5
      <4> QED
          BY <4>1, <4>6
    <3> QED
        BY <3>2, <3>3
  <2>2. \A k \in Host, n \in Msg : alreadyAcked'[k][n] # 0 => k # Sender(n) /\ Sent(n)'
      BY <1>4, <1>9 DEF IndInv, SentMessages
  <2> QED
      BY <2>1, <2>2 DEF SentMessages
<1>11. CollectedProposals'
    BY <1>2, <1>4, <1>8 DEF IndInv, CollectedProposals
<1>12. TruthfulPackets'
  <2>1. network' \subseteq network \cup {DataMessage(to, m) : to \in Host \ {h}}
      BY <1>4, TransmitSubset
  <2>2. ASSUME NEW x \in network PROVE Truthful(x)'
    <3>1. x.msg \in Msg
        BY DEF IndInv, TypeOK, Packet
    <3> QED
        BY <1>4, <1>9, <3>1 DEF IndInv, TruthfulPackets, Truthful
  <2>3. ASSUME NEW x, NEW to \in Host \ {h}, x = DataMessage(to, m) PROVE Truthful(x)'
    <3>1. x.type = "DATAMSG" /\ x.msg = m /\ x.to = to
        BY <2>3 DEF DataMessage
    <3>2. Sent(x.msg)' /\ x.to # Sender(x.msg)
        BY <1>2, <1>9, <3>1
    <3> QED
        BY <3>1, <3>2 DEF Truthful
  <2> QED
      BY <2>1, <2>2, <2>3 DEF TruthfulPackets
<1>13. TruthfulHistories'
  <2> SUFFICES ASSUME NEW k \in Host, NEW f \in seqMessageHistory[k]
               PROVE  /\ f \in seqMessageHistory[Sender(f.msg)]
                      /\ Complete(ackHistory'[f.msg])
                      /\ ackHistory'[f.msg][f.proposer] = f.seq
                      /\ IsMaxSequence(ackHistory'[f.msg], f.proposer)
      BY <1>4 DEF TruthfulHistories, Complete, IsMaxSequence
  <2>1. f.msg \in Msg
      BY DEF IndInv, TypeOK
  <2>2. f.msg # m
      BY <1>7 DEF FinalsOf
  <2> QED
      BY <1>8, <2>1, <2>2 DEF IndInv, TruthfulHistories
<1>14. FinalizedWhenComplete'
    BY <1>2, <1>4, <1>8 DEF IndInv, FinalizedWhenComplete, FinalsOf, Complete
<1>15. /\ \A k \in Host, n \in Msg : Queued(k, n)' <=> Queued(k, n) \/ (k = h /\ n = m)
       /\ \A k \in Host, n \in Msg : Delivered(k, n)' <=> Delivered(k, n)
    BY <1>1, <1>4, <1>5 DEF Queued, Delivered
<1>16. HeldWhenProposed'
  <2>1. \A k \in Host, n \in Msg :
          Proposal(k, n)' = IF k = h /\ n = m THEN seq ELSE Proposal(k, n)
      BY <1>2, <1>4, <1>7, <1>8 DEF Proposal
  <2> QED
      BY <1>2, <1>3, <1>15, <2>1 DEF IndInv, HeldWhenProposed
<1>17. ExactlyOnce'
  <2>1. \A k \in Host : \A e \in deliveryQueue'[k] :
          e \in deliveryQueue[k] \/ (k = h /\ e = new)
      BY <1>1, <1>4
  <2>2. \A k \in Host : \A d, e \in deliveryQueue'[k] : d.msg = e.msg => d = e
      BY <1>5, <1>7, <2>1 DEF IndInv, ExactlyOnce, Queued
  <2>3. \A k \in Host : \A e \in deliveryQueue'[k] : ~ Delivered(k, e.msg)'
      BY <1>4, <1>5, <1>7, <2>1 DEF IndInv, ExactlyOnce, Delivered
  <2> QED
      BY <1>4, <2>2, <2>3 DEF IndInv, ExactlyOnce
<1>18. DeliverableWhenFinal'
  <2>1. \A k \in Host : \A e \in deliveryQueue'[k] :
          e.status = DELIVERABLE => e \in deliveryQueue[k]
      BY <1>1, <1>4, <1>5 DEF UNDELIVERABLE, DELIVERABLE
  <2> QED
      BY <1>4, <2>1 DEF IndInv, DeliverableWhenFinal
<1>19. WatchdogsStopWhenDone'
  <2>1. ASSUME NEW k \in Host, NEW n \in Msg, ackHistory'[n][k] # 0
        PROVE  (Queued(k, n) \/ Delivered(k, n))'
      BY <1>2, <1>8, <1>15, <2>1 DEF IndInv, WatchdogsStopWhenDone
  <2>2. ASSUME NEW k \in Host, NEW n \in Msg, FinalsOf(k, n)' # {}
        PROVE  \/ Delivered(k, n)'
               \/ \E e \in deliveryQueue'[k] : e.msg = n /\ e.status = DELIVERABLE
    <3>1. FinalsOf(k, n) # {}
        BY <1>4, <2>2 DEF FinalsOf
    <3>2. deliveryQueue[k] \subseteq deliveryQueue'[k]
        BY <1>1, <1>4
    <3> QED
        BY <1>15, <3>1, <3>2 DEF IndInv, WatchdogsStopWhenDone
  <2> QED
      BY <2>1, <2>2 DEF WatchdogsStopWhenDone
<1>20. NoHostExits'
    BY <1>4 DEF IndInv, NoHostExits
<1> QED
    BY <1>10, <1>11, <1>12, <1>13, <1>14, <1>16, <1>17, <1>18, <1>19, <1>20 DEF IndInv

\* The inductive invariant survives a first reception and its proposal.
LEMMA IndPropose ==
    ASSUME IndInv, TypeOK', NEW h \in Host, NEW m \in Msg, Propose(h, m)
    PROVE  IndInv'
<1> DEFINE seq == curr_seq_number[h]
           new == QueuedMessage(m, seq, h, UNDELIVERABLE)
<1>1. /\ alreadyAcked \in [Host -> [Msg -> Nat]]
      /\ ackHistory \in [Msg -> [Host -> Nat]]
      /\ deliveryQueue \in [Host -> SUBSET QueueEntry]
      /\ seq \in Nat /\ seq # 0
    BY DEF IndInv, TypeOK
<1>2. /\ DataMessage(h, m) \in network
      /\ alreadyAcked[h][m] = 0
      /\ deliveryQueue' = [deliveryQueue EXCEPT ![h] = @ \cup {new}]
      /\ alreadyAcked' = [alreadyAcked EXCEPT ![h][m] = seq]
      /\ Transmit({DataMessage(h, m)}, {AckMessage(m, seq, h)})
      /\ UNCHANGED <<curr_msg_id, ackHistory, seqMessageHistory, deliveredMessage, exited>>
    BY DEF Propose, Receive
<1>3. Sent(m) /\ h # Sender(m)
    BY <1>2, PacketTruth DEF IndInv, TruthfulPackets
<1>4. new.msg = m /\ new.status = UNDELIVERABLE
    BY DEF QueuedMessage
<1> HIDE DEF seq, new
<1>5. Proposal(h, m) = 0 /\ ~ Queued(h, m) /\ ~ Delivered(h, m) /\ ackHistory[m][h] = 0
  <2>1. Proposal(h, m) = 0
      BY <1>2, <1>3 DEF Proposal
  <2>2. ackHistory[m][h] = 0
      BY <1>2, <1>3 DEF IndInv, CollectedProposals
  <2> QED
      BY <2>1, <2>2 DEF IndInv, HeldWhenProposed
<1>6. \A k \in Host, n \in Msg :
        alreadyAcked'[k][n] = IF k = h /\ n = m THEN seq ELSE alreadyAcked[k][n]
    BY <1>1, <1>2
<1>7. SentMessages'
    BY <1>2, <1>3, <1>6 DEF IndInv, SentMessages, Sent
<1>8. CollectedProposals'
    BY <1>2, <1>5, <1>6 DEF IndInv, CollectedProposals
<1>9. TruthfulPackets'
  <2>1. network' \subseteq network \cup {AckMessage(m, seq, h)}
      BY <1>2, TransmitSubset
  <2>2. ASSUME NEW x \in network PROVE Truthful(x)'
    <3>1. /\ x.msg \in Msg
          /\ x.type = "ACKMSG" => x.proposer \in Host
        BY DEF IndInv, TypeOK, Packet
    <3>2. Truthful(x)
        BY DEF IndInv, TruthfulPackets
    <3>3. x.type = "ACKMSG" => ~ (x.proposer = h /\ x.msg = m)
        BY <1>2, <3>2 DEF Truthful
    <3> QED
        BY <1>2, <1>6, <3>1, <3>2, <3>3 DEF Truthful, Sent
  <2>3. ASSUME NEW x, x = AckMessage(m, seq, h) PROVE Truthful(x)'
    <3>1. x.type = "ACKMSG" /\ x.msg = m /\ x.seq = seq /\ x.proposer = h
        BY <2>3 DEF AckMessage
    <3>2. x.seq = alreadyAcked'[x.proposer][x.msg]
        BY <1>6, <3>1
    <3> QED
        BY <1>1, <1>3, <3>1, <3>2 DEF Truthful
  <2> QED
      BY <2>1, <2>2, <2>3 DEF TruthfulPackets
<1>10. TruthfulHistories' /\ FinalizedWhenComplete'
    BY <1>2 DEF IndInv, TruthfulHistories, FinalizedWhenComplete, FinalsOf
<1>11. /\ \A k \in Host, n \in Msg : Queued(k, n)' <=> Queued(k, n) \/ (k = h /\ n = m)
       /\ \A k \in Host, n \in Msg : Delivered(k, n)' <=> Delivered(k, n)
    BY <1>1, <1>2, <1>4 DEF Queued, Delivered
<1>12. HeldWhenProposed'
  <2>1. \A k \in Host, n \in Msg :
          Proposal(k, n)' = IF k = h /\ n = m THEN seq ELSE Proposal(k, n)
      BY <1>2, <1>3, <1>6 DEF Proposal
  <2> QED
      BY <1>1, <1>11, <2>1 DEF IndInv, HeldWhenProposed
<1>13. \A k \in Host : \A e \in deliveryQueue'[k] :
         e \in deliveryQueue[k] \/ (k = h /\ e = new)
    BY <1>1, <1>2
<1>14. ExactlyOnce'
  <2>1. \A k \in Host : \A d, e \in deliveryQueue'[k] : d.msg = e.msg => d = e
      BY <1>4, <1>5, <1>13 DEF IndInv, ExactlyOnce, Queued
  <2>2. \A k \in Host : \A e \in deliveryQueue'[k] : ~ Delivered(k, e.msg)'
      BY <1>2, <1>4, <1>5, <1>13 DEF IndInv, ExactlyOnce, Delivered
  <2> QED
      BY <1>2, <2>1, <2>2 DEF IndInv, ExactlyOnce
<1>15. DeliverableWhenFinal'
  <2>1. \A k \in Host : \A e \in deliveryQueue'[k] :
          e.status = DELIVERABLE => e \in deliveryQueue[k]
      BY <1>4, <1>13 DEF UNDELIVERABLE, DELIVERABLE
  <2> QED
      BY <1>2, <2>1 DEF IndInv, DeliverableWhenFinal
<1>16. WatchdogsStopWhenDone'
  <2>1. ASSUME NEW k \in Host, NEW n \in Msg, ackHistory'[n][k] # 0
        PROVE  (Queued(k, n) \/ Delivered(k, n))'
      BY <1>2, <1>11, <2>1 DEF IndInv, WatchdogsStopWhenDone
  <2>2. ASSUME NEW k \in Host, NEW n \in Msg, FinalsOf(k, n)' # {}
        PROVE  \/ Delivered(k, n)'
               \/ \E e \in deliveryQueue'[k] : e.msg = n /\ e.status = DELIVERABLE
    <3>1. FinalsOf(k, n) # {}
        BY <1>2, <2>2 DEF FinalsOf
    <3>2. deliveryQueue[k] \subseteq deliveryQueue'[k]
        BY <1>1, <1>2
    <3> QED
        BY <1>11, <3>1, <3>2 DEF IndInv, WatchdogsStopWhenDone
  <2> QED
      BY <2>1, <2>2 DEF WatchdogsStopWhenDone
<1>17. NoHostExits'
    BY <1>2 DEF IndInv, NoHostExits
<1> QED
    BY <1>7, <1>8, <1>9, <1>10, <1>12, <1>14, <1>15, <1>16, <1>17 DEF IndInv

\* An ack that its sender receives says what the proposer proposed.
LEMMA AckTruth ==
    ASSUME IndInv, NEW m \in Msg, NEW p \in Host, NEW seq,
           AckMessage(m, seq, p) \in network
    PROVE  /\ p # Sender(m)
           /\ seq = alreadyAcked[p][m]
           /\ seq \in Nat \ {0}
           /\ Sent(m)
           /\ Queued(p, m) \/ Delivered(p, m)
<1>1. Truthful(AckMessage(m, seq, p))
    BY DEF IndInv, TruthfulPackets
<1>2. p # Sender(m) /\ seq = alreadyAcked[p][m] /\ seq # 0
    BY <1>1, PacketTruth
<1>3. seq \in Nat
    BY <1>2 DEF IndInv, TypeOK
<1>4. Sent(m)
    BY <1>2 DEF IndInv, SentMessages
<1>5. Proposal(p, m) # 0
    BY <1>2 DEF Proposal
<1> QED
    BY <1>2, <1>3, <1>4, <1>5 DEF IndInv, HeldWhenProposed

\* A new ack adds a proposal; what is already finalized does not change.
LEMMA NewAck ==
    ASSUME IndInv, NEW m \in Msg, NEW p \in Host, NEW seq,
           AckMessage(m, seq, p) \in network, ackHistory[m][p] = 0,
           ackHistory' = [ackHistory EXCEPT ![m] = [ackHistory[m] EXCEPT ![p] = seq]],
           UNCHANGED <<curr_msg_id, alreadyAcked>>
    PROVE  /\ \A n \in Msg \ {m} : ackHistory'[n] = ackHistory[n]
           /\ \A k \in Host : ackHistory'[m][k] = IF k = p THEN seq ELSE ackHistory[m][k]
           /\ \A n \in Msg : Sent(n)' <=> Sent(n)
           /\ SentMessages'
           /\ CollectedProposals'
           /\ \A k \in Host, n \in Msg : Proposal(k, n)' = Proposal(k, n)
           /\ \A k \in Host : FinalsOf(k, m) = {}
           /\ \A k \in Host : \A f \in seqMessageHistory[k] : f.msg # m /\ f.msg \in Msg
<1>1. /\ p # Sender(m)
      /\ seq = alreadyAcked[p][m]
      /\ seq \in Nat \ {0}
    BY AckTruth
<1>2. ackHistory \in [Msg -> [Host -> Nat]]
    BY DEF IndInv, TypeOK
<1>3. /\ \A n \in Msg \ {m} : ackHistory'[n] = ackHistory[n]
      /\ \A k \in Host : ackHistory'[m][k] = IF k = p THEN seq ELSE ackHistory[m][k]
    BY <1>2
<1>4. \A n \in Msg : Sent(n)' <=> Sent(n)
    BY <1>1, <1>3, MsgFacts DEF Sent
<1>5. SentMessages'
    BY <1>4 DEF IndInv, SentMessages
<1>6. CollectedProposals'
    BY <1>1, <1>3 DEF IndInv, CollectedProposals
<1>7. \A k \in Host, n \in Msg : Proposal(k, n)' = Proposal(k, n)
    BY <1>1, <1>3 DEF Proposal
<1>8. \A k \in Host : \A f \in seqMessageHistory[k] : f.msg # m /\ f.msg \in Msg
    BY DEF IndInv, TypeOK, TruthfulHistories, Complete
<1> QED
    BY <1>3, <1>4, <1>5, <1>6, <1>7, <1>8 DEF FinalsOf

\* The inductive invariant survives an ack that leaves proposals missing.
LEMMA IndCollectAck ==
    ASSUME IndInv, TypeOK', NEW m \in Msg, NEW p \in Host, NEW seq, CollectAck(m, p, seq)
    PROVE  IndInv'
<1>1. /\ AckMessage(m, seq, p) \in network
      /\ ackHistory[m][p] = 0
      /\ ackHistory' = [ackHistory EXCEPT ![m] = [ackHistory[m] EXCEPT ![p] = seq]]
      /\ ~ Complete([ackHistory[m] EXCEPT ![p] = seq])
      /\ Transmit({AckMessage(m, seq, p)}, {})
      /\ UNCHANGED <<curr_msg_id, alreadyAcked>>
      /\ UNCHANGED <<seqMessageHistory, deliveryQueue, deliveredMessage, exited>>
    BY DEF CollectAck, Receive
<1>2. Queued(p, m) \/ Delivered(p, m)
    BY <1>1, AckTruth
<1>3. /\ \A n \in Msg \ {m} : ackHistory'[n] = ackHistory[n]
      /\ \A k \in Host : ackHistory'[m][k] = IF k = p THEN seq ELSE ackHistory[m][k]
      /\ \A n \in Msg : Sent(n)' <=> Sent(n)
      /\ SentMessages'
      /\ CollectedProposals'
      /\ \A k \in Host, n \in Msg : Proposal(k, n)' = Proposal(k, n)
      /\ \A k \in Host : \A f \in seqMessageHistory[k] : f.msg # m /\ f.msg \in Msg
  <2>1. /\ \A n \in Msg \ {m} : ackHistory'[n] = ackHistory[n]
        /\ \A k \in Host : ackHistory'[m][k] = IF k = p THEN seq ELSE ackHistory[m][k]
      BY <1>1 DEF IndInv, TypeOK
  <2>2. \A n \in Msg : Sent(n)' <=> Sent(n)
      BY <1>1, NewAck
  <2>3. SentMessages' /\ CollectedProposals'
      BY <1>1, NewAck
  <2>4. \A k \in Host, n \in Msg : Proposal(k, n)' = Proposal(k, n)
      BY <1>1, NewAck
  <2>5. \A k \in Host : \A f \in seqMessageHistory[k] : f.msg # m /\ f.msg \in Msg
      BY <1>1, NewAck
  <2> QED
      BY <2>1, <2>2, <2>3, <2>4, <2>5
<1>4. TruthfulPackets'
  <2>1. network' \subseteq network
      BY <1>1, TransmitSubset
  <2>2. ASSUME NEW x \in network PROVE Truthful(x)'
    <3>1. x.msg \in Msg
        BY DEF IndInv, TypeOK, Packet
    <3> QED
        BY <1>1, <1>3, <3>1 DEF IndInv, TruthfulPackets, Truthful
  <2> QED
      BY <2>1, <2>2 DEF TruthfulPackets
<1>5. TruthfulHistories'
  <2> SUFFICES ASSUME NEW k \in Host, NEW f \in seqMessageHistory[k]
               PROVE  /\ f \in seqMessageHistory[Sender(f.msg)]
                      /\ Complete(ackHistory'[f.msg])
                      /\ ackHistory'[f.msg][f.proposer] = f.seq
                      /\ IsMaxSequence(ackHistory'[f.msg], f.proposer)
      BY <1>1 DEF TruthfulHistories, Complete, IsMaxSequence
  <2> QED
      BY <1>3 DEF IndInv, TruthfulHistories
<1>6. FinalizedWhenComplete'
  <2>1. ASSUME NEW n \in Msg, Complete(ackHistory[n])', Host # {Sender(n)}
        PROVE  FinalsOf(Sender(n), n)' # {}
    <3>1. n # m
      <4>1. ackHistory'[m] = [ackHistory[m] EXCEPT ![p] = seq]
          BY <1>1 DEF IndInv, TypeOK
      <4> QED
          BY <1>1, <2>1, <4>1 DEF Complete
    <3> QED
        BY <1>1, <1>3, <2>1, <3>1 DEF IndInv, FinalizedWhenComplete, FinalsOf, Complete
  <2> QED
      BY <2>1 DEF FinalizedWhenComplete
<1>7. HeldWhenProposed' /\ ExactlyOnce'
    BY <1>1, <1>3 DEF IndInv, HeldWhenProposed, ExactlyOnce, Queued, Delivered
<1>8. DeliverableWhenFinal' /\ NoHostExits'
    BY <1>1 DEF IndInv, DeliverableWhenFinal, NoHostExits
<1>9. WatchdogsStopWhenDone'
    BY <1>1, <1>2, <1>3 DEF IndInv, WatchdogsStopWhenDone, FinalsOf, Queued, Delivered
<1> QED
    BY <1>3, <1>4, <1>5, <1>6, <1>7, <1>8, <1>9 DEF IndInv

\* The inductive invariant survives the last ack, which fixes the final number.
LEMMA IndFinalize ==
    ASSUME IndInv, TypeOK', NEW m \in Msg, NEW p \in Host, NEW seq, Finalize(m, p, seq)
    PROVE  IndInv'
<1> DEFINE s    == Sender(m)
           acks == [ackHistory[m] EXCEPT ![p] = seq]
<1>1. /\ AckMessage(m, seq, p) \in network
      /\ ackHistory[m][p] = 0
      /\ ackHistory' = [ackHistory EXCEPT ![m] = acks]
      /\ Complete(acks)
      /\ UNCHANGED <<curr_msg_id, alreadyAcked>>
      /\ UNCHANGED exited
    BY DEF Finalize, Receive
<1>2. PICK top \in Host :
        /\ IsMaxSequence(acks, top)
        /\ seqMessageHistory' = [seqMessageHistory EXCEPT
                                   ![s] = @ \cup {Final(m, acks[top], top)}]
        /\ Transmit({AckMessage(m, seq, p)},
                    {SeqMessage(to, m, acks[top], top) : to \in Host \ {s}})
        /\ DeliverFrom(s, ChangeQueued(deliveryQueue[s], m, acks[top], top))
    BY DEF Finalize
<1>3. /\ p # s
      /\ seq = alreadyAcked[p][m]
      /\ seq \in Nat \ {0}
      /\ Sent(m)
      /\ Queued(p, m) \/ Delivered(p, m)
    BY <1>1, AckTruth
<1>4. /\ ackHistory'[m] = acks
      /\ \A n \in Msg \ {m} : ackHistory'[n] = ackHistory[n]
      /\ \A k \in Host : ackHistory'[m][k] = IF k = p THEN seq ELSE ackHistory[m][k]
    BY <1>1 DEF IndInv, TypeOK
<1>5. \A n \in Msg : Sent(n)' <=> Sent(n)
    BY <1>1, NewAck
<1>6. SentMessages' /\ CollectedProposals'
    BY <1>1, NewAck
<1>7. \A k \in Host, n \in Msg : Proposal(k, n)' = Proposal(k, n)
    BY <1>1, NewAck
<1>8. \A k \in Host : \A f \in seqMessageHistory[k] : f.msg # m /\ f.msg \in Msg
    BY <1>1, NewAck
<1> DEFINE final == Final(m, acks[top], top)
<1>9. s \in Host /\ acks[top] \in Nat
    BY <1>3, MsgFacts DEF IndInv, TypeOK
<1>10. final.msg = m /\ final.seq = acks[top] /\ final.proposer = top
    BY DEF Final
<1>11. Queued(s, m)
  <2>1. Queued(s, m) \/ Delivered(s, m)
      BY <1>3, <1>9 DEF Sent, IndInv, WatchdogsStopWhenDone
  <2>2. ASSUME NEW i \in DOMAIN deliveredMessage[s] PROVE deliveredMessage[s][i].msg # m
    <3>1. Final(deliveredMessage[s][i].msg, deliveredMessage[s][i].seq,
                deliveredMessage[s][i].proposer) \in seqMessageHistory[s]
        BY <1>9 DEF IndInv, DeliverableWhenFinal
    <3> QED
        BY <1>8, <1>9, <3>1 DEF Final
  <2> QED
      BY <2>1, <2>2 DEF Delivered
<1>12. /\ \A k \in Host : seqMessageHistory[k] \subseteq seqMessageHistory'[k]
       /\ final \in seqMessageHistory'[s]
       /\ \A k \in Host : \A f \in seqMessageHistory'[k] :
            f \in seqMessageHistory[k] \/ (k = s /\ f = final)
    BY <1>2, <1>9 DEF IndInv, TypeOK
<1> HIDE DEF s, acks, final
<1>13. TypeOK /\ ExactlyOnce
    BY DEF IndInv
<1>14. DeliverFrom(s, ChangeQueued(deliveryQueue[s], m, acks[top], top))
    BY <1>2
<1>15. /\ ExactlyOnce'
       /\ \A k \in Host, n \in Msg :
            (Queued(k, n) \/ Delivered(k, n))' <=> (Queued(k, n) \/ Delivered(k, n))
    BY <1>9, <1>11, <1>13, <1>14, ApplyFacts
<1>16. \A k \in Host, n \in Msg :
         Delivered(k, n) \/ Deliverable(k, n) => (Delivered(k, n) \/ Deliverable(k, n))'
    BY <1>9, <1>11, <1>13, <1>14, ApplyFacts
<1>17. (Delivered(s, m) \/ Deliverable(s, m))'
    BY <1>9, <1>11, <1>13, <1>14, ApplyFacts
<1>18. \A k \in Host : \A e \in deliveryQueue'[k] :
         e.status = DELIVERABLE =>
           \/ e \in deliveryQueue[k]
           \/ k = s /\ Final(e.msg, e.seq, e.proposer) = final
    BY <1>9, <1>11, <1>13, <1>14, ApplyFacts DEF final
<1>19. \A k \in Host : \A i \in DOMAIN deliveredMessage'[k] :
         LET e == deliveredMessage'[k][i]
         IN  \/ i \in DOMAIN deliveredMessage[k] /\ e = deliveredMessage[k][i]
             \/ e \in deliveryQueue[k] /\ e.status = DELIVERABLE
             \/ k = s /\ Final(e.msg, e.seq, e.proposer) = final
    BY <1>9, <1>11, <1>13, <1>14, ApplyFacts DEF final
<1>20. TruthfulPackets'
  <2>1. network' \subseteq network \cup {SeqMessage(to, m, acks[top], top) : to \in Host \ {s}}
      BY <1>2, TransmitSubset DEF s
  <2>2. ASSUME NEW x \in network PROVE Truthful(x)'
    <3>1. x.msg \in Msg /\ Sender(x.msg) \in Host
        BY MsgFacts DEF IndInv, TypeOK, Packet
    <3> QED
        BY <1>1, <1>5, <1>12, <3>1 DEF IndInv, TruthfulPackets, Truthful
  <2>3. ASSUME NEW x, NEW to \in Host, x = SeqMessage(to, m, acks[top], top)
        PROVE  Truthful(x)'
    <3>1. x.type = "SEQMSG" /\ Final(x.msg, x.seq, x.proposer) = final /\ Sender(x.msg) = s
        BY <2>3 DEF SeqMessage, final, s
    <3> QED
        BY <1>12, <3>1 DEF Truthful
  <2> QED
      BY <2>1, <2>2, <2>3 DEF TruthfulPackets
<1>21. TruthfulHistories'
  <2> SUFFICES ASSUME NEW k \in Host, NEW f \in seqMessageHistory'[k]
               PROVE  /\ f \in seqMessageHistory'[Sender(f.msg)]
                      /\ Complete(ackHistory'[f.msg])
                      /\ ackHistory'[f.msg][f.proposer] = f.seq
                      /\ IsMaxSequence(ackHistory'[f.msg], f.proposer)
      BY DEF TruthfulHistories, Complete, IsMaxSequence
  <2>1. CASE f \in seqMessageHistory[k]
    <3>1. f.msg \in Msg \ {m} /\ Sender(f.msg) \in Host
        BY <1>8, <2>1, MsgFacts
    <3> QED
        BY <1>4, <1>12, <2>1, <3>1 DEF IndInv, TruthfulHistories
  <2>2. CASE f = final
      BY <1>1, <1>2, <1>4, <1>10, <1>12, <2>2 DEF s
  <2> QED
      BY <1>12, <2>1, <2>2
<1>22. FinalizedWhenComplete'
  <2>1. ASSUME NEW n \in Msg, Complete(ackHistory[n])', Host # {Sender(n)}
        PROVE  FinalsOf(Sender(n), n)' # {}
    <3>1. CASE n = m
        BY <1>10, <1>12, <3>1 DEF FinalsOf, s
    <3>2. CASE n # m
      <4>1. FinalsOf(Sender(n), n) # {}
          BY <1>4, <2>1, <3>2 DEF IndInv, FinalizedWhenComplete, Complete
      <4> QED
          BY <1>12, <4>1, MsgFacts DEF FinalsOf
    <3> QED
        BY <3>1, <3>2
  <2> QED
      BY <2>1 DEF FinalizedWhenComplete
<1>23. HeldWhenProposed'
    BY <1>7, <1>15 DEF IndInv, HeldWhenProposed
<1>24. DeliverableWhenFinal'
  <2>1. ASSUME NEW k \in Host, NEW e \in deliveryQueue[k], e.status = DELIVERABLE
        PROVE  Final(e.msg, e.seq, e.proposer) \in seqMessageHistory'[k]
      BY <1>12, <2>1 DEF IndInv, DeliverableWhenFinal
  <2>2. ASSUME NEW k \in Host, NEW i \in DOMAIN deliveredMessage[k]
        PROVE  Final(deliveredMessage[k][i].msg, deliveredMessage[k][i].seq,
                     deliveredMessage[k][i].proposer) \in seqMessageHistory'[k]
      BY <1>12 DEF IndInv, DeliverableWhenFinal
  <2>3. \A k \in Host : \A e \in deliveryQueue'[k] : e.status = DELIVERABLE =>
          Final(e.msg, e.seq, e.proposer) \in seqMessageHistory'[k]
      BY <1>12, <1>18, <2>1
  <2>4. \A k \in Host : \A i \in DOMAIN deliveredMessage'[k] :
          Final(deliveredMessage'[k][i].msg, deliveredMessage'[k][i].seq,
                deliveredMessage'[k][i].proposer) \in seqMessageHistory'[k]
      BY <1>12, <1>19, <2>1, <2>2
  <2> QED
      BY <2>3, <2>4 DEF DeliverableWhenFinal
<1>25. WatchdogsStopWhenDone'
  <2>1. ASSUME NEW k \in Host, NEW n \in Msg, ackHistory'[n][k] # 0
        PROVE  (Queued(k, n) \/ Delivered(k, n))'
    <3>1. Queued(k, n) \/ Delivered(k, n)
        BY <1>3, <1>4, <2>1 DEF IndInv, WatchdogsStopWhenDone
    <3> QED
        BY <1>15, <3>1
  <2>2. ASSUME NEW k \in Host, NEW n \in Msg, FinalsOf(k, n)' # {}
        PROVE  (Delivered(k, n) \/ Deliverable(k, n))'
    <3>1. FinalsOf(k, n) # {} \/ (k = s /\ n = m)
        BY <1>10, <1>12, <2>2 DEF FinalsOf
    <3> QED
        BY <1>16, <1>17, <3>1 DEF IndInv, WatchdogsStopWhenDone, Deliverable
  <2> QED
      BY <2>1, <2>2 DEF WatchdogsStopWhenDone, Deliverable
<1>26. NoHostExits'
    BY <1>1 DEF IndInv, NoHostExits
<1> QED
    BY <1>6, <1>15, <1>20, <1>21, <1>22, <1>23, <1>24, <1>25, <1>26 DEF IndInv

\* The inductive invariant survives an ack repeated after the final number;
\* the search of the history finds it, so the process does not exit.
LEMMA IndResendFinal ==
    ASSUME IndInv, TypeOK', NEW m \in Msg, NEW p \in Host, NEW seq,
           ResendFinal(m, p, seq) \/ IgnoreAck(m, p, seq)
    PROVE  IndInv'
<1> DEFINE s == Sender(m)
<1>1. /\ AckMessage(m, seq, p) \in network
      /\ UNCHANGED <<curr_msg_id, ackHistory, alreadyAcked, seqMessageHistory,
                     deliveryQueue, deliveredMessage>>
    BY DEF ResendFinal, IgnoreAck, Receive
<1>2. p # s /\ s \in Host
    BY <1>1, AckTruth, MsgFacts
<1>3. CASE ResendFinal(m, p, seq)
  <2>1. FinalsOf(s, m) # {}
    <3>1. Complete(ackHistory[m]) /\ Host # {s}
        BY <1>2, <1>3 DEF ResendFinal
    <3> QED
        BY <3>1 DEF IndInv, FinalizedWhenComplete
  <2>2. exited' = exited
      BY <1>3, <2>1 DEF ResendFinal
  <2>3. network' \subseteq network \cup
                           {SeqMessage(p, m, f.seq, f.proposer) : f \in FinalsOf(s, m)}
      BY <1>3, TransmitSubset DEF ResendFinal
  <2>4. ASSUME NEW f \in FinalsOf(s, m), NEW x, x = SeqMessage(p, m, f.seq, f.proposer)
        PROVE  Truthful(x)
    <3>1. f \in seqMessageHistory[s] /\ f = Final(m, f.seq, f.proposer)
      <4>1. f \in seqMessageHistory[s] /\ f.msg = m
          BY DEF FinalsOf
      <4>2. f \in [msg : Msg, seq : Nat, proposer : Host]
          BY <1>2, <4>1 DEF IndInv, TypeOK
      <4> QED
          BY <4>1, <4>2 DEF Final
    <3>2. x.type = "SEQMSG" /\ x.msg = m /\ x.seq = f.seq /\ x.proposer = f.proposer
        BY <2>4 DEF SeqMessage
    <3> QED
        BY <3>1, <3>2 DEF Truthful
  <2>5. \A x \in network' : x \in network \/ Truthful(x)
      BY <2>3, <2>4
  <2> QED
      BY <1>1, <2>2, <2>5, OnlyPackets
<1>4. CASE IgnoreAck(m, p, seq)
  <2>1. exited' = exited /\ network' \subseteq network \cup {}
      BY <1>4, TransmitSubset DEF IgnoreAck
  <2>2. \A x \in network' : x \in network \/ Truthful(x)
      BY <2>1
  <2> QED
      BY <1>1, <2>1, <2>2, OnlyPackets
<1> QED
    BY <1>3, <1>4

\* A final number that a host receives is that of a message it has proposed
\* for, and so holds.
LEMMA FinalTruth ==
    ASSUME IndInv, NEW h \in Host, NEW m \in Msg, NEW seq, NEW proposer,
           SeqMessage(h, m, seq, proposer) \in network
    PROVE  /\ seq \in Nat /\ proposer \in Host
           /\ Final(m, seq, proposer) \in seqMessageHistory[Sender(m)]
           /\ Complete(ackHistory[m])
           /\ ackHistory[m][proposer] = seq
           /\ IsMaxSequence(ackHistory[m], proposer)
           /\ Queued(h, m) \/ Delivered(h, m)
<1>1. Truthful(SeqMessage(h, m, seq, proposer))
    BY DEF IndInv, TruthfulPackets
<1>2. Final(m, seq, proposer) \in seqMessageHistory[Sender(m)]
    BY <1>1, PacketTruth
<1>3. SeqMessage(h, m, seq, proposer) \in Packet
    BY DEF IndInv, TypeOK
<1>4. seq \in Nat /\ proposer \in Host
    BY <1>3 DEF SeqMessage, Packet
<1>5. /\ Complete(ackHistory[m])
      /\ ackHistory[m][proposer] = seq
      /\ IsMaxSequence(ackHistory[m], proposer)
  <2>1. Sender(m) \in Host
      BY MsgFacts
  <2>2. /\ Final(m, seq, proposer).msg = m
        /\ Final(m, seq, proposer).seq = seq
        /\ Final(m, seq, proposer).proposer = proposer
      BY DEF Final
  <2> QED
      BY <1>2, <2>1, <2>2 DEF IndInv, TruthfulHistories
<1>6. Queued(h, m) \/ Delivered(h, m)
    BY <1>5 DEF Complete, IndInv, WatchdogsStopWhenDone
<1> QED
    BY <1>2, <1>4, <1>5, <1>6

\* The inductive invariant survives the first SeqMessage of a message.
LEMMA IndApplyFinal ==
    ASSUME IndInv, TypeOK', NEW h \in Host, NEW m \in Msg, NEW seq, NEW proposer,
           ApplyFinal(h, m, seq, proposer)
    PROVE  IndInv'
<1>1. /\ SeqMessage(h, m, seq, proposer) \in network
      /\ Queued(h, m)
      /\ seqMessageHistory' = [seqMessageHistory EXCEPT ![h] = @ \cup {Final(m, seq, proposer)}]
      /\ DeliverFrom(h, ChangeQueued(deliveryQueue[h], m, seq, proposer))
      /\ Transmit({SeqMessage(h, m, seq, proposer)}, {})
      /\ UNCHANGED <<curr_msg_id, ackHistory, alreadyAcked, exited>>
    BY DEF ApplyFinal, Receive
<1>2. /\ seq \in Nat /\ proposer \in Host
      /\ Final(m, seq, proposer) \in seqMessageHistory[Sender(m)]
      /\ Complete(ackHistory[m])
      /\ ackHistory[m][proposer] = seq
      /\ IsMaxSequence(ackHistory[m], proposer)
    BY <1>1, FinalTruth
<1> DEFINE final == Final(m, seq, proposer)
<1>3. final.msg = m /\ final.seq = seq /\ final.proposer = proposer
    BY DEF Final
<1>4. /\ \A k \in Host : seqMessageHistory[k] \subseteq seqMessageHistory'[k]
      /\ final \in seqMessageHistory'[h]
      /\ final \in seqMessageHistory'[Sender(m)]
      /\ \A k \in Host : \A f \in seqMessageHistory'[k] :
           f \in seqMessageHistory[k] \/ (k = h /\ f = final)
    BY <1>1, <1>2, MsgFacts DEF IndInv, TypeOK
<1> HIDE DEF final
<1>5. TypeOK /\ ExactlyOnce
    BY DEF IndInv
<1>6. /\ ExactlyOnce'
      /\ \A k \in Host, n \in Msg :
           (Queued(k, n) \/ Delivered(k, n))' <=> (Queued(k, n) \/ Delivered(k, n))
    BY <1>1, <1>2, <1>5, ApplyFacts
<1>7. \A k \in Host, n \in Msg :
        Delivered(k, n) \/ Deliverable(k, n) => (Delivered(k, n) \/ Deliverable(k, n))'
    BY <1>1, <1>2, <1>5, ApplyFacts
<1>8. (Delivered(h, m) \/ Deliverable(h, m))'
    BY <1>1, <1>2, <1>5, ApplyFacts
<1>9. \A k \in Host : \A e \in deliveryQueue'[k] :
        e.status = DELIVERABLE =>
          \/ e \in deliveryQueue[k]
          \/ k = h /\ Final(e.msg, e.seq, e.proposer) = final
    BY <1>1, <1>2, <1>5, ApplyFacts DEF final
<1>10. \A k \in Host : \A i \in DOMAIN deliveredMessage'[k] :
         LET e == deliveredMessage'[k][i]
         IN  \/ i \in DOMAIN deliveredMessage[k] /\ e = deliveredMessage[k][i]
             \/ e \in deliveryQueue[k] /\ e.status = DELIVERABLE
             \/ k = h /\ Final(e.msg, e.seq, e.proposer) = final
    BY <1>1, <1>2, <1>5, ApplyFacts DEF final
<1>11. SentMessages' /\ CollectedProposals'
    BY <1>1 DEF IndInv, SentMessages, CollectedProposals, Sent
<1>12. TruthfulPackets'
  <2>1. network' \subseteq network
      BY <1>1, TransmitSubset
  <2>2. ASSUME NEW x \in network PROVE Truthful(x)'
    <3>1. x.msg \in Msg /\ Sender(x.msg) \in Host
        BY MsgFacts DEF IndInv, TypeOK, Packet
    <3>2. Truthful(x)
        BY DEF IndInv, TruthfulPackets
    <3>3. ackHistory' = ackHistory /\ alreadyAcked' = alreadyAcked
        BY <1>1
    <3>4. seqMessageHistory[Sender(x.msg)] \subseteq seqMessageHistory'[Sender(x.msg)]
        BY <1>4, <3>1
    <3> QED
        BY <3>2, <3>3, <3>4 DEF Truthful, Sent
  <2> QED
      BY <2>1, <2>2 DEF TruthfulPackets
<1>13. TruthfulHistories'
  <2> SUFFICES ASSUME NEW k \in Host, NEW f \in seqMessageHistory'[k]
               PROVE  /\ f \in seqMessageHistory'[Sender(f.msg)]
                      /\ Complete(ackHistory[f.msg])
                      /\ ackHistory[f.msg][f.proposer] = f.seq
                      /\ IsMaxSequence(ackHistory[f.msg], f.proposer)
      BY <1>1 DEF TruthfulHistories, Complete, IsMaxSequence
  <2>1. CASE f \in seqMessageHistory[k]
    <3>1. Sender(f.msg) \in Host
      <4>1. seqMessageHistory[k] \in SUBSET [msg : Msg, seq : Nat, proposer : Host]
          BY DEF IndInv, TypeOK
      <4>2. f.msg \in Msg
          BY <2>1, <4>1
      <4> QED
          BY <4>2, MsgFacts
    <3> QED
        BY <1>4, <2>1, <3>1 DEF IndInv, TruthfulHistories
  <2>2. CASE f = final
      BY <1>2, <1>3, <1>4, <2>2
  <2> QED
      BY <1>4, <2>1, <2>2
<1>14. FinalizedWhenComplete'
    BY <1>1, <1>4, MsgFacts DEF IndInv, FinalizedWhenComplete, FinalsOf
<1>15. HeldWhenProposed'
    BY <1>1, <1>6 DEF IndInv, HeldWhenProposed, Proposal
<1>16. DeliverableWhenFinal'
  <2>1. ASSUME NEW k \in Host, NEW e \in deliveryQueue[k], e.status = DELIVERABLE
        PROVE  Final(e.msg, e.seq, e.proposer) \in seqMessageHistory'[k]
      BY <1>4, <2>1 DEF IndInv, DeliverableWhenFinal
  <2>2. ASSUME NEW k \in Host, NEW i \in DOMAIN deliveredMessage[k]
        PROVE  Final(deliveredMessage[k][i].msg, deliveredMessage[k][i].seq,
                     deliveredMessage[k][i].proposer) \in seqMessageHistory'[k]
      BY <1>4 DEF IndInv, DeliverableWhenFinal
  <2>3. \A k \in Host : \A e \in deliveryQueue'[k] : e.status = DELIVERABLE =>
          Final(e.msg, e.seq, e.proposer) \in seqMessageHistory'[k]
      BY <1>4, <1>9, <2>1
  <2>4. \A k \in Host : \A i \in DOMAIN deliveredMessage'[k] :
          Final(deliveredMessage'[k][i].msg, deliveredMessage'[k][i].seq,
                deliveredMessage'[k][i].proposer) \in seqMessageHistory'[k]
      BY <1>4, <1>10, <2>1, <2>2
  <2> QED
      BY <2>3, <2>4 DEF DeliverableWhenFinal
<1>17. WatchdogsStopWhenDone'
  <2>1. ASSUME NEW k \in Host, NEW n \in Msg, ackHistory'[n][k] # 0
        PROVE  (Queued(k, n) \/ Delivered(k, n))'
      BY <1>1, <1>6, <2>1 DEF IndInv, WatchdogsStopWhenDone
  <2>2. ASSUME NEW k \in Host, NEW n \in Msg, FinalsOf(k, n)' # {}
        PROVE  (Delivered(k, n) \/ Deliverable(k, n))'
    <3>1. FinalsOf(k, n) # {} \/ (k = h /\ n = m)
        BY <1>3, <1>4, <2>2 DEF FinalsOf
    <3> QED
        BY <1>7, <1>8, <3>1 DEF IndInv, WatchdogsStopWhenDone, Deliverable
  <2> QED
      BY <2>1, <2>2 DEF WatchdogsStopWhenDone, Deliverable
<1>18. NoHostExits'
    BY <1>1 DEF IndInv, NoHostExits
<1> QED
    BY <1>6, <1>11, <1>12, <1>13, <1>14, <1>15, <1>16, <1>17, <1>18 DEF IndInv

\* The inductive invariant survives a repeated SeqMessage.
LEMMA IndDropFinal ==
    ASSUME IndInv, TypeOK', NEW h \in Host, NEW m \in Msg, NEW seq, NEW proposer,
           DropFinal(h, m, seq, proposer)
    PROVE  IndInv'
<1>1. /\ SeqMessage(h, m, seq, proposer) \in network
      /\ ~ Queued(h, m)
      /\ UNCHANGED <<curr_msg_id, ackHistory, alreadyAcked, seqMessageHistory,
                     deliveryQueue, deliveredMessage>>
    BY DEF DropFinal, Receive
<1>2. Delivered(h, m)
    BY <1>1, FinalTruth
<1>3. exited' = exited /\ network' \subseteq network \cup {}
    BY <1>2, TransmitSubset DEF DropFinal
<1>4. \A x \in network' : x \in network \/ Truthful(x)
    BY <1>3
<1> QED
    BY <1>1, <1>3, <1>4, OnlyPackets

\* The inductive invariant holds initially.
LEMMA IndInit == Init => IndInv
<1> SUFFICES ASSUME Init PROVE IndInv
    OBVIOUS
<1>1. TypeOK
    BY TypeInit
<1>2. \A h \in Host, m \in Msg : ~ Queued(h, m) /\ ~ Delivered(h, m) /\ FinalsOf(h, m) = {}
    BY DEF Init, Queued, Delivered, FinalsOf
<1>3. SentMessages /\ CollectedProposals
  <2>1. ASSUME NEW m \in Msg PROVE ~ Sent(m) /\ ~ (m[2] < curr_msg_id[Sender(m)])
    <3>1. Sender(m) \in Host /\ m[2] \in Nat
        BY MsgFacts
    <3>2. curr_msg_id[Sender(m)] = 0 /\ ackHistory[m][Sender(m)] = 0
        BY <3>1 DEF Init
    <3> QED
        BY <3>1, <3>2 DEF Sent
  <2> QED
      BY <2>1, MsgFacts DEF Init, SentMessages, CollectedProposals
<1>4. TruthfulPackets /\ TruthfulHistories
    BY DEF Init, TruthfulPackets, TruthfulHistories
<1>5. FinalizedWhenComplete
    BY MsgFacts DEF Init, FinalizedWhenComplete, Complete
<1>6. HeldWhenProposed
    BY <1>2 DEF Init, HeldWhenProposed, Proposal
<1>7. ExactlyOnce /\ DeliverableWhenFinal
    BY DEF Init, ExactlyOnce, DeliverableWhenFinal
<1>8. WatchdogsStopWhenDone /\ NoHostExits
    BY <1>2 DEF Init, WatchdogsStopWhenDone, NoHostExits
<1> QED
    BY <1>1, <1>3, <1>4, <1>5, <1>6, <1>7, <1>8 DEF IndInv

\* Every step, and every stutter, keeps the inductive invariant.
LEMMA IndNext == IndInv /\ [Next]_vars => IndInv'
<1> SUFFICES ASSUME IndInv, [Next]_vars PROVE IndInv'
    OBVIOUS
<1>1. TypeOK'
    BY TypeNext DEF IndInv
<1>2. ASSUME NEW h \in Host, MulticastDatamsg(h) PROVE IndInv'
    BY <1>1, <1>2, IndMulticastDatamsg
<1>3. ASSUME NEW h \in Host, NEW m \in Msg, HandleDatamsg(h, m) PROVE IndInv'
    BY <1>1, <1>3, IndReAck, IndPropose DEF HandleDatamsg
<1>4. ASSUME NEW p \in Host, NEW m \in Msg, HandleAckmsg(m, p) PROVE IndInv'
  <2>1. PICK seq : \/ CollectAck(m, p, seq)
                   \/ Finalize(m, p, seq)
                   \/ ResendFinal(m, p, seq)
                   \/ IgnoreAck(m, p, seq)
      BY <1>4 DEF HandleAckmsg
  <2> QED
      BY <1>1, <2>1, IndCollectAck, IndFinalize, IndResendFinal
<1>5. ASSUME NEW h \in Host, NEW m \in Msg, HandleSeqmsg(h, m) PROVE IndInv'
  <2>1. PICK seq, proposer : ApplyFinal(h, m, seq, proposer) \/ DropFinal(h, m, seq, proposer)
      BY <1>5 DEF HandleSeqmsg
  <2> QED
      BY <1>1, <2>1, IndApplyFinal, IndDropFinal
<1>6. ASSUME NEW h \in Host, NEW m \in Msg, DatamsgWatchdog(m, h) \/ AckmsgWatchdog(h, m)
      PROVE  IndInv'
    BY <1>1, <1>6, IndWatchdogs
<1>7. CASE UNCHANGED vars
  <2>1. /\ UNCHANGED <<curr_msg_id, ackHistory, alreadyAcked, seqMessageHistory,
                       deliveryQueue, deliveredMessage, exited>>
        /\ \A x \in network' : x \in network \/ Truthful(x)
      BY <1>7 DEF vars
  <2> QED
      BY <1>1, <2>1, OnlyPackets
<1> QED
    BY <1>2, <1>3, <1>4, <1>5, <1>6, <1>7 DEF Next

\* The inductive invariant holds of every reachable state.
THEOREM Invariance == Spec => []IndInv
    BY IndInit, IndNext, PTL DEF Spec

-----------------------------------------------------------------------------
(***************************************************************************)
(* The safety properties.                                                  *)
(***************************************************************************)

\* Every final number known anywhere is the one in the history of the sender
\* of its message, and the sender computed it from complete proposals.
LEMMA KnownFinalFacts ==
    ASSUME IndInv, NEW f \in KnownFinals
    PROVE  /\ f.msg \in Msg
           /\ f.proposer \in Host
           /\ f.seq \in Nat
           /\ Complete(ackHistory[f.msg])
           /\ ackHistory[f.msg][f.proposer] = f.seq
           /\ IsMaxSequence(ackHistory[f.msg], f.proposer)
           /\ f = Final(f.msg, f.seq, f.proposer)
<1>1. \E h \in Host : f \in seqMessageHistory[h]
  <2>1. CASE f \in UNION {seqMessageHistory[h] : h \in Host}
      BY <2>1
  <2>2. ASSUME NEW x \in network, x.type = "SEQMSG", f = Final(x.msg, x.seq, x.proposer)
        PROVE  \E h \in Host : f \in seqMessageHistory[h]
    <3>1. Sender(x.msg) \in Host
        BY MsgFacts DEF IndInv, TypeOK, Packet
    <3>2. f \in seqMessageHistory[Sender(x.msg)]
        BY <2>2 DEF IndInv, TruthfulPackets, Truthful
    <3> QED
        BY <3>1, <3>2
  <2>3. ASSUME NEW h \in Host, NEW e \in deliveryQueue[h], e.status = DELIVERABLE,
               f = Final(e.msg, e.seq, e.proposer)
        PROVE  f \in seqMessageHistory[h]
      BY <2>3 DEF IndInv, DeliverableWhenFinal
  <2>4. ASSUME NEW h \in Host, NEW e \in Range(deliveredMessage[h]),
               f = Final(e.msg, e.seq, e.proposer)
        PROVE  f \in seqMessageHistory[h]
      BY <2>4 DEF IndInv, DeliverableWhenFinal, Range
  <2>5. CASE f \in {FinalOf(x) : x \in {y \in network : y.type = "SEQMSG"}}
      BY <2>2, <2>5 DEF FinalOf
  <2>6. CASE f \in {FinalOf(e) : e \in UNION {FinalEntries(h) : h \in Host}}
    <3>1. PICK h \in Host : \E e \in FinalEntries(h) : f = FinalOf(e)
        BY <2>6
    <3> QED
        BY <2>3, <2>4, <3>1 DEF FinalOf, FinalEntries
  <2> QED
      BY <2>1, <2>5, <2>6 DEF KnownFinals
<1>2. PICK h \in Host : f \in seqMessageHistory[h]
    BY <1>1
<1>3. f \in [msg : Msg, seq : Nat, proposer : Host]
    BY <1>2 DEF IndInv, TypeOK
<1> QED
    BY <1>2, <1>3 DEF IndInv, TruthfulHistories, Final

\* No two final numbers of one message exist anywhere in the system, in spite
\* of repeated acks, repeated SeqMessages and lost packets.
THEOREM AgreementHolds == Spec => []FinalAgreement
<1>1. IndInv => FinalAgreement
  <2> SUFFICES ASSUME IndInv, NEW f \in KnownFinals, NEW g \in KnownFinals, f.msg = g.msg
               PROVE  f = g
      BY DEF FinalAgreement
  <2>1. /\ f.proposer \in Nat /\ g.proposer \in Nat
        /\ f.proposer \in Host /\ g.proposer \in Host
        /\ f.seq \in Nat /\ g.seq \in Nat
        /\ ackHistory[f.msg][f.proposer] = f.seq
        /\ ackHistory[f.msg][g.proposer] = g.seq
        /\ IsMaxSequence(ackHistory[f.msg], f.proposer)
        /\ IsMaxSequence(ackHistory[f.msg], g.proposer)
        /\ f = Final(f.msg, f.seq, f.proposer) /\ g = Final(g.msg, g.seq, g.proposer)
      BY KnownFinalFacts, MsgFacts
  <2>2. f.seq =< g.seq /\ g.seq =< f.seq
      BY <2>1 DEF IsMaxSequence
  <2>3. f.seq = g.seq
      BY <2>1, <2>2
  <2>4. f.proposer =< g.proposer /\ g.proposer =< f.proposer
      BY <2>1, <2>3 DEF IsMaxSequence
  <2>5. f.proposer = g.proposer
      BY <2>1, <2>4
  <2> QED
      BY <2>1, <2>3, <2>5
<1> QED
    BY <1>1, Invariance, PTL

\* A final number is never fixed before every host has proposed, and it is the
\* largest of the numbers the hosts themselves remember.
THEOREM CoverHolds == Spec => []FinalCoversProposals
<1>1. IndInv => FinalCoversProposals
  <2> SUFFICES ASSUME IndInv, NEW f \in KnownFinals
               PROVE  /\ \A h \in Host : /\ 0 < Proposal(h, f.msg)
                                        /\ Proposal(h, f.msg) =< f.seq
                      /\ Proposal(f.proposer, f.msg) = f.seq
      BY DEF FinalCoversProposals
  <2>1. /\ f.msg \in Msg
        /\ f.proposer \in Host
        /\ f.seq \in Nat
        /\ Complete(ackHistory[f.msg])
        /\ ackHistory[f.msg][f.proposer] = f.seq
        /\ IsMaxSequence(ackHistory[f.msg], f.proposer)
      BY KnownFinalFacts
  <2>2. \A h \in Host : ackHistory[f.msg][h] \in Nat /\ ackHistory[f.msg][h] # 0
      BY <2>1 DEF IndInv, TypeOK, Complete
  <2>3. \A h \in Host : Proposal(h, f.msg) = ackHistory[f.msg][h]
      BY <2>1, <2>2 DEF IndInv, CollectedProposals, Proposal
  <2> QED
      BY <2>1, <2>2, <2>3 DEF IsMaxSequence
<1> QED
    BY <1>1, Invariance, PTL

\* No message is queued or delivered twice, whatever is resent.
THEOREM ExactlyOnceHolds == Spec => []ExactlyOnce
<1>1. IndInv => ExactlyOnce
    BY DEF IndInv
<1> QED
    BY <1>1, Invariance, PTL

\* No host ever runs into exit(1) for a message or a final number that it
\* cannot find.
THEOREM NoExitHolds == Spec => []NoHostExits
<1>1. IndInv => NoHostExits
    BY DEF IndInv
<1> QED
    BY <1>1, Invariance, PTL

\* No watchdog stops resending before what it waits for has been done.
THEOREM WatchdogsHold == Spec => []WatchdogsStopWhenDone
<1>1. IndInv => WatchdogsStopWhenDone
    BY DEF IndInv
<1> QED
    BY <1>1, Invariance, PTL

-----------------------------------------------------------------------------
(***************************************************************************)
(* What is left undelivered.                                               *)
(***************************************************************************)

\* A queue keeps an undeliverable entry in front when another is pushed.
LEMMA PushKeepsFront ==
    ASSUME NEW queue \in SUBSET QueueEntry, NEW new \in QueueEntry, new.status = UNDELIVERABLE,
           queue = {} \/ \E e \in HeapFront(queue) : e.status = UNDELIVERABLE
    PROVE  \E e \in HeapFront(queue \cup {new}) : e.status = UNDELIVERABLE
<1>1. \A e \in QueueEntry : e.seq \in Nat /\ e.proposer \in Nat
    BY MsgFacts DEF QueueEntry
<1>2. ~ cmp(new, new)
    BY <1>1 DEF cmp
<1>3. CASE queue = {}
    BY <1>2, <1>3 DEF HeapFront
<1>4. ASSUME NEW e \in HeapFront(queue), e.status = UNDELIVERABLE
      PROVE  \E f \in HeapFront(queue \cup {new}) : f.status = UNDELIVERABLE
  <2>1. e \in queue /\ \A x \in queue : ~ cmp(x, e)
      BY <1>4 DEF HeapFront
  <2>2. CASE cmp(new, e)
    <3>1. \A x \in queue : cmp(x, new) => cmp(x, e)
        BY <1>1, <2>1, <2>2 DEF cmp
    <3>2. new \in HeapFront(queue \cup {new})
        BY <1>2, <2>1, <3>1 DEF HeapFront
    <3> QED
        BY <3>2
  <2>3. CASE ~ cmp(new, e)
    <3>1. e \in HeapFront(queue \cup {new})
        BY <2>1, <2>3 DEF HeapFront
    <3> QED
        BY <1>4, <3>1
  <2> QED
      BY <2>2, <2>3
<1> QED
    BY <1>3, <1>4

\* So no host's wait is disturbed when a host pushes an undeliverable entry.
LEMMA FrontPush ==
    ASSUME TypeOK, FrontWaits, NEW h \in Host, NEW m \in Msg, NEW seq \in Nat,
           deliveryQueue' = [deliveryQueue EXCEPT
                               ![h] = @ \cup {QueuedMessage(m, seq, h, UNDELIVERABLE)}]
    PROVE  FrontWaits'
<1> DEFINE new == QueuedMessage(m, seq, h, UNDELIVERABLE)
<1>1. new \in QueueEntry /\ new.status = UNDELIVERABLE
    BY DEF QueuedMessage, QueueEntry
<1> HIDE DEF new
<1>2. /\ deliveryQueue \in [Host -> SUBSET QueueEntry]
      /\ deliveryQueue' = [deliveryQueue EXCEPT ![h] = @ \cup {new}]
    BY DEF TypeOK, new
<1>3. \A g \in Host : \/ deliveryQueue[g] = {}
                      \/ \E e \in HeapFront(deliveryQueue[g]) : e.status = UNDELIVERABLE
    BY DEF FrontWaits
<1>4. \E e \in HeapFront(deliveryQueue[h] \cup {new}) : e.status = UNDELIVERABLE
    BY <1>1, <1>2, <1>3, PushKeepsFront
<1>5. \A g \in Host : \/ deliveryQueue'[g] = {}
                      \/ \E e \in HeapFront(deliveryQueue'[g]) : e.status = UNDELIVERABLE
    BY <1>2, <1>3, <1>4
<1> QED
    BY <1>5 DEF FrontWaits, HeapFront

\* Nor when a host delivers what it can of a queue.
LEMMA FrontDeliver ==
    ASSUME TypeOK, FrontWaits, NEW h \in Host, NEW queue, DeliverFrom(h, queue)
    PROVE  FrontWaits'
<1>1. PICK batch \in Batches(queue) :
        deliveryQueue' = [deliveryQueue EXCEPT ![h] = queue \ Range(batch)]
    BY DEF DeliverFrom
<1>2. \/ queue = Range(batch)
      \/ \E e \in HeapFront(queue \ Range(batch)) : e.status = UNDELIVERABLE
    BY DEF Batches
<1>3. deliveryQueue \in [Host -> SUBSET QueueEntry]
    BY DEF TypeOK
<1>4. \A g \in Host : \/ deliveryQueue[g] = {}
                      \/ \E e \in HeapFront(deliveryQueue[g]) : e.status = UNDELIVERABLE
    BY DEF FrontWaits
<1>5. /\ deliveryQueue'[h] = queue \ Range(batch)
      /\ \A g \in Host \ {h} : deliveryQueue'[g] = deliveryQueue[g]
    BY <1>1, <1>3
<1>6. \A g \in Host : \/ deliveryQueue'[g] = {}
                      \/ \E e \in HeapFront(deliveryQueue'[g]) : e.status = UNDELIVERABLE
    BY <1>2, <1>4, <1>5
<1> QED
    BY <1>6 DEF FrontWaits, HeapFront

LEMMA FrontNext == TypeOK /\ FrontWaits /\ [Next]_vars => FrontWaits'
<1> SUFFICES ASSUME TypeOK, FrontWaits, [Next]_vars PROVE FrontWaits'
    OBVIOUS
<1>1. UNCHANGED deliveryQueue => FrontWaits'
    BY DEF FrontWaits, HeapFront
<1>2. curr_seq_number \in [Host -> Nat \ {0}] /\ curr_msg_id \in [Host -> Nat]
    BY DEF TypeOK
<1>3. ASSUME NEW h \in Host, MulticastDatamsg(h) PROVE FrontWaits'
  <2> DEFINE m == <<h, curr_msg_id[h]>>
             seq == curr_seq_number[h] + 1
  <2>1. m \in Msg /\ seq \in Nat
      BY <1>2, <1>3, MsgFacts DEF MulticastDatamsg
  <2>2. deliveryQueue' = [deliveryQueue EXCEPT
                            ![h] = @ \cup {QueuedMessage(m, seq, h, UNDELIVERABLE)}]
      BY <1>3 DEF MulticastDatamsg
  <2> HIDE DEF m, seq
  <2> QED
      BY <2>1, <2>2, FrontPush
<1>4. ASSUME NEW h \in Host, NEW m \in Msg, HandleDatamsg(h, m) PROVE FrontWaits'
  <2>1. CASE ReAck(h, m)
      BY <1>1, <2>1 DEF ReAck
  <2>2. CASE Propose(h, m)
    <3>1. curr_seq_number[h] \in Nat
        BY <1>2
    <3>2. deliveryQueue' = [deliveryQueue EXCEPT
                  ![h] = @ \cup {QueuedMessage(m, curr_seq_number[h], h, UNDELIVERABLE)}]
        BY <2>2 DEF Propose
    <3> QED
        BY <3>1, <3>2, FrontPush
  <2> QED
      BY <1>4, <2>1, <2>2 DEF HandleDatamsg
<1>5. ASSUME NEW p \in Host, NEW m \in Msg, HandleAckmsg(m, p) PROVE FrontWaits'
  <2>1. PICK seq : \/ CollectAck(m, p, seq)
                   \/ Finalize(m, p, seq)
                   \/ ResendFinal(m, p, seq)
                   \/ IgnoreAck(m, p, seq)
      BY <1>5 DEF HandleAckmsg
  <2>2. CASE Finalize(m, p, seq)
    <3>1. PICK queue : DeliverFrom(Sender(m), queue)
        BY <2>2 DEF Finalize
    <3> QED
        BY <3>1, MsgFacts, FrontDeliver
  <2>3. CASE CollectAck(m, p, seq)
      BY <1>1, <2>3 DEF CollectAck
  <2>4. CASE ResendFinal(m, p, seq)
      BY <1>1, <2>4 DEF ResendFinal
  <2>5. CASE IgnoreAck(m, p, seq)
      BY <1>1, <2>5 DEF IgnoreAck
  <2> QED
      BY <2>1, <2>2, <2>3, <2>4, <2>5
<1>6. ASSUME NEW h \in Host, NEW m \in Msg, HandleSeqmsg(h, m) PROVE FrontWaits'
  <2>1. PICK seq, proposer : ApplyFinal(h, m, seq, proposer) \/ DropFinal(h, m, seq, proposer)
      BY <1>6 DEF HandleSeqmsg
  <2>2. CASE ApplyFinal(h, m, seq, proposer)
    <3>1. PICK queue : DeliverFrom(h, queue)
        BY <2>2 DEF ApplyFinal
    <3> QED
        BY <3>1, FrontDeliver
  <2>3. CASE DropFinal(h, m, seq, proposer)
      BY <1>1, <2>3 DEF DropFinal
  <2> QED
      BY <2>1, <2>2, <2>3
<1>7. ASSUME NEW h \in Host, NEW m \in Msg, DatamsgWatchdog(m, h) \/ AckmsgWatchdog(h, m)
      PROVE  FrontWaits'
    BY <1>1, <1>7 DEF DatamsgWatchdog, AckmsgWatchdog
<1>8. CASE UNCHANGED vars
    BY <1>1, <1>8 DEF vars
<1> QED
    BY <1>3, <1>4, <1>5, <1>6, <1>7, <1>8 DEF Next

\* No entry that could be delivered is all that the front of a queue holds:
\* deliver_msg_from_deliveryqueue never stops early.
THEOREM FrontHolds == Spec => []FrontWaits
<1>1. Init => FrontWaits
    BY DEF Init, FrontWaits
<1> QED
    BY <1>1, FrontNext, TypeCorrect, PTL DEF Spec

\* A message that is undelivered is pursued by a watchdog without its answer:
\* its own, or that of a message in front of the queue it waits in.
LEMMA PursuedWhenWaiting == IndInv /\ FrontWaits => UndeliveredIsPursued
<1> SUFFICES ASSUME IndInv, FrontWaits, NEW h \in Host, NEW m \in Msg,
                    m[2] < curr_msg_id[Sender(m)], ~ Delivered(h, m), Host # {h}
             PROVE  IF Queued(h, m)
                    THEN \E e \in HeapFront(deliveryQueue[h]) :
                            \/ AwaitsFinal(h, e.msg)
                            \/ Sender(e.msg) = h /\ \E q \in Host : AwaitsAck(e.msg, q)
                    ELSE AwaitsAck(m, h)
    BY DEF UndeliveredIsPursued
<1>1. CASE ~ Queued(h, m)
  <2>1. Sent(m)
      BY DEF IndInv, SentMessages
  <2>2. ackHistory[m][h] = 0
      BY <1>1 DEF IndInv, WatchdogsStopWhenDone
  <2> QED
      BY <1>1, <2>1, <2>2 DEF AwaitsAck, Sent
<1>2. CASE Queued(h, m)
  <2>1. PICK e \in HeapFront(deliveryQueue[h]) : e.status = UNDELIVERABLE
      BY <1>2 DEF FrontWaits, Queued
  <2>2. e \in deliveryQueue[h] /\ e.msg \in Msg
      BY <2>1 DEF HeapFront, IndInv, TypeOK, QueueEntry
  <2>3. Queued(h, e.msg) /\ ~ Delivered(h, e.msg)
      BY <2>2 DEF Queued, IndInv, ExactlyOnce
  <2>4. FinalsOf(h, e.msg) = {}
    <3>1. \A d \in deliveryQueue[h] : d.msg = e.msg => d.status # DELIVERABLE
        BY <2>1, <2>2 DEF IndInv, ExactlyOnce, UNDELIVERABLE, DELIVERABLE
    <3> QED
        BY <2>2, <2>3, <3>1 DEF IndInv, WatchdogsStopWhenDone
  <2>5. Proposal(h, e.msg) # 0
      BY <2>2, <2>3 DEF IndInv, HeldWhenProposed
  <2>6. CASE Sender(e.msg) # h
    <3>1. AwaitsFinal(h, e.msg)
        BY <2>4, <2>5, <2>6 DEF AwaitsFinal, Proposal
    <3> QED
        BY <1>2, <3>1
  <2>7. CASE Sender(e.msg) = h
    <3>1. ~ Complete(ackHistory[e.msg])
        BY <2>2, <2>4, <2>7 DEF IndInv, FinalizedWhenComplete
    <3>2. PICK q \in Host : ackHistory[e.msg][q] = 0
        BY <3>1 DEF Complete
    <3>3. q # h
        BY <2>5, <2>7, <3>2 DEF Proposal
    <3>4. AwaitsAck(e.msg, q)
        BY <2>7, <3>2, <3>3 DEF AwaitsAck
    <3> QED
        BY <1>2, <2>7, <3>4
  <2> QED
      BY <2>6, <2>7
<1> QED
    BY <1>1, <1>2

\* Every message that was multicast and is not delivered somewhere is pursued
\* by a watchdog thread that lacks its answer.
THEOREM PursuedHolds == Spec => []UndeliveredIsPursued
    BY PursuedWhenWaiting, FrontHolds, Invariance, PTL

\* So when every watchdog has its answer, nothing is left to do: all hosts
\* have delivered all that was multicast.
THEOREM AnsweredIsDelivered ==
    ASSUME \A h \in Host : Host # {h}
    PROVE  Spec => [](  (\A h \in Host, m \in Msg :
                           m[2] < curr_msg_id[Sender(m)] =>
                             ~ AwaitsAck(m, h) /\ ~ AwaitsFinal(h, m))
                     => \A h \in Host, m \in Msg :
                          m[2] < curr_msg_id[Sender(m)] => Delivered(h, m))
<1>1. ASSUME IndInv, UndeliveredIsPursued,
             \A h \in Host, m \in Msg :
               m[2] < curr_msg_id[Sender(m)] => ~ AwaitsAck(m, h) /\ ~ AwaitsFinal(h, m),
             NEW h \in Host, NEW m \in Msg, m[2] < curr_msg_id[Sender(m)], ~ Delivered(h, m)
      PROVE  FALSE
  <2>1. PICK e \in deliveryQueue[h] :
            \/ AwaitsFinal(h, e.msg)
            \/ \E q \in Host : AwaitsAck(e.msg, q)
      BY <1>1 DEF UndeliveredIsPursued, HeapFront
  <2>2. e.msg \in Msg /\ Queued(h, e.msg)
    <3>1. deliveryQueue \in [Host -> SUBSET QueueEntry]
        BY <1>1 DEF IndInv, TypeOK
    <3>2. e \in QueueEntry
        BY <3>1
    <3> QED
        BY <3>2 DEF QueueEntry, Queued
  <2>3. Proposal(h, e.msg) # 0
      BY <1>1, <2>2 DEF IndInv, HeldWhenProposed
  <2>4. Sent(e.msg)
      BY <1>1, <2>2, <2>3 DEF IndInv, SentMessages, Proposal, Sent
  <2>5. e.msg[2] < curr_msg_id[Sender(e.msg)]
      BY <1>1, <2>2, <2>4 DEF IndInv, SentMessages
  <2> QED
      BY <1>1, <2>1, <2>2, <2>5
<1>2. IndInv /\ UndeliveredIsPursued
        => ((\A h \in Host, m \in Msg :
               m[2] < curr_msg_id[Sender(m)] => ~ AwaitsAck(m, h) /\ ~ AwaitsFinal(h, m))
            => \A h \in Host, m \in Msg :
                 m[2] < curr_msg_id[Sender(m)] => Delivered(h, m))
    BY <1>1
<1> QED
    BY <1>2, PursuedHolds, Invariance, PTL

=============================================================================
