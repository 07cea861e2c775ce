----------------------- MODULE GlobalSnapshot_proofs -----------------------
(***************************************************************************)
(* Proofs about GlobalSnapshot: its safety properties, for any hosts, any  *)
(* number of messages, any initiator and any packets that never arrive.    *)
(*                                                                         *)
(* A step of the snapshot leaves the messages alone and a step of the      *)
(* multicast leaves the markers alone; what relates the two is the copy.   *)
(***************************************************************************)
EXTENDS GlobalSnapshotInv, FiniteSetTheorems, TLAPS

-----------------------------------------------------------------------------
(***************************************************************************)
(* Threads, steps and messages.                                            *)
(***************************************************************************)

\* A thread is the main thread or the listener of one host.
LEMMA ThreadFacts ==
    /\ \A h \in Host :
         /\ Main(h) \in Thread /\ Main(h)[1] = h /\ Main(h)[2] = "main"
         /\ Listener(h) \in Thread /\ Listener(h)[1] = h /\ Listener(h)[2] = "listener"
    /\ \A g, h \in Host :
         /\ Main(g) # Listener(h)
         /\ Main(g) = Main(h) => g = h
         /\ Listener(g) = Listener(h) => g = h
    /\ \A t \in Thread :
         /\ t[1] \in Host
         /\ t = Main(t[1]) \/ t = Listener(t[1])
    BY DEF Thread, Main, Listener

\* The thread that takes the snapshot of a host is one of its two threads.
LEMMA TakerFacts ==
    /\ \A h \in Host : Taker(h) \in Thread /\ Taker(h)[1] = h
    /\ \A g, h \in Host : Taker(g) = Taker(h) => g = h
    BY ThreadFacts DEF Taker

\* The steps that take a snapshot follow each other in the order of the list.
LEMMA StepFacts ==
    /\ Range(Steps) = Copying \cup {"sendMarkers"}
    /\ Steps[1] = "copyQueue"
    /\ \A t \in Thread :
         /\ pc[t] = "copyQueue" => StepAfter(t) = "copyDelivered"
         /\ pc[t] = "copyDelivered" => StepAfter(t) = "startRecording"
         /\ pc[t] = "startRecording" => StepAfter(t) = "sendMarkers"
         /\ pc[t] = "sendMarkers" => StepAfter(t) = Taken(t)
<1>1. /\ DOMAIN Steps = {1, 2, 3, 4} /\ Len(Steps) = 4
      /\ Steps[1] = "copyQueue" /\ Steps[2] = "copyDelivered"
      /\ Steps[3] = "startRecording" /\ Steps[4] = "sendMarkers"
    BY DEF Steps
<1>2. Range(Steps) = Copying \cup {"sendMarkers"}
    BY <1>1 DEF Range, Copying
<1>3. ASSUME NEW t \in Thread, NEW k \in DOMAIN Steps, pc[t] = Steps[k]
      PROVE  StepAfter(t) = IF k = 4 THEN Taken(t) ELSE Steps[k + 1]
  <2> DEFINE i == CHOOSE i \in DOMAIN Steps : Steps[i] = pc[t]
  <2>1. i \in DOMAIN Steps /\ Steps[i] = pc[t]
      BY <1>3
  <2> HIDE DEF i
  <2>2. i = k
      BY <1>1, <1>3, <2>1
  <2>3. StepAfter(t) = IF i = Len(Steps) THEN Taken(t) ELSE Steps[i + 1]
      BY DEF StepAfter, i
  <2> QED
      BY <1>1, <2>2, <2>3
<1> QED
    BY <1>1, <1>2, <1>3

\* A message is its sender and its number.
LEMMA MsgFacts ==
    /\ \A m \in Msg : m[1] \in Host /\ m[2] \in 1 .. Count[m[1]] /\ m = <<m[1], m[2]>>
    /\ \A h \in Host : \A k \in 1 .. Count[h] : <<h, k>> \in Msg
    BY DEF Msg

\* An assignment to the place of one thread.
LEMMA PlaceFacts ==
    ASSUME pc \in [Thread -> {"multicast"} \cup ListenerPC],
           NEW t \in Thread, NEW place, pc' = [pc EXCEPT ![t] = place]
    PROVE  /\ pc'[t] = place
           /\ \A u \in Thread \ {t} : pc'[u] = pc[u]
    OBVIOUS

\* Only the thread that takes the snapshot of a host is in the middle of it.
LEMMA OnlyTaker ==
    ASSUME ThreadsInOrder, NEW t \in Thread, pc[t] \in Range(Steps)
    PROVE  t = Taker(t[1]) /\ t[1] \in Host
<1>1. CASE t = Main(t[1])
  <2>1. t[1] = Initiator
      BY <1>1, StepFacts, ThreadFacts DEF ThreadsInOrder, Others, Copying
  <2> QED
      BY <1>1, <2>1, ThreadFacts DEF Taker
<1>2. CASE t = Listener(t[1])
  <2>1. t[1] # Initiator
      BY <1>2 DEF ThreadsInOrder
  <2> QED
      BY <1>2, <2>1, ThreadFacts DEF Taker
<1> QED
    BY <1>1, <1>2, ThreadFacts

\* A sequence of different other hosts is shorter than the group, and misses none
\* when only the host itself is missing.
LEMMA DifferentHosts ==
    ASSUME NEW h \in Host, NEW s \in Seq(Others(h)),
           \A i, j \in DOMAIN s : s[i] = s[j] => i = j
    PROVE  /\ Len(s) < Cardinality(Host)
           /\ Len(s) >= Cardinality(Host) - 1 =>
                Range(s) = Others(h) /\ Len(s) = Cardinality(Host) - 1
<1>1. /\ IsFiniteSet(Host) /\ IsFiniteSet(Others(h))
      /\ Cardinality(Host) \in Nat /\ Cardinality(Others(h)) = Cardinality(Host) - 1
    BY HostAssumption, FS_RemoveElement, FS_CardinalityType DEF Others
<1>2. Len(s) \in Nat /\ DOMAIN s = 1 .. Len(s) /\ s \in [1 .. Len(s) -> Others(h)]
    OBVIOUS
<1>3. IsFiniteSet(1 .. Len(s)) /\ Cardinality(1 .. Len(s)) = Len(s)
    BY <1>2, FS_Interval
<1>4. s \in Injection(1 .. Len(s), Others(h))
    BY <1>2 DEF Injection, IsInjective
<1>5. /\ Cardinality(1 .. Len(s)) =< Cardinality(Others(h))
      /\ Cardinality(1 .. Len(s)) = Cardinality(Others(h)) <=>
           s \in Surjection(1 .. Len(s), Others(h))
    BY <1>1, <1>4, FS_Injection
<1>6. ASSUME Len(s) >= Cardinality(Host) - 1
      PROVE  Range(s) = Others(h) /\ Len(s) = Cardinality(Host) - 1
  <2>1. Len(s) = Cardinality(Host) - 1
      BY <1>1, <1>2, <1>3, <1>5, <1>6
  <2>2. s \in Surjection(1 .. Len(s), Others(h))
      BY <1>1, <1>3, <1>5, <2>1
  <2> QED
      BY <1>2, <2>1, <2>2 DEF Surjection, Range
<1> QED
    BY <1>1, <1>2, <1>3, <1>5, <1>6


-----------------------------------------------------------------------------
(***************************************************************************)
(* The messages.                                                           *)
(***************************************************************************)

\* The part of the invariant that speaks of messages only.
MessageInv == TruthfulPackets /\ MessagesHeld

\* A step that changes no variable of the multicast keeps it.
LEMMA MessagesFrame ==
    ASSUME MessageInv, UNCHANGED multicastVars
    PROVE  MessageInv'
<1>1. \A x : TruthfulPacket(x)' <=> TruthfulPacket(x)
    BY DEF TruthfulPacket, Holds, Acked, multicastVars
<1>2. TruthfulPackets'
    BY <1>1 DEF MessageInv, TruthfulPackets, multicastVars
<1>3. MessagesHeld'
    BY DEF MessageInv, MessagesHeld, Holds, Acked, multicastVars
<1> QED
    BY <1>2, <1>3 DEF MessageInv

\* The packets of a broadcast.
LEMMA BroadcastFacts ==
    ASSUME NEW type \in {"data", "ack", "seq"}, NEW h \in Host, NEW m \in Msg
    PROVE  /\ ToOthers(type, m, h) \subseteq Packet
           /\ \A x \in ToOthers(type, m, h) :
                x.type = type /\ x.msg = m /\ x.from = h /\ x.to \in Host /\ x.to # h
    BY DEF ToOthers, Others, Packet

\* A packet is the only one of its type, message, sender and receiver.
LEMMA SamePacket ==
    ASSUME NEW x \in Packet, NEW y \in Packet,
           x.type = y.type, x.msg = y.msg, x.from = y.from, x.to = y.to
    PROVE  x = y
    BY DEF Packet

\* What the receiver has in hand.
LEMMA PacketInHand ==
    ASSUME TypeOK, MessageInv, NEW h \in Host, NEW x \in msg_buf[h]
    PROVE  /\ x \in Packet /\ x.msg \in Msg /\ x.from \in Host /\ x.to = h
           /\ x.msg[1] \in Host
           /\ TruthfulPacket(x)
           /\ x \notin network
           /\ msg_buf[h] = {x}
  <1>1. x \in Packet
      BY DEF TypeOK, MulticastTypes
  <1>2. x.msg \in Msg /\ x.from \in Host
      BY <1>1 DEF Packet
  <1> QED
      BY <1>1, <1>2, MsgFacts DEF MessageInv, TruthfulPackets

\* The packet x that host h has in hand is handled, and others are sent.
Answered(h, x, new) ==
    /\ x \in msg_buf[h]
    /\ network' = network \cup new
    /\ msg_buf' = [msg_buf EXCEPT ![h] = {}]

\* Then the packets in flight are true, and none is both in hand and on the way.
LEMMA PacketsAfter ==
    ASSUME TypeOK, MessageInv, NEW h \in Host, NEW x, NEW new \in SUBSET Packet,
           Answered(h, x, new),
           \A y \in Packet : TruthfulPacket(y) /\ y # x => TruthfulPacket(y)',
           \A y \in new : TruthfulPacket(y)' /\ ~ TruthfulPacket(y)
    PROVE  TruthfulPackets'
<1>1. /\ network \subseteq Packet
      /\ msg_buf \in [Host -> SUBSET Packet]
      /\ x \in msg_buf[h] /\ x \notin network
      /\ network' = network \cup new
      /\ msg_buf' = [msg_buf EXCEPT ![h] = {}]
  <2>1. x \in msg_buf[h] /\ network' = network \cup new /\ msg_buf' = [msg_buf EXCEPT ![h] = {}]
      BY DEF Answered
  <2>2. x \notin network
      BY <2>1, PacketInHand
  <2>3. network \subseteq Packet /\ msg_buf \in [Host -> SUBSET Packet]
      BY DEF TypeOK, MulticastTypes
  <2> QED
      BY <2>1, <2>2, <2>3
<1>2. \A y \in network : TruthfulPacket(y) /\ y # x
    BY <1>1 DEF MessageInv, TruthfulPackets
<1>3. \A y \in network' : TruthfulPacket(y)'
    BY <1>1, <1>2
<1>4. ASSUME NEW g \in Host, NEW y \in msg_buf'[g]
      PROVE  /\ msg_buf'[g] = {y}
             /\ y.to = g
             /\ TruthfulPacket(y)'
             /\ y \notin network'
  <2>1. g # h /\ msg_buf'[g] = msg_buf[g]
      BY <1>1, <1>4
  <2>2. msg_buf[g] = {y} /\ y.to = g /\ TruthfulPacket(y) /\ y \notin network
      BY <1>4, <2>1 DEF MessageInv, TruthfulPackets
  <2>3. y \in Packet /\ x.to = h
      BY <1>1, <1>4, <2>1, PacketInHand
  <2>4. y # x
      BY <2>1, <2>2, <2>3
  <2>5. TruthfulPacket(y)'
      BY <2>2, <2>3, <2>4
  <2>6. y \notin network'
      BY <1>1, <2>2
  <2> QED
      BY <2>1, <2>2, <2>5, <2>6
<1> QED
    BY <1>3, <1>4 DEF TruthfulPackets

\* A message is queued and sent.
LEMMA MessagesMulticast ==
    ASSUME TypeOK, MessageInv, NEW h \in Host, Multicast(h)
    PROVE  MessageInv'
<1>1. /\ sent \in [Host -> Nat] /\ sent[h] < Count[h] /\ Count \in [Host -> Nat]
      /\ deliveryQueue \in [Host -> SUBSET Msg]
      /\ network \subseteq Packet
      /\ msg_buf \in [Host -> SUBSET Packet]
      /\ \A k \in Host : deliverable[k] \subseteq deliveryQueue[k]
    BY CountAssumption DEF Multicast, TypeOK, MulticastTypes
<1>2. PICK m \in Msg : m = <<h, sent[h] + 1>> /\ m[1] = h /\ m[2] = sent[h] + 1
  <2>1. sent[h] + 1 \in 1 .. Count[h]
      BY <1>1
  <2>2. <<h, sent[h] + 1>> \in Msg
      BY <2>1, MsgFacts
  <2> QED
      BY <2>2
<1> DEFINE new == ToOthers("data", m, h)
<1>3. /\ sent' = [sent EXCEPT ![h] = @ + 1]
      /\ deliveryQueue' = [deliveryQueue EXCEPT ![h] = @ \cup {m}]
      /\ network' = network \cup new
      /\ UNCHANGED <<deliverable, deliveredMessage, acks, msg_buf>>
    BY <1>2 DEF Multicast, Send
<1>4. \A x \in new : x \in Packet /\ x.type = "data" /\ x.msg = m /\ x.from = h
                     /\ x.to \in Host /\ x.to # h
    BY <1>2, BroadcastFacts
<1> HIDE DEF new
<1>5. /\ \A k \in Host \ {h} : sent'[k] = sent[k]
      /\ sent'[h] = sent[h] + 1
      /\ \A n \in Msg : n[2] =< sent[n[1]] => n[2] =< sent'[n[1]]
    BY <1>1, <1>3, MsgFacts
<1>6. \A k \in Host : ~ Holds(k, m) /\ k \notin acks[m]
    BY <1>1, <1>2 DEF MessageInv, MessagesHeld
<1>7. \A k \in Host, n \in Msg : Holds(k, n)' <=> Holds(k, n) \/ (k = h /\ n = m)
    BY <1>1, <1>3 DEF Holds
<1>8. \A n \in Msg : Acked(n)' <=> Acked(n)
    BY <1>3 DEF Acked
<1>9. ASSUME NEW x \in Packet, TruthfulPacket(x) PROVE TruthfulPacket(x)'
  <2>1. x.msg \in Msg /\ x.from \in Host /\ x.to \in Host
      BY DEF Packet
  <2>2. CASE x.type = "data"
    <3>1. x.msg # m
        BY <1>1, <1>2, <1>9, <2>2 DEF TruthfulPacket
    <3> QED
        BY <1>5, <1>7, <1>9, <2>1, <2>2, <3>1 DEF TruthfulPacket
  <2>3. CASE x.type = "ack"
      BY <1>1, <1>3, <1>9, <2>1, <2>3 DEF TruthfulPacket
  <2>4. CASE x.type = "seq"
    <3>1. x.msg \in deliveryQueue'[x.to] \ deliverable'[x.to]
        BY <1>1, <1>3, <1>9, <2>1, <2>4 DEF TruthfulPacket
    <3> QED
        BY <1>8, <1>9, <2>1, <2>4, <3>1 DEF TruthfulPacket
  <2> QED
      BY <2>2, <2>3, <2>4 DEF TruthfulPacket
<1>10. ASSUME NEW x \in new PROVE TruthfulPacket(x)' /\ ~ TruthfulPacket(x)
  <2>1. x.type = "data" /\ x.msg = m /\ x.from = h /\ x.to \in Host /\ x.to # h
      BY <1>4
  <2>2. m[2] =< sent'[h] /\ ~ (m[2] =< sent[h])
      BY <1>1, <1>2, <1>5
  <2>3. ~ Holds(x.to, m)'
      BY <1>2, <1>6, <1>7, <2>1
  <2>4. TruthfulPacket(x)'
      BY <1>2, <2>1, <2>2, <2>3 DEF TruthfulPacket
  <2>5. ~ TruthfulPacket(x)
      BY <1>2, <2>1, <2>2 DEF TruthfulPacket
  <2> QED
      BY <2>4, <2>5
<1>11. TruthfulPackets'
  <2>1. \A x \in network' : TruthfulPacket(x)'
      BY <1>1, <1>3, <1>9, <1>10 DEF MessageInv, TruthfulPackets
  <2>2. \A g \in Host : \A x \in msg_buf[g] :
          msg_buf[g] = {x} /\ x.to = g /\ TruthfulPacket(x)' /\ x \notin network'
      BY <1>1, <1>3, <1>9, <1>10 DEF MessageInv, TruthfulPackets
  <2> QED
      BY <1>3, <2>1, <2>2 DEF TruthfulPackets
<1>12. MessagesHeld'
  <2>1. \A n \in Msg : n[2] =< sent'[n[1]] => Holds(n[1], n)'
    <3> TAKE n \in Msg
    <3>1. n[1] \in Host /\ n[2] \in Nat /\ n = <<n[1], n[2]>>
        BY MsgFacts, CountAssumption
    <3>2. CASE n[2] =< sent[n[1]]
        BY <1>7, <3>1, <3>2 DEF MessageInv, MessagesHeld
    <3>3. CASE ~ (n[2] =< sent[n[1]])
      <4>1. n[2] =< sent'[n[1]] => n[1] = h /\ n[2] = sent[h] + 1
          BY <1>1, <1>5, <3>1, <3>3
      <4> QED
          BY <1>2, <1>7, <3>1, <4>1
    <3> QED
        BY <3>2, <3>3
  <2>2. \A k \in Host, n \in Msg : Holds(k, n)' => n[2] =< sent'[n[1]]
    <3>1. m[2] =< sent'[m[1]]
        BY <1>1, <1>2, <1>5
    <3> QED
        BY <1>5, <1>7, <3>1 DEF MessageInv, MessagesHeld
  <2>3. \A k \in Host, n \in Msg :
          /\ k \in acks[n] => k # n[1] /\ Holds(k, n)'
          /\ n \in deliverable[k] \/ n \in deliveredMessage[k] => Acked(n)'
      BY <1>7, <1>8 DEF MessageInv, MessagesHeld
  <2> QED
      BY <1>3, <2>1, <2>2, <2>3 DEF MessagesHeld
<1> QED
    BY <1>11, <1>12 DEF MessageInv

\* A packet comes into the hand of the receiver.
LEMMA MessagesReceive ==
    ASSUME TypeOK, MessageInv, NEW x \in network, Receive(x.to, x)
    PROVE  MessageInv'
<1>1. /\ x \in Packet /\ x.to \in Host
      /\ msg_buf \in [Host -> SUBSET Packet]
    BY DEF TypeOK, MulticastTypes, Packet
<1>2. /\ msg_buf[x.to] = {}
      /\ msg_buf' = [msg_buf EXCEPT ![x.to] = {x}]
      /\ network' = network \ {x}
      /\ UNCHANGED <<sent, deliveryQueue, deliverable, deliveredMessage, acks>>
    BY DEF Receive
<1>3. \A y : TruthfulPacket(y)' <=> TruthfulPacket(y)
    BY <1>2 DEF TruthfulPacket, Holds, Acked
<1>4. MessagesHeld'
    BY <1>2 DEF MessageInv, MessagesHeld, Holds, Acked
<1>5. ASSUME NEW g \in Host, NEW y \in msg_buf'[g]
      PROVE  msg_buf'[g] = {y} /\ y.to = g /\ TruthfulPacket(y)' /\ y \notin network'
  <2>1. CASE g = x.to
      BY <1>1, <1>2, <1>3, <1>5, <2>1 DEF MessageInv, TruthfulPackets
  <2>2. CASE g # x.to
      BY <1>1, <1>2, <1>3, <1>5, <2>2 DEF MessageInv, TruthfulPackets
  <2> QED
      BY <2>1, <2>2
<1>6. \A y \in network' : TruthfulPacket(y)'
    BY <1>2, <1>3 DEF MessageInv, TruthfulPackets
<1> QED
    BY <1>4, <1>5, <1>6 DEF MessageInv, TruthfulPackets


\* When a queued message gets its final number, nothing is lost: what its host
\* holds stays the same, a message without a final number stays queued, and only
\* this message becomes deliverable.
LEMMA Delivering ==
    ASSUME TypeOK, NEW h \in Host, NEW m \in deliveryQueue[h], DeliverWith(h, m)
    PROVE  /\ \A k \in Host, n \in Msg : Holds(k, n)' <=> Holds(k, n)
           /\ \A k \in Host \ {h} :
                /\ deliveryQueue'[k] = deliveryQueue[k]
                /\ deliverable'[k] = deliverable[k]
                /\ deliveredMessage'[k] = deliveredMessage[k]
           /\ \A n \in Msg : n \in deliveryQueue[h] \ (deliverable[h] \cup {m})
                               => n \in deliveryQueue'[h] \ deliverable'[h]
           /\ \A n \in Msg : n \in deliverable'[h] \/ n \in deliveredMessage'[h]
                               => n = m \/ n \in deliverable[h] \/ n \in deliveredMessage[h]
           /\ deliveryQueue' \in [Host -> SUBSET Msg]
           /\ deliverable' \in [Host -> SUBSET Msg]
           /\ deliveredMessage' \in [Host -> SUBSET Msg]
           /\ \A k \in Host : /\ deliverable'[k] \subseteq deliveryQueue'[k]
                              /\ deliveryQueue'[k] \cap deliveredMessage'[k] = {}
<1>1. /\ deliveryQueue \in [Host -> SUBSET Msg]
      /\ deliverable \in [Host -> SUBSET Msg]
      /\ deliveredMessage \in [Host -> SUBSET Msg]
      /\ \A k \in Host : /\ deliverable[k] \subseteq deliveryQueue[k]
                         /\ deliveryQueue[k] \cap deliveredMessage[k] = {}
    BY DEF TypeOK, MulticastTypes
<1>2. PICK D \in SUBSET (deliverable[h] \cup {m}) :
        /\ deliverable' = [deliverable EXCEPT ![h] = (@ \cup {m}) \ D]
        /\ deliveryQueue' = [deliveryQueue EXCEPT ![h] = @ \ D]
        /\ deliveredMessage' = [deliveredMessage EXCEPT ![h] = @ \cup D]
    BY DEF DeliverWith
<1>3. /\ m \in Msg
      /\ D \subseteq deliveryQueue[h]
      /\ D \subseteq Msg
    BY <1>1, <1>2
<1>4. /\ deliverable'[h] = (deliverable[h] \cup {m}) \ D
      /\ deliveryQueue'[h] = deliveryQueue[h] \ D
      /\ deliveredMessage'[h] = deliveredMessage[h] \cup D
      /\ \A k \in Host \ {h} :
           /\ deliveryQueue'[k] = deliveryQueue[k]
           /\ deliverable'[k] = deliverable[k]
           /\ deliveredMessage'[k] = deliveredMessage[k]
    BY <1>1, <1>2
<1>5. /\ deliveryQueue' \in [Host -> SUBSET Msg]
      /\ deliverable' \in [Host -> SUBSET Msg]
      /\ deliveredMessage' \in [Host -> SUBSET Msg]
    BY <1>1, <1>2, <1>3
<1>6. ASSUME NEW k \in Host
      PROVE  /\ deliverable'[k] \subseteq deliveryQueue'[k]
             /\ deliveryQueue'[k] \cap deliveredMessage'[k] = {}
    BY <1>1, <1>3, <1>4
<1>7. \A k \in Host, n \in Msg : Holds(k, n)' <=> Holds(k, n)
    BY <1>3, <1>4 DEF Holds
<1>8. \A n \in Msg : n \in deliveryQueue[h] \ (deliverable[h] \cup {m})
                       => n \in deliveryQueue'[h] \ deliverable'[h]
    BY <1>4
<1>9. \A n \in Msg : n \in deliverable'[h] \/ n \in deliveredMessage'[h]
                       => n = m \/ n \in deliverable[h] \/ n \in deliveredMessage[h]
    BY <1>4
<1> QED
    BY <1>4, <1>5, <1>6, <1>7, <1>8, <1>9

\* A message whose ack is on its way has no final number yet.
LEMMA AckUnderway ==
    ASSUME MessageInv, NEW y \in Packet, TruthfulPacket(y), y.type = "ack"
    PROVE  /\ y.msg \in Msg /\ y.from \in Host /\ y.from # y.msg[1]
           /\ ~ Acked(y.msg)
           /\ \A k \in Host : y.msg \notin deliverable[k] /\ y.msg \notin deliveredMessage[k]
<1>1. y.msg \in Msg /\ y.from \in Host
    BY DEF Packet
<1>2. y.from # y.msg[1] /\ y.from \notin acks[y.msg]
    BY DEF TruthfulPacket
<1>3. ~ Acked(y.msg)
    BY <1>1, <1>2 DEF Acked, Others
<1> QED
    BY <1>1, <1>2, <1>3 DEF MessageInv, MessagesHeld

\* A data message is queued and acked.
LEMMA MessagesDatamsg ==
    ASSUME TypeOK, MessageInv, NEW h \in Host, NEW x \in msg_buf[h],
           HandleDatamsg(h, x), sent' = sent, msg_buf' = [msg_buf EXCEPT ![h] = {}]
    PROVE  MessageInv'
<1>1. /\ x.msg \in Msg /\ x.from \in Host /\ x.msg[1] \in Host /\ x \in Packet /\ x.to = h
      /\ x.type = "data"
      /\ x.from = x.msg[1] /\ h # x.from
      /\ x.msg[2] =< sent[x.from]
      /\ ~ Holds(h, x.msg)
    BY PacketInHand DEF HandleDatamsg, TruthfulPacket
<1>2. PICK ack \in Packet : ack = [type |-> "ack", msg |-> x.msg, from |-> h, to |-> x.from]
    BY <1>1 DEF Packet
<1>3. /\ deliveryQueue' = [deliveryQueue EXCEPT ![h] = @ \cup {x.msg}]
      /\ network' = network \cup {ack}
      /\ UNCHANGED <<deliverable, deliveredMessage, acks, sent>>
    BY <1>2 DEF HandleDatamsg, Send
<1>4. /\ deliveryQueue \in [Host -> SUBSET Msg]
      /\ \A k \in Host : deliverable[k] \subseteq deliveryQueue[k]
    BY DEF TypeOK, MulticastTypes
<1>5. /\ \A k \in Host, n \in Msg : Holds(k, n)' <=> Holds(k, n) \/ (k = h /\ n = x.msg)
      /\ \A k \in Host : deliveryQueue[k] \subseteq deliveryQueue'[k]
      /\ x.msg \in deliveryQueue'[h]
    BY <1>3, <1>4 DEF Holds
<1>6. \A n \in Msg : Acked(n)' <=> Acked(n)
    BY <1>3 DEF Acked
<1>7. ASSUME NEW y \in Packet, TruthfulPacket(y), y # x PROVE TruthfulPacket(y)'
  <2>1. y.msg \in Msg /\ y.from \in Host /\ y.to \in Host
      BY DEF Packet
  <2>2. CASE y.type = "data"
    <3>1. ~ (y.to = h /\ y.msg = x.msg)
        BY <1>1, <1>7, <2>2, SamePacket DEF TruthfulPacket
    <3> QED
        BY <1>3, <1>5, <1>7, <2>1, <2>2, <3>1 DEF TruthfulPacket
  <2>3. CASE y.type = "ack"
      BY <1>3, <1>5, <1>7, <2>1, <2>3 DEF TruthfulPacket
  <2>4. CASE y.type = "seq"
      BY <1>3, <1>5, <1>6, <1>7, <2>1, <2>4 DEF TruthfulPacket
  <2> QED
      BY <2>2, <2>3, <2>4 DEF TruthfulPacket
<1>8. TruthfulPacket(ack)' /\ ~ TruthfulPacket(ack)
  <2>1. h \notin acks[x.msg] /\ x.msg \notin deliveryQueue[h]
      BY <1>1 DEF MessageInv, MessagesHeld, Holds
  <2>2. ack.type = "ack" /\ ack.msg = x.msg /\ ack.from = h /\ ack.to = x.from
      BY <1>2
  <2> QED
      BY <1>1, <1>3, <1>5, <2>1, <2>2 DEF TruthfulPacket
<1>9. TruthfulPackets'
  <2>1. Answered(h, x, {ack})
      BY <1>3 DEF Answered
  <2>2. {ack} \in SUBSET Packet /\ \A y \in {ack} : TruthfulPacket(y)' /\ ~ TruthfulPacket(y)
      BY <1>8
  <2> QED
      BY <1>7, <2>1, <2>2, PacketsAfter
<1>10. MessagesHeld'
  <2>1. \A n \in Msg : n[2] =< sent'[n[1]] => Holds(n[1], n)'
      BY <1>3, <1>5, MsgFacts DEF MessageInv, MessagesHeld
  <2>2. \A k \in Host, n \in Msg : Holds(k, n)' => n[2] =< sent'[n[1]]
      BY <1>1, <1>3, <1>5 DEF MessageInv, MessagesHeld
  <2>3. \A k \in Host, n \in Msg :
          /\ k \in acks'[n] => k # n[1] /\ Holds(k, n)'
          /\ n \in deliverable'[k] \/ n \in deliveredMessage'[k] => Acked(n)'
      BY <1>3, <1>5, <1>6 DEF MessageInv, MessagesHeld
  <2> QED
      BY <2>1, <2>2, <2>3 DEF MessagesHeld
<1> QED
    BY <1>9, <1>10 DEF MessageInv


\* What an ack in hand says: it comes from another host than the sender h of the
\* message, which has it queued and without a final number.
LEMMA AckInHand ==
    ASSUME TypeOK, MessageInv, NEW h \in Host, NEW x \in msg_buf[h], x.type = "ack"
    PROVE  /\ x \in Packet /\ x.msg \in Msg /\ x.from \in Host /\ x.to = h
           /\ h = x.msg[1] /\ x.from # h /\ x.from \notin acks[x.msg]
           /\ ~ Acked(x.msg)
           /\ Holds(x.from, x.msg)
           /\ x.msg \in deliveryQueue[h]
           /\ x.msg \in deliveryQueue[x.from]
<1>1. /\ x \in Packet /\ x.msg \in Msg /\ x.from \in Host /\ x.to = h
      /\ h = x.msg[1] /\ x.from # h /\ x.from \notin acks[x.msg]
      /\ x.msg \in deliveryQueue[x.from]
    BY PacketInHand DEF TruthfulPacket
<1>2. /\ ~ Acked(x.msg)
      /\ x.msg \notin deliveredMessage[h]
    BY <1>1, PacketInHand, AckUnderway
<1>3. Holds(x.from, x.msg)
    BY <1>1 DEF Holds
<1>4. Holds(h, x.msg)
    BY <1>1, <1>3 DEF MessageInv, MessagesHeld
<1> QED
    BY <1>1, <1>2, <1>3, <1>4 DEF Holds

\* Another ack is not counted yet when this one is.
LEMMA OtherAck ==
    ASSUME TypeOK, MessageInv, NEW h \in Host, NEW x \in msg_buf[h], HandleAckmsg(h, x),
           NEW y \in Packet, TruthfulPacket(y), y.type = "ack", y # x
    PROVE  y.from \notin acks'[y.msg]
<1>1. /\ x \in Packet /\ x.type = "ack" /\ x.to = x.msg[1]
      /\ acks' = [acks EXCEPT ![x.msg] = @ \cup {x.from}]
    BY AckInHand DEF HandleAckmsg
<1>2. /\ y.msg \in Msg
      /\ y.to = y.msg[1] /\ y.from \notin acks[y.msg]
      /\ acks \in [Msg -> SUBSET Host]
    BY DEF TruthfulPacket, Packet, TypeOK, MulticastTypes
<1>3. ~ (y.msg = x.msg /\ y.from = x.from)
    BY <1>1, <1>2, SamePacket
<1> QED
    BY <1>1, <1>2, <1>3

\* An ack that is not the last one of its message is counted.
LEMMA MessagesAckmsg ==
    ASSUME TypeOK, MessageInv, NEW h \in Host, NEW x \in msg_buf[h],
           HandleAckmsg(h, x), acks'[x.msg] # Others(h),
           sent' = sent, msg_buf' = [msg_buf EXCEPT ![h] = {}]
    PROVE  MessageInv'
<1>1. /\ x.type = "ack"
      /\ acks' = [acks EXCEPT ![x.msg] = @ \cup {x.from}]
      /\ network' = network \cup {}
      /\ UNCHANGED <<sent, deliveryQueue, deliverable, deliveredMessage>>
    BY DEF HandleAckmsg, Send
<1>2. /\ x.msg \in Msg /\ x.from \in Host /\ h = x.msg[1] /\ x.from # h
      /\ ~ Acked(x.msg) /\ Holds(x.from, x.msg)
    BY <1>1, AckInHand
<1>3. acks \in [Msg -> SUBSET Host]
    BY DEF TypeOK, MulticastTypes
<1>4. \A n \in Msg : Acked(n)' <=> Acked(n)
    BY <1>1, <1>2, <1>3 DEF Acked
<1>5. \A k, n : Holds(k, n)' <=> Holds(k, n)
    BY <1>1 DEF Holds
<1>6. ASSUME NEW y \in Packet, TruthfulPacket(y), y # x PROVE TruthfulPacket(y)'
  <2>1. y.msg \in Msg /\ y.from \in Host /\ y.to \in Host
      BY DEF Packet
  <2>2. y.type = "ack" => y.from \notin acks'[y.msg]
      BY <1>6, OtherAck
  <2> QED
      BY <1>1, <1>4, <1>5, <1>6, <2>1, <2>2 DEF TruthfulPacket
<1>7. TruthfulPackets'
  <2>1. Answered(h, x, {})
      BY <1>1 DEF Answered
  <2> QED
      BY <1>6, <2>1, PacketsAfter
<1>8. MessagesHeld'
  <2>1. ASSUME NEW k \in Host, NEW n \in Msg, k \in acks'[n]
        PROVE  k # n[1] /\ Holds(k, n)
    <3>1. k \in acks[n] \/ (n = x.msg /\ k = x.from)
        BY <1>1, <1>3, <2>1
    <3> QED
        BY <1>2, <3>1 DEF MessageInv, MessagesHeld
  <2> QED
      BY <1>1, <1>4, <1>5, <2>1 DEF MessageInv, MessagesHeld
<1> QED
    BY <1>7, <1>8 DEF MessageInv

\* The last ack is counted, and the final number is sent and applied.
LEMMA MessagesLastAck ==
    ASSUME TypeOK, MessageInv, NEW h \in Host, NEW x \in msg_buf[h],
           HandleAckmsg(h, x), acks'[x.msg] = Others(h),
           sent' = sent, msg_buf' = [msg_buf EXCEPT ![h] = {}]
    PROVE  MessageInv'
<1>1. PICK new \in SUBSET Packet :
        /\ new = ToOthers("seq", x.msg, h)
        /\ \A y \in new : /\ y.type = "seq" /\ y.msg = x.msg /\ y.from = h
                          /\ y.to \in Host /\ y.to # h
  <2>1. x.msg \in Msg
      BY PacketInHand
  <2> QED
      BY <2>1, BroadcastFacts
<1>2. /\ x.type = "ack"
      /\ acks' = [acks EXCEPT ![x.msg] = @ \cup {x.from}]
      /\ network' = network \cup new
      /\ DeliverWith(h, x.msg)
      /\ sent' = sent
    BY <1>1 DEF HandleAckmsg, Send
<1>3. /\ x.msg \in Msg /\ x.from \in Host /\ h = x.msg[1] /\ x.from # h
      /\ ~ Acked(x.msg) /\ Holds(x.from, x.msg)
      /\ x.msg \in deliveryQueue[h]
      /\ x.msg \in deliveryQueue[x.from]
    BY <1>2, AckInHand
<1>4. /\ acks \in [Msg -> SUBSET Host]
      /\ deliverable \in [Host -> SUBSET Msg]
      /\ deliveryQueue \in [Host -> SUBSET Msg]
    BY DEF TypeOK, MulticastTypes
<1>5. /\ Acked(x.msg)'
      /\ \A n \in Msg \ {x.msg} : Acked(n)' <=> Acked(n)
    BY <1>2, <1>3, <1>4 DEF Acked
<1>6. /\ \A k \in Host, n \in Msg : Holds(k, n)' <=> Holds(k, n)
      /\ \A k \in Host \ {h} :
           /\ deliveryQueue'[k] = deliveryQueue[k]
           /\ deliverable'[k] = deliverable[k]
           /\ deliveredMessage'[k] = deliveredMessage[k]
      /\ \A n \in Msg : n \in deliveryQueue[h] \ (deliverable[h] \cup {x.msg})
                          => n \in deliveryQueue'[h] \ deliverable'[h]
      /\ \A n \in Msg : n \in deliverable'[h] \/ n \in deliveredMessage'[h]
                          => n = x.msg \/ n \in deliverable[h] \/ n \in deliveredMessage[h]
    BY <1>2, <1>3, Delivering
<1>7. ASSUME NEW y \in Packet, TruthfulPacket(y), y # x PROVE TruthfulPacket(y)'
  <2>1. y.msg \in Msg /\ y.from \in Host /\ y.to \in Host
      BY DEF Packet
  <2>2. CASE y.type = "data"
      BY <1>2, <1>6, <1>7, <2>1, <2>2 DEF TruthfulPacket
  <2>3. CASE y.type = "ack"
    <3>1. y.from \notin acks'[y.msg]
        BY <1>7, <2>3, OtherAck
    <3>2. y.from # y.msg[1] /\ \A k \in Host : y.msg \notin deliverable[k]
        BY <1>7, <2>3, AckUnderway
    <3>3. y.msg \in deliveryQueue[y.from] /\ y.to = y.msg[1] /\ y.from # y.to
        BY <1>7, <2>3 DEF TruthfulPacket
    <3>4. y.from = h => y.msg # x.msg
        BY <1>3, <3>2
    <3>5. y.msg \in deliveryQueue'[y.from]
        BY <1>6, <2>1, <3>2, <3>3, <3>4
    <3> QED
        BY <2>3, <3>1, <3>3, <3>5 DEF TruthfulPacket
  <2>4. CASE y.type = "seq"
    <3>1. /\ y.from = y.msg[1] /\ y.to # y.from
          /\ Acked(y.msg) /\ y.msg \in deliveryQueue[y.to] \ deliverable[y.to]
        BY <1>7, <2>4 DEF TruthfulPacket
    <3>2. y.msg # x.msg
        BY <1>3, <3>1
    <3>3. Acked(y.msg)'
        BY <1>5, <2>1, <3>1, <3>2
    <3>4. y.msg \in deliveryQueue'[y.to] \ deliverable'[y.to]
        BY <1>6, <2>1, <3>1, <3>2
    <3> QED
        BY <2>4, <3>1, <3>3, <3>4 DEF TruthfulPacket
  <2> QED
      BY <2>2, <2>3, <2>4 DEF TruthfulPacket
<1>8. ASSUME NEW y \in new PROVE TruthfulPacket(y)' /\ ~ TruthfulPacket(y)
  <2>1. y.type = "seq" /\ y.msg = x.msg /\ y.from = h /\ y.to \in Host /\ y.to # h
      BY <1>1
  <2>2. y.to \in acks[x.msg] \/ y.to = x.from
      BY <1>2, <1>3, <1>4, <2>1 DEF Others
  <2>3. Holds(y.to, x.msg)
      BY <1>3, <2>1, <2>2 DEF MessageInv, MessagesHeld
  <2>4. x.msg \notin deliverable[y.to] /\ x.msg \notin deliveredMessage[y.to]
      BY <1>3, <2>1 DEF MessageInv, MessagesHeld
  <2>5. x.msg \in deliveryQueue'[y.to] \ deliverable'[y.to]
      BY <1>6, <2>1, <2>3, <2>4 DEF Holds
  <2>6. TruthfulPacket(y)'
      BY <1>3, <1>5, <2>1, <2>5 DEF TruthfulPacket
  <2>7. ~ TruthfulPacket(y)
      BY <1>3, <2>1 DEF TruthfulPacket
  <2> QED
      BY <2>6, <2>7
<1>9. TruthfulPackets'
  <2>1. Answered(h, x, new)
      BY <1>2 DEF Answered
  <2> QED
      BY <1>7, <1>8, <2>1, PacketsAfter
<1>10. MessagesHeld'
  <2>1. ASSUME NEW k \in Host, NEW n \in Msg, k \in acks'[n]
        PROVE  k # n[1] /\ Holds(k, n)
    <3>1. k \in acks[n] \/ (n = x.msg /\ k = x.from)
        BY <1>2, <1>4, <2>1
    <3> QED
        BY <1>3, <3>1 DEF MessageInv, MessagesHeld
  <2>2. ASSUME NEW k \in Host, NEW n \in Msg, n \in deliverable'[k] \/ n \in deliveredMessage'[k]
        PROVE  Acked(n)'
    <3>1. n = x.msg \/ n \in deliverable[k] \/ n \in deliveredMessage[k]
        BY <1>6, <2>2
    <3> QED
        BY <1>5, <3>1 DEF MessageInv, MessagesHeld
  <2>3. \A n \in Msg : n[2] =< sent'[n[1]] => Holds(n[1], n)'
      BY <1>2, <1>6, MsgFacts DEF MessageInv, MessagesHeld
  <2>4. \A k \in Host, n \in Msg : Holds(k, n)' => n[2] =< sent'[n[1]]
      BY <1>2, <1>6 DEF MessageInv, MessagesHeld
  <2> QED
      BY <1>6, <2>1, <2>2, <2>3, <2>4 DEF MessagesHeld
<1> QED
    BY <1>9, <1>10 DEF MessageInv

\* A final number is applied.
LEMMA MessagesSeqmsg ==
    ASSUME TypeOK, MessageInv, NEW h \in Host, NEW x \in msg_buf[h],
           HandleSeqmsg(h, x), sent' = sent, msg_buf' = [msg_buf EXCEPT ![h] = {}]
    PROVE  MessageInv'
<1>1. /\ x.type = "seq"
      /\ DeliverWith(h, x.msg)
      /\ network' = network \cup {}
      /\ UNCHANGED <<sent, acks>>
    BY DEF HandleSeqmsg, Send
<1>2. /\ x \in Packet /\ x.msg \in Msg /\ x.from \in Host /\ x.to = h
      /\ x.from = x.msg[1] /\ x.from # h
      /\ Acked(x.msg)
      /\ x.msg \in deliveryQueue[h] \ deliverable[h]
    BY <1>1, PacketInHand DEF TruthfulPacket
<1>3. \A n : Acked(n)' <=> Acked(n)
    BY <1>1 DEF Acked
<1>4. /\ \A k \in Host, n \in Msg : Holds(k, n)' <=> Holds(k, n)
      /\ \A k \in Host \ {h} :
           /\ deliveryQueue'[k] = deliveryQueue[k]
           /\ deliverable'[k] = deliverable[k]
           /\ deliveredMessage'[k] = deliveredMessage[k]
      /\ \A n \in Msg : n \in deliveryQueue[h] \ (deliverable[h] \cup {x.msg})
                          => n \in deliveryQueue'[h] \ deliverable'[h]
      /\ \A n \in Msg : n \in deliverable'[h] \/ n \in deliveredMessage'[h]
                          => n = x.msg \/ n \in deliverable[h] \/ n \in deliveredMessage[h]
    BY <1>1, <1>2, Delivering
<1>5. ASSUME NEW y \in Packet, TruthfulPacket(y), y # x PROVE TruthfulPacket(y)'
  <2>1. y.msg \in Msg /\ y.from \in Host /\ y.to \in Host
      BY DEF Packet
  <2>2. CASE y.type = "data"
      BY <1>1, <1>4, <1>5, <2>1, <2>2 DEF TruthfulPacket
  <2>3. CASE y.type = "ack"
    <3>1. /\ y.to = y.msg[1] /\ y.from # y.to
          /\ y.from \notin acks[y.msg] /\ y.msg \in deliveryQueue[y.from]
        BY <1>5, <2>3 DEF TruthfulPacket
    <3>2. ~ Acked(y.msg) /\ \A k \in Host : y.msg \notin deliverable[k]
        BY <1>5, <2>3, AckUnderway
    <3>3. y.msg \in deliveryQueue'[y.from]
        BY <1>2, <1>4, <2>1, <3>1, <3>2
    <3> QED
        BY <1>1, <2>3, <3>1, <3>3 DEF TruthfulPacket
  <2>4. CASE y.type = "seq"
    <3>1. /\ y.from = y.msg[1] /\ y.to # y.from
          /\ Acked(y.msg) /\ y.msg \in deliveryQueue[y.to] \ deliverable[y.to]
        BY <1>5, <2>4 DEF TruthfulPacket
    <3>2. ~ (y.to = h /\ y.msg = x.msg)
        BY <1>1, <1>2, <1>5, <2>4, <3>1, SamePacket
    <3>3. y.msg \in deliveryQueue'[y.to] \ deliverable'[y.to]
        BY <1>4, <2>1, <3>1, <3>2
    <3> QED
        BY <1>3, <2>4, <3>1, <3>3 DEF TruthfulPacket
  <2> QED
      BY <2>2, <2>3, <2>4 DEF TruthfulPacket
<1>6. TruthfulPackets'
  <2>1. Answered(h, x, {})
      BY <1>1 DEF Answered
  <2> QED
      BY <1>5, <2>1, PacketsAfter
<1>7. MessagesHeld'
  <2>1. ASSUME NEW k \in Host, NEW n \in Msg, n \in deliverable'[k] \/ n \in deliveredMessage'[k]
        PROVE  Acked(n)
    <3>1. n = x.msg \/ n \in deliverable[k] \/ n \in deliveredMessage[k]
        BY <1>4, <2>1
    <3> QED
        BY <1>2, <3>1 DEF MessageInv, MessagesHeld
  <2>2. \A n \in Msg : n[2] =< sent'[n[1]] => Holds(n[1], n)'
      BY <1>1, <1>4, MsgFacts DEF MessageInv, MessagesHeld
  <2>3. \A k \in Host, n \in Msg :
          /\ Holds(k, n)' => n[2] =< sent'[n[1]]
          /\ k \in acks'[n] => k # n[1] /\ Holds(k, n)'
      BY <1>1, <1>4 DEF MessageInv, MessagesHeld
  <2> QED
      BY <1>3, <2>1, <2>2, <2>3 DEF MessagesHeld
<1> QED
    BY <1>6, <1>7 DEF MessageInv

\* Whatever packet is handled.
LEMMA MessagesHandle ==
    ASSUME TypeOK, MessageInv, NEW h \in Host, Handle(h)
    PROVE  MessageInv'
<1>1. PICK x \in msg_buf[h] : HandleDatamsg(h, x) \/ HandleAckmsg(h, x) \/ HandleSeqmsg(h, x)
    BY DEF Handle
<1>2. sent' = sent /\ msg_buf' = [msg_buf EXCEPT ![h] = {}]
    BY DEF Handle
<1>3. CASE HandleDatamsg(h, x)
    BY <1>2, <1>3, MessagesDatamsg
<1>4. CASE HandleAckmsg(h, x) /\ acks'[x.msg] # Others(h)
    BY <1>2, <1>4, MessagesAckmsg
<1>5. CASE HandleAckmsg(h, x) /\ acks'[x.msg] = Others(h)
    BY <1>2, <1>5, MessagesLastAck
<1>6. CASE HandleSeqmsg(h, x)
    BY <1>2, <1>6, MessagesSeqmsg
<1> QED
    BY <1>1, <1>3, <1>4, <1>5, <1>6


-----------------------------------------------------------------------------
(***************************************************************************)
(* What a step leaves alone.                                               *)
(***************************************************************************)

\* Thread t goes to a place of its own.
Goes(t, place) ==
    /\ pc' = [pc EXCEPT ![t] = place]
    /\ place \in IF t[2] = "main" THEN {"multicast"} \cup Range(Steps) ELSE ListenerPC

LEMMA GoesFacts ==
    ASSUME Places, NEW t \in Thread, NEW place, Goes(t, place)
    PROVE  /\ Places'
           /\ pc'[t] = place
           /\ \A u \in Thread \ {t} : pc'[u] = pc[u]
<1>1. place \in {"multicast"} \cup ListenerPC
    BY DEF Goes, ListenerPC
<1>2. /\ pc' \in [Thread -> {"multicast"} \cup ListenerPC]
      /\ pc'[t] = place
      /\ \A u \in Thread \ {t} : pc'[u] = pc[u]
    BY <1>1 DEF Goes, Places
<1>3. ASSUME NEW h \in Host
      PROVE  /\ pc'[Main(h)] \in {"multicast"} \cup Range(Steps)
             /\ pc'[Listener(h)] \in ListenerPC
    BY <1>2, ThreadFacts DEF Goes, Places
<1> QED
    BY <1>2, <1>3 DEF Places

LEMMA TypeParts ==
    /\ TypeOK <=> MulticastTypes /\ StateTypes /\ ChannelTypes /\ MarkerTypes /\ Places
    /\ MulticastTypes' /\ StateTypes' /\ ChannelTypes' /\ MarkerTypes' /\ Places' => TypeOK'
    BY DEF TypeOK

\* The part of the invariant that speaks of threads and markers.
MarkerInv ==
    /\ ThreadsInOrder
    /\ MarkersSentOnce
    /\ ShortIds => MarkersReadOnce

LEMMA MulticastTypesFrame ==
    MulticastTypes /\ UNCHANGED multicastVars => MulticastTypes'
    BY DEF MulticastTypes, multicastVars

LEMMA StateTypesFrame == StateTypes /\ UNCHANGED stateVars => StateTypes'
    BY DEF StateTypes, stateVars

LEMMA ChannelTypesFrame ==
    ChannelTypes /\ UNCHANGED <<bufferVars, channelVars>> => ChannelTypes'
    BY DEF ChannelTypes, bufferVars, channelVars

LEMMA MarkerTypesFrame == MarkerTypes /\ UNCHANGED markerVars => MarkerTypes'
<1> SUFFICES ASSUME MarkerTypes, UNCHANGED markerVars PROVE MarkerTypes'
    OBVIOUS
<1>1. backlog' = backlog /\ buf' = buf /\ alreadyReceivedProc' = alreadyReceivedProc /\ due' = due
    BY DEF markerVars
<1> QED
    BY <1>1, Zenon DEF MarkerTypes

LEMMA PlacesFrame == Places /\ UNCHANGED pc => Places'
    BY DEF Places

\* Markers stay as they are when no marker moves, no listener gets a marker or
\* stops.
LEMMA ReadFrame ==
    ASSUME MarkersReadOnce, UNCHANGED markerVars,
           \A h \in Host : /\ pc'[Listener(h)] = "marker" => pc[Listener(h)] = "marker"
                           /\ Finished(h)' => Finished(h)
    PROVE  MarkersReadOnce'
<1> USE DEF MarkersReadOnce, markerVars
<1>1. \A p, h : MarkerSent(p, h)' <=> MarkerSent(p, h)
    BY DEF MarkerSent
<1>2. \A h, markers : Missing(h, markers)' <=> Missing(h, markers)
    BY DEF Missing
<1> QED
    BY <1>1, <1>2

LEMMA SentFrame ==
    MarkersSentOnce /\ UNCHANGED <<backlog, due>> => MarkersSentOnce'
    BY DEF MarkersSentOnce, MarkerSent

LEMMA MarkersFrame ==
    ASSUME MarkerInv, UNCHANGED <<markerVars, pc, amInitiator, sent>>
    PROVE  MarkerInv'
<1>1. ThreadsInOrder'
    BY DEF MarkerInv, ThreadsInOrder, markerVars
<1>2. MarkersSentOnce'
    BY SentFrame DEF MarkerInv, markerVars
<1>3. ShortIds => MarkersReadOnce'
    BY ReadFrame DEF MarkerInv, markerVars, Finished
<1> QED
    BY <1>1, <1>2, <1>3 DEF MarkerInv, ShortIds

\* The part of the invariant that speaks of the copies, and of what is recorded.
CopyInv == CopiesHeld /\ RecordedNotInState

\* The packets recorded on the way to h.
LEMMA RecordedPackets ==
    ASSUME ChannelTypes, NEW h \in Host, NEW x
    PROVE  x \in inboundMessageBuffer[h] \cup UNION Range(inboundChannelState[h])
             <=> x \in inboundMessageBuffer[h] \/ \E p \in Host : x \in inboundChannelState[h][p]
    BY DEF ChannelTypes, Range

\* No copy changes when messages are only added to what hosts hold.
LEMMA CopiesFrame ==
    ASSUME CopyInv,
           UNCHANGED <<locsnap, pc, amInitiator, recordMessages,
                       inboundMessageBuffer, inboundChannelState>>,
           \A h \in Host : \A m : Holds(h, m) => Holds(h, m)',
           \A h \in Host : deliveredMessage[h] \subseteq deliveredMessage'[h]
    PROVE  CopyInv'
<1>1. \A h : Held(h)' = Held(h) /\ (Copied(h)' <=> Copied(h))
    BY DEF Held, Copied
<1>2. Initiator \in Host
    BY CountAssumption
<1>3. RecordedNotInState'
    BY <1>1 DEF CopyInv, RecordedNotInState
<1>4. CopiesHeld'
  <2>1. \A h \in Host : \A m \in Held(h)' : Holds(h, m)'
      BY <1>1 DEF CopyInv, CopiesHeld
  <2>2. \A h \in Host :
         \/ recordMessages'[h]
         \/ inboundMessageBuffer'[h] # {}
         \/ \E p \in Host : inboundChannelState'[h][p] # {}
         => Copied(h)'
      BY <1>1 DEF CopyInv, CopiesHeld
  <2>3. \A k \in 1 .. SnapshotAfter :
         /\ pc'[Main(Initiator)] = "copyDelivered" =>
              \/ <<Initiator, k>> \in locsnap'[Initiator].deliveryQueue
              \/ <<Initiator, k>> \in deliveredMessage'[Initiator]
         /\ pc'[Main(Initiator)] = "startRecording" \/ amInitiator'[Initiator] =>
              <<Initiator, k>> \in Held(Initiator)'
      BY <1>1, <1>2 DEF CopyInv, CopiesHeld
  <2> QED
      BY <2>1, <2>2, <2>3 DEF CopiesHeld
<1> QED
    BY <1>3, <1>4 DEF CopyInv

LEMMA InvParts ==
    /\ SnapshotInv <=> TypeOK /\ MarkerInv /\ MessageInv /\ CopyInv
    /\ TypeOK' /\ MarkerInv' /\ MessageInv' /\ CopyInv' => SnapshotInv'
    BY DEF SnapshotInv, ShortIds, MarkerInv, MessageInv, CopyInv


-----------------------------------------------------------------------------
(***************************************************************************)
(* The steps of the multicast.                                             *)
(***************************************************************************)
LEMMA SendTypes ==
    ASSUME ChannelTypes, NEW h \in Host, NEW S \in SUBSET Packet, Send(h, S)
    PROVE  outboundMessageBuffer' \in [Host -> SUBSET Packet]
    BY DEF ChannelTypes, Send

LEMMA InvMulticast ==
    ASSUME SnapshotInv, NEW h \in Host, Multicast(h)
    PROVE  SnapshotInv'
<1>1. /\ MulticastTypes /\ StateTypes /\ ChannelTypes /\ MarkerTypes /\ Places
      /\ TypeOK /\ MarkerInv /\ MessageInv /\ CopyInv
    BY InvParts, TypeParts
<1>2. /\ sent[h] < Count[h] /\ sent' = [sent EXCEPT ![h] = @ + 1]
      /\ sent \in [Host -> Nat] /\ sent[h] \in Nat /\ Count[h] \in Nat
      /\ SnapshotAfter \in Nat /\ Initiator \in Host
    BY <1>1, CountAssumption DEF Multicast, MulticastTypes
<1>3. PICK m \in Msg : m = <<h, sent[h] + 1>>
  <2>1. sent[h] + 1 \in 1 .. Count[h]
      BY <1>2
  <2> QED
      BY <2>1, MsgFacts
<1>4. /\ deliveryQueue' = [deliveryQueue EXCEPT ![h] = @ \cup {m}]
      /\ Send(h, ToOthers("data", m, h))
      /\ pc[Main(h)] = "multicast"
      /\ pc' = [pc EXCEPT ![Main(h)] = IF m = <<Initiator, SnapshotAfter>> THEN Steps[1] ELSE @]
      /\ UNCHANGED <<deliverable, deliveredMessage, acks, msg_buf, channelVars, markerVars,
                     stateVars, inboundMessageBuffer>>
    BY <1>3 DEF Multicast
<1>5. ToOthers("data", m, h) \subseteq Packet
    BY BroadcastFacts
<1>6. MessageInv'
    BY <1>1, MessagesMulticast
<1> DEFINE place == IF m = <<Initiator, SnapshotAfter>> THEN Steps[1] ELSE "multicast"
<1>7. /\ Goes(Main(h), place)
      /\ place # "multicast" <=> h = Initiator /\ sent[h] + 1 = SnapshotAfter
      /\ place \in {"multicast", "copyQueue"}
    BY <1>3, <1>4, StepFacts, ThreadFacts DEF Goes, Copying
<1> HIDE DEF place
<1>8. /\ Places'
      /\ pc'[Main(h)] = place
      /\ \A u \in Thread \ {Main(h)} : pc'[u] = pc[u]
      /\ \A g \in Host : pc'[Listener(g)] = pc[Listener(g)]
      /\ \A g \in Host \ {h} : pc'[Main(g)] = pc[Main(g)]
    BY <1>1, <1>7, GoesFacts, ThreadFacts
<1>9. TypeOK'
  <2>1. sent' \in [Host -> Nat] /\ \A g \in Host : sent'[g] <= Count[g]
      BY <1>1, <1>2 DEF MulticastTypes
  <2>2. deliveryQueue' \in [Host -> SUBSET Msg]
      BY <1>1, <1>4 DEF MulticastTypes
  <2>3. \A g \in Host : /\ deliverable'[g] \subseteq deliveryQueue'[g]
                        /\ deliveryQueue'[g] \cap deliveredMessage'[g] = {}
    <3>1. m \notin deliveredMessage[h]
      <4>1. m[1] = h /\ m[2] = sent[h] + 1
          BY <1>3
      <4>2. ~ (m[2] =< sent[m[1]])
          BY <1>2, <4>1
      <4> QED
          BY <1>1, <4>2 DEF MessageInv, MessagesHeld, Holds
    <3> QED
        BY <1>1, <1>4, <3>1 DEF MulticastTypes
  <2>4. network' \subseteq Packet
      BY <1>1, <1>4, <1>5 DEF MulticastTypes, Send
  <2>5. MulticastTypes'
      BY <1>1, <1>4, <2>1, <2>2, <2>3, <2>4 DEF MulticastTypes
  <2>6. ChannelTypes'
      BY <1>1, <1>4, <1>5, SendTypes DEF ChannelTypes, channelVars
  <2>7. StateTypes' /\ MarkerTypes'
      BY <1>1, <1>4, StateTypesFrame, MarkerTypesFrame
  <2> QED
      BY <1>8, <2>5, <2>6, <2>7, TypeParts
<1>10. MarkerInv'
  <2>1. ThreadsInOrder'
    <3>1. ThreadsInOrder /\ UNCHANGED <<amInitiator, backlog>>
        BY <1>1, <1>4 DEF MarkerInv, stateVars, markerVars
    <3>2. \A g \in Others(Initiator) : pc'[Main(g)] = "multicast" /\ ~ amInitiator'[g]
        BY <1>7, <1>8, <3>1 DEF ThreadsInOrder, Others
    <3>3. pc'[Main(Initiator)] # "multicast" => SnapshotAfter =< sent'[Initiator]
      <4>1. CASE h = Initiator
          BY <1>2, <1>4, <1>7, <1>8, <4>1
      <4>2. CASE h # Initiator
          BY <1>2, <1>8, <3>1, <4>2 DEF ThreadsInOrder
      <4> QED
          BY <4>1, <4>2
    <3>4. amInitiator'[Initiator] <=>
            SnapshotAfter =< sent'[Initiator] /\ pc'[Main(Initiator)] \notin Copying
      <4>1. CASE h = Initiator
        <5>1. pc[Main(Initiator)] \notin Copying
            BY <1>4, <4>1 DEF Copying
        <5>2. pc'[Main(Initiator)] \notin Copying <=> sent[Initiator] + 1 # SnapshotAfter
            BY <1>7, <1>8, <4>1 DEF Copying
        <5>3. sent'[Initiator] = sent[Initiator] + 1
            BY <1>2, <4>1
        <5>4. amInitiator'[Initiator] <=> SnapshotAfter =< sent[Initiator]
            BY <3>1, <5>1 DEF ThreadsInOrder
        <5> QED
            BY <1>2, <4>1, <5>2, <5>3, <5>4
      <4>2. CASE h # Initiator
          BY <1>2, <1>8, <3>1, <4>2 DEF ThreadsInOrder
      <4> QED
          BY <4>1, <4>2
    <3>5. /\ pc'[Listener(Initiator)] \notin Range(Steps)
          /\ \A g \in Host :
               pc'[Listener(g)] # "first" \/ backlog'[g] # <<>> => amInitiator'[Initiator]
        BY <1>2, <1>8, <3>1 DEF ThreadsInOrder
    <3> QED
        BY <3>2, <3>3, <3>4, <3>5 DEF ThreadsInOrder
  <2>2. MarkersSentOnce'
      BY <1>1, <1>4, SentFrame DEF MarkerInv, markerVars
  <2>3. ShortIds => MarkersReadOnce'
      BY <1>1, <1>4, <1>8, ReadFrame DEF MarkerInv, Finished
  <2> QED
      BY <2>1, <2>2, <2>3 DEF MarkerInv, ShortIds
<1>11. CopyInv'
  <2>1. UNCHANGED <<locsnap, amInitiator, recordMessages, inboundMessageBuffer,
                    inboundChannelState, deliveredMessage>>
      BY <1>4 DEF stateVars, channelVars
  <2>2. \A g : Held(g)' = Held(g)
      BY <2>1 DEF Held
  <2>3. \A g \in Host : Copied(g)' <=> Copied(g)
      BY <1>8, <2>1 DEF Copied
  <2>4. \A g \in Host : \A n : Holds(g, n) => Holds(g, n)'
      BY <1>1, <1>4 DEF Holds, MulticastTypes
  <2>5. RecordedNotInState'
      BY <1>1, <2>1, <2>2 DEF CopyInv, RecordedNotInState
  <2>6. \A g \in Host : \A n \in Held(g)' : Holds(g, n)'
      BY <1>1, <2>2, <2>4 DEF CopyInv, CopiesHeld
  <2>7. \A g \in Host :
         \/ recordMessages'[g]
         \/ inboundMessageBuffer'[g] # {}
         \/ \E p \in Host : inboundChannelState'[g][p] # {}
         => Copied(g)'
      BY <1>1, <2>1, <2>3 DEF CopyInv, CopiesHeld
  <2>8. ASSUME NEW k \in 1 .. SnapshotAfter
        PROVE  /\ pc'[Main(Initiator)] = "copyDelivered" =>
                    \/ <<Initiator, k>> \in locsnap'[Initiator].deliveryQueue
                    \/ <<Initiator, k>> \in deliveredMessage'[Initiator]
               /\ pc'[Main(Initiator)] = "startRecording" \/ amInitiator'[Initiator] =>
                    <<Initiator, k>> \in Held(Initiator)'
    <3>1. pc'[Main(Initiator)] \in {"copyDelivered", "startRecording"} =>
            pc'[Main(Initiator)] = pc[Main(Initiator)]
        BY <1>2, <1>7, <1>8
    <3> QED
        BY <1>1, <2>1, <2>2, <3>1 DEF CopyInv, CopiesHeld
  <2> QED
      BY <2>5, <2>6, <2>7, <2>8 DEF CopyInv, CopiesHeld
<1> QED
    BY <1>6, <1>9, <1>10, <1>11, InvParts

LEMMA InvReceive ==
    ASSUME SnapshotInv, NEW x \in network, Receive(x.to, x)
    PROVE  SnapshotInv'
<1>1. /\ MulticastTypes /\ StateTypes /\ ChannelTypes /\ MarkerTypes /\ Places
      /\ TypeOK /\ MarkerInv /\ MessageInv /\ CopyInv
    BY InvParts, TypeParts
<1>2. PICK h \in Host : h = x.to
    BY <1>1 DEF MulticastTypes, Packet
<1>3. /\ msg_buf' = [msg_buf EXCEPT ![h] = {x}]
      /\ network' = network \ {x}
      /\ inboundMessageBuffer' =
           [inboundMessageBuffer EXCEPT ![h] = IF recordMessages[h] THEN @ \cup {x} ELSE @]
      /\ UNCHANGED <<sent, deliveryQueue, deliverable, deliveredMessage, acks,
                     outboundMessageBuffer, channelVars, markerVars, stateVars, pc>>
      /\ x \in Packet
    BY <1>1, <1>2 DEF Receive, MulticastTypes
<1>4. TypeOK'
  <2>1. MulticastTypes'
      BY <1>1, <1>3 DEF MulticastTypes
  <2>2. ChannelTypes'
      BY <1>1, <1>3 DEF ChannelTypes, channelVars
  <2> QED
      BY <1>1, <1>3, <2>1, <2>2, TypeParts, StateTypesFrame, MarkerTypesFrame, PlacesFrame
<1>5. MarkerInv'
    BY <1>1, <1>3, MarkersFrame DEF stateVars
<1>6. MessageInv'
    BY <1>1, MessagesReceive
<1>7. CopyInv'
  <2>1. UNCHANGED <<locsnap, amInitiator, recordMessages, inboundChannelState, pc,
                    deliveryQueue, deliveredMessage>>
      BY <1>3 DEF stateVars, channelVars
  <2>2. \A g : Held(g)' = Held(g) /\ (Copied(g)' <=> Copied(g))
      BY <2>1 DEF Held, Copied
  <2>3. \A g, n : Holds(g, n)' <=> Holds(g, n)
      BY <2>1 DEF Holds
  <2>4. ASSUME NEW g \in Host
        PROVE  /\ inboundMessageBuffer'[g] \subseteq inboundMessageBuffer[g] \cup {x}
               /\ inboundMessageBuffer'[g] # inboundMessageBuffer[g] => g = h /\ recordMessages[h]
      BY <1>1, <1>3 DEF ChannelTypes
  <2>5. \A g \in Host :
         \/ recordMessages'[g]
         \/ inboundMessageBuffer'[g] # {}
         \/ \E p \in Host : inboundChannelState'[g][p] # {}
         => Copied(g)'
    <3> TAKE g \in Host
    <3>1. CASE inboundMessageBuffer'[g] = inboundMessageBuffer[g]
        BY <1>1, <2>1, <2>2, <3>1 DEF CopyInv, CopiesHeld
    <3>2. CASE inboundMessageBuffer'[g] # inboundMessageBuffer[g]
        BY <1>1, <2>2, <2>4, <3>2 DEF CopyInv, CopiesHeld
    <3> QED
        BY <3>1, <3>2
  <2>6. CopiesHeld'
      BY <1>1, <2>1, <2>2, <2>3, <2>5 DEF CopyInv, CopiesHeld
  <2>7. x.type = "data" => x.msg \notin Held(h)
      BY <1>1, <1>2 DEF MessageInv, TruthfulPackets, TruthfulPacket, CopyInv, CopiesHeld
  <2>8. RecordedNotInState'
    <3> SUFFICES ASSUME NEW g \in Host,
                        NEW y \in inboundMessageBuffer'[g] \cup UNION Range(inboundChannelState'[g]),
                        y.type = "data"
                 PROVE  y.msg \notin Held(g)
        BY <2>2 DEF RecordedNotInState
    <3>1. y \in inboundMessageBuffer[g] \cup UNION Range(inboundChannelState[g]) \/ (g = h /\ y = x)
        BY <2>1, <2>4
    <3> QED
        BY <1>1, <2>7, <3>1 DEF CopyInv, RecordedNotInState
  <2> QED
      BY <2>6, <2>8 DEF CopyInv
<1> QED
    BY <1>4, <1>5, <1>6, <1>7, InvParts

LEMMA InvHandle ==
    ASSUME SnapshotInv, NEW h \in Host, Handle(h)
    PROVE  SnapshotInv'
<1>1. /\ MulticastTypes /\ StateTypes /\ ChannelTypes /\ MarkerTypes /\ Places
      /\ TypeOK /\ MarkerInv /\ MessageInv /\ CopyInv
    BY InvParts, TypeParts
<1>2. PICK x \in msg_buf[h] : HandleDatamsg(h, x) \/ HandleAckmsg(h, x) \/ HandleSeqmsg(h, x)
    BY DEF Handle
<1>3. /\ msg_buf' = [msg_buf EXCEPT ![h] = {}]
      /\ UNCHANGED <<sent, inboundMessageBuffer, channelVars, markerVars, stateVars, pc>>
    BY DEF Handle
<1>4. x \in Packet /\ x.msg \in Msg /\ x.from \in Host /\ x.to = h /\ TruthfulPacket(x)
    BY <1>1, PacketInHand
<1>5. PICK S \in SUBSET Packet : Send(h, S)
  <2>1. CASE HandleDatamsg(h, x)
      BY <1>4, <2>1 DEF HandleDatamsg, Packet
  <2>2. CASE HandleAckmsg(h, x)
      BY <1>4, <2>2, BroadcastFacts DEF HandleAckmsg
  <2>3. CASE HandleSeqmsg(h, x)
      BY <2>3 DEF HandleSeqmsg
  <2> QED
      BY <1>2, <2>1, <2>2, <2>3
<1>6. /\ deliveryQueue' \in [Host -> SUBSET Msg]
      /\ deliverable' \in [Host -> SUBSET Msg]
      /\ deliveredMessage' \in [Host -> SUBSET Msg]
      /\ \A k \in Host : /\ deliverable'[k] \subseteq deliveryQueue'[k]
                         /\ deliveryQueue'[k] \cap deliveredMessage'[k] = {}
      /\ \A k \in Host, n \in Msg : Holds(k, n) => Holds(k, n)'
      /\ acks' \in [Msg -> SUBSET Host]
  <2>1. CASE HandleDatamsg(h, x)
    <3>1. /\ deliveryQueue' = [deliveryQueue EXCEPT ![h] = @ \cup {x.msg}]
          /\ UNCHANGED <<deliverable, deliveredMessage, acks>>
          /\ x.msg \notin deliveredMessage[h]
        BY <1>4, <2>1 DEF HandleDatamsg, TruthfulPacket, Holds
    <3> QED
        BY <1>1, <1>4, <3>1 DEF MulticastTypes, Holds
  <2>2. CASE HandleAckmsg(h, x) /\ DeliverWith(h, x.msg)
    <3>1. x.msg \in deliveryQueue[h]
        BY <1>1, <2>2, AckInHand DEF HandleAckmsg
    <3>2. acks' \in [Msg -> SUBSET Host]
        BY <1>1, <1>4, <2>2 DEF HandleAckmsg, MulticastTypes
    <3> QED
        BY <1>1, <2>2, <3>1, <3>2, Delivering
  <2>3. CASE HandleAckmsg(h, x) /\ UNCHANGED <<deliveryQueue, deliverable, deliveredMessage>>
    <3>1. acks' \in [Msg -> SUBSET Host]
        BY <1>1, <1>4, <2>3 DEF HandleAckmsg, MulticastTypes
    <3> QED
        BY <1>1, <2>3, <3>1 DEF MulticastTypes, Holds
  <2>4. CASE HandleSeqmsg(h, x)
    <3>1. /\ x.msg \in deliveryQueue[h] /\ DeliverWith(h, x.msg) /\ acks' = acks
          /\ acks \in [Msg -> SUBSET Host]
        BY <1>1, <1>4, <2>4 DEF HandleSeqmsg, TruthfulPacket, MulticastTypes
    <3> QED
        BY <1>1, <3>1, Delivering
  <2> QED
      BY <1>2, <2>1, <2>2, <2>3, <2>4 DEF HandleAckmsg
<1>7. \A k \in Host : deliveredMessage[k] \subseteq deliveredMessage'[k]
  <2>1. CASE DeliverWith(h, x.msg)
      BY <1>1, <2>1 DEF DeliverWith, MulticastTypes
  <2>2. CASE deliveredMessage' = deliveredMessage
      BY <2>2
  <2> QED
      BY <1>2, <2>1, <2>2 DEF HandleDatamsg, HandleAckmsg, HandleSeqmsg
<1>8. TypeOK'
  <2>1. network' \subseteq Packet
      BY <1>1, <1>5 DEF Send, MulticastTypes
  <2>2. sent' = sent /\ msg_buf' \in [Host -> SUBSET Packet]
      BY <1>1, <1>3 DEF MulticastTypes
  <2>3. MulticastTypes'
      BY <1>1, <1>6, <2>1, <2>2 DEF MulticastTypes
  <2>4. ChannelTypes'
      BY <1>1, <1>3, <1>5, SendTypes DEF ChannelTypes, channelVars
  <2> QED
      BY <1>1, <1>3, <2>3, <2>4, TypeParts, StateTypesFrame, MarkerTypesFrame, PlacesFrame
<1>9. MarkerInv'
    BY <1>1, <1>3, MarkersFrame DEF stateVars
<1>10. MessageInv'
    BY <1>1, MessagesHandle
<1>11. CopyInv'
  <2>1. \A k \in Host : \A n : Holds(k, n) => Holds(k, n)'
      BY <1>1, <1>6 DEF Holds, MulticastTypes
  <2> QED
      BY <1>1, <1>3, <1>7, <2>1, CopiesFrame DEF stateVars, channelVars
<1> QED
    BY <1>8, <1>9, <1>10, <1>11, InvParts


-----------------------------------------------------------------------------
(***************************************************************************)
(* The steps that take a snapshot.                                         *)
(***************************************************************************)

\* A thread that copies the state of its host has not recorded anything.
LEMMA NothingRecorded ==
    ASSUME SnapshotInv, NEW t \in Thread, pc[t] \in Copying
    PROVE  /\ t[1] \in Host /\ t = Taker(t[1]) /\ ~ Copied(t[1])
           /\ ~ amInitiator[t[1]]
           /\ pc[Listener(t[1])] \in {"first"} \cup Copying
           /\ ~ recordMessages[t[1]] /\ inboundMessageBuffer[t[1]] = {}
           /\ \A p \in Host : inboundChannelState[t[1]][p] = {}
           /\ inboundMessageBuffer[t[1]] \cup UNION Range(inboundChannelState[t[1]]) = {}
<1>1. ThreadsInOrder /\ CopiesHeld /\ ChannelTypes
    BY InvParts, TypeParts DEF MarkerInv, CopyInv
<1>2. t[1] \in Host /\ t = Taker(t[1])
    BY <1>1, OnlyTaker, StepFacts
<1>3. ~ amInitiator[t[1]]
    BY <1>1, <1>2 DEF ThreadsInOrder, Taker, Others
<1>4. pc[Listener(t[1])] \in {"first"} \cup Copying
    BY <1>1, <1>2, <1>3 DEF ThreadsInOrder, Taker
<1>5. ~ Copied(t[1])
    BY <1>2, <1>3 DEF Copied, Taker
<1>6. /\ ~ recordMessages[t[1]] /\ inboundMessageBuffer[t[1]] = {}
      /\ \A p \in Host : inboundChannelState[t[1]][p] = {}
    BY <1>1, <1>2, <1>5 DEF CopiesHeld
<1>7. inboundMessageBuffer[t[1]] \cup UNION Range(inboundChannelState[t[1]]) = {}
    BY <1>1, <1>2, <1>6, RecordedPackets
<1> QED
    BY <1>2, <1>3, <1>4, <1>5, <1>6, <1>7

\* The initiator has multicast the message of -X when it takes the snapshot.
LEMMA InitiatorHolds ==
    ASSUME SnapshotInv, pc[Main(Initiator)] # "multicast", NEW k \in 1 .. SnapshotAfter
    PROVE  Holds(Initiator, <<Initiator, k>>)
<1>1. /\ SnapshotAfter =< sent[Initiator] /\ sent \in [Host -> Nat]
      /\ \A m \in Msg : m[2] =< sent[m[1]] => Holds(m[1], m)
    BY InvParts, TypeParts DEF MarkerInv, ThreadsInOrder, MulticastTypes, MessageInv, MessagesHeld
<1>2. Initiator \in Host /\ SnapshotAfter \in 1 .. Count[Initiator] /\ Count[Initiator] \in Nat
    BY CountAssumption
<1>3. k \in 1 .. Count[Initiator] /\ k =< sent[Initiator]
    BY <1>1, <1>2
<1>4. <<Initiator, k>> \in Msg
    BY <1>2, <1>3, MsgFacts
<1>5. <<Initiator, k>>[1] = Initiator /\ <<Initiator, k>>[2] = k
    OBVIOUS
<1> QED
    BY <1>1, <1>3, <1>4, <1>5

\* A copying thread that goes on to copy keeps the order of the threads.
LEMMA StillCopying ==
    ASSUME SnapshotInv, NEW t \in Thread, pc[t] \in Copying,
           NEW place \in Copying, Goes(t, place),
           UNCHANGED <<markerVars, amInitiator, sent>>
    PROVE  MarkerInv'
<1>1. Places /\ MarkerInv
    BY InvParts, TypeParts
<1>2. /\ pc'[t] = place
      /\ \A u \in Thread \ {t} : pc'[u] = pc[u]
    BY <1>1, GoesFacts
<1>3. \A h \in Host :
        /\ pc[Main(h)] = "multicast" <=> pc'[Main(h)] = "multicast"
        /\ pc[Main(h)] \in Copying <=> pc'[Main(h)] \in Copying
        /\ pc[Listener(h)] = "first" <=> pc'[Listener(h)] = "first"
        /\ pc[Listener(h)] \in Range(Steps) <=> pc'[Listener(h)] \in Range(Steps)
        /\ pc'[Listener(h)] \in Copying \/ pc'[Listener(h)] = pc[Listener(h)]
    BY <1>2, ThreadFacts, StepFacts DEF Copying
<1>4. ThreadsInOrder'
  <2>1. ThreadsInOrder /\ UNCHANGED <<amInitiator, sent, backlog>> /\ Initiator \in Host
      BY <1>1, CountAssumption DEF MarkerInv, markerVars
  <2>2. /\ \A h \in Others(Initiator) : pc'[Main(h)] = "multicast" /\ ~ amInitiator'[h]
        /\ pc'[Main(Initiator)] # "multicast" => SnapshotAfter =< sent'[Initiator]
      BY <1>3, <2>1 DEF ThreadsInOrder, Others
  <2>3. amInitiator'[Initiator] <=>
            SnapshotAfter =< sent'[Initiator] /\ pc'[Main(Initiator)] \notin Copying
      BY <1>3, <2>1 DEF ThreadsInOrder
  <2>4. /\ pc'[Listener(Initiator)] \notin Range(Steps)
        /\ \A h \in Host :
             pc'[Listener(h)] # "first" \/ backlog'[h] # <<>> => amInitiator'[Initiator]
      BY <1>3, <2>1 DEF ThreadsInOrder
  <2> QED
      BY <2>2, <2>3, <2>4 DEF ThreadsInOrder
<1>5. MarkersSentOnce'
    BY <1>1, SentFrame DEF MarkerInv, markerVars
<1>6. ShortIds => MarkersReadOnce'
    BY <1>1, <1>3, ReadFrame DEF MarkerInv, Finished, Copying
<1> QED
    BY <1>4, <1>5, <1>6 DEF MarkerInv, ShortIds

LEMMA InvCopyQueue ==
    ASSUME SnapshotInv, NEW t \in Thread, CopyQueue(t)
    PROVE  SnapshotInv'
<1>1. /\ MulticastTypes /\ StateTypes /\ ChannelTypes /\ MarkerTypes /\ Places
      /\ TypeOK /\ MarkerInv /\ MessageInv /\ CopyInv
    BY InvParts, TypeParts
<1>2. /\ pc[t] = "copyQueue" /\ pc[t] \in Copying /\ pc[t] \in Range(Steps)
      /\ pc' = [pc EXCEPT ![t] = "copyDelivered"]
      /\ locsnap' = [locsnap EXCEPT ![t[1]].deliveryQueue = deliveryQueue[t[1]]]
      /\ UNCHANGED <<multicastVars, bufferVars, channelVars, markerVars, amInitiator, recordMessages>>
    BY StepFacts DEF CopyQueue, Advance, Copying
<1>3. PICK h \in Host : h = t[1] /\ t = Taker(h)
    BY <1>2, NothingRecorded
<1>4. Goes(t, "copyDelivered")
    BY <1>2, StepFacts DEF Goes, Copying, ListenerPC
<1>5. /\ Places'
      /\ pc'[t] = "copyDelivered"
      /\ \A u \in Thread \ {t} : pc'[u] = pc[u]
    BY <1>1, <1>4, GoesFacts
<1>6. /\ locsnap' \in [Host -> [deliveryQueue : SUBSET Msg, deliveredMessage : SUBSET Msg]]
      /\ locsnap'[h].deliveryQueue = deliveryQueue[h]
      /\ locsnap'[h].deliveredMessage = locsnap[h].deliveredMessage
      /\ \A g \in Host \ {h} : locsnap'[g] = locsnap[g]
    BY <1>1, <1>2, <1>3 DEF StateTypes, MulticastTypes
<1>7. TypeOK'
  <2>1. StateTypes'
      BY <1>1, <1>2, <1>6 DEF StateTypes
  <2> QED
      BY <1>1, <1>2, <1>5, <2>1, TypeParts, MulticastTypesFrame, ChannelTypesFrame, MarkerTypesFrame
<1>8. MarkerInv'
    BY <1>2, <1>4, StillCopying DEF multicastVars, Copying
<1>9. MessageInv'
    BY <1>1, <1>2, MessagesFrame
<1>10. CopyInv'
  <2>1. /\ \A g \in Host \ {h} : Held(g)' = Held(g)
        /\ Held(h)' = deliveryQueue[h] \cup locsnap[h].deliveredMessage
      BY <1>6 DEF Held
  <2>2. \A g, n : Holds(g, n)' <=> Holds(g, n)
      BY <1>2 DEF Holds, multicastVars
  <2>3. \A g \in Host : Copied(g) => Copied(g)'
    <3> TAKE g \in Host
    <3>1. CASE g = h
        BY <1>2, <1>3, <3>1, NothingRecorded
    <3>2. CASE g # h
        BY <1>2, <1>3, <1>5, <3>2, ThreadFacts DEF Copied, Taker
    <3> QED
        BY <3>1, <3>2
  <2>4. UNCHANGED <<recordMessages, inboundMessageBuffer, inboundChannelState, amInitiator,
                    deliveryQueue, deliveredMessage>>
      BY <1>2 DEF bufferVars, channelVars, multicastVars
  <2>5. \A g \in Host : \A m \in Held(g)' : Holds(g, m)'
    <3> TAKE g \in Host
    <3> TAKE m \in Held(g)'
    <3>1. m \in Held(g) \/ m \in deliveryQueue[g]
        BY <2>1 DEF Held
    <3> QED
        BY <1>1, <2>2, <3>1 DEF CopyInv, CopiesHeld, Holds
  <2>6. \A g \in Host :
         \/ recordMessages'[g]
         \/ inboundMessageBuffer'[g] # {}
         \/ \E p \in Host : inboundChannelState'[g][p] # {}
         => Copied(g)'
      BY <1>1, <2>3, <2>4 DEF CopyInv, CopiesHeld
  <2>7. ASSUME NEW k \in 1 .. SnapshotAfter
        PROVE  /\ pc'[Main(Initiator)] = "copyDelivered" =>
                    \/ <<Initiator, k>> \in locsnap'[Initiator].deliveryQueue
                    \/ <<Initiator, k>> \in deliveredMessage'[Initiator]
               /\ pc'[Main(Initiator)] = "startRecording" \/ amInitiator'[Initiator] =>
                    <<Initiator, k>> \in Held(Initiator)'
    <3>1. CASE h = Initiator
      <4>1. pc[Main(Initiator)] = "copyQueue" /\ pc'[Main(Initiator)] = "copyDelivered"
            /\ ~ amInitiator[Initiator]
          BY <1>2, <1>3, <1>5, <3>1, NothingRecorded DEF Taker
      <4>2. Holds(Initiator, <<Initiator, k>>)
          BY <4>1, InitiatorHolds
      <4> QED
          BY <1>6, <2>4, <3>1, <4>1, <4>2 DEF Holds
    <3>2. CASE h # Initiator
      <4>1. pc'[Main(Initiator)] = pc[Main(Initiator)] /\ Initiator \in Host
          BY <1>3, <1>5, <3>2, ThreadFacts, CountAssumption DEF Taker
      <4> QED
          BY <1>1, <1>6, <2>1, <2>4, <3>2, <4>1 DEF CopyInv, CopiesHeld
    <3> QED
        BY <3>1, <3>2
  <2>8. RecordedNotInState'
    <3>1. inboundMessageBuffer[h] \cup UNION Range(inboundChannelState[h]) = {}
        BY <1>2, <1>3, NothingRecorded
    <3> QED
        BY <1>1, <2>1, <2>4, <3>1 DEF CopyInv, RecordedNotInState
  <2> QED
      BY <2>5, <2>6, <2>7, <2>8 DEF CopyInv, CopiesHeld
<1> QED
    BY <1>7, <1>8, <1>9, <1>10, InvParts


LEMMA InvCopyDelivered ==
    ASSUME SnapshotInv, NEW t \in Thread, CopyDelivered(t)
    PROVE  SnapshotInv'
<1>1. /\ MulticastTypes /\ StateTypes /\ ChannelTypes /\ MarkerTypes /\ Places
      /\ TypeOK /\ MarkerInv /\ MessageInv /\ CopyInv
    BY InvParts, TypeParts
<1>2. /\ pc[t] = "copyDelivered" /\ pc[t] \in Copying /\ pc[t] \in Range(Steps)
      /\ pc' = [pc EXCEPT ![t] = "startRecording"]
      /\ locsnap' = [locsnap EXCEPT ![t[1]].deliveredMessage = deliveredMessage[t[1]]]
      /\ UNCHANGED <<multicastVars, bufferVars, channelVars, markerVars, amInitiator, recordMessages>>
    BY StepFacts DEF CopyDelivered, Advance, Copying
<1>3. PICK h \in Host : h = t[1] /\ t = Taker(h)
    BY <1>2, NothingRecorded
<1>4. Goes(t, "startRecording")
    BY <1>2, StepFacts DEF Goes, Copying, ListenerPC
<1>5. /\ Places'
      /\ pc'[t] = "startRecording"
      /\ \A u \in Thread \ {t} : pc'[u] = pc[u]
    BY <1>1, <1>4, GoesFacts
<1>6. /\ locsnap' \in [Host -> [deliveryQueue : SUBSET Msg, deliveredMessage : SUBSET Msg]]
      /\ locsnap'[h].deliveryQueue = locsnap[h].deliveryQueue
      /\ locsnap'[h].deliveredMessage = deliveredMessage[h]
      /\ \A g \in Host \ {h} : locsnap'[g] = locsnap[g]
    BY <1>1, <1>2, <1>3 DEF StateTypes, MulticastTypes
<1>7. TypeOK'
  <2>1. StateTypes'
      BY <1>1, <1>2, <1>6 DEF StateTypes
  <2> QED
      BY <1>1, <1>2, <1>5, <2>1, TypeParts, MulticastTypesFrame, ChannelTypesFrame, MarkerTypesFrame
<1>8. MarkerInv'
    BY <1>2, <1>4, StillCopying DEF multicastVars, Copying
<1>9. MessageInv'
    BY <1>1, <1>2, MessagesFrame
<1>10. CopyInv'
  <2>1. /\ \A g \in Host \ {h} : Held(g)' = Held(g)
        /\ Held(h)' = locsnap[h].deliveryQueue \cup deliveredMessage[h]
      BY <1>6 DEF Held
  <2>2. \A g, n : Holds(g, n)' <=> Holds(g, n)
      BY <1>2 DEF Holds, multicastVars
  <2>3. \A g \in Host : Copied(g) => Copied(g)'
    <3> TAKE g \in Host
    <3>1. CASE g = h
        BY <1>2, <1>3, <3>1, NothingRecorded
    <3>2. CASE g # h
        BY <1>2, <1>3, <1>5, <3>2, ThreadFacts DEF Copied, Taker
    <3> QED
        BY <3>1, <3>2
  <2>4. UNCHANGED <<recordMessages, inboundMessageBuffer, inboundChannelState, amInitiator,
                    deliveryQueue, deliveredMessage>>
      BY <1>2 DEF bufferVars, channelVars, multicastVars
  <2>5. \A g \in Host : \A m \in Held(g)' : Holds(g, m)'
    <3> TAKE g \in Host
    <3> TAKE m \in Held(g)'
    <3>1. m \in Held(g) \/ m \in deliveredMessage[g]
        BY <2>1 DEF Held
    <3> QED
        BY <1>1, <2>2, <3>1 DEF CopyInv, CopiesHeld, Holds
  <2>6. \A g \in Host :
         \/ recordMessages'[g]
         \/ inboundMessageBuffer'[g] # {}
         \/ \E p \in Host : inboundChannelState'[g][p] # {}
         => Copied(g)'
      BY <1>1, <2>3, <2>4 DEF CopyInv, CopiesHeld
  <2>7. ASSUME NEW k \in 1 .. SnapshotAfter
        PROVE  /\ pc'[Main(Initiator)] = "copyDelivered" =>
                    \/ <<Initiator, k>> \in locsnap'[Initiator].deliveryQueue
                    \/ <<Initiator, k>> \in deliveredMessage'[Initiator]
               /\ pc'[Main(Initiator)] = "startRecording" \/ amInitiator'[Initiator] =>
                    <<Initiator, k>> \in Held(Initiator)'
    <3>1. CASE h = Initiator
      <4>1. pc[Main(Initiator)] = "copyDelivered" /\ pc'[Main(Initiator)] = "startRecording"
          BY <1>2, <1>3, <1>5, <3>1 DEF Taker
      <4>2. \/ <<Initiator, k>> \in locsnap[Initiator].deliveryQueue
            \/ <<Initiator, k>> \in deliveredMessage[Initiator]
          BY <1>1, <4>1 DEF CopyInv, CopiesHeld
      <4> QED
          BY <2>1, <3>1, <4>1, <4>2
    <3>2. CASE h # Initiator
      <4>1. pc'[Main(Initiator)] = pc[Main(Initiator)] /\ Initiator \in Host
          BY <1>3, <1>5, <3>2, ThreadFacts, CountAssumption DEF Taker
      <4> QED
          BY <1>1, <1>6, <2>1, <2>4, <3>2, <4>1 DEF CopyInv, CopiesHeld
    <3> QED
        BY <3>1, <3>2
  <2>8. RecordedNotInState'
    <3>1. inboundMessageBuffer[h] \cup UNION Range(inboundChannelState[h]) = {}
        BY <1>2, <1>3, NothingRecorded
    <3> QED
        BY <1>1, <2>1, <2>4, <3>1 DEF CopyInv, RecordedNotInState
  <2> QED
      BY <2>5, <2>6, <2>7, <2>8 DEF CopyInv, CopiesHeld
<1> QED
    BY <1>7, <1>8, <1>9, <1>10, InvParts

LEMMA InvStartRecording ==
    ASSUME SnapshotInv, NEW t \in Thread, StartRecording(t)
    PROVE  SnapshotInv'
<1>1. /\ MulticastTypes /\ StateTypes /\ ChannelTypes /\ MarkerTypes /\ Places
      /\ TypeOK /\ MarkerInv /\ MessageInv /\ CopyInv
    BY InvParts, TypeParts
<1>2. /\ pc[t] = "startRecording" /\ pc[t] \in Copying /\ pc[t] \in Range(Steps)
      /\ pc' = [pc EXCEPT ![t] = "sendMarkers"]
      /\ amInitiator' = [amInitiator EXCEPT ![t[1]] = @ \/ t[2] = "main"]
      /\ recordMessages' = [recordMessages EXCEPT ![t[1]] = TRUE]
      /\ UNCHANGED <<multicastVars, bufferVars, channelVars, markerVars, locsnap>>
    BY StepFacts DEF StartRecording, Advance, Copying
<1>3. PICK h \in Host : h = t[1] /\ t = Taker(h) /\ ~ amInitiator[h]
    BY <1>2, NothingRecorded
<1>4. Goes(t, "sendMarkers")
    BY <1>2, StepFacts DEF Goes, ListenerPC
<1>5. /\ Places'
      /\ pc'[t] = "sendMarkers"
      /\ \A u \in Thread \ {t} : pc'[u] = pc[u]
    BY <1>1, <1>4, GoesFacts
<1>6. /\ amInitiator' \in [Host -> BOOLEAN]
      /\ recordMessages' \in [Host -> BOOLEAN]
      /\ \A g \in Host \ {h} : amInitiator'[g] = amInitiator[g] /\ recordMessages'[g] = recordMessages[g]
      /\ amInitiator'[h] <=> h = Initiator
  <2>1. t[2] = "main" <=> h = Initiator
      BY <1>3, ThreadFacts DEF Taker
  <2> QED
      BY <1>1, <1>2, <1>3, <2>1 DEF StateTypes
<1>7. TypeOK'
  <2>1. StateTypes'
      BY <1>1, <1>2, <1>6 DEF StateTypes
  <2> QED
      BY <1>1, <1>2, <1>5, <2>1, TypeParts, MulticastTypesFrame, ChannelTypesFrame, MarkerTypesFrame
<1>8. MarkerInv'
  <2>1. /\ ThreadsInOrder /\ Initiator \in Host
        /\ UNCHANGED <<sent, backlog>>
      BY <1>1, <1>2, CountAssumption DEF MarkerInv, multicastVars, markerVars
  <2>2. \A g \in Others(Initiator) : pc'[Main(g)] = "multicast" /\ ~ amInitiator'[g]
    <3> TAKE g \in Others(Initiator)
    <3>1. Main(g) # t /\ Main(g) \in Thread
        BY <1>3, ThreadFacts DEF Taker, Others
    <3> QED
        BY <1>5, <1>6, <2>1, <3>1 DEF ThreadsInOrder, Others
  <2>3. /\ pc'[Main(Initiator)] # "multicast" => SnapshotAfter =< sent'[Initiator]
        /\ amInitiator'[Initiator] <=>
             SnapshotAfter =< sent'[Initiator] /\ pc'[Main(Initiator)] \notin Copying
    <3>1. CASE h = Initiator
        BY <1>2, <1>3, <1>5, <1>6, <2>1, <3>1 DEF ThreadsInOrder, Taker, Copying
    <3>2. CASE h # Initiator
      <4>1. pc'[Main(Initiator)] = pc[Main(Initiator)]
          BY <1>3, <1>5, <2>1, <3>2, ThreadFacts DEF Taker
      <4> QED
          BY <1>6, <2>1, <3>2, <4>1 DEF ThreadsInOrder
    <3> QED
        BY <3>1, <3>2
  <2>4. \A g \in Host : /\ pc'[Listener(g)] # "first" => pc[Listener(g)] # "first"
                        /\ pc'[Listener(g)] = "marker" => pc[Listener(g)] = "marker"
                        /\ Finished(g)' => Finished(g)
      BY <1>2, <1>5, ThreadFacts DEF Finished
  <2>5. amInitiator[Initiator] => amInitiator'[Initiator]
      BY <1>3, <1>6, <2>1
  <2>6. pc'[Listener(Initiator)] \notin Range(Steps)
    <3>1. Listener(Initiator) # t /\ Listener(Initiator) \in Thread
        BY <1>3, <2>1, ThreadFacts DEF Taker
    <3> QED
        BY <1>5, <2>1, <3>1 DEF ThreadsInOrder
  <2>7. ThreadsInOrder'
      BY <2>1, <2>2, <2>3, <2>4, <2>5, <2>6 DEF ThreadsInOrder
  <2>8. MarkersSentOnce'
      BY <1>1, <1>2, SentFrame DEF MarkerInv, markerVars
  <2>9. ShortIds => MarkersReadOnce'
      BY <1>1, <1>2, <2>4, ReadFrame DEF MarkerInv
  <2> QED
      BY <2>7, <2>8, <2>9 DEF MarkerInv, ShortIds
<1>9. MessageInv'
    BY <1>1, <1>2, MessagesFrame
<1>10. CopyInv'
  <2>1. UNCHANGED <<locsnap, inboundMessageBuffer, inboundChannelState, deliveryQueue, deliveredMessage>>
      BY <1>2 DEF bufferVars, channelVars, multicastVars
  <2>2. /\ \A g : Held(g)' = Held(g)
        /\ \A g, n : Holds(g, n)' <=> Holds(g, n)
      BY <2>1 DEF Held, Holds
  <2>3. Copied(h)'
      BY <1>3, <1>5, <1>6 DEF Copied, Taker, Copying
  <2>4. \A g \in Host \ {h} : Copied(g)' <=> Copied(g)
    <3> TAKE g \in Host \ {h}
    <3>1. g # Initiator => Listener(g) # t /\ Listener(g) \in Thread
        BY <1>3, ThreadFacts DEF Taker
    <3> QED
        BY <1>5, <1>6, <3>1 DEF Copied
  <2>5. \A g \in Host :
         \/ recordMessages'[g]
         \/ inboundMessageBuffer'[g] # {}
         \/ \E p \in Host : inboundChannelState'[g][p] # {}
         => Copied(g)'
    <3> TAKE g \in Host
    <3>1. CASE g = h
        BY <2>3, <3>1
    <3>2. CASE g # h
        BY <1>1, <1>6, <2>1, <2>4, <3>2 DEF CopyInv, CopiesHeld
    <3> QED
        BY <3>1, <3>2
  <2>6. ASSUME NEW k \in 1 .. SnapshotAfter
        PROVE  /\ pc'[Main(Initiator)] = "copyDelivered" =>
                    \/ <<Initiator, k>> \in locsnap'[Initiator].deliveryQueue
                    \/ <<Initiator, k>> \in deliveredMessage'[Initiator]
               /\ pc'[Main(Initiator)] = "startRecording" \/ amInitiator'[Initiator] =>
                    <<Initiator, k>> \in Held(Initiator)'
    <3>1. CASE h = Initiator
      <4>1. pc[Main(Initiator)] = "startRecording" /\ pc'[Main(Initiator)] = "sendMarkers"
          BY <1>2, <1>3, <1>5, <3>1 DEF Taker
      <4> QED
          BY <1>1, <2>2, <4>1 DEF CopyInv, CopiesHeld
    <3>2. CASE h # Initiator
      <4>1. pc'[Main(Initiator)] = pc[Main(Initiator)] /\ Initiator \in Host
          BY <1>3, <1>5, <3>2, ThreadFacts, CountAssumption DEF Taker
      <4> QED
          BY <1>1, <1>6, <2>1, <2>2, <3>2, <4>1 DEF CopyInv, CopiesHeld
    <3> QED
        BY <3>1, <3>2
  <2>7. RecordedNotInState'
      BY <1>1, <2>1, <2>2 DEF CopyInv, RecordedNotInState
  <2>8. \A g \in Host : \A m \in Held(g)' : Holds(g, m)'
      BY <1>1, <2>2 DEF CopyInv, CopiesHeld
  <2> QED
      BY <2>5, <2>6, <2>7, <2>8 DEF CopyInv, CopiesHeld
<1> QED
    BY <1>7, <1>8, <1>9, <1>10, InvParts


-----------------------------------------------------------------------------
(***************************************************************************)
(* The steps that send, accept and process markers.                        *)
(***************************************************************************)

\* No copy changes when a thread only deals with markers.
LEMMA CopiesKept ==
    ASSUME CopyInv,
           UNCHANGED <<multicastVars, locsnap, amInitiator, inboundMessageBuffer,
                       inboundChannelState>>,
           \A h \in Host : recordMessages'[h] => recordMessages[h],
           \A h \in Host : Copied(h) => Copied(h)',
           pc'[Main(Initiator)] \in {"copyDelivered", "startRecording"} =>
             pc'[Main(Initiator)] = pc[Main(Initiator)]
    PROVE  CopyInv'
<1>1. UNCHANGED <<deliveryQueue, deliveredMessage>>
    BY DEF multicastVars
<1>2. /\ \A g : Held(g)' = Held(g)
      /\ \A g, n : Holds(g, n)' <=> Holds(g, n)
    BY <1>1 DEF Held, Holds
<1>3. RecordedNotInState'
    BY <1>2 DEF CopyInv, RecordedNotInState
<1>4. \A g \in Host : \A m \in Held(g)' : Holds(g, m)'
    BY <1>2 DEF CopyInv, CopiesHeld
<1>5. \A h \in Host :
       \/ recordMessages'[h]
       \/ inboundMessageBuffer'[h] # {}
       \/ \E p \in Host : inboundChannelState'[h][p] # {}
       => Copied(h)'
    BY DEF CopyInv, CopiesHeld
<1>6. \A k \in 1 .. SnapshotAfter :
       /\ pc'[Main(Initiator)] = "copyDelivered" =>
            \/ <<Initiator, k>> \in locsnap'[Initiator].deliveryQueue
            \/ <<Initiator, k>> \in deliveredMessage'[Initiator]
       /\ pc'[Main(Initiator)] = "startRecording" \/ amInitiator'[Initiator] =>
            <<Initiator, k>> \in Held(Initiator)'
    BY <1>1, <1>2 DEF CopyInv, CopiesHeld
<1> QED
    BY <1>3, <1>4, <1>5, <1>6 DEF CopyInv, CopiesHeld

\* A thread that is past copying.
LEMMA StillCopied ==
    ASSUME Places, NEW t \in Thread, NEW place, Goes(t, place),
           place \notin Copying, place # "first", amInitiator' = amInitiator
    PROVE  \A h \in Host : Copied(h) => Copied(h)'
<1> TAKE h \in Host
<1>1. pc'[Listener(h)] = place \/ pc'[Listener(h)] = pc[Listener(h)]
    BY GoesFacts, ThreadFacts
<1> QED
    BY <1>1 DEF Copied

\* The order of the threads when a marker is sent or accepted, or when recording
\* stops, after the initiator has taken its snapshot.
LEMMA OrderKept ==
    ASSUME ThreadsInOrder, Places, amInitiator[Initiator],
           NEW t \in Thread, NEW place, Goes(t, place),
           UNCHANGED <<amInitiator, sent>>,
           place \notin Copying \/ t # Main(Initiator),
           t[2] = "main" => place = "multicast" \/ t = Main(Initiator),
           t = Listener(Initiator) => place \notin Range(Steps)
    PROVE  ThreadsInOrder'
<1>1. /\ pc'[t] = place
      /\ \A u \in Thread \ {t} : pc'[u] = pc[u]
    BY GoesFacts
<1>2. Initiator \in Host
    BY CountAssumption
<1>3. \A h \in Others(Initiator) : pc'[Main(h)] = "multicast" /\ ~ amInitiator'[h]
    BY <1>1, <1>2, ThreadFacts DEF ThreadsInOrder, Others
<1>4. /\ pc'[Main(Initiator)] # "multicast" => SnapshotAfter =< sent'[Initiator]
      /\ amInitiator'[Initiator] <=>
           SnapshotAfter =< sent'[Initiator] /\ pc'[Main(Initiator)] \notin Copying
    BY <1>1, <1>2, ThreadFacts DEF ThreadsInOrder
<1>5. pc'[Listener(Initiator)] \notin Range(Steps)
    BY <1>1, <1>2, ThreadFacts DEF ThreadsInOrder
<1> QED
    BY <1>3, <1>4, <1>5 DEF ThreadsInOrder

\* Different markers in a backlog are fewer than the hosts.
LEMMA BacklogFacts ==
    ASSUME MarkerTypes, MarkersSentOnce, NEW h \in Host
    PROVE  /\ backlog[h] \in Seq(Others(h)) /\ backlog[h] \in Seq(Host)
           /\ \A i \in DOMAIN backlog[h] : backlog[h][i] \in Others(h)
<1>1. backlog[h] \in Seq(Host)
    BY DEF MarkerTypes
<1>2. \A i \in DOMAIN backlog[h] : backlog[h][i] \in Others(h)
    BY <1>1 DEF MarkersSentOnce, MarkerSent, Others
<1>3. backlog[h] \in Seq(Others(h))
    BY <1>1, <1>2
<1> QED
    BY <1>1, <1>2, <1>3

\* A marker of g that was not sent yet is added to the backlog of p.
LEMMA BacklogAppended ==
    ASSUME MarkerTypes, MarkersSentOnce, NEW p \in Host, NEW g \in Others(p),
           \A i \in DOMAIN backlog[p] : backlog[p][i] # g
    PROVE  /\ Append(backlog[p], g) \in Seq(Host)
           /\ Len(Append(backlog[p], g)) < Cardinality(Host)
           /\ \A i, j \in DOMAIN Append(backlog[p], g) :
                Append(backlog[p], g)[i] = Append(backlog[p], g)[j] => i = j
           /\ \A i \in DOMAIN Append(backlog[p], g) :
                Append(backlog[p], g)[i] = g \/ \E j \in DOMAIN backlog[p] :
                  Append(backlog[p], g)[i] = backlog[p][j]
           /\ Range(Append(backlog[p], g)) = Range(backlog[p]) \cup {g}
           /\ Append(backlog[p], g) # <<>>
<1>1. PICK s \in Seq(Others(p)) : s = backlog[p]
    BY BacklogFacts
<1>2. PICK r \in Seq(Others(p)) : r = Append(s, g)
  <2>1. Append(s, g) \in Seq(Others(p))
      OBVIOUS
  <2> QED
      BY <2>1
<1>3. /\ DOMAIN s = 1 .. Len(s) /\ Len(s) \in Nat
      /\ DOMAIN r = 1 .. Len(s) + 1
      /\ \A i \in DOMAIN s : r[i] = s[i]
      /\ r[Len(s) + 1] = g
      /\ r \in Seq(Host) /\ r # <<>>
    BY <1>2 DEF Others
<1>4. \A i, j \in DOMAIN s : s[i] = s[j] => i = j
    BY <1>1 DEF MarkersSentOnce
<1>5. \A i \in DOMAIN s : s[i] # g
    BY <1>1
<1>6. \A i \in DOMAIN r : i \in DOMAIN s \/ i = Len(s) + 1
    BY <1>3
<1>7. \A i, j \in DOMAIN r : r[i] = r[j] => i = j
    BY <1>3, <1>4, <1>5, <1>6
<1>8. Len(r) < Cardinality(Host)
    BY <1>7, DifferentHosts
<1>9. Range(r) = Range(s) \cup {g}
    BY <1>3, <1>6 DEF Range
<1>10. \A i \in DOMAIN r : r[i] = g \/ \E j \in DOMAIN s : r[i] = s[j]
    BY <1>3, <1>6
<1> QED
    BY <1>1, <1>2, <1>3, <1>7, <1>8, <1>9, <1>10


LEMMA InvSendMarker ==
    ASSUME SnapshotInv, NEW t \in Thread, NEW p \in Host, SendMarker(t, p)
    PROVE  SnapshotInv'
<1>1. /\ MulticastTypes /\ StateTypes /\ ChannelTypes /\ MarkerTypes /\ Places
      /\ TypeOK /\ MarkerInv /\ MessageInv /\ CopyInv
      /\ ThreadsInOrder /\ MarkersSentOnce
    BY InvParts, TypeParts DEF MarkerInv
<1>2. /\ pc[t] = "sendMarkers" /\ pc[t] \in Range(Steps)
      /\ p \in due[t]
      /\ backlog' = [backlog EXCEPT ![p] = Append(@, t[1])]
      /\ due' = [due EXCEPT ![t] = @ \ {p}]
      /\ IF due[t] = {p} THEN Advance(t) ELSE UNCHANGED pc
      /\ UNCHANGED <<multicastVars, bufferVars, channelVars, stateVars, buf, alreadyReceivedProc>>
    BY StepFacts DEF SendMarker
<1>3. PICK h \in Host : h = t[1] /\ t = Taker(h)
    BY <1>1, <1>2, OnlyTaker
<1>4. /\ h \in Others(p) /\ p # h
      /\ ~ MarkerSent(h, p)
    BY <1>1, <1>2, <1>3 DEF MarkersSentOnce, MarkerSent, Others
<1>5. \A i \in DOMAIN backlog[p] : backlog[p][i] # h
    BY <1>1, <1>4 DEF MarkersSentOnce
<1>6. /\ backlog' = [backlog EXCEPT ![p] = Append(@, h)]
      /\ backlog'[p] = Append(backlog[p], h)
      /\ \A g \in Host \ {p} : backlog'[g] = backlog[g]
    BY <1>1, <1>2, <1>3 DEF MarkerTypes
<1>7. /\ backlog'[p] \in Seq(Host)
      /\ Len(backlog'[p]) < Cardinality(Host)
      /\ \A i, j \in DOMAIN backlog'[p] : backlog'[p][i] = backlog'[p][j] => i = j
      /\ \A i \in DOMAIN backlog'[p] :
           backlog'[p][i] = h \/ \E j \in DOMAIN backlog[p] : backlog'[p][i] = backlog[p][j]
      /\ Range(backlog'[p]) = Range(backlog[p]) \cup {h}
  <2>1. /\ Append(backlog[p], h) \in Seq(Host)
        /\ Len(Append(backlog[p], h)) < Cardinality(Host)
        /\ \A i, j \in DOMAIN Append(backlog[p], h) :
             Append(backlog[p], h)[i] = Append(backlog[p], h)[j] => i = j
        /\ \A i \in DOMAIN Append(backlog[p], h) :
             Append(backlog[p], h)[i] = h \/ \E j \in DOMAIN backlog[p] :
               Append(backlog[p], h)[i] = backlog[p][j]
        /\ Range(Append(backlog[p], h)) = Range(backlog[p]) \cup {h}
      BY <1>1, <1>4, <1>5, BacklogAppended
  <2> QED
      BY <1>6, <2>1
<1>8. /\ due' \in [Thread -> SUBSET Host]
      /\ due'[t] = due[t] \ {p}
      /\ \A u \in Thread : due'[u] \subseteq due[u]
    BY <1>1, <1>2 DEF MarkerTypes
<1>9. /\ \A g, k \in Host : MarkerSent(g, k) => MarkerSent(g, k)'
      /\ MarkerSent(h, p)'
    BY <1>3, <1>4, <1>8, TakerFacts DEF MarkerSent
<1> DEFINE place == IF due[t] = {p} THEN Taken(t) ELSE "sendMarkers"
<1>10. Taken(t) \in IF t[2] = "main" THEN {"multicast"} ELSE {"accept", "stop"}
    BY DEF Taken
<1>11. /\ Goes(t, place)
       /\ place \in IF t[2] = "main" THEN {"multicast", "sendMarkers"}
                    ELSE {"accept", "stop", "sendMarkers"}
  <2>1. pc' = [pc EXCEPT ![t] = place]
    <3>1. CASE due[t] = {p}
        BY <1>2, <3>1, StepFacts DEF Advance
    <3>2. CASE due[t] # {p}
        BY <1>1, <1>2, <3>2 DEF Places
    <3> QED
        BY <3>1, <3>2
  <2>2. place \in IF t[2] = "main" THEN {"multicast", "sendMarkers"}
                  ELSE {"accept", "stop", "sendMarkers"}
      BY <1>10
  <2> HIDE DEF place
  <2> QED
      BY <2>1, <2>2, StepFacts DEF Goes, ListenerPC
<1>12. place = "stop" => ~ Missing(h, alreadyReceivedProc[h])
    BY <1>3 DEF Taken
<1> HIDE DEF place
<1>13. /\ Places'
       /\ pc'[t] = place
       /\ \A u \in Thread \ {t} : pc'[u] = pc[u]
    BY <1>1, <1>11, GoesFacts
<1>14. amInitiator' = amInitiator /\ sent' = sent
    BY <1>2 DEF stateVars, multicastVars
<1>15. TypeOK'
  <2>1. backlog' \in [Host -> Seq(Host)] /\ \A g \in Host : Len(backlog'[g]) < Cardinality(Host)
    <3>1. \A g \in Host : backlog'[g] \in Seq(Host) /\ Len(backlog'[g]) < Cardinality(Host)
        BY <1>1, <1>6, <1>7 DEF MarkerTypes
    <3> QED
        BY <1>1, <1>2, <3>1 DEF MarkerTypes
  <2>2. MarkerTypes'
      BY <1>1, <1>2, <1>8, <2>1 DEF MarkerTypes
  <2> QED
      BY <1>1, <1>2, <1>13, <2>2, TypeParts, MulticastTypesFrame, ChannelTypesFrame, StateTypesFrame
<1>16. MarkerInv'
  <2>1. amInitiator[Initiator]
    <3>1. CASE h = Initiator
        BY <1>1, <1>2, <1>3, <3>1 DEF ThreadsInOrder, Taker, Copying
    <3>2. CASE h # Initiator
        BY <1>1, <1>2, <1>3, <3>2 DEF ThreadsInOrder, Taker
    <3> QED
        BY <3>1, <3>2
  <2>2. ThreadsInOrder'
    <3>1. place \notin Copying
        BY <1>11 DEF Copying
    <3>2. t[2] = "main" => t = Main(Initiator)
        BY <1>3, ThreadFacts DEF Taker
    <3>3. t # Listener(Initiator)
        BY <1>3, ThreadFacts, CountAssumption DEF Taker
    <3> QED
        BY <1>1, <1>11, <1>14, <2>1, <3>1, <3>2, <3>3, OrderKept
  <2>3. MarkersSentOnce'
    <3>1. \A u \in Thread : due'[u] \subseteq Others(u[1])
        BY <1>1, <1>8 DEF MarkersSentOnce
    <3>2. ASSUME NEW g \in Host
          PROVE  /\ \A i, j \in DOMAIN backlog'[g] : backlog'[g][i] = backlog'[g][j] => i = j
                 /\ \A i \in DOMAIN backlog'[g] : \A n : n = backlog'[g][i] => MarkerSent(n, g)'
      <4>1. CASE g = p
        <5>1. \A i \in DOMAIN backlog[p] : backlog[p][i] \in Host /\ MarkerSent(backlog[p][i], p)
            BY <1>1, BacklogFacts DEF MarkersSentOnce, Others
        <5>2. ASSUME NEW i \in DOMAIN backlog'[p], NEW n, n = backlog'[p][i]
              PROVE  MarkerSent(n, p)'
            BY <1>7, <1>9, <5>1, <5>2
        <5> QED
            BY <1>7, <4>1, <5>2
      <4>2. CASE g # p
        <5>1. \A i \in DOMAIN backlog[g] : backlog[g][i] \in Host /\ MarkerSent(backlog[g][i], g)
            BY <1>1, BacklogFacts DEF MarkersSentOnce, Others
        <5>2. \A i \in DOMAIN backlog[g] : \A n \in Host :
                n = backlog[g][i] => MarkerSent(n, g)'
            BY <1>9, <5>1
        <5> QED
            BY <1>1, <1>6, <4>2, <5>1, <5>2 DEF MarkersSentOnce
      <4> QED
          BY <4>1, <4>2
    <3> QED
        BY <3>1, <3>2 DEF MarkersSentOnce, MarkerSent
  <2>4. ASSUME ShortIds PROVE MarkersReadOnce'
    <3>1. MarkersReadOnce /\ UNCHANGED <<alreadyReceivedProc, buf>>
        BY <1>1, <1>2, <2>4 DEF MarkerInv
    <3> SUFFICES ASSUME NEW g \in Host
                 PROVE  LET markers == alreadyReceivedProc[g]
                        IN  /\ \A i, j \in DOMAIN markers : markers[i] = markers[j] => i = j
                            /\ \A i \in DOMAIN markers :
                                 MarkerSent(markers[i], g)' /\ markers[i] \notin Range(backlog'[g])
                            /\ pc'[Listener(g)] = "marker" =>
                                 /\ MarkerSent(buf[g], g)'
                                 /\ buf[g] \notin Range(backlog'[g])
                                 /\ buf[g] \notin Range(markers)
                            /\ Finished(g)' => ~ Missing(g, markers)
        BY <3>1 DEF MarkersReadOnce, MarkerSent, Missing
    <3> DEFINE markers == alreadyReceivedProc[g]
    <3>2. /\ \A i, j \in DOMAIN markers : markers[i] = markers[j] => i = j
          /\ \A i \in DOMAIN markers :
               MarkerSent(markers[i], g) /\ markers[i] \notin Range(backlog[g])
          /\ pc[Listener(g)] = "marker" =>
               MarkerSent(buf[g], g) /\ buf[g] \notin Range(backlog[g]) /\ buf[g] \notin Range(markers)
          /\ Finished(g) => ~ Missing(g, markers)
        BY <3>1 DEF MarkersReadOnce
    <3>3. ASSUME NEW n, MarkerSent(n, g), n \notin Range(backlog[g])
          PROVE  MarkerSent(n, g)' /\ n \notin Range(backlog'[g])
      <4>1. n \in Host
          BY <3>3 DEF MarkerSent, Others
      <4>2. g = p => n # h
          BY <1>4, <3>3
      <4> QED
          BY <1>6, <1>7, <1>9, <3>3, <4>1, <4>2
    <3>4. pc'[Listener(g)] = "marker" => pc[Listener(g)] = "marker"
        BY <1>11, <1>13, ThreadFacts
    <3>5. Finished(g)' => Finished(g) \/ (g = h /\ place = "stop")
        BY <1>3, <1>11, <1>13, ThreadFacts DEF Finished
    <3>6. \A i \in DOMAIN markers : \A n : n = markers[i] =>
            MarkerSent(n, g)' /\ n \notin Range(backlog'[g])
        BY <3>2, <3>3
    <3>7. pc'[Listener(g)] = "marker" => \A n : n = buf[g] =>
            MarkerSent(n, g)' /\ n \notin Range(backlog'[g])
        BY <3>2, <3>3, <3>4
    <3> QED
        BY <1>12, <3>1, <3>2, <3>4, <3>5, <3>6, <3>7 DEF MarkerSent
  <2> QED
      BY <2>2, <2>3, <2>4 DEF MarkerInv, ShortIds
<1>17. MessageInv'
    BY <1>1, <1>2, MessagesFrame
<1>18. CopyInv'
  <2>1. \A g \in Host : Copied(g) => Copied(g)'
      BY <1>1, <1>11, <1>14, StillCopied DEF Copying
  <2>2. pc'[Main(Initiator)] \in {"copyDelivered", "startRecording"} =>
          pc'[Main(Initiator)] = pc[Main(Initiator)]
      BY <1>11, <1>13, ThreadFacts, CountAssumption
  <2> QED
      BY <1>1, <1>2, <1>14, <2>1, <2>2, CopiesKept DEF stateVars, bufferVars, channelVars
<1> QED
    BY <1>15, <1>16, <1>17, <1>18, InvParts


\* The marker at the head of a backlog is another host's, and is not in the rest.
LEMMA BacklogAccepted ==
    ASSUME MarkerTypes, MarkersSentOnce, NEW h \in Host, backlog[h] # <<>>
    PROVE  /\ Head(backlog[h]) \in Others(h) /\ MarkerSent(Head(backlog[h]), h)
           /\ Head(backlog[h]) \in Range(backlog[h])
           /\ Head(backlog[h]) \notin Range(Tail(backlog[h]))
           /\ Range(Tail(backlog[h])) \subseteq Range(backlog[h])
           /\ Tail(backlog[h]) \in Seq(Host)
           /\ Len(Tail(backlog[h])) < Cardinality(Host)
           /\ \A i, j \in DOMAIN Tail(backlog[h]) :
                Tail(backlog[h])[i] = Tail(backlog[h])[j] => i = j
<1>1. PICK s \in Seq(Host) : s = backlog[h] /\ s # <<>>
    BY DEF MarkerTypes
<1>2. PICK r \in Seq(Host) : r = Tail(s)
  <2>1. Tail(s) \in Seq(Host)
      BY <1>1
  <2> QED
      BY <2>1
<1>3. /\ Len(s) \in Nat \ {0} /\ DOMAIN s = 1 .. Len(s)
      /\ Len(r) = Len(s) - 1 /\ DOMAIN r = 1 .. Len(s) - 1
      /\ \A i \in DOMAIN r : r[i] = s[i + 1]
      /\ Head(s) = s[1]
    BY <1>1, <1>2
<1>4. /\ \A i, j \in DOMAIN s : s[i] = s[j] => i = j
      /\ \A i \in DOMAIN s : s[i] \in Others(h) /\ MarkerSent(s[i], h)
      /\ Len(s) < Cardinality(Host)
    BY <1>1 DEF MarkersSentOnce, MarkerSent, MarkerTypes
<1>5. 1 \in DOMAIN s /\ \A i \in DOMAIN r : i + 1 \in DOMAIN s /\ i + 1 # 1
    BY <1>3
<1>6. Head(s) \in Others(h) /\ MarkerSent(Head(s), h) /\ Head(s) \in Range(s)
    BY <1>3, <1>4, <1>5 DEF Range
<1>7. Head(s) \notin Range(r)
    BY <1>3, <1>4, <1>5 DEF Range
<1>8. Range(r) \subseteq Range(s)
    BY <1>3, <1>5 DEF Range
<1>9. Len(r) < Cardinality(Host)
  <2>1. Cardinality(Host) \in Nat
      BY HostAssumption, FS_CardinalityType
  <2> QED
      BY <1>3, <1>4, <2>1
<1>10. ASSUME NEW i \in DOMAIN r, NEW j \in DOMAIN r, r[i] = r[j] PROVE i = j
  <2>1. i + 1 = j + 1
      BY <1>3, <1>4, <1>5, <1>10
  <2> QED
      BY <1>3, <2>1
<1> QED
    BY <1>1, <1>2, <1>6, <1>7, <1>8, <1>9, <1>10

\* The id read of a marker fits into its buffer; a short one is read whole.
LEMMA MarkerFacts ==
    /\ \A id \in Host : Marker(id) \in Mark
    /\ ShortIds => \A id \in Host : Marker(id) = id
<1>1. ASSUME NEW id \in 0 .. 999 PROVE Marker(id) \in 0 .. 999
  <2>1. id \in Nat /\ id =< 999
      OBVIOUS
  <2>2. id \div 10 \in Nat /\ id \div 10 =< 999
      BY <2>1, SMT
  <2> QED
      BY <2>1, <2>2 DEF Marker
<1>2. ASSUME NEW id \in 0 .. 99 PROVE Marker(id) = id
    BY DEF Marker
<1>3. \A id \in Host : Marker(id) \in Mark
  <2>1. Host \subseteq Mark
      BY HostAssumption DEF Mark
  <2>2. \A id \in Mark : Marker(id) \in Mark
      BY <1>1 DEF Mark
  <2> QED
      BY <2>1, <2>2
<1>4. ShortIds => \A id \in Host : Marker(id) = id
    BY <1>2 DEF ShortIds
<1> QED
    BY <1>3, <1>4

\* What accepting a marker does to the markers, wherever the listener goes.
Accepted(h) ==
    /\ amInitiator[Initiator]
    /\ backlog' \in [Host -> Seq(Host)]
    /\ \A g \in Host : Len(backlog'[g]) < Cardinality(Host)
    /\ buf' \in [Host -> Mark]
    /\ \A g \in Host : Range(backlog'[g]) \subseteq Range(backlog[g])
    /\ \A g \in Host \ {h} : buf'[g] = buf[g]
    /\ ShortIds => /\ MarkerSent(buf'[h], h)
                   /\ buf'[h] \in Range(backlog[h])
                   /\ buf'[h] \notin Range(backlog'[h])

LEMMA Accepting ==
    ASSUME SnapshotInv, NEW h \in Host, Accept(h), due' = due
    PROVE  Accepted(h) /\ MarkersSentOnce'
<1>1. MarkerTypes /\ MarkersSentOnce /\ ThreadsInOrder
    BY InvParts, TypeParts DEF MarkerInv
<1>2. /\ backlog[h] # <<>>
      /\ buf' = [buf EXCEPT ![h] = Marker(Head(backlog[h]))]
      /\ backlog' = [backlog EXCEPT ![h] = Tail(@)]
    BY DEF Accept
<1>3. /\ Head(backlog[h]) \in Others(h) /\ MarkerSent(Head(backlog[h]), h)
      /\ Head(backlog[h]) \in Range(backlog[h])
      /\ Head(backlog[h]) \notin Range(Tail(backlog[h]))
      /\ Range(Tail(backlog[h])) \subseteq Range(backlog[h])
      /\ Tail(backlog[h]) \in Seq(Host)
      /\ Len(Tail(backlog[h])) < Cardinality(Host)
      /\ \A i, j \in DOMAIN Tail(backlog[h]) :
           Tail(backlog[h])[i] = Tail(backlog[h])[j] => i = j
    BY <1>1, <1>2, BacklogAccepted
<1>4. /\ backlog'[h] = Tail(backlog[h])
      /\ \A g \in Host \ {h} : backlog'[g] = backlog[g]
      /\ buf'[h] = Marker(Head(backlog[h]))
      /\ \A g \in Host \ {h} : buf'[g] = buf[g]
    BY <1>1, <1>2 DEF MarkerTypes
<1>5. amInitiator[Initiator]
    BY <1>1, <1>2 DEF ThreadsInOrder
<1>6. Marker(Head(backlog[h])) \in Mark
    BY <1>3, MarkerFacts DEF Others
<1>7. backlog' \in [Host -> Seq(Host)]
    BY <1>1, <1>2, <1>3 DEF MarkerTypes
<1>8. \A g \in Host : Len(backlog'[g]) < Cardinality(Host)
    BY <1>1, <1>3, <1>4 DEF MarkerTypes
<1>9. buf' \in [Host -> Mark]
    BY <1>1, <1>2, <1>6 DEF MarkerTypes
<1>10. \A g \in Host : Range(backlog'[g]) \subseteq Range(backlog[g])
    BY <1>3, <1>4
<1>11. MarkersSentOnce'
  <2>1. \A u \in Thread : due'[u] \subseteq Others(u[1])
      BY <1>1 DEF MarkersSentOnce
  <2>2. ASSUME NEW g \in Host
        PROVE  /\ \A i, j \in DOMAIN backlog'[g] : backlog'[g][i] = backlog'[g][j] => i = j
               /\ \A i \in DOMAIN backlog'[g] : \A n : n = backlog'[g][i] => MarkerSent(n, g)'
    <3>1. \A n : MarkerSent(n, g)' <=> MarkerSent(n, g)
        BY DEF MarkerSent
    <3>2. \A n \in Range(backlog[g]) : MarkerSent(n, g)
        BY <1>1 DEF MarkersSentOnce, Range
    <3>3. \A i \in DOMAIN backlog'[g] : backlog'[g][i] \in Range(backlog'[g])
        BY DEF Range
    <3>4. \A i, j \in DOMAIN backlog'[g] : backlog'[g][i] = backlog'[g][j] => i = j
        BY <1>1, <1>3, <1>4 DEF MarkersSentOnce
    <3> QED
        BY <1>10, <3>1, <3>2, <3>3, <3>4
  <2> QED
      BY <2>1, <2>2 DEF MarkersSentOnce, MarkerSent
<1>12. ASSUME ShortIds
       PROVE  /\ MarkerSent(buf'[h], h)
              /\ buf'[h] \in Range(backlog[h])
              /\ buf'[h] \notin Range(backlog'[h])
  <2>1. buf'[h] = Head(backlog[h])
      BY <1>3, <1>4, <1>12, MarkerFacts DEF Others
  <2> QED
      BY <1>3, <1>4, <2>1
<1>13. Accepted(h)
    BY <1>4, <1>5, <1>7, <1>8, <1>9, <1>10, <1>12, Zenon DEF Accepted
<1> QED
    BY <1>11, <1>13


\* A new marker at the end of a sequence of different markers.
Different(s) == \A i, j \in DOMAIN s : s[i] = s[j] => i = j

LEMMA AppendedMarker ==
    ASSUME NEW s \in Seq(Mark), NEW x \in Mark
    PROVE  /\ Append(s, x) \in Seq(Mark)
           /\ \A n : n \in Range(Append(s, x)) <=> n \in Range(s) \/ n = x
           /\ x \notin Range(s) /\ Different(s) => Different(Append(s, x))
<1>1. PICK r \in Seq(Mark) : r = Append(s, x)
  <2>1. Append(s, x) \in Seq(Mark)
      OBVIOUS
  <2> QED
      BY <2>1
<1>2. /\ DOMAIN s = 1 .. Len(s) /\ Len(s) \in Nat
      /\ DOMAIN r = 1 .. Len(s) + 1
      /\ \A i \in DOMAIN s : r[i] = s[i]
      /\ r[Len(s) + 1] = x
    BY <1>1
<1>3. \A i \in DOMAIN r : i \in DOMAIN s \/ i = Len(s) + 1
    BY <1>2
<1>4. Range(r) = Range(s) \cup {x}
    BY <1>2, <1>3 DEF Range
<1>5. x \notin Range(s) => \A i \in DOMAIN s : s[i] # x
    BY DEF Range
<1>6. x \notin Range(s) /\ Different(s) => Different(r)
    BY <1>2, <1>3, <1>5 DEF Different
<1> QED
    BY <1>1, <1>4, <1>6

\* A marker is accepted and left in buf.
LEMMA InvAcceptMarker ==
    ASSUME SnapshotInv, NEW h \in Host, Accept(h), Goes(Listener(h), "marker"),
           UNCHANGED <<multicastVars, bufferVars, channelVars, stateVars, alreadyReceivedProc, due>>
    PROVE  SnapshotInv'
<1>1. /\ MulticastTypes /\ StateTypes /\ ChannelTypes /\ MarkerTypes /\ Places
      /\ TypeOK /\ MarkerInv /\ MessageInv /\ CopyInv
      /\ ThreadsInOrder /\ MarkersSentOnce
    BY InvParts, TypeParts DEF MarkerInv
<1>2. /\ Accepted(h) /\ MarkersSentOnce'
      /\ amInitiator[Initiator]
  <2>1. due' = due
      OBVIOUS
  <2>2. Accepted(h) /\ MarkersSentOnce'
      BY <2>1, Accepting
  <2> QED
      BY <2>2 DEF Accepted
<1>3. /\ Places'
      /\ pc'[Listener(h)] = "marker"
      /\ \A u \in Thread \ {Listener(h)} : pc'[u] = pc[u]
    BY <1>1, GoesFacts, ThreadFacts
<1>4. amInitiator' = amInitiator /\ sent' = sent /\ due' = due
      /\ alreadyReceivedProc' = alreadyReceivedProc
    BY DEF stateVars, multicastVars
<1>5. TypeOK'
  <2>1. /\ backlog' \in [Host -> Seq(Host)]
        /\ \A g \in Host : Len(backlog'[g]) < Cardinality(Host)
        /\ buf' \in [Host -> Mark]
      BY <1>2 DEF Accepted
  <2>2. alreadyReceivedProc' \in [Host -> Seq(Mark)] /\ due' \in [Thread -> SUBSET Host]
    <3>1. alreadyReceivedProc \in [Host -> Seq(Mark)] /\ due \in [Thread -> SUBSET Host]
        BY <1>1 DEF MarkerTypes
    <3> QED
        BY <1>4, <3>1
  <2>3. MarkerTypes'
      BY <2>1, <2>2, Zenon DEF MarkerTypes
  <2> QED
      BY <1>1, <1>3, <2>3, TypeParts, MulticastTypesFrame, ChannelTypesFrame, StateTypesFrame
<1>6. MarkerInv'
  <2>1. ThreadsInOrder'
    <3>1. "marker" \notin Copying /\ "marker" \notin Range(Steps)
        BY StepFacts DEF Copying
    <3> QED
        BY <1>1, <1>2, <1>4, <3>1, OrderKept, ThreadFacts
  <2>2. ASSUME ShortIds PROVE MarkersReadOnce'
    <3>1. \A p, g : MarkerSent(p, g)' <=> MarkerSent(p, g)
        BY <1>4 DEF MarkerSent
    <3> SUFFICES ASSUME NEW g \in Host
                 PROVE  LET markers == alreadyReceivedProc[g]
                        IN  /\ \A i, j \in DOMAIN markers : markers[i] = markers[j] => i = j
                            /\ \A i \in DOMAIN markers :
                                 MarkerSent(markers[i], g) /\ markers[i] \notin Range(backlog'[g])
                            /\ pc'[Listener(g)] = "marker" =>
                                 /\ g \in Host /\ MarkerSent(buf'[g], g)
                                 /\ buf'[g] \notin Range(backlog'[g])
                                 /\ buf'[g] \notin Range(markers)
                            /\ Finished(g)' => ~ Missing(g, markers)
        BY <1>4 DEF MarkersReadOnce, MarkerSent, Missing
    <3> DEFINE markers == alreadyReceivedProc[g]
    <3>2. /\ \A i, j \in DOMAIN markers : markers[i] = markers[j] => i = j
          /\ \A i \in DOMAIN markers :
               MarkerSent(markers[i], g) /\ markers[i] \notin Range(backlog[g])
          /\ pc[Listener(g)] = "marker" =>
               MarkerSent(buf[g], g) /\ buf[g] \notin Range(backlog[g]) /\ buf[g] \notin Range(markers)
          /\ Finished(g) => ~ Missing(g, markers)
        BY <1>1, <2>2 DEF MarkersReadOnce, MarkerInv
    <3>3. \A n \in Range(markers) : n \notin Range(backlog[g])
        BY <3>2 DEF Range
    <3>4. CASE g = h
        BY <1>2, <1>3, <2>2, <3>2, <3>3, <3>4 DEF Accepted, Finished
    <3>5. CASE g # h
      <4>1. pc'[Listener(g)] = pc[Listener(g)] /\ buf'[g] = buf[g]
          BY <1>2, <1>3, <3>5, ThreadFacts DEF Accepted
      <4> QED
          BY <1>2, <3>2, <4>1 DEF Accepted, Finished
    <3> QED
        BY <3>4, <3>5
  <2> QED
      BY <1>2, <2>1, <2>2 DEF MarkerInv, ShortIds
<1>7. MessageInv'
    BY <1>1, MessagesFrame
<1>8. CopyInv'
  <2>1. \A g \in Host : Copied(g) => Copied(g)'
      BY <1>1, <1>4, StillCopied, ThreadFacts DEF Copying
  <2>2. pc'[Main(Initiator)] = pc[Main(Initiator)]
      BY <1>3, ThreadFacts, CountAssumption
  <2> QED
      BY <1>1, <2>1, <2>2, CopiesKept DEF stateVars, bufferVars, channelVars
<1> QED
    BY <1>5, <1>6, <1>7, <1>8, InvParts

LEMMA InvAcceptNext ==
    ASSUME SnapshotInv, NEW h \in Host, AcceptNext(h)
    PROVE  SnapshotInv'
<1>1. Goes(Listener(h), "marker")
    BY ThreadFacts DEF AcceptNext, Goes, ListenerPC
<1> QED
    BY <1>1, InvAcceptMarker DEF AcceptNext

LEMMA InvAcceptFirst ==
    ASSUME SnapshotInv, NEW h \in Host, AcceptFirst(h)
    PROVE  SnapshotInv'
<1>1. CASE amInitiator[h]
  <2>1. Goes(Listener(h), "marker")
      BY <1>1, ThreadFacts DEF AcceptFirst, Goes, ListenerPC
  <2> QED
      BY <1>1, <2>1, InvAcceptMarker DEF AcceptFirst
<1>2. CASE ~ amInitiator[h]
  <2>1. /\ MulticastTypes /\ StateTypes /\ ChannelTypes /\ MarkerTypes /\ Places
        /\ TypeOK /\ MarkerInv /\ MessageInv /\ CopyInv
        /\ ThreadsInOrder /\ MarkersSentOnce
      BY InvParts, TypeParts DEF MarkerInv
  <2>2. /\ pc[Listener(h)] = "first"
        /\ Accept(h)
        /\ pc' = [pc EXCEPT ![Listener(h)] = "copyQueue"]
        /\ alreadyReceivedProc' = [alreadyReceivedProc EXCEPT ![h] = Append(@, buf'[h])]
        /\ UNCHANGED <<multicastVars, bufferVars, channelVars, stateVars, due>>
      BY <1>2, StepFacts DEF AcceptFirst
  <2>3. /\ Accepted(h) /\ MarkersSentOnce'
        /\ amInitiator[Initiator]
    <3>1. Accepted(h) /\ MarkersSentOnce'
        BY <2>2, Accepting
    <3> QED
        BY <3>1 DEF Accepted
  <2>4. h # Initiator /\ Initiator \in Host
      BY <1>2, <2>3, CountAssumption
  <2>5. Goes(Listener(h), "copyQueue")
      BY <2>2, ThreadFacts, StepFacts DEF Goes, ListenerPC, Copying
  <2>6. /\ Places'
        /\ pc'[Listener(h)] = "copyQueue"
        /\ \A u \in Thread \ {Listener(h)} : pc'[u] = pc[u]
      BY <2>1, <2>5, GoesFacts, ThreadFacts
  <2>7. amInitiator' = amInitiator /\ sent' = sent /\ due' = due
      BY <2>2 DEF stateVars, multicastVars
  <2>8. /\ alreadyReceivedProc[h] \in Seq(Mark) /\ buf'[h] \in Mark
        /\ alreadyReceivedProc'[h] = Append(alreadyReceivedProc[h], buf'[h])
        /\ \A g \in Host \ {h} : alreadyReceivedProc'[g] = alreadyReceivedProc[g]
    <3>1. alreadyReceivedProc \in [Host -> Seq(Mark)] /\ buf' \in [Host -> Mark]
        BY <2>1, <2>3 DEF MarkerTypes, Accepted
    <3> QED
        BY <2>2, <3>1
  <2>9. /\ alreadyReceivedProc'[h] \in Seq(Mark)
        /\ Range(alreadyReceivedProc'[h]) = Range(alreadyReceivedProc[h]) \cup {buf'[h]}
        /\ buf'[h] \notin Range(alreadyReceivedProc[h]) /\ Different(alreadyReceivedProc[h])
             => Different(alreadyReceivedProc'[h])
    <3>1. PICK s \in Seq(Mark), b \in Mark : s = alreadyReceivedProc[h] /\ b = buf'[h]
        BY <2>8
    <3>2. Append(s, b) \in Seq(Mark)
        OBVIOUS
    <3>3. \A n : n \in Range(Append(s, b)) <=> n \in Range(s) \/ n = b
        BY AppendedMarker
    <3>4. b \notin Range(s) /\ Different(s) => Different(Append(s, b))
        BY AppendedMarker
    <3> QED
        BY <2>8, <3>1, <3>2, <3>3, <3>4
  <2>10. TypeOK'
    <3>1. alreadyReceivedProc' \in [Host -> Seq(Mark)]
        BY <2>1, <2>2, <2>8, <2>9 DEF MarkerTypes
    <3>2. /\ backlog' \in [Host -> Seq(Host)]
          /\ \A g \in Host : Len(backlog'[g]) < Cardinality(Host)
          /\ buf' \in [Host -> Mark]
        BY <2>3 DEF Accepted
    <3>3. MarkerTypes'
        BY <2>1, <2>7, <3>1, <3>2 DEF MarkerTypes
    <3> QED
        BY <2>1, <2>2, <2>6, <3>3, TypeParts, MulticastTypesFrame, ChannelTypesFrame, StateTypesFrame
  <2>11. MarkerInv'
    <3>1. ThreadsInOrder'
      <4>1. Listener(h) # Main(Initiator) /\ Listener(h) # Listener(Initiator)
            /\ Listener(h)[2] = "listener" /\ Listener(h) \in Thread
          BY <2>4, ThreadFacts
      <4> QED
          BY <2>1, <2>3, <2>5, <2>7, <4>1, OrderKept
    <3>2. ASSUME ShortIds PROVE MarkersReadOnce'
      <4>1. \A p, g : MarkerSent(p, g)' <=> MarkerSent(p, g)
          BY <2>7 DEF MarkerSent
      <4>2. ASSUME NEW g \in Host
            PROVE  LET markers == alreadyReceivedProc'[g]
                   IN  /\ \A i, j \in DOMAIN markers : markers[i] = markers[j] => i = j
                       /\ \A i \in DOMAIN markers :
                            MarkerSent(markers[i], g) /\ markers[i] \notin Range(backlog'[g])
                       /\ pc'[Listener(g)] = "marker" =>
                            /\ MarkerSent(buf'[g], g)
                            /\ buf'[g] \notin Range(backlog'[g])
                            /\ buf'[g] \notin Range(markers)
                       /\ Finished(g)' => ~ Missing(g, markers)
        <5> DEFINE old == alreadyReceivedProc[g]
        <5>1. /\ \A i, j \in DOMAIN old : old[i] = old[j] => i = j
              /\ \A i \in DOMAIN old : MarkerSent(old[i], g) /\ old[i] \notin Range(backlog[g])
              /\ pc[Listener(g)] = "marker" =>
                   MarkerSent(buf[g], g) /\ buf[g] \notin Range(backlog[g]) /\ buf[g] \notin Range(old)
              /\ Finished(g) => ~ Missing(g, old)
            BY <2>1, <3>2 DEF MarkersReadOnce, MarkerInv
        <5>2. \A n \in Range(old) : MarkerSent(n, g) /\ n \notin Range(backlog[g])
            BY <5>1 DEF Range
        <5>3. CASE g = h
          <6>1. pc'[Listener(g)] # "marker" /\ ~ Finished(g)'
              BY <2>6, <5>3 DEF Finished
          <6>2. buf'[g] \notin Range(old)
              BY <2>3, <3>2, <5>2, <5>3 DEF Accepted
          <6>3. \A i, j \in DOMAIN alreadyReceivedProc'[g] :
                  alreadyReceivedProc'[g][i] = alreadyReceivedProc'[g][j] => i = j
              BY <2>9, <5>1, <5>3, <6>2 DEF Different
          <6>4. \A i \in DOMAIN alreadyReceivedProc'[g] : \A n : n = alreadyReceivedProc'[g][i] =>
                  MarkerSent(n, g) /\ n \notin Range(backlog'[g])
            <7>1. MarkerSent(buf'[h], h) /\ buf'[h] \notin Range(backlog'[h])
                BY <2>3, <3>2 DEF Accepted
            <7>2. Range(backlog'[h]) \subseteq Range(backlog[h])
                BY <2>3 DEF Accepted
            <7>3. \A i \in DOMAIN alreadyReceivedProc'[h] : \A n : n = alreadyReceivedProc'[h][i] =>
                    n = buf'[h] \/ n \in Range(old)
              <8>1. \A i \in DOMAIN alreadyReceivedProc'[h] :
                      alreadyReceivedProc'[h][i] \in Range(alreadyReceivedProc'[h])
                  BY DEF Range
              <8> QED
                  BY <2>9, <5>3, <8>1
            <7> QED
                BY <5>2, <5>3, <7>1, <7>2, <7>3
          <6> QED
              BY <6>1, <6>3, <6>4
        <5>4. CASE g # h
          <6>1. pc'[Listener(g)] = pc[Listener(g)] /\ buf'[g] = buf[g]
                /\ alreadyReceivedProc'[g] = old
              BY <2>3, <2>6, <2>8, <5>4, ThreadFacts DEF Accepted
          <6> QED
              BY <2>3, <5>1, <6>1 DEF Accepted, Finished
        <5> QED
            BY <5>3, <5>4
      <4> QED
          BY <2>7, <4>2 DEF MarkersReadOnce, MarkerSent, Missing
    <3> QED
        BY <2>3, <3>1, <3>2 DEF MarkerInv, ShortIds
  <2>12. MessageInv'
      BY <2>1, <2>2, MessagesFrame
  <2>13. CopyInv'
    <3>1. \A g \in Host : Copied(g) => Copied(g)'
      <4> TAKE g \in Host
      <4>1. CASE g = h
          BY <2>2, <2>4, <4>1 DEF Copied
      <4>2. CASE g # h
          BY <2>6, <2>7, <4>2, ThreadFacts DEF Copied
      <4> QED
          BY <4>1, <4>2
    <3>2. pc'[Main(Initiator)] = pc[Main(Initiator)]
        BY <2>4, <2>6, ThreadFacts
    <3> QED
        BY <2>1, <2>2, <3>1, <3>2, CopiesKept DEF stateVars, bufferVars, channelVars
  <2> QED
      BY <2>10, <2>11, <2>12, <2>13, InvParts
<1> QED
    BY <1>1, <1>2


\* A drained channel holds what it held and what was in the buffer.
LEMMA DrainFacts ==
    ASSUME NEW channel \in [Host -> SUBSET Packet], NEW buffer \in SUBSET Packet, NEW markers
    PROVE  /\ Drain(channel, buffer, markers) \in [Host -> SUBSET Packet]
           /\ \A p \in Host : Drain(channel, buffer, markers)[p] \subseteq channel[p] \cup buffer
    BY DEF Drain

LEMMA InvProcessMarker ==
    ASSUME SnapshotInv, NEW h \in Host, ProcessMarker(h)
    PROVE  SnapshotInv'
<1>1. /\ MulticastTypes /\ StateTypes /\ ChannelTypes /\ MarkerTypes /\ Places
      /\ TypeOK /\ MarkerInv /\ MessageInv /\ CopyInv
      /\ ThreadsInOrder /\ MarkersSentOnce
    BY InvParts, TypeParts DEF MarkerInv
<1> DEFINE place == IF Missing(h, Append(alreadyReceivedProc[h], buf[h])) THEN "accept" ELSE "stop"
           drained == Drain(inboundChannelState[h], inboundMessageBuffer[h], alreadyReceivedProc[h])
           sentOut == Drain(outboundChannelState[h], outboundMessageBuffer[h], alreadyReceivedProc[h])
<1>2. /\ pc[Listener(h)] = "marker"
      /\ pc' = [pc EXCEPT ![Listener(h)] = place]
      /\ alreadyReceivedProc' = [alreadyReceivedProc EXCEPT ![h] = Append(alreadyReceivedProc[h], buf[h])]
      /\ inboundChannelState' = [inboundChannelState EXCEPT ![h] = drained]
      /\ outboundChannelState' = [outboundChannelState EXCEPT ![h] = sentOut]
      /\ inboundMessageBuffer' = [inboundMessageBuffer EXCEPT ![h] = {}]
      /\ outboundMessageBuffer' = [outboundMessageBuffer EXCEPT ![h] = {}]
      /\ UNCHANGED <<multicastVars, stateVars, backlog, buf, due>>
    BY DEF ProcessMarker
<1>3. /\ drained \in [Host -> SUBSET Packet]
      /\ \A p \in Host : drained[p] \subseteq inboundChannelState[h][p] \cup inboundMessageBuffer[h]
      /\ sentOut \in [Host -> SUBSET Packet]
    BY <1>1, DrainFacts DEF ChannelTypes
<1>4. /\ place \in {"accept", "stop"}
      /\ place = "stop" => ~ Missing(h, Append(alreadyReceivedProc[h], buf[h]))
    OBVIOUS
<1> HIDE DEF place, drained, sentOut
<1>5. Goes(Listener(h), place)
    BY <1>2, <1>4, ThreadFacts DEF Goes, ListenerPC
<1>6. /\ Places'
      /\ pc'[Listener(h)] = place
      /\ \A u \in Thread \ {Listener(h)} : pc'[u] = pc[u]
    BY <1>1, <1>5, GoesFacts, ThreadFacts
<1>7. /\ UNCHANGED <<amInitiator, recordMessages, locsnap, sent, backlog, buf, due>>
      /\ amInitiator[Initiator]
    BY <1>1, <1>2 DEF stateVars, multicastVars, ThreadsInOrder
<1>8. /\ alreadyReceivedProc[h] \in Seq(Mark) /\ buf[h] \in Mark
      /\ alreadyReceivedProc'[h] = Append(alreadyReceivedProc[h], buf[h])
      /\ \A g \in Host \ {h} : alreadyReceivedProc'[g] = alreadyReceivedProc[g]
    BY <1>1, <1>2 DEF MarkerTypes
<1>9. /\ alreadyReceivedProc'[h] \in Seq(Mark)
      /\ \A n : n \in Range(alreadyReceivedProc'[h]) <=>
                  n \in Range(alreadyReceivedProc[h]) \/ n = buf[h]
      /\ buf[h] \notin Range(alreadyReceivedProc[h]) /\ Different(alreadyReceivedProc[h])
           => Different(alreadyReceivedProc'[h])
  <2>1. PICK s \in Seq(Mark), b \in Mark : s = alreadyReceivedProc[h] /\ b = buf[h]
      BY <1>8
  <2>2. Append(s, b) \in Seq(Mark)
      OBVIOUS
  <2>3. \A n : n \in Range(Append(s, b)) <=> n \in Range(s) \/ n = b
      BY AppendedMarker
  <2>4. b \notin Range(s) /\ Different(s) => Different(Append(s, b))
      BY AppendedMarker
  <2> QED
      BY <1>8, <2>1, <2>2, <2>3, <2>4
<1>10. TypeOK'
  <2>1. MarkerTypes'
    <3>1. alreadyReceivedProc' \in [Host -> Seq(Mark)]
        BY <1>1, <1>2, <1>8, <1>9 DEF MarkerTypes
    <3>2. /\ backlog \in [Host -> Seq(Host)]
          /\ \A g \in Host : Len(backlog[g]) < Cardinality(Host)
          /\ buf \in [Host -> Mark]
          /\ due \in [Thread -> SUBSET Host]
        BY <1>1 DEF MarkerTypes
    <3> QED
        BY <1>7, <3>1, <3>2, Zenon DEF MarkerTypes
  <2>2. ChannelTypes'
      BY <1>1, <1>2, <1>3 DEF ChannelTypes
  <2> QED
      BY <1>1, <1>2, <1>6, <2>1, <2>2, TypeParts, MulticastTypesFrame, StateTypesFrame
<1>11. MarkerInv'
  <2>1. ThreadsInOrder'
    <3>1. place \notin Copying /\ place \notin Range(Steps)
        BY <1>4, StepFacts DEF Copying
    <3> QED
        BY <1>1, <1>5, <1>7, <3>1, OrderKept, ThreadFacts
  <2>2. MarkersSentOnce'
      BY <1>1, <1>7, SentFrame
  <2>3. ASSUME ShortIds PROVE MarkersReadOnce'
    <3>1. \A p, g : MarkerSent(p, g)' <=> MarkerSent(p, g)
        BY <1>7 DEF MarkerSent
    <3>2. ASSUME NEW g \in Host
          PROVE  LET markers == alreadyReceivedProc'[g]
                 IN  /\ \A i, j \in DOMAIN markers : markers[i] = markers[j] => i = j
                     /\ \A i \in DOMAIN markers :
                          MarkerSent(markers[i], g) /\ markers[i] \notin Range(backlog[g])
                     /\ pc'[Listener(g)] = "marker" =>
                          /\ MarkerSent(buf[g], g)
                          /\ buf[g] \notin Range(backlog[g])
                          /\ buf[g] \notin Range(markers)
                     /\ Finished(g)' => ~ Missing(g, markers)
      <4> DEFINE old == alreadyReceivedProc[g]
      <4>1. /\ \A i, j \in DOMAIN old : old[i] = old[j] => i = j
            /\ \A i \in DOMAIN old : MarkerSent(old[i], g) /\ old[i] \notin Range(backlog[g])
            /\ pc[Listener(g)] = "marker" =>
                 MarkerSent(buf[g], g) /\ buf[g] \notin Range(backlog[g]) /\ buf[g] \notin Range(old)
            /\ Finished(g) => ~ Missing(g, old)
          BY <1>1, <2>3 DEF MarkersReadOnce, MarkerInv
      <4>2. \A n \in Range(old) : MarkerSent(n, g) /\ n \notin Range(backlog[g])
          BY <4>1 DEF Range
      <4>3. CASE g = h
        <5>1. /\ pc'[Listener(g)] # "marker"
              /\ Finished(g)' => ~ Missing(g, alreadyReceivedProc'[g])
            BY <1>4, <1>6, <1>8, <4>3 DEF Finished
        <5>2. \A i, j \in DOMAIN alreadyReceivedProc'[g] :
                alreadyReceivedProc'[g][i] = alreadyReceivedProc'[g][j] => i = j
            BY <1>2, <1>9, <4>1, <4>3 DEF Different
        <5>3. \A i \in DOMAIN alreadyReceivedProc'[g] : \A n : n = alreadyReceivedProc'[g][i] =>
                n = buf[h] \/ n \in Range(old)
          <6>1. \A i \in DOMAIN alreadyReceivedProc'[h] :
                  alreadyReceivedProc'[h][i] \in Range(alreadyReceivedProc'[h])
              BY DEF Range
          <6> QED
              BY <1>9, <4>3, <6>1
        <5>4. \A i \in DOMAIN alreadyReceivedProc'[g] : \A n : n = alreadyReceivedProc'[g][i] =>
                MarkerSent(n, g) /\ n \notin Range(backlog[g])
            BY <1>2, <4>1, <4>2, <4>3, <5>3
        <5> QED
            BY <5>1, <5>2, <5>4
      <4>4. CASE g # h
        <5>1. pc'[Listener(g)] = pc[Listener(g)] /\ alreadyReceivedProc'[g] = old
            BY <1>6, <1>8, <4>4, ThreadFacts
        <5> QED
            BY <4>1, <5>1 DEF Finished
      <4> QED
          BY <4>3, <4>4
    <3> QED
        BY <1>7, <3>2 DEF MarkersReadOnce, MarkerSent, Missing
  <2> QED
      BY <2>1, <2>2, <2>3 DEF MarkerInv, ShortIds
<1>12. MessageInv'
    BY <1>1, <1>2, MessagesFrame
<1>13. CopyInv'
  <2>1. /\ \A g : Held(g)' = Held(g)
        /\ \A g, n : Holds(g, n)' <=> Holds(g, n)
        /\ UNCHANGED <<deliveryQueue, deliveredMessage>>
      BY <1>2, <1>7 DEF Held, Holds, multicastVars
  <2>2. \A g \in Host : Copied(g) => Copied(g)'
      BY <1>1, <1>4, <1>5, <1>7, StillCopied, ThreadFacts DEF Copying
  <2>3. Copied(h)
      BY <1>2, <1>7 DEF Copied, Copying
  <2>4. \A g \in Host \ {h} : /\ inboundMessageBuffer'[g] = inboundMessageBuffer[g]
                              /\ inboundChannelState'[g] = inboundChannelState[g]
      BY <1>1, <1>2 DEF ChannelTypes
  <2>5. /\ inboundMessageBuffer'[h] = {}
        /\ inboundChannelState'[h] = drained
      BY <1>1, <1>2 DEF ChannelTypes
  <2>6. \A g \in Host :
         \/ recordMessages'[g]
         \/ inboundMessageBuffer'[g] # {}
         \/ \E p \in Host : inboundChannelState'[g][p] # {}
         => Copied(g)'
    <3> TAKE g \in Host
    <3>1. CASE g = h
        BY <2>2, <2>3, <3>1
    <3>2. CASE g # h
        BY <1>1, <1>7, <2>2, <2>4, <3>2 DEF CopyInv, CopiesHeld
    <3> QED
        BY <3>1, <3>2
  <2>7. pc'[Main(Initiator)] = pc[Main(Initiator)]
      BY <1>6, ThreadFacts, CountAssumption
  <2>8. \A g \in Host : \A m \in Held(g)' : Holds(g, m)'
      BY <1>1, <2>1 DEF CopyInv, CopiesHeld
  <2>9. \A k \in 1 .. SnapshotAfter :
         /\ pc'[Main(Initiator)] = "copyDelivered" =>
              \/ <<Initiator, k>> \in locsnap'[Initiator].deliveryQueue
              \/ <<Initiator, k>> \in deliveredMessage'[Initiator]
         /\ pc'[Main(Initiator)] = "startRecording" \/ amInitiator'[Initiator] =>
              <<Initiator, k>> \in Held(Initiator)'
      BY <1>1, <1>7, <2>1, <2>7 DEF CopyInv, CopiesHeld
  <2>10. RecordedNotInState'
    <3> SUFFICES ASSUME NEW g \in Host,
                        NEW x \in inboundMessageBuffer'[g] \cup UNION Range(inboundChannelState'[g]),
                        x.type = "data"
                 PROVE  x.msg \notin Held(g)
        BY <2>1 DEF RecordedNotInState
    <3>1. x \in inboundMessageBuffer[g] \cup UNION Range(inboundChannelState[g])
      <4>1. CASE g = h
        <5>1. PICK p \in Host : x \in drained[p]
            BY <1>3, <2>5, <4>1 DEF Range
        <5>2. x \in inboundChannelState[h][p] \/ x \in inboundMessageBuffer[h]
            BY <1>3, <5>1
        <5> QED
            BY <1>1, <4>1, <5>2, RecordedPackets
      <4>2. CASE g # h
          BY <2>4, <4>2
      <4> QED
          BY <4>1, <4>2
    <3> QED
        BY <1>1, <3>1 DEF CopyInv, RecordedNotInState
  <2> QED
      BY <2>6, <2>8, <2>9, <2>10 DEF CopyInv, CopiesHeld
<1> QED
    BY <1>10, <1>11, <1>12, <1>13, InvParts

LEMMA InvStopRecording ==
    ASSUME SnapshotInv, NEW h \in Host, StopRecording(h)
    PROVE  SnapshotInv'
<1>1. /\ MulticastTypes /\ StateTypes /\ ChannelTypes /\ MarkerTypes /\ Places
      /\ TypeOK /\ MarkerInv /\ MessageInv /\ CopyInv
      /\ ThreadsInOrder /\ MarkersSentOnce
    BY InvParts, TypeParts DEF MarkerInv
<1>2. /\ pc[Listener(h)] = "stop"
      /\ recordMessages' = [recordMessages EXCEPT ![h] = FALSE]
      /\ pc' = [pc EXCEPT ![Listener(h)] = "done"]
      /\ UNCHANGED <<multicastVars, bufferVars, channelVars, markerVars, amInitiator, locsnap>>
    BY DEF StopRecording
<1>3. Goes(Listener(h), "done")
    BY <1>2, ThreadFacts DEF Goes, ListenerPC
<1>4. /\ Places'
      /\ pc'[Listener(h)] = "done"
      /\ \A u \in Thread \ {Listener(h)} : pc'[u] = pc[u]
    BY <1>1, <1>3, GoesFacts, ThreadFacts
<1>5. amInitiator' = amInitiator /\ sent' = sent /\ amInitiator[Initiator]
    BY <1>1, <1>2 DEF multicastVars, ThreadsInOrder
<1>6. TypeOK'
  <2>1. StateTypes'
      BY <1>1, <1>2 DEF StateTypes
  <2> QED
      BY <1>1, <1>2, <1>4, <2>1, TypeParts, MulticastTypesFrame, ChannelTypesFrame, MarkerTypesFrame
<1>7. MarkerInv'
  <2>1. ThreadsInOrder'
    <3>1. "done" \notin Copying /\ "done" \notin Range(Steps)
        BY StepFacts DEF Copying
    <3> QED
        BY <1>1, <1>3, <1>5, <3>1, OrderKept, ThreadFacts
  <2>2. MarkersSentOnce'
      BY <1>1, <1>2, SentFrame DEF markerVars
  <2>3. \A g \in Host : /\ pc'[Listener(g)] = "marker" => pc[Listener(g)] = "marker"
                        /\ Finished(g)' => Finished(g)
      BY <1>2, <1>4, ThreadFacts DEF Finished
  <2>4. ShortIds => MarkersReadOnce'
      BY <1>1, <1>2, <2>3, ReadFrame DEF MarkerInv
  <2> QED
      BY <2>1, <2>2, <2>4 DEF MarkerInv, ShortIds
<1>8. MessageInv'
    BY <1>1, <1>2, MessagesFrame
<1>9. CopyInv'
  <2>1. \A g \in Host : Copied(g) => Copied(g)'
      BY <1>1, <1>3, <1>5, StillCopied, ThreadFacts DEF Copying
  <2>2. pc'[Main(Initiator)] = pc[Main(Initiator)]
      BY <1>4, ThreadFacts, CountAssumption
  <2>3. \A g \in Host : recordMessages'[g] => recordMessages[g]
      BY <1>1, <1>2 DEF StateTypes
  <2> QED
      BY <1>1, <1>2, <2>1, <2>2, <2>3, CopiesKept DEF bufferVars, channelVars
<1> QED
    BY <1>6, <1>7, <1>8, <1>9, InvParts

-----------------------------------------------------------------------------
(***************************************************************************)
(* The invariant.                                                          *)
(***************************************************************************)
LEMMA SnapshotInit == Init => SnapshotInv
<1> SUFFICES ASSUME Init PROVE SnapshotInv
    OBVIOUS
<1>1. Initiator \in Host /\ SnapshotAfter \in Nat /\ SnapshotAfter >= 1
      /\ Count \in [Host -> Nat]
    BY CountAssumption
<1>2. \A h \in Host : pc[Main(h)] = "multicast" /\ pc[Listener(h)] = "first"
    BY ThreadFacts DEF Init
<1>3. MulticastTypes
    BY <1>1 DEF Init, MulticastTypes
<1>4. StateTypes /\ ChannelTypes
    BY DEF Init, StateTypes, ChannelTypes
<1>5. MarkerTypes
  <2>1. Cardinality(Host) \in Nat /\ 0 < Cardinality(Host)
      BY HostAssumption, FS_CardinalityType
  <2>2. <<>> \in Seq(Host) /\ <<>> \in Seq(Mark) /\ Len(<<>>) = 0
      OBVIOUS
  <2>3. /\ backlog \in [Host -> Seq(Host)]
        /\ alreadyReceivedProc \in [Host -> Seq(Mark)]
        /\ \A h \in Host : Len(backlog[h]) < Cardinality(Host)
      BY <2>1, <2>2 DEF Init
  <2>4. buf \in [Host -> Mark]
    <3>1. 0 \in Mark
        BY DEF Mark
    <3> QED
        BY <3>1 DEF Init
  <2>5. due \in [Thread -> SUBSET Host]
      BY ThreadFacts DEF Init, Others
  <2> QED
      BY <2>3, <2>4, <2>5 DEF MarkerTypes
<1>6. Places
  <2>1. pc \in [Thread -> {"multicast"} \cup ListenerPC]
      BY DEF Init, ListenerPC
  <2> QED
      BY <1>2, <2>1 DEF Places, ListenerPC
<1>7. ThreadsInOrder
  <2>1. sent[Initiator] = 0 /\ ~ amInitiator[Initiator]
      BY <1>1 DEF Init
  <2> QED
      BY <1>1, <1>2, <2>1, StepFacts DEF Init, ThreadsInOrder, Copying, Others
<1>8. MarkersSentOnce
    BY ThreadFacts DEF Init, MarkersSentOnce
<1>9. MarkersReadOnce
  <2>1. \A h \in Host : DOMAIN alreadyReceivedProc[h] = {}
      BY DEF Init
  <2> QED
      BY <1>2, <2>1 DEF MarkersReadOnce, Finished
<1>10. MessageInv
  <2>1. MessagesHeld
    <3>1. \A m \in Msg : sent[m[1]] = 0 /\ ~ (m[2] =< sent[m[1]])
        BY <1>1, MsgFacts DEF Init
    <3>2. \A h \in Host, m \in Msg : ~ Holds(h, m) /\ h \notin acks[m]
            /\ m \notin deliverable[h] /\ m \notin deliveredMessage[h]
        BY DEF Init, Holds
    <3> QED
        BY <3>1, <3>2 DEF MessagesHeld
  <2>2. TruthfulPackets
      BY DEF Init, TruthfulPackets
  <2> QED
      BY <2>1, <2>2 DEF MessageInv
<1>11. CopyInv
  <2>1. \A h \in Host : Held(h) = {}
      BY DEF Init, Held
  <2>2. \A h \in Host : /\ ~ recordMessages[h] /\ inboundMessageBuffer[h] = {}
                        /\ \A p \in Host : inboundChannelState[h][p] = {}
      BY DEF Init
  <2>3. pc[Main(Initiator)] = "multicast" /\ ~ amInitiator[Initiator]
      BY <1>1, <1>2 DEF Init
  <2> QED
      BY <2>1, <2>2, <2>3 DEF CopyInv, CopiesHeld, RecordedNotInState
<1> QED
    BY <1>3, <1>4, <1>5, <1>6, <1>7, <1>8, <1>9, <1>10, <1>11, TypeParts, InvParts DEF MarkerInv

LEMMA SnapshotStep ==
    ASSUME SnapshotInv, Next
    PROVE  SnapshotInv'
<1>1. CASE \E h \in Host : Multicast(h) \/ Handle(h) \/ Listen(h)
    BY <1>1, InvMulticast, InvHandle, InvAcceptFirst, InvAcceptNext, InvProcessMarker,
       InvStopRecording DEF Listen
<1>2. CASE \E x \in network : Receive(x.to, x)
    BY <1>2, InvReceive
<1>3. CASE \E t \in Thread : TakeSnapshot(t)
    BY <1>3, InvCopyQueue, InvCopyDelivered, InvStartRecording, InvSendMarker DEF TakeSnapshot
<1> QED
    BY <1>1, <1>2, <1>3 DEF Next

LEMMA SnapshotStutter ==
    ASSUME SnapshotInv, UNCHANGED vars
    PROVE  SnapshotInv'
<1>1. /\ UNCHANGED <<multicastVars, bufferVars, channelVars, markerVars, stateVars, pc>>
      /\ UNCHANGED <<locsnap, amInitiator, recordMessages, inboundMessageBuffer,
                     inboundChannelState, deliveryQueue, deliveredMessage, sent>>
    BY DEF vars, multicastVars, stateVars, bufferVars, channelVars
<1>2. TypeOK'
    BY <1>1, InvParts, TypeParts, MulticastTypesFrame, StateTypesFrame, ChannelTypesFrame,
       MarkerTypesFrame, PlacesFrame
<1>3. MarkerInv'
    BY <1>1, InvParts, MarkersFrame
<1>4. MessageInv'
    BY <1>1, InvParts, MessagesFrame
<1>5. CopyInv'
    BY <1>1, InvParts, CopiesFrame DEF Holds
<1> QED
    BY <1>2, <1>3, <1>4, <1>5, InvParts


\* The threads, the markers and the messages stay tied to each other whatever the
\* order of the steps: SnapshotInv is an invariant.
THEOREM SnapshotInvariance == Spec => []SnapshotInv
<1>1. Init => SnapshotInv
    BY SnapshotInit
<1>2. SnapshotInv /\ [Next]_vars => SnapshotInv'
    BY SnapshotStep, SnapshotStutter
<1> QED
    BY <1>1, <1>2, PTL DEF Spec

\* Every variable keeps its type; in particular a message is not both queued and
\* delivered, and no backlog holds as many markers as there are hosts.
THEOREM TypeInvariance == Spec => []TypeOK
<1>1. SnapshotInv => TypeOK
    BY DEF SnapshotInv
<1> QED
    BY <1>1, SnapshotInvariance, PTL

\* No data message is both in the recorded state of a host and among the packets
\* the host recorded on its channels, however copying, recording and handling
\* interleave (get_local_state_snapshot and the three lines after it).
THEOREM RecordedOnce == Spec => []RecordedNotInState
<1>1. SnapshotInv => RecordedNotInState
    BY DEF SnapshotInv
<1> QED
    BY <1>1, SnapshotInvariance, PTL

\* The two critical sections of get_local_state_snapshot lose no message of the
\* initiator: its recorded state has all it multicast up to the message of -X.
THEOREM InitiatorComplete == Spec => []InitiatorStateComplete
<1>1. SnapshotInv => InitiatorStateComplete
  <2> SUFFICES ASSUME SnapshotInv, Recorded(Initiator) PROVE
               \A k \in 1 .. SnapshotAfter : <<Initiator, k>> \in Held(Initiator)
      BY DEF InitiatorStateComplete
  <2>1. ThreadsInOrder /\ CopiesHeld /\ Initiator \in Host
      BY CountAssumption DEF SnapshotInv
  <2>2. amInitiator[Initiator]
      BY <2>1 DEF Recorded, ThreadsInOrder
  <2> QED
      BY <2>1, <2>2 DEF CopiesHeld
<1> QED
    BY <1>1, SnapshotInvariance, PTL

\* Once a host has recorded its state, no step changes the copy: neither a late
\* marker nor the other thread of the host takes the snapshot again.
THEOREM CopiedOnce == Spec => StateRecordedOnce
<1>1. ASSUME SnapshotInv, [Next]_vars
      PROVE  \A h \in Host : Recorded(h) => locsnap'[h] = locsnap[h]
  <2>1. CASE UNCHANGED locsnap
      BY <2>1
  <2>2. ASSUME NEW t \in Thread, CopyQueue(t) \/ CopyDelivered(t)
        PROVE  \A h \in Host : Recorded(h) => locsnap'[h] = locsnap[h]
    <3>1. pc[t] \in {"copyQueue", "copyDelivered"} /\ pc[t] \in Copying
        BY <2>2 DEF CopyQueue, CopyDelivered, Copying
    <3>2. /\ t[1] \in Host /\ t = Taker(t[1]) /\ ~ amInitiator[t[1]]
          /\ pc[Listener(t[1])] \in {"first"} \cup Copying
        BY <1>1, <3>1, NothingRecorded
    <3>3. ThreadsInOrder /\ Initiator \in Host
        BY <1>1, CountAssumption DEF SnapshotInv
    <3>4. ~ Recorded(t[1])
      <4>1. CASE t[1] = Initiator
          BY <3>2, <3>3, <4>1 DEF Recorded, ThreadsInOrder
      <4>2. CASE t[1] # Initiator
          BY <3>1, <3>2, <4>2 DEF Recorded, Taker
      <4> QED
          BY <4>1, <4>2
    <3>5. \A h \in Host \ {t[1]} : locsnap'[h] = locsnap[h]
      <4>1. locsnap \in [Host -> [deliveryQueue : SUBSET Msg, deliveredMessage : SUBSET Msg]]
          BY <1>1, InvParts, TypeParts DEF StateTypes
      <4> QED
          BY <2>2, <4>1 DEF CopyQueue, CopyDelivered
    <3> QED
        BY <3>4, <3>5
  <2>3. \/ UNCHANGED locsnap
        \/ \E t \in Thread : CopyQueue(t) \/ CopyDelivered(t)
    <3>1. CASE UNCHANGED vars
        BY <3>1 DEF vars, stateVars
    <3>2. CASE \E h \in Host : Multicast(h) \/ Handle(h) \/ Listen(h)
        BY <3>2 DEF Multicast, Handle, Listen, AcceptFirst, AcceptNext, ProcessMarker,
                    StopRecording, stateVars
    <3>3. CASE \E x \in network : Receive(x.to, x)
        BY <3>3 DEF Receive, stateVars
    <3>4. CASE \E t \in Thread : TakeSnapshot(t)
        BY <3>4 DEF TakeSnapshot, StartRecording, SendMarker, stateVars
    <3> QED
        BY <1>1, <3>1, <3>2, <3>3, <3>4 DEF Next
  <2> QED
      BY <2>1, <2>2, <2>3
<1>2. SnapshotInv /\ [Next]_vars => [\A h \in Host : Recorded(h) => locsnap'[h] = locsnap[h]]_vars
    BY <1>1
<1> QED
    BY <1>2, SnapshotInvariance, PTL DEF Spec, StateRecordedOnce

\* Where the ids have at most two digits (MAX_MARKER_SIZE has room for no more), a
\* listener that finishes has processed one marker of each other host, in
\* whatever order the markers and the host's own snapshot came.
THEOREM FinishedHeard ==
    ASSUME ShortIds
    PROVE  Spec => []FinishedHeardAll
<1>1. SnapshotInv => FinishedHeardAll
  <2> SUFFICES ASSUME SnapshotInv, NEW h \in Host, Finished(h)
               PROVE  /\ Range(alreadyReceivedProc[h]) = Others(h)
                      /\ Len(alreadyReceivedProc[h]) = Cardinality(Host) - 1
      BY DEF FinishedHeardAll
  <2>1. MarkersReadOnce /\ MarkerTypes
      BY InvParts, TypeParts DEF SnapshotInv
  <2>2. PICK s \in Seq(Mark) : s = alreadyReceivedProc[h]
      BY <2>1 DEF MarkerTypes
  <2>3. /\ \A i, j \in DOMAIN s : s[i] = s[j] => i = j
        /\ \A i \in DOMAIN s : s[i] \in Others(h)
        /\ ~ (Len(s) < Cardinality(Host) - 1)
      BY <2>1, <2>2 DEF MarkersReadOnce, MarkerSent, Missing, Others
  <2>4. s \in Seq(Others(h))
      BY <2>3
  <2>5. Len(s) \in Nat /\ Cardinality(Host) \in Nat
      BY HostAssumption, FS_CardinalityType
  <2>6. Len(s) >= Cardinality(Host) - 1
      BY <2>3, <2>5
  <2>7. Range(s) = Others(h) /\ Len(s) = Cardinality(Host) - 1
      BY <2>3, <2>4, <2>6, DifferentHosts
  <2> QED
      BY <2>2, <2>7
<1> QED
    BY <1>1, SnapshotInvariance, PTL

-----------------------------------------------------------------------------
(***************************************************************************)
(* The snapshot goes on.                                                   *)
(***************************************************************************)

\* The types that the flow of markers is about.
FlowTypes ==
    /\ pc \in [Thread -> {"multicast"} \cup ListenerPC]
    /\ \A h \in Host : Len(backlog[h]) \in Nat /\ Len(alreadyReceivedProc[h]) \in Nat
    /\ due \in [Thread -> SUBSET Host]
    /\ amInitiator \in [Host -> BOOLEAN]
    /\ ThreadsInOrder

LEMMA FlowTyped == SnapshotInv => FlowTypes
<1> SUFFICES ASSUME SnapshotInv PROVE FlowTypes
    OBVIOUS
<1>1. StateTypes /\ MarkerTypes /\ Places /\ ThreadsInOrder
    BY InvParts, TypeParts DEF MarkerInv
<1>2. /\ backlog \in [Host -> Seq(Host)]
      /\ alreadyReceivedProc \in [Host -> Seq(Mark)]
    BY <1>1 DEF MarkerTypes
<1>3. \A h \in Host : Len(backlog[h]) \in Nat /\ Len(alreadyReceivedProc[h]) \in Nat
    BY <1>2
<1> QED
    BY <1>1, <1>3 DEF FlowTypes, MarkerTypes, StateTypes, Places

\* A step that sends no marker and accepts none leaves the flow as it is, when
\* the listener it moves neither takes a marker in hand nor waits for one.
LEMMA FlowFrame ==
    ASSUME MarkerFlow, UNCHANGED <<backlog, due, alreadyReceivedProc>>,
           \A h \in Host : SentAll(h)' <=> SentAll(h),
           \A h \in Host :
             \/ pc'[Listener(h)] = pc[Listener(h)]
             \/ /\ pc'[Listener(h)] \notin {"first", "accept", "marker"}
                /\ pc[Listener(h)] # "marker"
    PROVE  MarkerFlow'
<1>1. MarkersOwed'
    BY DEF MarkerFlow, MarkersOwed, Taker
<1>2. \A h \in Host : InHand(h)' = InHand(h) /\ MarkersFor(h)' = MarkersFor(h)
    BY DEF InHand, MarkersFor, Taker
<1>3. MarkersCounted'
    BY <1>2 DEF MarkerFlow, MarkersCounted
<1>4. ListenersCount'
    BY DEF MarkerFlow, ListenersCount, Missing
<1> QED
    BY <1>1, <1>3, <1>4 DEF MarkerFlow

\* A step of the multicast.
LEMMA FlowMulticast ==
    ASSUME FlowTypes, MarkerFlow,
           \/ \E h \in Host : Multicast(h) \/ Handle(h)
           \/ \E x \in network : Receive(x.to, x)
    PROVE  MarkerFlow'
<1>1. UNCHANGED <<backlog, due, alreadyReceivedProc, amInitiator>>
    BY DEF Multicast, Handle, Receive, markerVars, stateVars
<1>2. \A h \in Host :
        /\ pc'[Listener(h)] = pc[Listener(h)]
        /\ pc'[Main(h)] = "sendMarkers" <=> pc[Main(h)] = "sendMarkers"
  <2>1. CASE pc' = pc
      BY <2>1
  <2>2. ASSUME NEW g \in Host, Multicast(g)
        PROVE  \A h \in Host :
                 /\ pc'[Listener(h)] = pc[Listener(h)]
                 /\ pc'[Main(h)] = "sendMarkers" <=> pc[Main(h)] = "sendMarkers"
    <3>1. PICK place \in {"multicast", "copyQueue"} :
              pc' = [pc EXCEPT ![Main(g)] = place] /\ pc[Main(g)] = "multicast"
        BY <2>2, StepFacts DEF Multicast
    <3>2. /\ pc'[Main(g)] = place
          /\ \A u \in Thread \ {Main(g)} : pc'[u] = pc[u]
        BY <3>1, ThreadFacts DEF FlowTypes
    <3>3. \A h \in Host : Listener(h) \in Thread \ {Main(g)} /\ Main(h) \in Thread
        BY ThreadFacts
    <3> QED
        BY <3>1, <3>2, <3>3
  <2> QED
      BY <2>1, <2>2 DEF Handle, Receive
<1>3. \A h \in Host : SentAll(h)' <=> SentAll(h)
    BY <1>1, <1>2 DEF SentAll, Copied, Taker
<1> QED
    BY <1>1, <1>2, <1>3, FlowFrame

\* A step of a snapshot before the markers are sent.
LEMMA FlowCopying ==
    ASSUME FlowTypes, MarkerFlow, NEW t \in Thread,
           CopyQueue(t) \/ CopyDelivered(t) \/ StartRecording(t)
    PROVE  MarkerFlow'
<1>1. /\ UNCHANGED <<backlog, due, alreadyReceivedProc>>
      /\ pc[t] \in Copying /\ pc[t] \in Range(Steps)
      /\ pc' = [pc EXCEPT ![t] = StepAfter(t)]
    BY StepFacts DEF CopyQueue, CopyDelivered, StartRecording, markerVars, Advance, Copying
<1>2. /\ pc'[t] = StepAfter(t)
      /\ \A u \in Thread \ {t} : pc'[u] = pc[u]
    BY <1>1 DEF FlowTypes
<1>3. PICK h \in Host : h = t[1] /\ t = Taker(h)
    BY <1>1, OnlyTaker DEF FlowTypes
<1>4. \A g \in Host \ {h} : amInitiator'[g] = amInitiator[g]
    BY <1>3 DEF CopyQueue, CopyDelivered, StartRecording, FlowTypes
<1>5. ~ SentAll(h)
  <2>1. ~ Copied(h)
      BY <1>1, <1>3 DEF Copied, Taker, FlowTypes, ThreadsInOrder
  <2> QED
      BY <2>1 DEF SentAll
<1>6. ~ SentAll(h)'
  <2>1. CASE StartRecording(t)
    <3>1. pc'[t] = "sendMarkers"
        BY <1>2, <2>1, StepFacts DEF StartRecording
    <3> QED
        BY <1>3, <3>1 DEF SentAll, Taker
  <2>2. CASE CopyQueue(t) \/ CopyDelivered(t)
    <3>1. pc'[t] \in Copying /\ amInitiator' = amInitiator
        BY <1>2, <2>2, StepFacts DEF CopyQueue, CopyDelivered, Copying
    <3>2. ~ Copied(h)'
        BY <1>1, <1>3, <3>1 DEF Copied, Taker, FlowTypes, ThreadsInOrder
    <3> QED
        BY <3>2 DEF SentAll
  <2> QED
      BY <2>1, <2>2
<1>7. \A g \in Host : SentAll(g)' <=> SentAll(g)
  <2> TAKE g \in Host
  <2>1. CASE g = h
      BY <1>5, <1>6, <2>1
  <2>2. CASE g # h
    <3>1. /\ Taker(g) # t /\ Taker(g) \in Thread
          /\ g # Initiator => Listener(g) = Taker(g)
        BY <1>3, <2>2, TakerFacts DEF Taker
    <3> QED
        BY <1>2, <1>4, <2>2, <3>1 DEF SentAll, Copied, Taker
  <2> QED
      BY <2>1, <2>2
<1>8. \A g \in Host :
        \/ pc'[Listener(g)] = pc[Listener(g)]
        \/ /\ pc'[Listener(g)] \notin {"first", "accept", "marker"}
           /\ pc[Listener(g)] # "marker"
  <2>1. pc'[t] \notin {"first", "accept", "marker"}
      BY <1>2, StepFacts DEF CopyQueue, CopyDelivered, StartRecording
  <2> QED
      BY <1>1, <1>2, <2>1, ThreadFacts DEF Copying
<1> QED
    BY <1>1, <1>7, <1>8, FlowFrame


\* Where a step of one listener leads, no other place is another.
LEMMA FlowPlaces ==
    ASSUME FlowTypes, NEW t \in Thread, NEW place, pc' = [pc EXCEPT ![t] = place]
    PROVE  /\ pc'[t] = place
           /\ \A g \in Host : Listener(g) # t => pc'[Listener(g)] = pc[Listener(g)]
           /\ \A g \in Host : Taker(g) # t => pc'[Taker(g)] = pc[Taker(g)]
<1>1. pc'[t] = place /\ \A u \in Thread \ {t} : pc'[u] = pc[u]
    BY DEF FlowTypes
<1> QED
    BY <1>1, ThreadFacts, TakerFacts

\* One marker is sent: one more is counted for its receiver.
LEMMA FlowSendMarker ==
    ASSUME FlowTypes, MarkerFlow, SnapshotInv, NEW t \in Thread, NEW p \in Host, SendMarker(t, p)
    PROVE  MarkerFlow'
<1>1. /\ pc[t] = "sendMarkers" /\ pc[t] \in Range(Steps)
      /\ p \in due[t]
      /\ backlog' = [backlog EXCEPT ![p] = Append(@, t[1])]
      /\ due' = [due EXCEPT ![t] = @ \ {p}]
      /\ IF due[t] = {p} THEN pc' = [pc EXCEPT ![t] = Taken(t)] ELSE UNCHANGED pc
      /\ UNCHANGED <<amInitiator, alreadyReceivedProc>>
    BY StepFacts DEF SendMarker, Advance, stateVars
<1>2. PICK h \in Host : h = t[1] /\ t = Taker(h)
    BY <1>1, OnlyTaker DEF FlowTypes
<1>3. p # h /\ \A g \in Host : g # h => Taker(g) # t
  <2>1. MarkersSentOnce
      BY InvParts DEF MarkerInv
  <2> QED
      BY <1>1, <1>2, <2>1, TakerFacts DEF MarkersSentOnce, Others
<1>4. /\ due'[t] = due[t] \ {p}
      /\ \A g \in Host : g # h => due'[Taker(g)] = due[Taker(g)]
    BY <1>1, <1>3, TakerFacts DEF FlowTypes
<1>5. /\ Len(backlog'[p]) = Len(backlog[p]) + 1
      /\ \A g \in Host : g # p => backlog'[g] = backlog[g]
    <2>1. backlog \in [Host -> Seq(Host)]
        BY InvParts, TypeParts DEF MarkerTypes
    <2> QED
        BY <1>1, <1>2, <2>1
<1>6. Taken(t) \in IF t = Main(h) THEN {"multicast"} ELSE {"accept", "stop"}
    BY <1>2, ThreadFacts DEF Taken
<1>7. pc'[t] = IF due[t] = {p} THEN Taken(t) ELSE "sendMarkers"
    BY <1>1, FlowPlaces
<1>8. /\ \A g \in Host : Listener(g) # t => pc'[Listener(g)] = pc[Listener(g)]
      /\ \A g \in Host : g # h => pc'[Taker(g)] = pc[Taker(g)]
  <2>1. CASE due[t] = {p}
    <3>1. pc' = [pc EXCEPT ![t] = Taken(t)]
        BY <1>1, <2>1
    <3> QED
        BY <1>3, <3>1, FlowPlaces
  <2>2. CASE due[t] # {p}
      BY <1>1, <2>2
  <2> QED
      BY <2>1, <2>2
<1>9. \A g \in Host \ {h} : SentAll(g)' <=> SentAll(g)
    BY <1>1, <1>8 DEF SentAll, Copied, Taker
<1>10. SentAll(h)' <=> due[t] = {p}
  <2>1. CASE due[t] # {p}
    <3>1. pc'[Taker(h)] = "sendMarkers"
        BY <1>2, <1>7, <2>1
    <3> QED
        BY <2>1, <3>1 DEF SentAll, Taker
  <2>2. CASE due[t] = {p} /\ h = Initiator
    <3>1. t = Main(h) /\ pc'[t] = "multicast"
        BY <1>2, <1>6, <1>7, <2>2 DEF Taker
    <3>2. amInitiator'[h]
        BY <1>1, <2>2, <3>1 DEF FlowTypes, ThreadsInOrder, Copying
    <3> QED
        BY <2>2, <3>1, <3>2 DEF SentAll, Copied, Taker
  <2>3. CASE due[t] = {p} /\ h # Initiator
    <3>1. t = Listener(h) /\ pc'[t] \in {"accept", "stop"}
        BY <1>2, <1>6, <1>7, <2>3, ThreadFacts DEF Taker
    <3> QED
        BY <2>3, <3>1 DEF SentAll, Copied, Taker, Copying
  <2> QED
      BY <2>1, <2>2, <2>3
<1>11. MarkersOwed'
  <2>1. due'[t] = {} <=> due[t] = {p}
      BY <1>1, <1>4
  <2>2. \A g \in Host : due'[Taker(g)] = {} <=> SentAll(g)'
      BY <1>2, <1>4, <1>9, <1>10, <2>1 DEF MarkerFlow, MarkersOwed
  <2> QED
      BY <2>2 DEF MarkersOwed, Taker
<1>12. \A g \in Host : InHand(g)' = InHand(g)
  <2>1. pc'[t] # "marker" /\ pc[t] # "marker"
      BY <1>1, <1>6, <1>7
  <2> QED
      BY <1>8, <2>1 DEF InHand
<1>13. /\ MarkersFor(p)' = MarkersFor(p) \cup {h} /\ h \notin MarkersFor(p)
       /\ \A g \in Host \ {p} : MarkersFor(g)' = MarkersFor(g)
  <2> DEFINE after(g) == {q \in Others(g) : g \notin due'[Taker(q)]}
  <2>1. \A g \in Host : MarkersFor(g)' = after(g)
      BY DEF MarkersFor, Taker
  <2>2. after(p) = MarkersFor(p) \cup {h} /\ h \notin MarkersFor(p)
      BY <1>1, <1>2, <1>3, <1>4 DEF MarkersFor, Others
  <2>3. \A g \in Host \ {p} : after(g) = MarkersFor(g)
      BY <1>1, <1>2, <1>4 DEF MarkersFor, Others
  <2> QED
      BY <2>1, <2>2, <2>3
<1>14. IsFiniteSet(MarkersFor(p)) /\ Cardinality(MarkersFor(p)) \in Nat
    BY HostAssumption, FS_Subset, FS_CardinalityType DEF MarkersFor, Others
<1>15. Cardinality(MarkersFor(p)') = Cardinality(MarkersFor(p)) + 1
    BY <1>13, <1>14, FS_AddElement
<1>16. MarkersCounted'
  <2>1. ASSUME NEW g \in Host
        PROVE  Len(backlog'[g]) + Len(alreadyReceivedProc'[g]) + InHand(g)'
                 = Cardinality(MarkersFor(g)')
    <3>1. Len(backlog[g]) + Len(alreadyReceivedProc[g]) + InHand(g) = Cardinality(MarkersFor(g))
        BY DEF MarkerFlow, MarkersCounted
    <3>2. /\ Len(backlog[g]) \in Nat /\ Len(alreadyReceivedProc[g]) \in Nat /\ InHand(g) \in Nat
          /\ alreadyReceivedProc'[g] = alreadyReceivedProc[g]
        BY <1>1 DEF FlowTypes, InHand
    <3>3. CASE g = p
      <4>1. Len(backlog'[g]) = Len(backlog[g]) + 1
          BY <1>5, <3>3
      <4>2. Cardinality(MarkersFor(g)') = Cardinality(MarkersFor(g)) + 1
          BY <1>15, <3>3
      <4>3. InHand(g)' = InHand(g)
          BY <1>12
      <4>4. Cardinality(MarkersFor(g)) \in Nat
          BY <1>14, <3>3
      <4>5. Len(alreadyReceivedProc'[g]) = Len(alreadyReceivedProc[g])
          BY <3>2
      <4>6. PICK a \in Nat, b \in Nat, c \in Nat :
              a = Len(backlog[g]) /\ b = Len(alreadyReceivedProc[g]) /\ c = InHand(g)
          BY <3>2
      <4>7. PICK n \in Nat : n = Cardinality(MarkersFor(g))
          BY <4>4
      <4>8. a + b + c = n
          BY <3>1, <4>6, <4>7
      <4>9. (a + 1) + b + c = n + 1
          BY <4>8
      <4> QED
          BY <4>1, <4>2, <4>3, <4>5, <4>6, <4>7, <4>9
    <3>4. CASE g # p
      <4>1. Len(backlog'[g]) = Len(backlog[g])
          BY <1>5, <3>4
      <4>2. MarkersFor(g)' = MarkersFor(g)
          BY <1>13, <3>4
      <4>3. InHand(g)' = InHand(g)
          BY <1>12
      <4> QED
          BY <3>1, <3>2, <4>1, <4>2, <4>3
    <3> QED
        BY <3>3, <3>4
  <2> QED
      BY <2>1 DEF MarkersCounted
<1>17. ListenersCount'
  <2>1. ASSUME NEW g \in Host
        PROVE  /\ pc'[Listener(g)] = "first" => alreadyReceivedProc[g] = <<>>
               /\ pc'[Listener(g)] = "accept" => Missing(g, alreadyReceivedProc[g])
    <3>1. CASE Listener(g) # t
        BY <1>8, <3>1 DEF MarkerFlow, ListenersCount
    <3>2. CASE Listener(g) = t
      <4>1. g = h /\ t[2] # "main"
          BY <1>2, <3>2, ThreadFacts
      <4>2. pc'[t] = "sendMarkers" \/ pc'[t] = Taken(t)
          BY <1>7
      <4> QED
          BY <1>2, <3>2, <4>1, <4>2 DEF Taken
    <3> QED
        BY <3>1, <3>2
  <2> QED
      BY <1>1, <2>1 DEF ListenersCount, Missing
<1> QED
    BY <1>11, <1>16, <1>17 DEF MarkerFlow


\* A listener's step: what it takes from its backlog is then in hand or counted,
\* and it goes where its count sends it.
LEMMA FlowListener ==
    ASSUME FlowTypes, MarkerFlow, NEW h \in Host, NEW place,
           pc' = [pc EXCEPT ![Listener(h)] = place],
           UNCHANGED <<due, amInitiator>>,
           h # Initiator => IF SentAll(h) THEN place \notin {"first", "sendMarkers"} \cup Copying
                                          ELSE place \in Copying,
           Len(backlog'[h]) + Len(alreadyReceivedProc'[h]) + InHand(h)'
             = Len(backlog[h]) + Len(alreadyReceivedProc[h]) + InHand(h),
           place # "first",
           place = "accept" => Missing(h, alreadyReceivedProc'[h]),
           \A g \in Host \ {h} :
             backlog'[g] = backlog[g] /\ alreadyReceivedProc'[g] = alreadyReceivedProc[g]
    PROVE  MarkerFlow'
<1>1. /\ pc'[Listener(h)] = place
      /\ \A g \in Host : Listener(g) # Listener(h) => pc'[Listener(g)] = pc[Listener(g)]
      /\ \A g \in Host : Taker(g) # Listener(h) => pc'[Taker(g)] = pc[Taker(g)]
  <2> Listener(h) \in Thread
      BY ThreadFacts
  <2> QED
      BY FlowPlaces
<1>2. /\ \A g \in Host \ {h} : Listener(g) # Listener(h) /\ Taker(g) # Listener(h)
      /\ h = Initiator => Taker(h) # Listener(h)
    BY ThreadFacts, CountAssumption DEF Taker
<1>3. \A g \in Host : SentAll(g)' <=> SentAll(g)
  <2> TAKE g \in Host
  <2>1. CASE g # h \/ h = Initiator
    <3>1. /\ pc'[Taker(g)] = pc[Taker(g)]
          /\ g # Initiator => pc'[Listener(g)] = pc[Listener(g)]
        BY <1>1, <1>2, <2>1
    <3> QED
        BY <3>1 DEF SentAll, Copied, Taker
  <2>2. CASE g = h /\ h # Initiator
    <3>1. Taker(h) = Listener(h)
        BY <2>2 DEF Taker
    <3> QED
        BY <1>1, <2>2, <3>1 DEF SentAll, Copied, Taker
  <2> QED
      BY <2>1, <2>2
<1>4. MarkersOwed'
    BY <1>3 DEF MarkerFlow, MarkersOwed, Taker
<1>5. \A g \in Host : MarkersFor(g)' = MarkersFor(g)
    BY DEF MarkersFor, Taker
<1>6. MarkersCounted'
  <2>1. ASSUME NEW g \in Host
        PROVE  Len(backlog'[g]) + Len(alreadyReceivedProc'[g]) + InHand(g)'
                 = Cardinality(MarkersFor(g))
    <3>1. Len(backlog[g]) + Len(alreadyReceivedProc[g]) + InHand(g) = Cardinality(MarkersFor(g))
        BY DEF MarkerFlow, MarkersCounted
    <3>2. CASE g = h
        BY <3>1, <3>2
    <3>3. CASE g # h
      <4>1. InHand(g)' = InHand(g)
          BY <1>1, <1>2, <3>3 DEF InHand
      <4> QED
          BY <3>1, <3>3, <4>1
    <3> QED
        BY <3>2, <3>3
  <2> QED
      BY <1>5, <2>1 DEF MarkersCounted
<1>7. ListenersCount'
  <2>1. ASSUME NEW g \in Host
        PROVE  /\ pc'[Listener(g)] = "first" => alreadyReceivedProc'[g] = <<>>
               /\ pc'[Listener(g)] = "accept" => Missing(g, alreadyReceivedProc'[g])
    <3>1. CASE g = h
        BY <1>1, <3>1
    <3>2. CASE g # h
        BY <1>1, <1>2, <3>2 DEF MarkerFlow, ListenersCount
    <3> QED
        BY <3>1, <3>2
  <2> QED
      BY <2>1 DEF ListenersCount, Missing
<1> QED
    BY <1>4, <1>6, <1>7 DEF MarkerFlow

\* One marker moves from the backlog into the hand or the list, or from the
\* hand into the list.
LEMMA OneMoves ==
    ASSUME NEW n \in Nat, NEW k \in Nat
    PROVE  /\ n + k + 1 = (n + 1) + k + 0
           /\ n + (k + 1) + 0 = (n + 1) + k + 0
           /\ n + (k + 1) + 0 = n + k + 1
    OBVIOUS

\* What accepting and counting a marker does to the lengths of the lists.
LEMMA FlowLengths ==
    ASSUME SnapshotInv, NEW h \in Host
    PROVE  /\ Accept(h) => /\ Len(backlog'[h]) + 1 = Len(backlog[h])
                           /\ Len(backlog'[h]) \in Nat
                           /\ \A g \in Host \ {h} : backlog'[g] = backlog[g]
           /\ \A b : alreadyReceivedProc' = [alreadyReceivedProc EXCEPT ![h] = Append(@, b)] /\ b \in Mark =>
                /\ Len(alreadyReceivedProc'[h]) = Len(alreadyReceivedProc[h]) + 1
                /\ Len(alreadyReceivedProc[h]) \in Nat
                /\ \A g \in Host \ {h} : alreadyReceivedProc'[g] = alreadyReceivedProc[g]
<1>1. /\ backlog \in [Host -> Seq(Host)]
      /\ alreadyReceivedProc \in [Host -> Seq(Mark)]
    BY InvParts, TypeParts DEF MarkerTypes
<1>2. ASSUME Accept(h)
      PROVE  /\ Len(backlog'[h]) + 1 = Len(backlog[h])
             /\ Len(backlog'[h]) \in Nat
             /\ \A g \in Host \ {h} : backlog'[g] = backlog[g]
  <2>1. PICK s \in Seq(Host) : s = backlog[h]
      BY <1>1
  <2>2. s # <<>> /\ backlog' = [backlog EXCEPT ![h] = Tail(@)]
      BY <1>2, <2>1 DEF Accept
  <2>3. Len(Tail(s)) + 1 = Len(s) /\ Len(Tail(s)) \in Nat
      BY <2>2
  <2> QED
      BY <1>1, <2>1, <2>2, <2>3
<1>3. ASSUME NEW b \in Mark,
             alreadyReceivedProc' = [alreadyReceivedProc EXCEPT ![h] = Append(@, b)]
      PROVE  /\ Len(alreadyReceivedProc'[h]) = Len(alreadyReceivedProc[h]) + 1
             /\ Len(alreadyReceivedProc[h]) \in Nat
             /\ \A g \in Host \ {h} : alreadyReceivedProc'[g] = alreadyReceivedProc[g]
  <2>1. PICK s \in Seq(Mark) : s = alreadyReceivedProc[h]
      BY <1>1
  <2>2. Len(Append(s, b)) = Len(s) + 1 /\ Len(s) \in Nat
      OBVIOUS
  <2> QED
      BY <1>1, <1>3, <2>1, <2>2
<1> QED
    BY <1>2, <1>3

\* The first marker is accepted: in hand at the initiator, counted elsewhere.
LEMMA FlowAcceptFirst ==
    ASSUME FlowTypes, MarkerFlow, SnapshotInv, NEW h \in Host, AcceptFirst(h)
    PROVE  MarkerFlow'
<1>1. /\ pc[Listener(h)] = "first"
      /\ Accept(h)
      /\ UNCHANGED <<due, amInitiator>>
      /\ IF amInitiator[h]
         THEN /\ pc' = [pc EXCEPT ![Listener(h)] = "marker"]
              /\ UNCHANGED alreadyReceivedProc
         ELSE /\ pc' = [pc EXCEPT ![Listener(h)] = "copyQueue"]
              /\ alreadyReceivedProc' = [alreadyReceivedProc EXCEPT ![h] = Append(@, buf'[h])]
    BY StepFacts DEF AcceptFirst, stateVars
<1>2. amInitiator[h] <=> h = Initiator
    BY <1>1, CountAssumption DEF Accept, FlowTypes, ThreadsInOrder, Others
<1>3. h # Initiator => ~ SentAll(h)
    BY <1>1 DEF SentAll, Copied
<1>4. /\ Len(backlog'[h]) + 1 = Len(backlog[h]) /\ Len(backlog'[h]) \in Nat
      /\ \A g \in Host \ {h} : backlog'[g] = backlog[g]
    BY <1>1, FlowLengths
<1>5. Len(alreadyReceivedProc[h]) \in Nat
    BY DEF FlowTypes
<1>6. Listener(h) \in Thread /\ InHand(h) = 0
    BY <1>1, ThreadFacts DEF InHand
<1>7. CASE amInitiator[h]
  <2>1. pc' = [pc EXCEPT ![Listener(h)] = "marker"] /\ alreadyReceivedProc' = alreadyReceivedProc
      BY <1>1, <1>7
  <2>2. InHand(h)' = 1
      BY <1>6, <2>1, FlowPlaces DEF InHand
  <2>3. Len(backlog'[h]) + Len(alreadyReceivedProc'[h]) + InHand(h)'
          = Len(backlog[h]) + Len(alreadyReceivedProc[h]) + InHand(h)
    <3>1. PICK n \in Nat, k \in Nat :
            n = Len(backlog'[h]) /\ k = Len(alreadyReceivedProc[h])
        BY <1>4, <1>5
    <3>2. Len(backlog[h]) = n + 1 /\ Len(alreadyReceivedProc'[h]) = k
        BY <1>4, <2>1, <3>1
    <3>3. n + k + 1 = (n + 1) + k + 0 /\ n + (k + 1) + 0 = (n + 1) + k + 0
        BY OneMoves
    <3> QED
        BY <1>6, <2>2, <3>1, <3>2, <3>3
  <2> QED
      BY <1>1, <1>2, <1>4, <1>7, <2>1, <2>3, FlowListener
<1>8. CASE ~ amInitiator[h]
  <2>1. /\ pc' = [pc EXCEPT ![Listener(h)] = "copyQueue"]
        /\ alreadyReceivedProc' = [alreadyReceivedProc EXCEPT ![h] = Append(@, buf'[h])]
      BY <1>1, <1>8
  <2>2. InHand(h)' = 0
      BY <1>6, <2>1, FlowPlaces DEF InHand
  <2>3. buf'[h] \in Mark
      BY <1>1, Accepting DEF Accepted
  <2>4. /\ Len(alreadyReceivedProc'[h]) = Len(alreadyReceivedProc[h]) + 1
        /\ \A g \in Host \ {h} : alreadyReceivedProc'[g] = alreadyReceivedProc[g]
      BY <2>1, <2>3, FlowLengths
  <2>5. Len(backlog'[h]) + Len(alreadyReceivedProc'[h]) + InHand(h)'
          = Len(backlog[h]) + Len(alreadyReceivedProc[h]) + InHand(h)
    <3>1. PICK n \in Nat, k \in Nat :
            n = Len(backlog'[h]) /\ k = Len(alreadyReceivedProc[h])
        BY <1>4, <1>5
    <3>2. Len(backlog[h]) = n + 1 /\ Len(alreadyReceivedProc'[h]) = k + 1
        BY <1>4, <2>4, <3>1
    <3>3. n + k + 1 = (n + 1) + k + 0 /\ n + (k + 1) + 0 = (n + 1) + k + 0
        BY OneMoves
    <3> QED
        BY <1>6, <2>2, <3>1, <3>2, <3>3
  <2>6. "copyQueue" \in Copying
      BY DEF Copying
  <2> QED
      BY <1>1, <1>2, <1>3, <1>4, <2>1, <2>4, <2>5, <2>6, FlowListener
<1> QED
    BY <1>7, <1>8


\* A later marker is accepted.
LEMMA FlowAcceptNext ==
    ASSUME FlowTypes, MarkerFlow, SnapshotInv, NEW h \in Host, AcceptNext(h)
    PROVE  MarkerFlow'
<1>1. /\ pc[Listener(h)] = "accept"
      /\ Accept(h)
      /\ pc' = [pc EXCEPT ![Listener(h)] = "marker"]
      /\ UNCHANGED <<due, amInitiator, alreadyReceivedProc>>
    BY DEF AcceptNext, stateVars
<1>2. h # Initiator => SentAll(h)
    BY <1>1 DEF SentAll, Copied, Taker, Copying
<1>3. /\ Len(backlog'[h]) + 1 = Len(backlog[h]) /\ Len(backlog'[h]) \in Nat
      /\ \A g \in Host \ {h} : backlog'[g] = backlog[g]
    BY <1>1, FlowLengths
<1>4. InHand(h) = 0 /\ InHand(h)' = 1
  <2>1. Listener(h) \in Thread
      BY ThreadFacts
  <2>2. pc'[Listener(h)] = "marker"
      BY <1>1, <2>1, FlowPlaces
  <2> QED
      BY <1>1, <2>2 DEF InHand
<1>5. Len(backlog'[h]) + Len(alreadyReceivedProc'[h]) + InHand(h)'
        = Len(backlog[h]) + Len(alreadyReceivedProc[h]) + InHand(h)
  <2>1. PICK n \in Nat, k \in Nat :
          n = Len(backlog'[h]) /\ k = Len(alreadyReceivedProc[h])
      BY <1>3 DEF FlowTypes
  <2>2. Len(backlog[h]) = n + 1 /\ Len(alreadyReceivedProc'[h]) = k
      BY <1>1, <1>3, <2>1
  <2>3. n + k + 1 = (n + 1) + k + 0
      BY OneMoves
  <2> QED
      BY <1>4, <2>1, <2>2, <2>3
<1>6. h # Initiator => IF SentAll(h) THEN "marker" \notin {"first", "sendMarkers"} \cup Copying
                                     ELSE "marker" \in Copying
    BY <1>2 DEF Copying
<1>7. UNCHANGED <<due, amInitiator>> /\ alreadyReceivedProc' = alreadyReceivedProc
    BY <1>1
<1> QED
    BY <1>1, <1>3, <1>5, <1>6, <1>7, FlowListener

\* The marker in hand is counted.
LEMMA FlowProcessMarker ==
    ASSUME FlowTypes, MarkerFlow, SnapshotInv, NEW h \in Host, ProcessMarker(h)
    PROVE  MarkerFlow'
<1> DEFINE markers == Append(alreadyReceivedProc[h], buf[h])
           place   == IF Missing(h, markers) THEN "accept" ELSE "stop"
<1>1. /\ pc[Listener(h)] = "marker"
      /\ pc' = [pc EXCEPT ![Listener(h)] = place]
      /\ alreadyReceivedProc' = [alreadyReceivedProc EXCEPT ![h] = Append(@, buf[h])]
      /\ UNCHANGED <<due, amInitiator, backlog>>
    BY DEF ProcessMarker, stateVars
<1>2. h # Initiator => SentAll(h)
    BY <1>1 DEF SentAll, Copied, Taker, Copying
<1>3. buf[h] \in Mark
    BY InvParts, TypeParts DEF MarkerTypes
<1>4. /\ Len(alreadyReceivedProc'[h]) = Len(alreadyReceivedProc[h]) + 1
      /\ \A g \in Host \ {h} : alreadyReceivedProc'[g] = alreadyReceivedProc[g]
    BY <1>1, <1>3, FlowLengths
<1>5. alreadyReceivedProc'[h] = markers
  <2>1. alreadyReceivedProc \in [Host -> Seq(Mark)]
      BY InvParts, TypeParts DEF MarkerTypes
  <2> QED
      BY <1>1, <2>1
<1>6. /\ place \in {"accept", "stop"}
      /\ place = "accept" => Missing(h, alreadyReceivedProc'[h])
    BY <1>5
<1> HIDE DEF markers, place
<1>7. InHand(h) = 1 /\ InHand(h)' = 0
  <2>1. Listener(h) \in Thread
      BY ThreadFacts
  <2>2. pc'[Listener(h)] = place
      BY <1>1, <2>1, FlowPlaces
  <2>3. place # "marker"
      BY <1>6
  <2> QED
      BY <1>1, <2>2, <2>3 DEF InHand
<1>8. Len(backlog'[h]) + Len(alreadyReceivedProc'[h]) + InHand(h)'
        = Len(backlog[h]) + Len(alreadyReceivedProc[h]) + InHand(h)
  <2>1. PICK n \in Nat, k \in Nat :
          n = Len(backlog[h]) /\ k = Len(alreadyReceivedProc[h])
      BY DEF FlowTypes
  <2>2. Len(backlog'[h]) = n /\ Len(alreadyReceivedProc'[h]) = k + 1
      BY <1>1, <1>4, <2>1
  <2>3. n + (k + 1) + 0 = n + k + 1
      BY OneMoves
  <2> QED
      BY <1>7, <2>1, <2>2, <2>3
<1>9. h # Initiator => IF SentAll(h) THEN place \notin {"first", "sendMarkers"} \cup Copying
                                     ELSE place \in Copying
    BY <1>2, <1>6 DEF Copying
<1>10. UNCHANGED <<due, amInitiator>> /\ backlog' = backlog /\ place # "first"
    BY <1>1, <1>6
<1> QED
    BY <1>1, <1>4, <1>6, <1>8, <1>9, <1>10, FlowListener

LEMMA FlowStopRecording ==
    ASSUME FlowTypes, MarkerFlow, NEW h \in Host, StopRecording(h)
    PROVE  MarkerFlow'
<1>1. /\ pc[Listener(h)] = "stop"
      /\ pc' = [pc EXCEPT ![Listener(h)] = "done"]
      /\ UNCHANGED <<backlog, due, alreadyReceivedProc, amInitiator>>
    BY DEF StopRecording, markerVars
<1>2. h # Initiator => SentAll(h)
    BY <1>1 DEF SentAll, Copied, Taker, Copying
<1>3. InHand(h)' = InHand(h)
  <2>1. Listener(h) \in Thread
      BY ThreadFacts
  <2>2. pc'[Listener(h)] = "done"
      BY <1>1, <2>1, FlowPlaces
  <2> QED
      BY <1>1, <2>2 DEF InHand
<1>4. h # Initiator => IF SentAll(h) THEN "done" \notin {"first", "sendMarkers"} \cup Copying
                                     ELSE "done" \in Copying
    BY <1>2 DEF Copying
<1>5. /\ UNCHANGED <<due, amInitiator>>
      /\ backlog' = backlog /\ alreadyReceivedProc' = alreadyReceivedProc
    BY <1>1
<1>6. Len(backlog'[h]) + Len(alreadyReceivedProc'[h]) + InHand(h)'
        = Len(backlog[h]) + Len(alreadyReceivedProc[h]) + InHand(h)
    BY <1>3, <1>5
<1> QED
    BY <1>1, <1>4, <1>5, <1>6, FlowListener

LEMMA FlowInit == Init => MarkerFlow
<1> SUFFICES ASSUME Init PROVE MarkerFlow
    OBVIOUS
<1>1. /\ \A h \in Host : pc[Listener(h)] = "first" /\ due[Taker(h)] = Others(h)
      /\ \A h \in Host : backlog[h] = <<>> /\ alreadyReceivedProc[h] = <<>>
      /\ ~ amInitiator[Initiator] /\ Initiator \in Host
    BY ThreadFacts, TakerFacts, CountAssumption DEF Init
<1>2. \A h \in Host : Others(h) # {}
  <2> SUFFICES ASSUME NEW h \in Host, Others(h) = {} PROVE FALSE
      OBVIOUS
  <2>1. Host = {h}
      BY DEF Others
  <2> QED
      BY <2>1, HostAssumption, FS_Singleton
<1>3. \A h \in Host : ~ SentAll(h)
    BY <1>1 DEF SentAll, Copied
<1>4. MarkersOwed
    BY <1>1, <1>2, <1>3 DEF MarkersOwed
<1>5. \A h \in Host : MarkersFor(h) = {} /\ InHand(h) = 0
    BY <1>1 DEF MarkersFor, InHand, Others
<1>6. MarkersCounted
  <2>1. \A h \in Host : Len(backlog[h]) = 0 /\ Len(alreadyReceivedProc[h]) = 0
      BY <1>1
  <2>2. \A h \in Host : Cardinality(MarkersFor(h)) = 0 /\ InHand(h) = 0
      BY <1>5, FS_EmptySet
  <2>3. 0 + 0 + 0 = 0
      OBVIOUS
  <2> QED
      BY <2>1, <2>2, <2>3, Zenon DEF MarkersCounted
<1>7. ListenersCount
    BY <1>1 DEF ListenersCount
<1> QED
    BY <1>4, <1>6, <1>7 DEF MarkerFlow

LEMMA FlowNext == SnapshotInv /\ MarkerFlow /\ [Next]_vars => MarkerFlow'
<1> SUFFICES ASSUME SnapshotInv, MarkerFlow, [Next]_vars PROVE MarkerFlow'
    OBVIOUS
<1>1. FlowTypes
    BY FlowTyped
<1>2. CASE \E h \in Host : Multicast(h) \/ Handle(h)
    BY <1>1, <1>2, FlowMulticast
<1>3. CASE \E x \in network : Receive(x.to, x)
    BY <1>1, <1>3, FlowMulticast
<1>4. CASE \E h \in Host : Listen(h)
    BY <1>1, <1>4, FlowAcceptFirst, FlowAcceptNext, FlowProcessMarker, FlowStopRecording
       DEF Listen
<1>5. CASE \E t \in Thread : TakeSnapshot(t)
    BY <1>1, <1>5, FlowCopying, FlowSendMarker DEF TakeSnapshot
<1>6. CASE UNCHANGED vars
  <2>1. UNCHANGED <<backlog, due, alreadyReceivedProc, amInitiator, pc>>
      BY <1>6 DEF vars, markerVars, stateVars
  <2> QED
      BY <2>1, FlowFrame DEF SentAll, Copied, Taker
<1> QED
    BY <1>2, <1>3, <1>4, <1>5, <1>6 DEF Next

\* Every marker that was sent is in a backlog, in hand or counted, and every host
\* that has copied its state has sent its own, for any group of hosts and
\* whatever can be read of their ids.
THEOREM MarkersFlow == Spec => []MarkerFlow
    BY FlowInit, FlowNext, SnapshotInvariance, PTL DEF Spec

\* When nobody can go on, every listener is done.
LEMMA GoesOnByFlow == SnapshotInv /\ MarkerFlow => SnapshotGoesOn
<1> SUFFICES ASSUME SnapshotInv, MarkerFlow, SnapshotAfter =< sent[Initiator],
                    \A t \in Thread : ~ CanGoOn(t),
                    NEW h \in Host, pc[Listener(h)] # "done"
             PROVE  FALSE
    BY DEF SnapshotGoesOn
<1>1. /\ FlowTypes /\ ThreadsInOrder
      /\ \A g \in Host : pc[Main(g)] \in {"multicast"} \cup Range(Steps)
                         /\ pc[Listener(g)] \in ListenerPC
      /\ Initiator \in Host
    BY FlowTyped, InvParts, TypeParts, CountAssumption DEF FlowTypes, Places
<1>2. \A t \in Thread : pc[t] \notin Copying \cup {"marker", "stop"}
    BY DEF CanGoOn, Copying
<1>3. \A g \in Host : pc[Taker(g)] # "sendMarkers"
    BY TakerFacts DEF CanGoOn, MarkerFlow, MarkersOwed, SentAll
<1>4. SentAll(Initiator)
  <2>1. pc[Main(Initiator)] \notin Copying
      BY <1>1, <1>2, ThreadFacts
  <2> QED
      BY <1>1, <1>3, <2>1 DEF ThreadsInOrder, SentAll, Copied
<1>5. \A g \in Host : pc[Listener(g)] \in {"first", "accept", "done"}
  <2> TAKE g \in Host
  <2>1. pc[Listener(g)] # "sendMarkers"
      BY <1>1, <1>3, StepFacts DEF ThreadsInOrder, Taker
  <2> QED
      BY <1>1, <1>2, <2>1, StepFacts, ThreadFacts DEF ListenerPC
<1>6. ASSUME NEW g \in Host, pc[Listener(g)] # "done"
      PROVE  /\ Len(alreadyReceivedProc[g]) = Cardinality(MarkersFor(g))
             /\ pc[Listener(g)] = "first" => Cardinality(MarkersFor(g)) = 0
  <2>1. backlog[g] = <<>> /\ InHand(g) = 0
      BY <1>5, <1>6, ThreadFacts DEF CanGoOn, InHand
  <2>2. 0 + Len(alreadyReceivedProc[g]) + 0 = Cardinality(MarkersFor(g))
      BY <2>1 DEF MarkerFlow, MarkersCounted
  <2>3. Len(alreadyReceivedProc[g]) = Cardinality(MarkersFor(g))
      BY <1>1, <2>2 DEF FlowTypes
  <2>4. pc[Listener(g)] = "first" => alreadyReceivedProc[g] = <<>>
      BY DEF MarkerFlow, ListenersCount
  <2> QED
      BY <2>3, <2>4
<1>7. \A g \in Host : g # Initiator => pc[Listener(g)] # "first"
  <2> SUFFICES ASSUME NEW g \in Host, g # Initiator, pc[Listener(g)] = "first" PROVE FALSE
      OBVIOUS
  <2>1. Initiator \in MarkersFor(g)
      BY <1>1, <1>4 DEF MarkersFor, Others, MarkerFlow, MarkersOwed
  <2>2. IsFiniteSet(MarkersFor(g))
      BY HostAssumption, FS_Subset DEF MarkersFor, Others
  <2> QED
      BY <1>6, <2>1, <2>2, FS_EmptySet
<1>8. \A g \in Host : due[Taker(g)] = {}
  <2>1. \A g \in Host : SentAll(g)
      BY <1>3, <1>4, <1>5, <1>7 DEF SentAll, Copied, Copying
  <2> QED
      BY <2>1 DEF MarkerFlow, MarkersOwed
<1>9. MarkersFor(h) = Others(h)
    BY <1>8 DEF MarkersFor, Others
<1>10. /\ Cardinality(Others(h)) = Cardinality(Host) - 1
       /\ Cardinality(Host) \in Nat /\ Cardinality(Host) > 1
    BY HostAssumption, FS_RemoveElement, FS_CardinalityType DEF Others
<1>11. CASE pc[Listener(h)] = "first"
    BY <1>6, <1>9, <1>10, <1>11
<1>12. CASE pc[Listener(h)] = "accept"
  <2>1. Len(alreadyReceivedProc[h]) < Cardinality(Host) - 1
      BY <1>12 DEF MarkerFlow, ListenersCount, Missing
  <2> QED
      BY <1>6, <1>9, <1>10, <1>12, <2>1
<1> QED
    BY <1>5, <1>11, <1>12

\* The listeners, which wait for each other's markers, never all wait: from the
\* message that -X names, some thread can go on until every listener is done.
THEOREM SnapshotNeverStuck == Spec => []SnapshotGoesOn
    BY GoesOnByFlow, MarkersFlow, SnapshotInvariance, PTL

=============================================================================
