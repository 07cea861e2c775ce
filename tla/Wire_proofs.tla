----------------------------- MODULE Wire_proofs -----------------------------
(***************************************************************************)
(* Every message that fits the wire comes out of it as it went in, whatever*)
(* the buffer held before; and so does every packet of the multicast.      *)
(***************************************************************************)
EXTENDS MulticastOnWire, MulticastRefinement_proofs

Message ==
    {make_data_msg(s, i, d) : s, i, d \in Word}
      \cup {make_ack_msg(s, i, n, p) : s, i, n, p \in Word}
      \cup {make_seq_msg(s, i, n, p) : s, i, n, p \in Word}

\* The four bytes of packi32 are bytes, and unpacku32 puts them together again.
LEMMA PackFacts ==
  ASSUME NEW i \in Word
  PROVE  /\ packi32(i) \in Cell
         /\ unpacku32(packi32(i)) = i
<1>. DEFINE j == i \div 256
            k == j \div 256
            l == k \div 256
<1>1. i \in Nat /\ l < 256
  BY DEF Word
<1>2. j \in Nat /\ i = 256 * j + (i % 256) /\ i % 256 \in 0 .. 255
  BY <1>1, SMT
<1>3. k \in Nat /\ j = 256 * k + (j % 256) /\ j % 256 \in 0 .. 255
  BY <1>2, SMT
<1>4. l \in Nat /\ k = 256 * l + (k % 256) /\ k % 256 \in 0 .. 255
  BY <1>3, SMT
<1>5. l % 256 = l /\ l \in 0 .. 255
  BY <1>1, <1>4, SMT
<1>6. packi32(i) = << l, k % 256, j % 256, i % 256 >>
  BY <1>5 DEF packi32, shr8
<1>. HIDE DEF j, k, l
<1>7. packi32(i) \in Cell
  BY <1>2, <1>3, <1>4, <1>5, <1>6, SMT DEF Cell, Byte
<1>8. unpacku32(packi32(i)) = ((l * 256 + (k % 256)) * 256 + (j % 256)) * 256 + (i % 256)
  BY <1>6 DEF unpacku32
<1>. QED
  BY <1>2, <1>3, <1>4, <1>7, <1>8, SMT

\* The deserializer gets back every field of a message from the buffer it was
\* serialized into, and takes it for no other type; what the buffer held
\* before, and the four bytes a data message leaves there, do not matter.
THEOREM RoundTrip ==
  ASSUME NEW m \in Message, NEW buf \in Buffer
  PROVE  /\ ~ WrongType(Serialized(m, buf))
         /\ Deserialized(Serialized(m, buf)) = m
         /\ Serialized(m, buf) \in Buffer
<1>. USE DEF DATAMSG_TYPE, ACKMSG_TYPE, SEQMSG_TYPE
<1>0. /\ unpacku32(packi32(1)) = 1 /\ unpacku32(packi32(2)) = 2 /\ unpacku32(packi32(3)) = 3
      /\ packi32(1) \in Cell /\ packi32(2) \in Cell /\ packi32(3) \in Cell
  <2>1. 1 \in Word /\ 2 \in Word /\ 3 \in Word
    BY SMT DEF Word
  <2>. QED
    BY <2>1, PackFacts
<1>1. CASE \E s, i, d \in Word : m = make_data_msg(s, i, d)
  <2>1. PICK s, i, d \in Word : m = make_data_msg(s, i, d)
    BY <1>1
  <2>2. Serialized(m, buf)
          = << packi32(1), packi32(s), packi32(i), packi32(d), buf[5] >>
    BY <2>1 DEF Serialized, serialize_data_message, make_data_msg
  <2>3. /\ ~ WrongType(Serialized(m, buf))
        /\ Deserialized(Serialized(m, buf)) = m
    BY <1>0, <2>1, <2>2, PackFacts
    DEF Deserialized, WrongType, deserialize_data_message
  <2>4. packi32(s) \in Cell /\ packi32(i) \in Cell /\ packi32(d) \in Cell /\ buf[5] \in Cell
    BY PackFacts DEF Buffer
  <2>. QED
    BY <1>0, <2>2, <2>3, <2>4 DEF Buffer
<1>2. CASE \E s, i, n, p \in Word : m = make_ack_msg(s, i, n, p)
  <2>1. PICK s, i, n, p \in Word : m = make_ack_msg(s, i, n, p)
    BY <1>2
  <2>2. Serialized(m, buf)
          = << packi32(2), packi32(s), packi32(i), packi32(n), packi32(p) >>
    BY <2>1 DEF Serialized, serialize_ack_message, make_ack_msg
  <2>3. /\ ~ WrongType(Serialized(m, buf))
        /\ Deserialized(Serialized(m, buf)) = m
    BY <1>0, <2>1, <2>2, PackFacts
    DEF Deserialized, WrongType, deserialize_ack_message
  <2>4. packi32(s) \in Cell /\ packi32(i) \in Cell /\ packi32(n) \in Cell /\ packi32(p) \in Cell
    BY PackFacts
  <2>. QED
    BY <1>0, <2>2, <2>3, <2>4 DEF Buffer
<1>3. CASE \E s, i, n, p \in Word : m = make_seq_msg(s, i, n, p)
  <2>1. PICK s, i, n, p \in Word : m = make_seq_msg(s, i, n, p)
    BY <1>3
  <2>2. Serialized(m, buf)
          = << packi32(3), packi32(s), packi32(i), packi32(n), packi32(p) >>
    BY <2>1 DEF Serialized, serialize_seq_message, make_seq_msg
  <2>3. /\ ~ WrongType(Serialized(m, buf))
        /\ Deserialized(Serialized(m, buf)) = m
    BY <1>0, <2>1, <2>2, PackFacts
    DEF Deserialized, WrongType, deserialize_seq_message
  <2>4. packi32(s) \in Cell /\ packi32(i) \in Cell /\ packi32(n) \in Cell /\ packi32(p) \in Cell
    BY PackFacts
  <2>. QED
    BY <1>0, <2>2, <2>3, <2>4 DEF Buffer
<1>. QED
  BY <1>1, <1>2, <1>3 DEF Message

-----------------------------------------------------------------------------
\* The ids of the hosts, the numbers of their messages and their counters fit
\* the four bytes of a field.  The counters of the model are unbounded, those
\* of the code have 32 bits.
CountersFit ==
    \A h \in Host : {h, NumMsgToSend[h], curr_seq_number[h]} \subseteq Word

\* What is below a number of four bytes has four bytes.
LEMMA WordBelow ==
  ASSUME NEW i \in Nat, NEW j \in Word, i =< j
  PROVE  i \in Word
<1>1. j \in Nat /\ ((j \div 256) \div 256) \div 256 < 256
  BY DEF Word
<1>2. i \div 256 \in Nat /\ j \div 256 \in Nat /\ i \div 256 =< j \div 256
  BY <1>1, SMT
<1>. DEFINE i1 == i \div 256
            j1 == j \div 256
<1>. HIDE DEF i1, j1
<1>3. i1 \div 256 \in Nat /\ j1 \div 256 \in Nat /\ i1 \div 256 =< j1 \div 256
  BY <1>2, SMT DEF i1, j1
<1>. DEFINE i2 == i1 \div 256
            j2 == j1 \div 256
<1>. HIDE DEF i2, j2
<1>4. i2 \div 256 \in Nat /\ i2 \div 256 =< j2 \div 256 /\ j2 \div 256 \in Nat
  BY <1>3, SMT DEF i2, j2
<1>5. i2 \div 256 < 256
  BY <1>1, <1>4, SMT DEF i1, j1, i2, j2
<1>. QED
  BY <1>5 DEF Word, i1, i2

LEMMA DataFits ==
  ASSUME NEW m \in Msg
  PROVE  Data(m) \in Word
<1>1. m[2] \in Nat
  BY MsgFacts
<1>2. Data(m) \in 0 .. 26
  BY <1>1, SMT DEF Data
<1>. QED
  BY <1>2, SMT DEF Word

\* A number in flight is a proposal that its proposer made and counted.
LEMMA NumbersCounted ==
  ASSUME RefInv, NEW x \in network, x.type # "DATAMSG"
  PROVE  /\ x.proposer \in Host /\ x.seq \in Nat
         /\ x.seq =< curr_seq_number[x.proposer]
<1>1. /\ x \in Packet /\ Truthful(x)
      /\ ackHistory \in [Msg -> [Host -> Nat]] /\ curr_seq_number \in [Host -> Nat \ {0}]
  BY DEF RefInv, IndInv, TypeOK, TruthfulPackets
<1>2. x.type \in {"ACKMSG", "SEQMSG"} /\ x.msg \in Msg /\ x.seq \in Nat /\ x.proposer \in Host
  BY <1>1 DEF Packet
<1>3. Proposal(x.proposer, x.msg) =< curr_seq_number[x.proposer]
  BY <1>2 DEF RefInv, ProposalsCounted
<1>4. CASE x.type = "ACKMSG"
  BY <1>1, <1>2, <1>3, <1>4 DEF Truthful, Proposal
<1>5. CASE x.type = "SEQMSG"
  <2>1. Final(x.msg, x.seq, x.proposer) \in seqMessageHistory[Sender(x.msg)]
    BY <1>1, <1>5 DEF Truthful
  <2>2. ackHistory[x.msg][x.proposer] = x.seq
    <3>1. \A h \in Host : \A f \in seqMessageHistory[h] : ackHistory[f.msg][f.proposer] = f.seq
      BY DEF RefInv, IndInv, TruthfulHistories
    <3>2. Sender(x.msg) \in Host
      BY <1>2, MsgFacts
    <3>. DEFINE f == Final(x.msg, x.seq, x.proposer)
    <3>3. f.msg = x.msg /\ f.seq = x.seq /\ f.proposer = x.proposer
      BY DEF Final
    <3>. HIDE DEF f
    <3>4. ackHistory[f.msg][f.proposer] = f.seq
      BY <2>1, <3>1, <3>2 DEF f
    <3>. QED
      BY <3>3, <3>4
  <2>3. CASE x.proposer = Sender(x.msg) \/ x.seq = 0
    BY <1>1, <1>2, <1>3, <2>2, <2>3 DEF Proposal
  <2>4. CASE x.proposer # Sender(x.msg) /\ x.seq # 0
    BY <1>2, <1>3, <2>2, <2>4 DEF Proposal, RefInv, IndInv, CollectedProposals
  <2>. QED
    BY <2>3, <2>4
<1>. QED
  BY <1>2, <1>4, <1>5

LEMMA StructIsMessage ==
  ASSUME RefInv, CountersFit, NEW x \in network
  PROVE  Struct(x) \in Message
<1>1. x \in Packet /\ x.msg \in Msg
  BY DEF RefInv, IndInv, TypeOK, Packet
<1>2. Sender(x.msg) \in Word /\ x.msg[2] \in Word /\ Data(x.msg) \in Word
  <2>1. PICK h \in Host : x.msg[2] \in 0 .. (NumMsgToSend[h] - 1)
    BY <1>1 DEF Msg, MsgId
  <2>2. x.msg[2] \in Nat /\ x.msg[2] =< NumMsgToSend[h] /\ NumMsgToSend[h] \in Word
    BY <2>1, NumMsgAssumption, SMT DEF CountersFit
  <2>. QED
    BY <1>1, <2>2, WordBelow, DataFits, MsgFacts DEF CountersFit
<1>3. CASE x.type = "DATAMSG"
  <2>1. Struct(x) = make_data_msg(Sender(x.msg), x.msg[2], Data(x.msg))
    BY <1>3 DEF Struct
  <2>. QED
    BY <1>2, <2>1 DEF Message
<1>4. CASE x.type # "DATAMSG"
  <2>1. x.seq \in Word /\ x.proposer \in Word
    BY <1>4, NumbersCounted, WordBelow DEF CountersFit
  <2>2. \/ Struct(x) = make_ack_msg(Sender(x.msg), x.msg[2], x.seq, x.proposer)
        \/ Struct(x) = make_seq_msg(Sender(x.msg), x.msg[2], x.seq, x.proposer)
    BY <1>4 DEF Struct
  <2>. QED
    BY <1>2, <2>1, <2>2 DEF Message
<1>. QED
  BY <1>3, <1>4

-----------------------------------------------------------------------------
(***************************************************************************)
(* The counters fit as long as the two caps end the work of the threads.   *)
(***************************************************************************)

\* A host counts once for every message it multicasts and at most once for
\* every packet it receives.
CountedOnce ==
    Capped => \A h \in Host : curr_seq_number[h] =< curr_msg_id[h] + recv_cap[h]

LEMMA ReceiptCounts ==
  ASSUME TypeOK, CountedOnce, NEW h \in Host, NEW packet, Receive(h, packet),
         UNCHANGED curr_msg_id,
         \/ UNCHANGED curr_seq_number
         \/ curr_seq_number' = [curr_seq_number EXCEPT ![h] = @ + 1]
  PROVE  CountedOnce'
<1>. SUFFICES ASSUME Capped, NEW k \in Host
              PROVE  curr_seq_number'[k] =< curr_msg_id'[k] + recv_cap'[k]
  BY DEF CountedOnce
<1>1. /\ curr_seq_number[k] \in Nat /\ curr_msg_id[k] \in Nat /\ recv_cap[k] \in Nat
      /\ recv_cap' = [recv_cap EXCEPT ![h] = recv_cap[h] + 1]
      /\ curr_seq_number[k] =< curr_msg_id[k] + recv_cap[k]
  BY CapAssumption DEF TypeOK, Receive, Tick, CountedOnce
<1>2. recv_cap'[k] = IF k = h THEN recv_cap[k] + 1 ELSE recv_cap[k]
  BY <1>1 DEF TypeOK
<1>3. curr_seq_number'[k] = curr_seq_number[k]
        \/ (k = h /\ curr_seq_number'[k] = curr_seq_number[k] + 1)
  BY DEF TypeOK
<1>. QED
  BY <1>1, <1>2, <1>3

LEMMA Counted == Spec => []CountedOnce
<1>1. Init => CountedOnce
  BY DEF Init, CountedOnce
<1>2. TypeOK /\ CountedOnce /\ [Next]_vars => CountedOnce'
  <2>. SUFFICES ASSUME TypeOK, CountedOnce, [Next]_vars PROVE CountedOnce'
    OBVIOUS
  <2>1. ASSUME NEW h \in Host, MulticastDatamsg(h) PROVE CountedOnce'
    <3>. SUFFICES ASSUME Capped, NEW k \in Host
                  PROVE  curr_seq_number'[k] =< curr_msg_id'[k] + recv_cap'[k]
      BY DEF CountedOnce
    <3>1. /\ curr_seq_number[k] \in Nat /\ curr_msg_id[k] \in Nat /\ recv_cap[k] \in Nat
          /\ curr_seq_number[k] =< curr_msg_id[k] + recv_cap[k]
      BY CapAssumption DEF TypeOK, CountedOnce
    <3>2. /\ curr_seq_number' = [curr_seq_number EXCEPT ![h] = curr_seq_number[h] + 1]
          /\ curr_msg_id' = [curr_msg_id EXCEPT ![h] = @ + 1]
          /\ recv_cap' = recv_cap
      BY <2>1 DEF MulticastDatamsg
    <3>. QED
      BY <3>1, <3>2 DEF TypeOK
  <2>2. ASSUME NEW h \in Host, NEW m \in Msg, HandleDatamsg(h, m) PROVE CountedOnce'
    BY <2>2, ReceiptCounts DEF HandleDatamsg, ReAck, Propose
  <2>3. ASSUME NEW h \in Host, NEW m \in Msg, HandleAckmsg(m, h) PROVE CountedOnce'
    <3>1. PICK seq : \/ CollectAck(m, h, seq) \/ Finalize(m, h, seq)
                     \/ ResendFinal(m, h, seq) \/ IgnoreAck(m, h, seq)
      BY <2>3 DEF HandleAckmsg
    <3>2. Sender(m) \in Host
      BY MsgFacts
    <3>3. /\ Receive(Sender(m), AckMessage(m, seq, h)) /\ UNCHANGED curr_msg_id
          /\ \/ UNCHANGED curr_seq_number
             \/ curr_seq_number' = [curr_seq_number EXCEPT ![Sender(m)] = @ + 1]
      BY <3>1 DEF CollectAck, Finalize, ResendFinal, IgnoreAck
    <3>. QED
      BY <3>2, <3>3, ReceiptCounts
  <2>4. ASSUME NEW h \in Host, NEW m \in Msg, HandleSeqmsg(h, m) PROVE CountedOnce'
    <3>1. PICK seq, proposer : ApplyFinal(h, m, seq, proposer) \/ DropFinal(h, m, seq, proposer)
      BY <2>4 DEF HandleSeqmsg
    <3>2. Receive(h, SeqMessage(h, m, seq, proposer)) /\ UNCHANGED <<curr_msg_id, curr_seq_number>>
      BY <3>1 DEF ApplyFinal, DropFinal
    <3>. QED
      BY <3>2, ReceiptCounts
  <2>5. ASSUME NEW h \in Host, NEW m \in Msg, DatamsgWatchdog(m, h) \/ AckmsgWatchdog(h, m)
        PROVE  CountedOnce'
    BY <2>5 DEF DatamsgWatchdog, AckmsgWatchdog, CountedOnce
  <2>6. CASE UNCHANGED vars
    BY <2>6 DEF vars, CountedOnce
  <2>. QED
    BY <2>1, <2>2, <2>3, <2>4, <2>5, <2>6 DEF Next
<1>. QED
  BY <1>1, <1>2, TypeCorrect, PTL DEF Spec

\* The ids of the hosts, and the numbers of messages that a host may send and
\* of packets that it may receive, fit 32 bits.
CapsFit ==
    Capped /\ \A h \in Host : {h, NumMsgToSend[h] + RECV_CAP} \subseteq Word

\* Every packet in flight is read for the message that was written into it, in
\* any group, as long as no host has counted beyond 32 bits.
THEOREM PacketsSurvive == Spec => [](CountersFit => PacketsSurviveTheWire)
<1>1. RefInv => (CountersFit => PacketsSurviveTheWire)
  <2>. SUFFICES ASSUME RefInv, CountersFit, NEW x \in network, NEW byte \in {0, 255}
                PROVE  /\ ~ WrongType(Serialized(Struct(x), Filled(byte)))
                       /\ Deserialized(Serialized(Struct(x), Filled(byte))) = Struct(x)
    BY DEF PacketsSurviveTheWire
  <2>1. Struct(x) \in Message
    BY StructIsMessage
  <2>2. Filled(byte) \in Buffer
    <3>1. byte \in Byte
      BY SMT DEF Byte
    <3>. QED
      BY <3>1 DEF Filled, Buffer, Cell
  <2>. QED
    BY <2>1, <2>2, RoundTrip
<1>. QED
  BY <1>1, RefInvariance, PTL

\* With the caps of the code no host ever counts so far: every packet in flight
\* is read for the message that was written into it.
THEOREM PacketsSurviveUnderCaps ==
  ASSUME CapsFit
  PROVE  Spec => []PacketsSurviveTheWire
<1>1. TypeOK /\ CountedOnce => CountersFit
  <2>. SUFFICES ASSUME TypeOK, CountedOnce, NEW h \in Host
                PROVE  {h, NumMsgToSend[h], curr_seq_number[h]} \subseteq Word
    BY DEF CountersFit
  <2>1. /\ NumMsgToSend[h] \in Nat /\ RECV_CAP \in Nat /\ curr_seq_number[h] \in Nat
        /\ curr_msg_id[h] \in Nat /\ recv_cap[h] \in 1 .. RECV_CAP
        /\ curr_msg_id[h] =< NumMsgToSend[h]
        /\ curr_seq_number[h] =< curr_msg_id[h] + recv_cap[h]
    BY NumMsgAssumption, CapAssumption DEF CapsFit, TypeOK, CountedOnce
  <2>2. /\ NumMsgToSend[h] =< NumMsgToSend[h] + RECV_CAP
        /\ curr_seq_number[h] =< NumMsgToSend[h] + RECV_CAP
    BY <2>1
  <2>. QED
    BY <2>1, <2>2, WordBelow DEF CapsFit
<1>. QED
  BY <1>1, TypeCorrect, Counted, PacketsSurvive, PTL

=============================================================================
