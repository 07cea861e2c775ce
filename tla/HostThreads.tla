----------------------------- MODULE HostThreads -----------------------------
(***************************************************************************)
(* The threads of one host, Me, and the mutexes between them: main         *)
(* multicasts, the receiver handles one packet after the other, every      *)
(* message sent or acked has watchdogs of its own, and the listener of the *)
(* global snapshot copies the state and switches recording on and off.     *)
(*                                                                         *)
(* ReliableMulticast takes a handler as one step.  Here a step is a lock   *)
(* or one access to memory shared between the threads, with the unlocks    *)
(* that follow it; a read and a write of curr_seq_number, which no mutex   *)
(* protects, are two steps.  A thread is the list of instructions it still *)
(* has to execute: a call is replaced by the instructions of its body.     *)
(*                                                                         *)
(* The other hosts are the environment.  They send what the protocol lets  *)
(* them, as often as they like; the number a host proposes for a message   *)
(* is PeerProposal, so that a final number is known once Me has proposed.  *)
(***************************************************************************)
EXTENDS Naturals, FiniteSets, Sequences, Functions

CONSTANTS
    Me,                   \* current_container_id
    hostNames,            \* the ids of the Hostfile, in its order
    NumMsgToSend,         \* the messages the main thread multicasts (-c)
    Foreign,              \* the messages of other hosts, <<sender, msg_id>>
    PeerProposal,         \* per other host, per message: its proposal
    WATCHDOG_RESEND_CAP,  \* the times a watchdog wakes up
    RECV_CAP              \* receptions after which the receiver stops

Host  == Range(hostNames)
Peers == Host \ {Me}
Own   == {Me} \X (0 .. (NumMsgToSend - 1))
Msg   == Own \cup Foreign

ASSUME HostAssumption ==
    hostNames \in Seq(Nat \ {0}) /\ IsInjective(hostNames) /\ Me \in Host /\ Peers # {}
ASSUME MessageAssumption ==
    /\ NumMsgToSend \in Nat
    /\ Foreign \subseteq Peers \X Nat /\ IsFiniteSet(Foreign)
    /\ PeerProposal \in [Peers -> [Msg -> Nat \ {0}]]
ASSUME CapAssumption == WATCHDOG_RESEND_CAP \in Nat /\ RECV_CAP \in Nat \ {0}

VARIABLES
    todo,               \* per thread: the instructions it has still to execute
    owner,              \* per mutex: the thread that holds it, or None
    reg,                \* per thread: the local variable it works with
    alarms,             \* per watchdog: how often it will still wake up
    curr_seq_number,
    ackHistory,         \* per own message, per host: the proposal; 0 for none
    alreadyAcked,       \* per message of others: the ack sent; 0 for none
    seqMessageHistory,  \* the messages whose final number is in the history
    deliveryQueue,
    deliveredMessage,
    recordMessages,
    their_addr,         \* the host the last packet came from
    recv_cap,
    markers,            \* markers the listener has accepted
    sent,               \* the packets given to the socket
    exited              \* the process has called exit(1)

histories == <<ackHistory, alreadyAcked, seqMessageHistory>>
queues    == <<deliveryQueue, deliveredMessage>>
settings  == <<recordMessages, their_addr, recv_cap, markers>>
memory    == <<curr_seq_number, histories, queues, settings, sent, exited>>
vars      == <<todo, owner, reg, alarms, memory>>

Main     == <<"main">>
Receiver == <<"receiver">>
Listener == <<"listener">>
DataWatchdogs == {<<"data", m, p>> : m \in Own, p \in Peers}
AckWatchdogs  == {<<"ack", m>> : m \in Foreign}
Watchdogs     == DataWatchdogs \cup AckWatchdogs
Threads       == {Main, Receiver, Listener} \cup Watchdogs

Mutexes == {"ackHistory", "seqMessageHistory", "deliveryQueue", "deliveredMessage",
            "recordMessages", "inboundMessageBuffer", "outboundMessageBuffer"}
None == <<>>

UNDELIVERABLE == 0
DELIVERABLE   == 1

\* A packet to Asker goes to the address the last packet came from (reply).
Asker == 0
Packet(type, to, m) == [type |-> type, to |-> to, msg |-> m]

-----------------------------------------------------------------------------
(***************************************************************************)
(* The code of the threads, as lists of instructions.                      *)
(***************************************************************************)
\* A critical section.
Section(mutex, body) == << <<"lock", mutex>> >> \o body \o << <<"unlock", mutex>> >>

\* curr_seq_number++
Increment == << <<"load">>, <<"store">> >>

\* send_msg_with_drop_and_delay, and reply_msg_with_drop_and_delay to Asker.
SendMsg(type, to, m) == << <<"toss", Packet(type, to, m)>> >>

\* The loops over hostNames leave out Me: the position of the next host after i.
NextHost(i) == IF i < Len(hostNames) /\ hostNames[i + 1] = Me THEN i + 2 ELSE i + 1

BroadcastFrom(type, m, i) ==
    IF i =< Len(hostNames)
    THEN << <<"broadcast", Packet(type, hostNames[i], m), i>> >>
    ELSE <<>>

\* broadcast_seq_msg, and the loop of multicast_datamsg, which also starts a
\* datamsg_watchdog for every peer.
BroadcastSeq(m)  == BroadcastFrom("SEQMSG", m, NextHost(0))
BroadcastData(m) == BroadcastFrom("DATAMSG", m, NextHost(0))

\* deliver_msg_from_deliveryqueue: the deliveredMessage mutex is taken inside
\* the section of the delivery queue, and again to print what is new.
Deliver ==
    Section("deliveryQueue", Section("deliveredMessage", << <<"deliver">> >>))
      \o << <<"printDelivered">> >>

\* Mutants of MulticastDatamsg: the message leaves before it is queued, or
\* before it is entered in ackHistory.
MulticastBeforeQueueing(m) ==
    Increment \o << <<"load">> >>
      \o Section("ackHistory", << <<"proposeOwn", m>> >>)
      \o BroadcastData(m)
      \o << <<"load">> >>
      \o Section("deliveryQueue", << <<"push", m>> >>)

MulticastBeforeEntry(m) ==
    Increment \o << <<"load">> >>
      \o BroadcastData(m)
      \o Section("ackHistory", << <<"proposeOwn", m>> >>)
      \o << <<"load">> >>
      \o Section("deliveryQueue", << <<"push", m>> >>)

MulticastDatamsg(m) ==
    Increment \o << <<"load">> >>
      \o Section("ackHistory", << <<"proposeOwn", m>> >>)
      \o << <<"load">> >>
      \o Section("deliveryQueue", << <<"push", m>> >>)
      \o BroadcastData(m)

\* The loop of main, from its i-th turn on.
Multicasts(i) == IF i < NumMsgToSend THEN << <<"multicast", <<Me, i>> >> >> ELSE <<>>

\* handle_datamsg, for a message not acked before.
ProposeFor(m) ==
    << <<"load">> >>
      \o Section("deliveryQueue", << <<"push", m>> >>)
      \o << <<"load">>, <<"ack", m>> >>
      \o SendMsg("ACKMSG", Asker, m)
      \o Increment
      \o << <<"spawn", <<"ack", m>> >> >>

\* Mutant of HandleDatamsg: no search for the ack sent before.
HandleDatamsgAnew(m) == ProposeFor(m)

HandleDatamsg(m) ==
    IF alreadyAcked[m] # 0 THEN SendMsg("ACKMSG", Asker, m) ELSE ProposeFor(m)

HandleAckmsg(m, p) == Section("ackHistory", << <<"checkAck", m, p>> >>)

\* The rest of handle_ackmsg once all have acked m; ackHistory stays locked.
Finalize(m) ==
    Section("seqMessageHistory", << <<"addSeq", m>> >>)
      \o BroadcastSeq(m)
      \o Section("deliveryQueue", << <<"change", m>> >>)
      \o Deliver

\* Mutant of HandleSeqmsg: the history is written first.
HandleSeqmsgHistoryFirst(m) ==
    Section("seqMessageHistory", << <<"addSeq", m>> >>)
      \o Section("deliveryQueue", << <<"change", m>> >>)
      \o Section("deliveredMessage", << <<"checkDelivered", m>> >>)
      \o << <<"apply", m>> >>

\* handle_seqmsg; "apply" goes on with ApplySeq if the queue had the message.
HandleSeqmsg(m) ==
    Section("deliveryQueue", << <<"change", m>> >>)
      \o Section("deliveredMessage", << <<"checkDelivered", m>> >>)
      \o << <<"apply", m>> >>

\* Mutant of ApplySeq: the history is written without its mutex.
ApplySeqUnlocked(m) == << <<"addSeq", m>> >> \o Deliver

ApplySeq(m) == Section("seqMessageHistory", << <<"addSeq", m>> >>) \o Deliver

\* The two watchdogs, from one wake-up to the next.
DatamsgWatchdog(m, p) == Section("ackHistory", << <<"checkAcked", m, p>> >>)
AckmsgWatchdog(m) ==
    Section("seqMessageHistory", << <<"checkSeq", m>> >>) \o SendMsg("ACKMSG", m[1], m)

\* Mutant of CopyState: one section for both copies, taken the other way round.
CopyStateAtOnce ==
    Section("deliveredMessage", Section("deliveryQueue", << <<"copyQueue">>, <<"copyDelivered">> >>))

\* get_local_state_snapshot
CopyState ==
    Section("deliveryQueue", << <<"copyQueue">> >>)
      \o Section("deliveredMessage", << <<"copyDelivered">> >>)

\* listen_for_incoming_connections after its n-th marker.
HandleMarker(n) ==
    (IF n = 1
     THEN CopyState \o Section("recordMessages", << <<"record", TRUE>> >>)
     ELSE Section("inboundMessageBuffer", << <<"drain", "inboundMessageBuffer">> >>)
            \o Section("outboundMessageBuffer", << <<"drain", "outboundMessageBuffer">> >>))
      \o (IF n = Len(hostNames) - 1
          THEN Section("recordMessages", << <<"record", FALSE>> >>)
          ELSE <<>>)

Init ==
    /\ todo = [t \in Threads |-> IF t = Main THEN Multicasts(0) ELSE <<>>]
    /\ owner = [l \in Mutexes |-> None]
    /\ reg = [t \in Threads |-> 0]
    /\ alarms = [w \in Watchdogs |-> 0]
    /\ curr_seq_number = 1
    /\ ackHistory = [m \in Own |-> [h \in Host |-> 0]]
    /\ alreadyAcked = [m \in Foreign |-> 0]
    /\ seqMessageHistory = {}
    /\ deliveryQueue = {}
    /\ deliveredMessage = <<>>
    /\ recordMessages = FALSE
    /\ their_addr = Asker
    /\ recv_cap = 1
    /\ markers = 0
    /\ sent = {}
    /\ exited = FALSE

-----------------------------------------------------------------------------
(***************************************************************************)
(* The steps of a thread t.                                                *)
(***************************************************************************)
At(t, op) == todo[t] # <<>> /\ Head(todo[t])[1] = op
Arg(t)    == Head(todo[t])[2]

\* t goes on with the instructions s, and then with what it had to do next; the
\* unlocks that come first, which never wait, belong to the same step.
Go(t, s) ==
    LET rest == s \o Tail(todo[t])
    IN  \E n \in 0 .. Len(rest) :
          /\ \A i \in 1 .. n : rest[i][1] = "unlock"
          /\ n < Len(rest) => rest[n + 1][1] # "unlock"
          /\ todo' = [todo EXCEPT ![t] = SubSeq(rest, n + 1, Len(rest))]
          /\ owner' = [l \in Mutexes |->
                          IF \E i \in 1 .. n : rest[i] = <<"unlock", l>> THEN None ELSE owner[l]]

Lock(t) ==
    /\ At(t, "lock")
    /\ owner[Arg(t)] = None
    /\ owner' = [owner EXCEPT ![Arg(t)] = t]
    /\ todo' = [todo EXCEPT ![t] = Tail(@)]
    /\ UNCHANGED <<reg, alarms, memory>>

\* A read of curr_seq_number, and the write that ends curr_seq_number++.
Load(t) ==
    /\ At(t, "load")
    /\ reg' = [reg EXCEPT ![t] = curr_seq_number]
    /\ Go(t, <<>>)
    /\ UNCHANGED <<alarms, memory>>

Store(t) ==
    /\ At(t, "store")
    /\ curr_seq_number' = reg[t] + 1
    /\ Go(t, <<>>)
    /\ UNCHANGED <<reg, alarms, histories, queues, settings, sent, exited>>

\* main calls multicast_datamsg.
Multicast(t) ==
    /\ At(t, "multicast")
    /\ Go(t, MulticastDatamsg(Arg(t)) \o Multicasts(Arg(t)[2] + 1))
    /\ UNCHANGED <<reg, alarms, memory>>

\* Sending x: the coin is tossed, and if x is not dropped it is recorded, should
\* the listener want it, and given to the socket.
Sendings(x) ==
    {<<>>, Section("recordMessages", << <<"testRecord", "outboundMessageBuffer">> >>)
             \o << <<"sendto", x>> >>}

Toss(t) ==
    /\ At(t, "toss")
    /\ \E sending \in Sendings(Arg(t)) : Go(t, sending)
    /\ UNCHANGED <<reg, alarms, memory>>

\* One turn of a broadcast.
Broadcast(t) ==
    /\ At(t, "broadcast")
    /\ LET x == Arg(t)
           i == Head(todo[t])[3]
           watchdog == IF x.type = "DATAMSG" THEN << <<"spawn", <<"data", x.msg, x.to>> >> >>
                       ELSE <<>>
       IN  \E sending \in Sendings(x) :
             Go(t, sending \o watchdog \o BroadcastFrom(x.type, x.msg, NextHost(i)))
    /\ UNCHANGED <<reg, alarms, memory>>

TestRecord(t) ==
    /\ At(t, "testRecord")
    /\ Go(t, IF recordMessages THEN Section(Arg(t), << <<"pushBuffer", Arg(t)>> >>) ELSE <<>>)
    /\ UNCHANGED <<reg, alarms, memory>>

SendTo(t) ==
    /\ At(t, "sendto")
    /\ sent' = sent \cup {[Arg(t) EXCEPT !.to = IF @ = Asker THEN their_addr ELSE @]}
    /\ Go(t, <<>>)
    /\ UNCHANGED <<reg, alarms, curr_seq_number, histories, queues, settings, exited>>

Spawn(t) ==
    /\ At(t, "spawn")
    /\ alarms' = [alarms EXCEPT ![Arg(t)] = WATCHDOG_RESEND_CAP]
    /\ Go(t, <<>>)
    /\ UNCHANGED <<reg, memory>>

-----------------------------------------------------------------------------
(***************************************************************************)
(* Steps on the histories.                                                 *)
(***************************************************************************)
ProposeOwn(t) ==
    /\ At(t, "proposeOwn")
    /\ ackHistory' = [ackHistory EXCEPT ![Arg(t)][Me] = reg[t]]
    /\ Go(t, <<>>)
    /\ UNCHANGED <<reg, alarms, curr_seq_number, alreadyAcked, seqMessageHistory,
                   queues, settings, sent, exited>>

Ack(t) ==
    /\ At(t, "ack")
    /\ alreadyAcked' = [alreadyAcked EXCEPT ![Arg(t)] = reg[t]]
    /\ Go(t, <<>>)
    /\ UNCHANGED <<reg, alarms, curr_seq_number, ackHistory, seqMessageHistory,
                   queues, settings, sent, exited>>

Complete(acks) == \A h \in Host : acks[h] # 0

\* An ack of m from p, with ackHistory locked: it is counted, or answered
\* with the final number if that is fixed already, or ignored.
CheckAck(t) ==
    /\ At(t, "checkAck")
    /\ LET m == Arg(t)
           p == Head(todo[t])[3]
       IN  Go(t, IF ackHistory[m][p] = 0 THEN Increment \o << <<"collect", m, p>> >>
                 ELSE IF Complete(ackHistory[m])
                 THEN Section("seqMessageHistory", << <<"resend", m>> >>)
                 ELSE <<>>)
    /\ UNCHANGED <<reg, alarms, memory>>

Collect(t) ==
    /\ At(t, "collect")
    /\ LET m == Arg(t)
           p == Head(todo[t])[3]
       IN  /\ ackHistory' = [ackHistory EXCEPT ![m][p] = PeerProposal[p][m]]
           /\ Go(t, IF Complete(ackHistory'[m]) THEN Finalize(m) ELSE <<>>)
    /\ UNCHANGED <<reg, alarms, curr_seq_number, alreadyAcked, seqMessageHistory,
                   queues, settings, sent, exited>>

AddSeq(t) ==
    /\ At(t, "addSeq")
    /\ seqMessageHistory' = seqMessageHistory \cup {Arg(t)}
    /\ Go(t, <<>>)
    /\ UNCHANGED <<reg, alarms, curr_seq_number, ackHistory, alreadyAcked,
                   queues, settings, sent, exited>>

\* The final number of Arg(t) is looked up for a host that asks again.
Resend(t) ==
    /\ At(t, "resend")
    /\ exited' = (Arg(t) \notin seqMessageHistory)
    /\ Go(t, SendMsg("SEQMSG", Asker, Arg(t)))
    /\ UNCHANGED <<reg, alarms, curr_seq_number, histories, queues, settings, sent>>

\* A datamsg_watchdog with ackHistory locked: it sends the message again
\* before it unlocks, unless the ack of its host is there and it returns.
CheckAcked(t) ==
    /\ At(t, "checkAcked")
    /\ LET m == Arg(t)
           p == Head(todo[t])[3]
       IN  /\ exited' = (ackHistory[m][Me] = 0)
           /\ Go(t, IF ackHistory[m][p] = 0 THEN SendMsg("DATAMSG", p, m) ELSE <<>>)
           /\ alarms' = [alarms EXCEPT ![t] = IF ackHistory[m][p] = 0 THEN @ ELSE 0]
    /\ UNCHANGED <<reg, curr_seq_number, histories, queues, settings, sent>>

\* An ackmsg_watchdog with seqMessageHistory locked: it unlocks and returns if
\* the final number is there; otherwise it unlocks and sends the ack again.
CheckSeq(t) ==
    /\ At(t, "checkSeq")
    /\ \/ /\ Arg(t) \in seqMessageHistory
          /\ todo' = [todo EXCEPT ![t] = <<>>]
          /\ owner' = [owner EXCEPT !["seqMessageHistory"] = None]
          /\ alarms' = [alarms EXCEPT ![t] = 0]
       \/ /\ Arg(t) \notin seqMessageHistory
          /\ Go(t, <<>>)
          /\ UNCHANGED alarms
    /\ UNCHANGED <<reg, memory>>

-----------------------------------------------------------------------------
(***************************************************************************)
(* Steps on the delivery queue and the delivered messages.                 *)
(***************************************************************************)
\* What all hosts proposed for m, the last of them included.
Proposals(m) ==
    [h \in Host |-> IF h # Me THEN PeerProposal[h][m]
                    ELSE IF m \in Own THEN ackHistory[m][Me] ELSE alreadyAcked[m]]

\* get_max_sequence_from_proposerseq_map
MaxSequence(pm) ==
    CHOOSE h \in Host : /\ \A q \in Host : pm[q] =< pm[h]
                        /\ \A q \in Host : pm[q] = pm[h] => h =< q

FinalSeq(m)      == Proposals(m)[MaxSequence(Proposals(m))]
FinalProposer(m) == MaxSequence(Proposals(m))

\* Mutant of cmp: no reversal of the arguments, so that the heap is a max-heap.
cmpOfMaxHeap(left, right) ==
    \/ right.seq < left.seq
    \/ right.seq = left.seq /\ right.proposer < left.proposer

cmp(left, right) ==
    \/ left.seq < right.seq
    \/ left.seq = right.seq /\ left.proposer < right.proposer

HeapFront == {e \in deliveryQueue : \A x \in deliveryQueue : ~ cmp(x, e)}

Queued(m)    == \E e \in deliveryQueue : e.msg = m
Delivered(m) == \E i \in DOMAIN deliveredMessage : deliveredMessage[i].msg = m

Push(t) ==
    /\ At(t, "push")
    /\ deliveryQueue' = deliveryQueue \cup
         {[msg |-> Arg(t), seq |-> reg[t], proposer |-> Me, status |-> UNDELIVERABLE]}
    /\ Go(t, <<>>)
    /\ UNCHANGED <<reg, alarms, curr_seq_number, histories, deliveredMessage,
                   settings, sent, exited>>

\* change_queued_msg_seq_and_status; reg becomes what it returns, -1 as 1.
Change(t) ==
    /\ At(t, "change")
    /\ LET m == Arg(t)
       IN  /\ deliveryQueue' =
                {IF e.msg = m
                 THEN [msg |-> m, seq |-> FinalSeq(m), proposer |-> FinalProposer(m),
                       status |-> DELIVERABLE]
                 ELSE e : e \in deliveryQueue}
           /\ reg' = [reg EXCEPT ![t] = IF Queued(m) THEN 0 ELSE 1]
    /\ Go(t, <<>>)
    /\ UNCHANGED <<alarms, curr_seq_number, histories, deliveredMessage,
                   settings, sent, exited>>

\* A message that was not queued must have been delivered.
CheckDelivered(t) ==
    /\ At(t, "checkDelivered")
    /\ exited' = (reg[t] = 1 /\ ~ Delivered(Arg(t)))
    /\ Go(t, <<>>)
    /\ UNCHANGED <<reg, alarms, curr_seq_number, histories, queues, settings, sent>>

Apply(t) ==
    /\ At(t, "apply")
    /\ Go(t, IF reg[t] = 0 THEN ApplySeq(Arg(t)) ELSE <<>>)
    /\ UNCHANGED <<reg, alarms, memory>>

\* One turn of the loop of deliver_msg_from_deliveryqueue, or its end; reg is
\* the delivered_flag.
DeliverFront(t) ==
    /\ At(t, "deliver")
    /\ \E e \in HeapFront :
         /\ e.status = DELIVERABLE
         /\ deliveryQueue' = deliveryQueue \ {e}
         /\ deliveredMessage' = Append(deliveredMessage, e)
    /\ reg' = [reg EXCEPT ![t] = 1]
    /\ UNCHANGED <<todo, owner, alarms, curr_seq_number, histories, settings, sent, exited>>

DeliverNoMore(t) ==
    /\ At(t, "deliver")
    /\ deliveryQueue = {} \/ \E e \in HeapFront : e.status = UNDELIVERABLE
    /\ Go(t, <<>>)
    /\ UNCHANGED <<reg, alarms, memory>>

PrintDelivered(t) ==
    /\ At(t, "printDelivered")
    /\ Go(t, IF reg[t] = 1 THEN Section("deliveredMessage", << <<"print">> >>) ELSE <<>>)
    /\ UNCHANGED <<reg, alarms, memory>>

\* Accesses that only read, or whose contents GlobalSnapshot models.
Access(t) ==
    /\ \E op \in {"pushBuffer", "drain", "copyQueue", "copyDelivered", "print"} : At(t, op)
    /\ Go(t, <<>>)
    /\ UNCHANGED <<reg, alarms, memory>>

Record(t) ==
    /\ At(t, "record")
    /\ recordMessages' = Arg(t)
    /\ Go(t, <<>>)
    /\ UNCHANGED <<reg, alarms, curr_seq_number, histories, queues,
                   their_addr, recv_cap, markers, sent, exited>>

-----------------------------------------------------------------------------
(***************************************************************************)
(* What starts a thread again: a packet, a timeout, a marker.              *)
(***************************************************************************)
\* What the protocol lets peer p send to Me about message m: a message of its
\* own; an ack of one it was sent; a final number once Me has proposed too.
MaySend(type, p, m) ==
    \/ type = "DATAMSG" /\ p = m[1]
    \/ type = "ACKMSG" /\ Packet("DATAMSG", p, m) \in sent
    \/ type = "SEQMSG" /\ p = m[1] /\ Packet("ACKMSG", p, m) \in sent

HandlePacket(type, p, m) ==
    CASE type = "DATAMSG" -> HandleDatamsg(m)
      [] type = "ACKMSG"  -> HandleAckmsg(m, p)
      [] type = "SEQMSG"  -> HandleSeqmsg(m)

\* msg_receiver: the packet is recorded if the listener wants it, then handled.
\* Only the receiver reads recv_cap and alreadyAcked.
Recv(type, p, m) ==
    /\ todo[Receiver] = <<>>
    /\ recv_cap < RECV_CAP
    /\ MaySend(type, p, m)
    /\ their_addr' = p
    /\ recv_cap' = recv_cap + 1
    /\ todo' = [todo EXCEPT ![Receiver] =
                  Section("recordMessages", << <<"testRecord", "inboundMessageBuffer">> >>)
                    \o HandlePacket(type, p, m)]
    /\ UNCHANGED <<owner, reg, alarms, curr_seq_number, histories, queues,
                   recordMessages, markers, sent, exited>>

WakeUp(w) ==
    /\ todo[w] = <<>>
    /\ alarms[w] > 0
    /\ alarms' = [alarms EXCEPT ![w] = @ - 1]
    /\ todo' = [todo EXCEPT ![w] = IF w[1] = "data" THEN DatamsgWatchdog(w[2], w[3])
                                   ELSE AckmsgWatchdog(w[2])]
    /\ UNCHANGED <<owner, reg, memory>>

AcceptMarker ==
    /\ todo[Listener] = <<>>
    /\ markers < Len(hostNames) - 1
    /\ markers' = markers + 1
    /\ todo' = [todo EXCEPT ![Listener] = HandleMarker(markers')]
    /\ UNCHANGED <<owner, reg, alarms, curr_seq_number, histories, queues,
                   recordMessages, their_addr, recv_cap, sent, exited>>

Step(t) ==
    \/ Lock(t) \/ Load(t) \/ Store(t)
    \/ Multicast(t) \/ Toss(t) \/ Broadcast(t) \/ TestRecord(t) \/ SendTo(t) \/ Spawn(t)
    \/ ProposeOwn(t) \/ Ack(t) \/ CheckAck(t) \/ Collect(t) \/ AddSeq(t) \/ Resend(t)
    \/ CheckAcked(t) \/ CheckSeq(t)
    \/ Push(t) \/ Change(t) \/ CheckDelivered(t) \/ Apply(t)
    \/ DeliverFront(t) \/ DeliverNoMore(t) \/ PrintDelivered(t)
    \/ Access(t) \/ Record(t)

Next ==
    /\ ~ exited
    /\ \/ \E t \in Threads : Step(t)
       \/ \E type \in {"DATAMSG", "ACKMSG", "SEQMSG"}, p \in Peers, m \in Msg : Recv(type, p, m)
       \/ \E w \in Watchdogs : WakeUp(w)
       \/ AcceptMarker

Spec == Init /\ [][Next]_vars

-----------------------------------------------------------------------------
(***************************************************************************)
(* Properties.                                                             *)
(***************************************************************************)
Buffers == {"inboundMessageBuffer", "outboundMessageBuffer"}
Broadcasts == [type : {"DATAMSG", "SEQMSG"}, to : Peers, msg : Own]
Packets ==
    [type : {"DATAMSG", "SEQMSG"}, to : Host \cup {Asker}, msg : Own]
      \cup [type : {"ACKMSG"}, to : Host \cup {Asker}, msg : Foreign]

\* Every instruction a thread can have, with its arguments.
Instruction ==
    {<<op>> : op \in {"load", "store", "deliver", "printDelivered",
                      "copyQueue", "copyDelivered", "print"}}
      \cup ({"lock", "unlock"} \X Mutexes)
      \cup ({"testRecord", "pushBuffer", "drain"} \X Buffers)
      \cup ({"record"} \X BOOLEAN)
      \cup ({"spawn"} \X Watchdogs)
      \cup ({"toss", "sendto"} \X Packets)
      \cup ({"broadcast"} \X Broadcasts \X (1 .. Len(hostNames)))
      \cup ({"multicast", "proposeOwn", "resend"} \X Own)
      \cup ({"checkAck", "collect", "checkAcked"} \X Own \X Peers)
      \cup ({"ack", "checkSeq", "checkDelivered", "apply"} \X Foreign)
      \cup ({"push", "addSeq", "change"} \X Msg)

QueueEntry ==
    [msg : Msg, seq : Nat \ {0}, proposer : Host, status : {UNDELIVERABLE, DELIVERABLE}]

\* The type invariant; a message is on the host at most once, and a mutex is
\* only held by a thread that is going to unlock it.
TypeOK ==
    /\ todo \in [Threads -> Seq(Instruction)]
    /\ owner \in [Mutexes -> Threads \cup {None}]
    /\ \A l \in Mutexes : owner[l] # None => <<"unlock", l>> \in Range(todo[owner[l]])
    /\ reg \in [Threads -> Nat]
    /\ alarms \in [Watchdogs -> 0 .. WATCHDOG_RESEND_CAP]
    /\ curr_seq_number \in Nat \ {0}
    /\ ackHistory \in [Own -> [Host -> Nat]]
    /\ alreadyAcked \in [Foreign -> Nat]
    /\ seqMessageHistory \subseteq Msg
    /\ deliveryQueue \subseteq QueueEntry
    /\ deliveredMessage \in Seq(QueueEntry)
    /\ \A d, e \in deliveryQueue : d.msg = e.msg => d = e
    /\ \A e \in deliveryQueue : ~ Delivered(e.msg)
    /\ sent \subseteq Packets
    /\ recordMessages \in BOOLEAN
    /\ their_addr \in Peers \cup {Asker}
    /\ recv_cap \in 1 .. RECV_CAP
    /\ markers \in 0 .. (Len(hostNames) - 1)
    /\ exited \in BOOLEAN

\* No threads wait for one another in a circle, nor one for itself: the nested
\* sections of handle_ackmsg, of deliver_msg_from_deliveryqueue and of a send
\* under a lock take their mutexes in compatible orders.
Waiting == {t \in Threads : At(t, "lock") /\ owner[Arg(t)] # None}
NoCircularWait == \A S \in (SUBSET Waiting) \ {{}} : \E t \in S : owner[Arg(t)] \notin S

\* The shared memory an instruction reads or writes.
Touches(i) ==
    CASE i[1] \in {"proposeOwn", "checkAck", "collect", "checkAcked"} -> {"ackHistory"}
      [] i[1] \in {"addSeq", "resend", "checkSeq"} -> {"seqMessageHistory"}
      [] i[1] \in {"push", "change", "copyQueue"} -> {"deliveryQueue"}
      [] i[1] \in {"checkDelivered", "copyDelivered", "print"} -> {"deliveredMessage"}
      [] i[1] = "deliver" -> {"deliveryQueue", "deliveredMessage"}
      [] i[1] \in {"testRecord", "record"} -> {"recordMessages"}
      [] i[1] \in {"pushBuffer", "drain"} -> {i[2]}
      [] OTHER -> {}

\* Two threads never stand before accesses to the same history, queue, buffer
\* or flag: each of them is reached under its mutex from every thread.
NoDataRace ==
    \A t, u \in Threads : t # u /\ todo[t] # <<>> /\ todo[u] # <<>> =>
        Touches(Head(todo[t])) \cap Touches(Head(todo[u])) = {}

\* The exits of datamsg_watchdog (no entry for its message), handle_ackmsg (no
\* final number to send again) and handle_seqmsg (a message in no list) are
\* not reached, whatever the order in which the threads get on.
NoExit == ~ exited

\* Whatever another host can know of, this host holds: a message is queued or
\* delivered before a packet about it reaches the socket.
AnsweredIsHeld ==
    \A x \in sent : Queued(x.msg) \/ Delivered(x.msg)

\* An ackmsg_watchdog returns when it finds its message in the history; the
\* message is then deliverable or delivered, but for one of this host whose
\* finalization the receiver is about to complete under ackHistory.
FinalIsApplied ==
    \A m \in seqMessageHistory : \A e \in deliveryQueue :
        e.msg = m /\ e.status = UNDELIVERABLE => m \in Own /\ owner["ackHistory"] = Receiver

\* A message e is delivered although w, which waits in the queue, is to be
\* numbered below it.
Overtakes(e, w) ==
    /\ e.status = DELIVERABLE /\ e \notin deliveryQueue'
    /\ w.status = UNDELIVERABLE /\ w \in deliveryQueue'
    /\ \A h \in Host : Proposals(w.msg)[h] < e.seq

\* A message that waits is not overtaken, except one that this host queued above
\* the number it proposed.  curr_seq_number is read once for either, and moves in
\* between: forth, when the receiver counts while main multicasts, or back, when
\* main stores what it read before the receiver counted.
OvertakenOnlyByRace ==
    [][\A e, w \in deliveryQueue :
         Overtakes(e, w) => Proposals(w.msg)[Me] < w.seq]_vars

-----------------------------------------------------------------------------
(***************************************************************************)
(* What the documentation says and the code does not do.                   *)
(***************************************************************************)

\* README.md:16, "the process of delivering messages through a priority queue
\* guarantees that the delivery is monotonically increasing (w.r.t. the
\* sequence number/sender id)": no message is delivered while another waits
\* in the queue whose final number is below its own.
NeverOvertaken ==
    [][\A e, w \in deliveryQueue : ~ Overtakes(e, w)]_vars

=============================================================================
