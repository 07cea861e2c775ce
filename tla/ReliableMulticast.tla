------------------------- MODULE ReliableMulticast -------------------------
(***************************************************************************)
(* The totally ordered multicast of reliable_multicast.cpp.                *)
(*                                                                         *)
(* A sender stamps a data message in three phases.  It multicasts the      *)
(* message, every host answers with an ack that proposes a sequence        *)
(* number, and when all hosts have proposed the sender takes the largest   *)
(* proposal as the final number and multicasts it.  Each host keeps the    *)
(* messages it knows of in a min-heap, deliveryQueue, and delivers the     *)
(* front of the heap while the front has its final number.  Packets travel *)
(* over UDP: they are delayed, reordered and dropped, and two kinds of     *)
(* watchdog threads resend what has not been answered.                     *)
(*                                                                         *)
(* One step is one whole handler of the receiver thread, one multicast of  *)
(* the main thread, or one resend of a watchdog.  A message is identified  *)
(* by the pair <<sender, msg_id>>; its payload is opaque to the protocol   *)
(* and is left out.  In the two maps from hosts to proposals, ackHistory   *)
(* and alreadyAcked, 0 stands for "no entry": proposals start at 1.        *)
(***************************************************************************)
EXTENDS Naturals, FiniteSets, Sequences, SequencesExt

CONSTANTS
    Host,                 \* ids of the hosts of the Hostfile
    NumMsgToSend,         \* how many messages each host multicasts
    WATCHDOG_RESEND_CAP,  \* resends after which a watchdog gives up
    RECV_CAP,             \* receptions after which a receiver thread stops
    Capped,               \* FALSE: runs too short to reach the two caps
    MaxDrops              \* bound on packets lost by send_msg/reply_msg

ASSUME HostAssumption ==
    Host \subseteq Nat \ {0} /\ IsFiniteSet(Host) /\ Host # {}
ASSUME NumMsgAssumption == NumMsgToSend \in [Host -> Nat]
ASSUME CapAssumption ==
    /\ WATCHDOG_RESEND_CAP \in Nat
    /\ RECV_CAP \in Nat
    /\ 1 < RECV_CAP
    /\ Capped \in BOOLEAN
    /\ MaxDrops \in Nat

MsgId == UNION {0 .. (NumMsgToSend[h] - 1) : h \in {k \in Host : NumMsgToSend[k] > 0}}
Msg == Host \X MsgId
Sender(m) == m[1]

VARIABLES
    curr_msg_id,        \* next message id of each host
    curr_seq_number,    \* each host's sequence counter
    ackHistory,         \* per message: the proposals its sender has collected
    alreadyAcked,       \* per host: the proposals it has sent, by message
    seqMessageHistory,  \* per host: the final numbers it has sent or received
    deliveryQueue,      \* per host: the queued messages
    deliveredMessage,   \* per host: the delivered messages, in order
    recv_cap,           \* per host: 1 + receptions of its receiver thread
    dataResends,        \* resends of the datamsg_watchdog of a message and host
    ackResends,         \* resends of the ackmsg_watchdog of a message at a host
    exited,             \* hosts whose process has called exit(1)
    network,            \* packets in flight
    drops               \* packets lost so far

vars == <<curr_msg_id, curr_seq_number, ackHistory, alreadyAcked,
          seqMessageHistory, deliveryQueue, deliveredMessage, recv_cap,
          dataResends, ackResends, exited, network, drops>>

-----------------------------------------------------------------------------
(***************************************************************************)
(* The packets and the entries of the delivery queue.                      *)
(***************************************************************************)
UNDELIVERABLE == 0
DELIVERABLE   == 1

DataMessage(to, m) == [type |-> "DATAMSG", to |-> to, msg |-> m]

AckMessage(m, seq, proposer) ==
    [type |-> "ACKMSG", to |-> Sender(m), msg |-> m, seq |-> seq, proposer |-> proposer]

SeqMessage(to, m, seq, proposer) ==
    [type |-> "SEQMSG", to |-> to, msg |-> m, seq |-> seq, proposer |-> proposer]

QueuedMessage(m, seq, proposer, status) ==
    [msg |-> m, seq |-> seq, proposer |-> proposer, status |-> status]

\* An entry of seqMessageHistory: message m has final number (seq, proposer).
Final(m, seq, proposer) == [msg |-> m, seq |-> seq, proposer |-> proposer]

-----------------------------------------------------------------------------
(***************************************************************************)
(* The delivery queue.  cmp orders entries by number and then by proposer; *)
(* it leaves entries with equal numbers and proposers unordered, and which *)
(* of them the heap has in front depends on its layout, so any may be.     *)
(***************************************************************************)
\* Mutant of cmp: no reversal of the arguments, so that the heap is a max-heap.
cmpOfMaxHeap(left, right) ==
    \/ right.seq < left.seq
    \/ right.seq = left.seq /\ right.proposer < left.proposer

cmp(left, right) ==
    \/ left.seq < right.seq
    \/ left.seq = right.seq /\ left.proposer < right.proposer

HeapFront(queue) == {e \in queue : \A x \in queue : ~ cmp(x, e)}

\* Mutants of ChangeQueued: the new key is pushed and the old entry stays; the
\* proposer is not updated; the entry is not marked deliverable.
ChangeQueuedByPush(queue, m, seq, proposer) ==
    IF \E e \in queue : e.msg = m
    THEN queue \cup {QueuedMessage(m, seq, proposer, DELIVERABLE)}
    ELSE queue

ChangeQueuedSeqOnly(queue, m, seq, proposer) ==
    {IF e.msg = m THEN QueuedMessage(m, seq, e.proposer, DELIVERABLE) ELSE e : e \in queue}

ChangeQueuedUnmarked(queue, m, seq, proposer) ==
    {IF e.msg = m THEN QueuedMessage(m, seq, proposer, e.status) ELSE e : e \in queue}

ChangeQueued(queue, m, seq, proposer) ==
    {IF e.msg = m THEN QueuedMessage(m, seq, proposer, DELIVERABLE) ELSE e : e \in queue}

\* Mutant of Batches: the loop has become a test, which pops one entry at most.
BatchOfOne(queue) ==
    {s \in {<<>>} \cup {<<e>> : e \in HeapFront(queue)} :
       IF s = <<>> THEN \A e \in HeapFront(queue) : e.status = UNDELIVERABLE
                   ELSE s[1].status = DELIVERABLE}

\* What the loop of deliver_msg_from_deliveryqueue may pop: each popped entry
\* is deliverable and in front of those left; the loop ends when the queue is
\* empty or the entry in front is not deliverable.
Batches(queue) ==
    LET deliverable == {e \in queue : e.status = DELIVERABLE}
    IN  {s \in UNION {SetToSeqs(S) : S \in SUBSET deliverable} :
           /\ \A i \in DOMAIN s : s[i] \in HeapFront(queue \ {s[j] : j \in 1 .. (i - 1)})
           /\ \/ queue = Range(s)
              \/ \E e \in HeapFront(queue \ Range(s)) : e.status = UNDELIVERABLE}

\* Host h delivers from queue and keeps the rest as its delivery queue.
DeliverFrom(h, queue) ==
    \E batch \in Batches(queue) :
        /\ deliveryQueue' = [deliveryQueue EXCEPT ![h] = queue \ Range(batch)]
        /\ deliveredMessage' = [deliveredMessage EXCEPT ![h] = @ \o batch]

-----------------------------------------------------------------------------
(***************************************************************************)
(* Sending and receiving.  A send or a reply loses the packet on the toss  *)
(* of a coin, before it reaches the socket.                                *)
(***************************************************************************)
Transmit(consumed, sent) ==
    \E lost \in SUBSET sent :
        /\ drops + Cardinality(lost) =< MaxDrops
        /\ drops' = drops + Cardinality(lost)
        /\ network' = (network \ consumed) \cup (sent \ lost)

\* The counters that only the two caps read stand still when Capped is FALSE.
Tick(n) == IF Capped THEN n + 1 ELSE n

\* Mutant of Receive: the receiver loop has lost its test.
ReceiveForEver(h, packet) ==
    /\ h \notin exited
    /\ packet \in network
    /\ recv_cap' = [recv_cap EXCEPT ![h] = Tick(@)]

Receive(h, packet) ==
    /\ h \notin exited
    /\ packet \in network
    /\ recv_cap[h] < RECV_CAP
    /\ recv_cap' = [recv_cap EXCEPT ![h] = Tick(@)]

-----------------------------------------------------------------------------
Init ==
    /\ curr_msg_id = [h \in Host |-> 0]
    /\ curr_seq_number = [h \in Host |-> 1]
    /\ ackHistory = [m \in Msg |-> [h \in Host |-> 0]]
    /\ alreadyAcked = [h \in Host |-> [m \in Msg |-> 0]]
    /\ seqMessageHistory = [h \in Host |-> {}]
    /\ deliveryQueue = [h \in Host |-> {}]
    /\ deliveredMessage = [h \in Host |-> <<>>]
    /\ recv_cap = [h \in Host |-> 1]
    /\ dataResends = [m \in Msg |-> [h \in Host |-> 0]]
    /\ ackResends = [h \in Host |-> [m \in Msg |-> 0]]
    /\ exited = {}
    /\ network = {}
    /\ drops = 0

\* The main thread of h multicasts its next message, proposes its own number
\* for it, queues it and sends it to the other hosts.
MulticastDatamsg(h) ==
    /\ h \notin exited
    /\ curr_msg_id[h] < NumMsgToSend[h]
    /\ LET m   == <<h, curr_msg_id[h]>>
           seq == curr_seq_number[h] + 1
       IN  /\ curr_seq_number' = [curr_seq_number EXCEPT ![h] = seq]
           /\ ackHistory' = [ackHistory EXCEPT ![m][h] = seq]
           /\ deliveryQueue' = [deliveryQueue EXCEPT
                                  ![h] = @ \cup {QueuedMessage(m, seq, h, UNDELIVERABLE)}]
           /\ Transmit({}, {DataMessage(to, m) : to \in Host \ {h}})
    /\ curr_msg_id' = [curr_msg_id EXCEPT ![h] = @ + 1]
    /\ UNCHANGED <<alreadyAcked, seqMessageHistory, deliveredMessage, recv_cap,
                   dataResends, ackResends, exited>>

-----------------------------------------------------------------------------
\* Mutant of ReAck: the repeated ack proposes the counter's value of now.
ReAckAnew(h, m) ==
    /\ Receive(h, DataMessage(h, m))
    /\ alreadyAcked[h][m] # 0
    /\ Transmit({DataMessage(h, m)}, {AckMessage(m, curr_seq_number[h], h)})
    /\ UNCHANGED <<curr_msg_id, curr_seq_number, ackHistory, alreadyAcked,
                   seqMessageHistory, deliveryQueue, deliveredMessage,
                   dataResends, ackResends, exited>>

\* Host h receives a copy of message m it has acked: it sends the same ack.
ReAck(h, m) ==
    /\ Receive(h, DataMessage(h, m))
    /\ alreadyAcked[h][m] # 0
    /\ Transmit({DataMessage(h, m)}, {AckMessage(m, alreadyAcked[h][m], h)})
    /\ UNCHANGED <<curr_msg_id, curr_seq_number, ackHistory, alreadyAcked,
                   seqMessageHistory, deliveryQueue, deliveredMessage,
                   dataResends, ackResends, exited>>

\* Host h receives message m for the first time: it queues it under the
\* number it proposes, and acks.
Propose(h, m) ==
    /\ Receive(h, DataMessage(h, m))
    /\ alreadyAcked[h][m] = 0
    /\ LET seq == curr_seq_number[h]
       IN  /\ deliveryQueue' = [deliveryQueue EXCEPT
                                  ![h] = @ \cup {QueuedMessage(m, seq, h, UNDELIVERABLE)}]
           /\ alreadyAcked' = [alreadyAcked EXCEPT ![h][m] = seq]
           /\ curr_seq_number' = [curr_seq_number EXCEPT ![h] = seq + 1]
           /\ Transmit({DataMessage(h, m)}, {AckMessage(m, seq, h)})
    /\ UNCHANGED <<curr_msg_id, ackHistory, seqMessageHistory, deliveredMessage,
                   dataResends, ackResends, exited>>

HandleDatamsg(h, m) == ReAck(h, m) \/ Propose(h, m)

-----------------------------------------------------------------------------
\* Mutant of Complete: one proposal too few.
CompleteButOne(acks) == Cardinality({q \in Host : acks[q] = 0}) =< 1

Complete(acks) == \A q \in Host : acks[q] # 0

\* Mutant of IsMaxSequence: the comparison is the wrong way round.
IsMinSequence(acks, proposer) ==
    /\ \A q \in Host : acks[proposer] =< acks[q]
    /\ \A q \in Host : acks[q] = acks[proposer] => proposer =< q

\* get_max_sequence_from_proposerseq_map scans the proposers in ascending
\* order and keeps the first of the largest proposals.
IsMaxSequence(acks, proposer) ==
    /\ \A q \in Host : acks[q] =< acks[proposer]
    /\ \A q \in Host : acks[q] = acks[proposer] => proposer =< q

\* Mutant of FinalsOf: the search forgets to compare the senders.
FinalsOfAnySender(h, m) == {f \in seqMessageHistory[h] : f.msg[2] = m[2]}

FinalsOf(h, m) == {f \in seqMessageHistory[h] : f.msg = m}

\* An ack that is new to the sender of m and does not complete the proposals.
CollectAck(m, p, seq) ==
    LET s    == Sender(m)
        acks == [ackHistory[m] EXCEPT ![p] = seq]
    IN  /\ Receive(s, AckMessage(m, seq, p))
        /\ ackHistory[m][p] = 0
        /\ ~ Complete(acks)
        /\ curr_seq_number' = [curr_seq_number EXCEPT ![s] = @ + 1]
        /\ ackHistory' = [ackHistory EXCEPT ![m] = acks]
        /\ Transmit({AckMessage(m, seq, p)}, {})
        /\ UNCHANGED <<curr_msg_id, alreadyAcked, seqMessageHistory, deliveryQueue,
                       deliveredMessage, dataResends, ackResends, exited>>

\* The ack that completes the proposals: the sender fixes the final number,
\* announces it, applies it to its own queue and delivers what it can.
Finalize(m, p, seq) ==
    LET s    == Sender(m)
        acks == [ackHistory[m] EXCEPT ![p] = seq]
    IN  /\ Receive(s, AckMessage(m, seq, p))
        /\ ackHistory[m][p] = 0
        /\ Complete(acks)
        /\ curr_seq_number' = [curr_seq_number EXCEPT ![s] = @ + 1]
        /\ ackHistory' = [ackHistory EXCEPT ![m] = acks]
        /\ \E top \in Host :
             /\ IsMaxSequence(acks, top)
             /\ seqMessageHistory' = [seqMessageHistory EXCEPT
                                        ![s] = @ \cup {Final(m, acks[top], top)}]
             /\ Transmit({AckMessage(m, seq, p)},
                         {SeqMessage(to, m, acks[top], top) : to \in Host \ {s}})
             /\ DeliverFrom(s, ChangeQueued(deliveryQueue[s], m, acks[top], top))
        /\ UNCHANGED <<curr_msg_id, alreadyAcked, dataResends, ackResends, exited>>

\* An ack seen before, with all proposals in: its proposer lacks the final
\* number, which the sender looks up and sends again.  The process exits if it
\* finds none; it never finds two, since it finalizes a message once.
ResendFinal(m, p, seq) ==
    LET s == Sender(m)
    IN  /\ Receive(s, AckMessage(m, seq, p))
        /\ ackHistory[m][p] # 0
        /\ Complete(ackHistory[m])
        /\ Transmit({AckMessage(m, seq, p)},
                    {SeqMessage(p, m, f.seq, f.proposer) : f \in FinalsOf(s, m)})
        /\ exited' = IF FinalsOf(s, m) = {} THEN exited \cup {s} ELSE exited
        /\ UNCHANGED <<curr_msg_id, curr_seq_number, ackHistory, alreadyAcked,
                       seqMessageHistory, deliveryQueue, deliveredMessage,
                       dataResends, ackResends>>

\* An ack seen before, with proposals still missing: nothing to do.
IgnoreAck(m, p, seq) ==
    /\ Receive(Sender(m), AckMessage(m, seq, p))
    /\ ackHistory[m][p] # 0
    /\ ~ Complete(ackHistory[m])
    /\ Transmit({AckMessage(m, seq, p)}, {})
    /\ UNCHANGED <<curr_msg_id, curr_seq_number, ackHistory, alreadyAcked,
                   seqMessageHistory, deliveryQueue, deliveredMessage,
                   dataResends, ackResends, exited>>

HandleAckmsg(m, p) ==
    \E a \in {x \in network : x.type = "ACKMSG" /\ x.msg = m /\ x.proposer = p} :
        \/ CollectAck(m, p, a.seq)
        \/ Finalize(m, p, a.seq)
        \/ ResendFinal(m, p, a.seq)
        \/ IgnoreAck(m, p, a.seq)

-----------------------------------------------------------------------------
Queued(h, m) == \E e \in deliveryQueue[h] : e.msg = m
Delivered(h, m) == \E i \in DOMAIN deliveredMessage[h] : deliveredMessage[h][i].msg = m

\* Host h receives the final number of a message in its queue.
ApplyFinal(h, m, seq, proposer) ==
    /\ Receive(h, SeqMessage(h, m, seq, proposer))
    /\ Queued(h, m)
    /\ seqMessageHistory' = [seqMessageHistory EXCEPT
                               ![h] = @ \cup {Final(m, seq, proposer)}]
    /\ DeliverFrom(h, ChangeQueued(deliveryQueue[h], m, seq, proposer))
    /\ Transmit({SeqMessage(h, m, seq, proposer)}, {})
    /\ UNCHANGED <<curr_msg_id, curr_seq_number, ackHistory, alreadyAcked,
                   dataResends, ackResends, exited>>

\* Host h receives the final number of a message that is not in its queue: a
\* duplicate if the message was delivered; otherwise the process exits.
DropFinal(h, m, seq, proposer) ==
    /\ Receive(h, SeqMessage(h, m, seq, proposer))
    /\ ~ Queued(h, m)
    /\ exited' = IF Delivered(h, m) THEN exited ELSE exited \cup {h}
    /\ Transmit({SeqMessage(h, m, seq, proposer)}, {})
    /\ UNCHANGED <<curr_msg_id, curr_seq_number, ackHistory, alreadyAcked,
                   seqMessageHistory, deliveryQueue, deliveredMessage,
                   dataResends, ackResends>>

HandleSeqmsg(h, m) ==
    \E f \in {x \in network : x.type = "SEQMSG" /\ x.msg = m /\ x.to = h} :
        \/ ApplyFinal(h, m, f.seq, f.proposer)
        \/ DropFinal(h, m, f.seq, f.proposer)

-----------------------------------------------------------------------------
(***************************************************************************)
(* The watchdogs.  A watchdog that wakes up to find its answer returns,    *)
(* and one that has used up its resends stops: neither has a step then.    *)
(***************************************************************************)
DatamsgWatchdog(m, h) ==
    /\ Sender(m) \notin exited
    /\ m[2] < curr_msg_id[Sender(m)]
    /\ h # Sender(m)
    /\ ackHistory[m][h] = 0
    /\ dataResends[m][h] < WATCHDOG_RESEND_CAP
    /\ dataResends' = [dataResends EXCEPT ![m][h] = Tick(@)]
    /\ Transmit({}, {DataMessage(h, m)})
    /\ UNCHANGED <<curr_msg_id, curr_seq_number, ackHistory, alreadyAcked,
                   seqMessageHistory, deliveryQueue, deliveredMessage, recv_cap,
                   ackResends, exited>>

AckmsgWatchdog(h, m) ==
    /\ h \notin exited
    /\ alreadyAcked[h][m] # 0
    /\ FinalsOf(h, m) = {}
    /\ ackResends[h][m] < WATCHDOG_RESEND_CAP
    /\ ackResends' = [ackResends EXCEPT ![h][m] = Tick(@)]
    /\ Transmit({}, {AckMessage(m, alreadyAcked[h][m], h)})
    /\ UNCHANGED <<curr_msg_id, curr_seq_number, ackHistory, alreadyAcked,
                   seqMessageHistory, deliveryQueue, deliveredMessage, recv_cap,
                   dataResends, exited>>

-----------------------------------------------------------------------------
Next ==
    \/ \E h \in Host : MulticastDatamsg(h)
    \/ \E h \in Host, m \in Msg :
         \/ HandleDatamsg(h, m)
         \/ HandleAckmsg(m, h)
         \/ HandleSeqmsg(h, m)
         \/ DatamsgWatchdog(m, h)
         \/ AckmsgWatchdog(h, m)

Spec == Init /\ [][Next]_vars

\* The receiver thread handles every packet that reaches it, in the order of
\* the socket's buffer; the main thread runs its loop to the end; and every
\* watchdog wakes up again as long as it has resends left.
Fairness ==
    /\ \A h \in Host : WF_vars(MulticastDatamsg(h))
    /\ \A h \in Host, m \in Msg :
         /\ WF_vars(HandleDatamsg(h, m))
         /\ WF_vars(HandleAckmsg(m, h))
         /\ WF_vars(HandleSeqmsg(h, m))
         /\ WF_vars(DatamsgWatchdog(m, h))
         /\ WF_vars(AckmsgWatchdog(h, m))

FairSpec == Spec /\ Fairness

-----------------------------------------------------------------------------
(***************************************************************************)
(* Properties.                                                             *)
(***************************************************************************)
Packet ==
    [type : {"DATAMSG"}, to : Host, msg : Msg]
      \cup [type : {"ACKMSG", "SEQMSG"}, to : Host, msg : Msg, seq : Nat, proposer : Host]

QueueEntry ==
    [msg : Msg, seq : Nat, proposer : Host, status : {UNDELIVERABLE, DELIVERABLE}]

\* The type invariant: every variable has its type, the queues and histories
\* are finite, and no counter passes the cap that msg_receiver or a watchdog
\* tests.
TypeOK ==
    /\ curr_msg_id \in [Host -> Nat]
    /\ \A h \in Host : curr_msg_id[h] =< NumMsgToSend[h]
    /\ curr_seq_number \in [Host -> Nat \ {0}]
    /\ ackHistory \in [Msg -> [Host -> Nat]]
    /\ alreadyAcked \in [Host -> [Msg -> Nat]]
    /\ seqMessageHistory \in [Host -> SUBSET [msg : Msg, seq : Nat, proposer : Host]]
    /\ deliveryQueue \in [Host -> SUBSET QueueEntry]
    /\ \A h \in Host : IsFiniteSet(seqMessageHistory[h]) /\ IsFiniteSet(deliveryQueue[h])
    /\ deliveredMessage \in [Host -> Seq(QueueEntry)]
    /\ recv_cap \in [Host -> 1 .. RECV_CAP]
    /\ dataResends \in [Msg -> [Host -> 0 .. WATCHDOG_RESEND_CAP]]
    /\ ackResends \in [Host -> [Msg -> 0 .. WATCHDOG_RESEND_CAP]]
    /\ exited \subseteq Host
    /\ network \subseteq Packet
    /\ drops \in 0 .. MaxDrops

\* The number host h has proposed for m: the sender of m keeps its own in
\* ackHistory, any other host in alreadyAckedMessages.
Proposal(h, m) == IF h = Sender(m) THEN ackHistory[m][h] ELSE alreadyAcked[h][m]

\* Every final number the system holds of any message: in a history, in a
\* packet, in a delivery queue or among the delivered messages.
FinalOf(x) == Final(x.msg, x.seq, x.proposer)

FinalEntries(h) ==
    {e \in deliveryQueue[h] : e.status = DELIVERABLE} \cup Range(deliveredMessage[h])

KnownFinals ==
    (UNION {seqMessageHistory[h] : h \in Host})
      \cup {FinalOf(x) : x \in {y \in network : y.type = "SEQMSG"}}
      \cup {FinalOf(e) : e \in UNION {FinalEntries(h) : h \in Host}}

\* README.md:16, "agreement of the messages' sequence": all the final numbers
\* that the hosts know of one message, wherever they keep them and however
\* often acks and SeqMessages were repeated, are the same.
FinalAgreement == \A f, g \in KnownFinals : f.msg = g.msg => f = g

\* A final number exists only once every host has proposed one, and it is
\* the largest of the proposals that the hosts themselves remember, not of
\* numbers lost or changed on the way.
FinalCoversProposals ==
    \A f \in KnownFinals :
        /\ \A h \in Host : 0 < Proposal(h, f.msg) /\ Proposal(h, f.msg) =< f.seq
        /\ Proposal(f.proposer, f.msg) = f.seq

\* A message is on a host at most once: not twice in the queue, not twice
\* delivered, and not queued after it was delivered, whatever is resent.
ExactlyOnce ==
    \A h \in Host :
        /\ \A d, e \in deliveryQueue[h] : d.msg = e.msg => d = e
        /\ \A i, j \in DOMAIN deliveredMessage[h] :
             deliveredMessage[h][i].msg = deliveredMessage[h][j].msg => i = j
        /\ \A e \in deliveryQueue[h] : ~ Delivered(h, e.msg)

\* No host reaches the exit(1) of handle_seqmsg (a final number for a message
\* it does not hold) or that of handle_ackmsg (a repeated ack of a message
\* whose final number is not in the history).
NoHostExits == exited = {}

\* What stops a watchdog is never premature.  A host whose ack the sender has
\* collected, so that datamsg_watchdog stops, holds the message; and a host
\* with a final number in its history, so that ackmsg_watchdog stops, has
\* made its copy deliverable or delivered it.
WatchdogsStopWhenDone ==
    \A h \in Host, m \in Msg :
        /\ ackHistory[m][h] # 0 => Queued(h, m) \/ Delivered(h, m)
        /\ FinalsOf(h, m) # {} =>
             \/ Delivered(h, m)
             \/ \E e \in deliveryQueue[h] : e.msg = m /\ e.status = DELIVERABLE

\* The datamsg_watchdog of m for host h still lacks the ack of h, and the
\* ackmsg_watchdog of m at h the final number: such a watchdog resends, or has
\* done so to its cap.
AwaitsAck(m, h)   == h # Sender(m) /\ ackHistory[m][h] = 0
AwaitsFinal(h, m) == alreadyAcked[h][m] # 0 /\ FinalsOf(h, m) = {}

\* A message that was multicast and is not delivered is somebody's task: it
\* waits for the ack of the host that does not hold it, or behind (or as) an
\* entry in front of the queue whose host awaits the final number or, being
\* its sender, an ack.  So deliver_msg_from_deliveryqueue leaves nothing in a
\* queue that no watchdog still asks about.  (A host alone in its group has no
\* watchdogs, and delivers nothing.)
UndeliveredIsPursued ==
    \A h \in Host, m \in Msg :
        m[2] < curr_msg_id[Sender(m)] /\ ~ Delivered(h, m) /\ Host # {h} =>
            IF Queued(h, m)
            THEN \E e \in HeapFront(deliveryQueue[h]) :
                    \/ AwaitsFinal(h, e.msg)
                    \/ Sender(e.msg) = h /\ \E q \in Host : AwaitsAck(e.msg, q)
            ELSE AwaitsAck(m, h)

\* A host delivers two messages against their final numbers only if it also
\* came to propose for the second one no earlier than for the first: what was
\* in the queue when a message was delivered is never found to precede it.
InversionsAreLateArrivals ==
    \A h \in Host : \A j \in DOMAIN deliveredMessage[h] : \A i \in 1 .. (j - 1) :
        LET first  == deliveredMessage[h][i]
            second == deliveredMessage[h][j]
        IN  second.seq < first.seq => Proposal(h, first.msg) =< Proposal(h, second.msg)

\* A receiver has stopped at its cap, or a watchdog has given up unanswered.
GivenUp ==
    \/ \E h \in Host : recv_cap[h] = RECV_CAP
    \/ \E h \in Host, m \in Msg :
         \/ dataResends[m][h] = WATCHDOG_RESEND_CAP /\ ackHistory[m][h] = 0
         \/ ackResends[h][m] = WATCHDOG_RESEND_CAP /\ FinalsOf(h, m) = {}

\* Every message a host multicasts is at length delivered by every host,
\* whatever is lost, unless some thread gives up for good: a watchdog whose
\* last resend was the one that got through has not given up.
EventualDelivery ==
    \A m \in Msg, h \in Host :
        (m[2] < curr_msg_id[Sender(m)]) ~> (Delivered(h, m) \/ []GivenUp)

-----------------------------------------------------------------------------
(***************************************************************************)
(* What the documentation says and the code does not do.                   *)
(***************************************************************************)

\* README.md:8, "each process will have the same ordering of the delivered
\* messages": no two hosts deliver two messages in opposite orders.
TotalOrder ==
    \A h, k \in Host :
        \A i, j \in DOMAIN deliveredMessage[h] : \A a, b \in DOMAIN deliveredMessage[k] :
            /\ deliveredMessage[h][i].msg = deliveredMessage[k][a].msg
            /\ deliveredMessage[h][j].msg = deliveredMessage[k][b].msg
            => (i < j <=> a < b)

\* reliable_multicast.cpp:168, "to avoid clashing": different messages never
\* get the same final number from the same proposer.
DistinctFinals ==
    \A f, g \in KnownFinals : f.seq = g.seq /\ f.proposer = g.proposer => f.msg = g.msg

=============================================================================
