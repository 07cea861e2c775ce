--------------------------- MODULE GlobalSnapshot ---------------------------
(***************************************************************************)
(* The Chandy-Lamport snapshot of CL_global_snapshot.cpp and the places in *)
(* reliable_multicast.cpp that feed it.  On every host three threads meet: *)
(* main multicasts and, on the Initiator, takes the snapshot after its     *)
(* SnapshotAfter-th message; the receiver handles packets; the listener    *)
(* accepts markers and takes the snapshot at the first one.                *)
(*                                                                         *)
(* Markers travel over TCP, one connection each, and wait in the backlog   *)
(* of the listening socket; the multicast's packets travel over UDP and    *)
(* may overtake them.  A state is copied in two critical sections, and a   *)
(* packet is recorded in one and handled in a later one.                   *)
(*                                                                         *)
(* ReliableMulticast models the multicast itself.  Here it is reduced to   *)
(* what a snapshot sees: which messages a host has queued and delivered.   *)
(* Which deliverable messages are in front of the queue is left open, and  *)
(* a packet is neither lost nor resent.                                    *)
(***************************************************************************)
EXTENDS Naturals, FiniteSets, Sequences, Functions

CONSTANTS
    Host,           \* the ids of the hosts
    Count,          \* per host: the messages it multicasts (-c)
    Initiator,      \* the host that is given -X
    SnapshotAfter,  \* the value of -X
    Reached         \* bound: the hosts UDP packets reach; any other packet is
                    \* delayed for longer than the behaviour

ASSUME HostAssumption ==
    IsFiniteSet(Host) /\ Host \subseteq 0 .. 999 /\ Cardinality(Host) > 1
ASSUME CountAssumption ==
    /\ Count \in [Host -> Nat]
    /\ Initiator \in Host
    /\ SnapshotAfter \in 1 .. Count[Initiator]
    /\ Reached \subseteq Host

VARIABLES
    sent,                  \* per host: messages multicast so far
    deliveryQueue,         \* per host: the messages queued
    deliverable,           \* per host: those of them with a final number
    deliveredMessage,      \* per host: the messages delivered
    acks,                  \* per message: the hosts that acked it
    network,               \* UDP packets in flight
    msg_buf,               \* per host: the packet the receiver has in hand, if any
    recordMessages,        \* per host: packets are to be recorded
    inboundMessageBuffer,  \* per host: packets recorded on receipt
    outboundMessageBuffer, \* per host: packets recorded on sending
    backlog,               \* per host: markers not accepted yet
    buf,                   \* per host: the marker accepted last
    alreadyReceivedProc,   \* per host: the senders of the markers processed
    amInitiator,           \* per host
    locsnap,               \* per host: the copy of its state
    inboundChannelState,   \* per host, per host: packets of that channel
    outboundChannelState,  \* per host, per host: packets of that channel
    due,                   \* per thread: hosts it has not sent its marker to
    pc                     \* per thread: where it is

multicastVars == <<sent, deliveryQueue, deliverable, deliveredMessage, acks, network, msg_buf>>
bufferVars    == <<inboundMessageBuffer, outboundMessageBuffer>>
channelVars   == <<inboundChannelState, outboundChannelState>>
markerVars    == <<backlog, buf, alreadyReceivedProc, due>>
stateVars     == <<amInitiator, locsnap, recordMessages>>
vars == <<multicastVars, bufferVars, channelVars, markerVars, stateVars, pc>>

Main(h)     == <<h, "main">>
Listener(h) == <<h, "listener">>
Thread      == Host \X {"main", "listener"}
Others(h)   == Host \ {h}

Msg == UNION {{h} \X (1 .. Count[h]) : h \in Host}
Packet == [type : {"data", "ack", "seq"}, msg : Msg, from : Host, to : Host]
ToOthers(type, m, h) == {[type |-> type, msg |-> m, from |-> h, to |-> p] : p \in Others(h)}

Init ==
    /\ sent = [h \in Host |-> 0]
    /\ deliveryQueue = [h \in Host |-> {}]
    /\ deliverable = [h \in Host |-> {}]
    /\ deliveredMessage = [h \in Host |-> {}]
    /\ acks = [m \in Msg |-> {}]
    /\ network = {}
    /\ msg_buf = [h \in Host |-> {}]
    /\ recordMessages = [h \in Host |-> FALSE]
    /\ inboundMessageBuffer = [h \in Host |-> {}]
    /\ outboundMessageBuffer = [h \in Host |-> {}]
    /\ backlog = [h \in Host |-> <<>>]
    /\ buf = [h \in Host |-> 0]
    /\ alreadyReceivedProc = [h \in Host |-> <<>>]
    /\ amInitiator = [h \in Host |-> FALSE]
    /\ locsnap = [h \in Host |-> [deliveryQueue |-> {}, deliveredMessage |-> {}]]
    /\ inboundChannelState = [h \in Host |-> [p \in Host |-> {}]]
    /\ outboundChannelState = [h \in Host |-> [p \in Host |-> {}]]
    /\ due = [t \in Thread |-> Others(t[1])]
    /\ pc = [t \in Thread |-> IF t[2] = "main" THEN "multicast" ELSE "first"]

-----------------------------------------------------------------------------
(***************************************************************************)
(* Taking the snapshot, on the main thread of the initiator and on the     *)
(* listener of any other host.                                             *)
(***************************************************************************)
\* Mutants of Steps: the lists are copied in the opposite order, recording
\* starts before the copy, the markers leave before recording starts.
StepsDeliveredFirst == <<"copyDelivered", "copyQueue", "startRecording", "sendMarkers">>
StepsRecordFirst    == <<"startRecording", "copyQueue", "copyDelivered", "sendMarkers">>
StepsMarkersFirst   == <<"copyQueue", "copyDelivered", "sendMarkers", "startRecording">>

Steps == <<"copyQueue", "copyDelivered", "startRecording", "sendMarkers">>

\* Mutant of Missing: the loop waits for one marker more than there are hosts.
MissingOneMore(h, markers) == Len(markers) < Cardinality(Host)

\* The loop condition of the listener: not all markers have been processed.
Missing(h, markers) == Len(markers) < Cardinality(Host) - 1

\* Mutant of Taken: the loop begins with the first marker still in buf.
TakenWithFirst(t) ==
    IF t[2] = "main" THEN "multicast"
    ELSE IF Missing(t[1], alreadyReceivedProc[t[1]]) THEN "marker" ELSE "stop"

\* Where a thread goes on after its last marker.
Taken(t) ==
    IF t[2] = "main" THEN "multicast"
    ELSE IF Missing(t[1], alreadyReceivedProc[t[1]]) THEN "accept" ELSE "stop"

StepAfter(t) ==
    LET i == CHOOSE i \in DOMAIN Steps : Steps[i] = pc[t]
    IN  IF i = Len(Steps) THEN Taken(t) ELSE Steps[i + 1]

Advance(t) == pc' = [pc EXCEPT ![t] = StepAfter(t)]

\* get_local_state_snapshot: one critical section for either list.
CopyQueue(t) ==
    /\ pc[t] = "copyQueue"
    /\ locsnap' = [locsnap EXCEPT ![t[1]].deliveryQueue = deliveryQueue[t[1]]]
    /\ Advance(t)
    /\ UNCHANGED <<multicastVars, bufferVars, channelVars, markerVars, amInitiator, recordMessages>>

CopyDelivered(t) ==
    /\ pc[t] = "copyDelivered"
    /\ locsnap' = [locsnap EXCEPT ![t[1]].deliveredMessage = deliveredMessage[t[1]]]
    /\ Advance(t)
    /\ UNCHANGED <<multicastVars, bufferVars, channelVars, markerVars, amInitiator, recordMessages>>

StartRecording(t) ==
    /\ pc[t] = "startRecording"
    /\ amInitiator' = [amInitiator EXCEPT ![t[1]] = @ \/ t[2] = "main"]
    /\ recordMessages' = [recordMessages EXCEPT ![t[1]] = TRUE]
    /\ Advance(t)
    /\ UNCHANGED <<multicastVars, bufferVars, channelVars, markerVars, locsnap>>

\* One connection to p, closed after the marker; p accepts it when it can.
SendMarker(t, p) ==
    /\ pc[t] = "sendMarkers"
    /\ p \in due[t]
    /\ backlog' = [backlog EXCEPT ![p] = Append(@, t[1])]
    /\ due' = [due EXCEPT ![t] = @ \ {p}]
    /\ IF due[t] = {p} THEN Advance(t) ELSE UNCHANGED pc
    /\ UNCHANGED <<multicastVars, bufferVars, channelVars, stateVars, buf, alreadyReceivedProc>>

-----------------------------------------------------------------------------
(***************************************************************************)
(* The listener.                                                           *)
(***************************************************************************)
\* What is read of a marker: MAX_MARKER_SIZE leaves room for two digits.
Marker(id) == IF id < 100 THEN id ELSE id \div 10

Accept(h) ==
    /\ backlog[h] # <<>>
    /\ buf' = [buf EXCEPT ![h] = Marker(Head(backlog[h]))]
    /\ backlog' = [backlog EXCEPT ![h] = Tail(@)]

AcceptFirst(h) ==
    /\ pc[Listener(h)] = "first"
    /\ Accept(h)
    /\ IF amInitiator[h]
         THEN /\ pc' = [pc EXCEPT ![Listener(h)] = "marker"]
              /\ UNCHANGED alreadyReceivedProc
         ELSE /\ pc' = [pc EXCEPT ![Listener(h)] = Steps[1]]
              /\ alreadyReceivedProc' = [alreadyReceivedProc EXCEPT ![h] = Append(@, buf'[h])]
    /\ UNCHANGED <<multicastVars, bufferVars, channelVars, stateVars, due>>

AcceptNext(h) ==
    /\ pc[Listener(h)] = "accept"
    /\ Accept(h)
    /\ pc' = [pc EXCEPT ![Listener(h)] = "marker"]
    /\ UNCHANGED <<multicastVars, bufferVars, channelVars, stateVars, alreadyReceivedProc, due>>

\* handle_message: the channel a recorded packet is filed under.
SenderOf(x) == x.from

\* The packets of a buffer are filed, unless their sender's marker is there.
Drain(channel, buffer, markers) ==
    [p \in Host |-> IF p \in Range(markers) THEN channel[p]
                    ELSE channel[p] \cup {x \in buffer : SenderOf(x) = p}]

\* Both buffers are emptied, then the marker in buf is processed.
ProcessMarker(h) ==
    LET drain(states, buffers) ==
          [states EXCEPT ![h] = Drain(@, buffers[h], alreadyReceivedProc[h])]
        markers == Append(alreadyReceivedProc[h], buf[h])
    IN  /\ pc[Listener(h)] = "marker"
        /\ inboundChannelState' = drain(inboundChannelState, inboundMessageBuffer)
        /\ outboundChannelState' = drain(outboundChannelState, outboundMessageBuffer)
        /\ inboundMessageBuffer' = [inboundMessageBuffer EXCEPT ![h] = {}]
        /\ outboundMessageBuffer' = [outboundMessageBuffer EXCEPT ![h] = {}]
        /\ alreadyReceivedProc' = [alreadyReceivedProc EXCEPT ![h] = markers]
        /\ pc' = [pc EXCEPT ![Listener(h)] = IF Missing(h, markers) THEN "accept" ELSE "stop"]
        /\ UNCHANGED <<multicastVars, stateVars, backlog, buf, due>>

StopRecording(h) ==
    /\ pc[Listener(h)] = "stop"
    /\ recordMessages' = [recordMessages EXCEPT ![h] = FALSE]
    /\ pc' = [pc EXCEPT ![Listener(h)] = "done"]
    /\ UNCHANGED <<multicastVars, bufferVars, channelVars, markerVars, amInitiator, locsnap>>

-----------------------------------------------------------------------------
(***************************************************************************)
(* The multicast, as far as a snapshot sees it.                            *)
(***************************************************************************)
\* h sends the packets S, after it has recorded them when it is told to.
Send(h, S) ==
    /\ network' = network \cup S
    /\ outboundMessageBuffer' =
         [outboundMessageBuffer EXCEPT ![h] = IF recordMessages[h] THEN @ \cup S ELSE @]

\* Mutant of DeliverWith: what is delivered stays in the queue.
DeliverAndKeep(h, m) ==
    \E D \in SUBSET (deliverable[h] \cup {m}) :
        /\ deliverable' = [deliverable EXCEPT ![h] = (@ \cup {m}) \ D]
        /\ UNCHANGED deliveryQueue
        /\ deliveredMessage' = [deliveredMessage EXCEPT ![h] = @ \cup D]

\* m gets its final number; some deliverable messages may now be delivered.
DeliverWith(h, m) ==
    \E D \in SUBSET (deliverable[h] \cup {m}) :
        /\ deliverable' = [deliverable EXCEPT ![h] = (@ \cup {m}) \ D]
        /\ deliveryQueue' = [deliveryQueue EXCEPT ![h] = @ \ D]
        /\ deliveredMessage' = [deliveredMessage EXCEPT ![h] = @ \cup D]

\* The main thread queues and sends its next message; the initiator then
\* takes the snapshot when that was the message -X names.
Multicast(h) ==
    LET m == <<h, sent[h] + 1>>
    IN  /\ pc[Main(h)] = "multicast"
        /\ sent[h] < Count[h]
        /\ sent' = [sent EXCEPT ![h] = @ + 1]
        /\ deliveryQueue' = [deliveryQueue EXCEPT ![h] = @ \cup {m}]
        /\ Send(h, ToOthers("data", m, h))
        /\ pc' = [pc EXCEPT ![Main(h)] =
                    IF m = <<Initiator, SnapshotAfter>> THEN Steps[1] ELSE @]
        /\ UNCHANGED <<deliverable, deliveredMessage, acks, msg_buf, channelVars, markerVars,
                       stateVars, inboundMessageBuffer>>

\* The receiver takes a packet, and records it when it is told to.
Receive(h, x) ==
    /\ msg_buf[h] = {}
    /\ x.to = h /\ h \in Reached
    /\ msg_buf' = [msg_buf EXCEPT ![h] = {x}]
    /\ network' = network \ {x}
    /\ inboundMessageBuffer' =
         [inboundMessageBuffer EXCEPT ![h] = IF recordMessages[h] THEN @ \cup {x} ELSE @]
    /\ UNCHANGED <<sent, deliveryQueue, deliverable, deliveredMessage, acks, outboundMessageBuffer,
                   channelVars, markerVars, stateVars, pc>>

HandleDatamsg(h, x) ==
    /\ x.type = "data"
    /\ deliveryQueue' = [deliveryQueue EXCEPT ![h] = @ \cup {x.msg}]
    /\ Send(h, {[type |-> "ack", msg |-> x.msg, from |-> h, to |-> x.from]})
    /\ UNCHANGED <<deliverable, deliveredMessage, acks>>

HandleAckmsg(h, x) ==
    /\ x.type = "ack"
    /\ acks' = [acks EXCEPT ![x.msg] = @ \cup {x.from}]
    /\ \/ /\ acks'[x.msg] = Others(h)
          /\ Send(h, ToOthers("seq", x.msg, h))
          /\ DeliverWith(h, x.msg)
       \/ /\ acks'[x.msg] # Others(h)
          /\ Send(h, {})
          /\ UNCHANGED <<deliveryQueue, deliverable, deliveredMessage>>

HandleSeqmsg(h, x) ==
    /\ x.type = "seq"
    /\ DeliverWith(h, x.msg)
    /\ Send(h, {})
    /\ UNCHANGED acks

\* The receiver handles the packet it has in hand.
Handle(h) ==
    /\ \E x \in msg_buf[h] : HandleDatamsg(h, x) \/ HandleAckmsg(h, x) \/ HandleSeqmsg(h, x)
    /\ msg_buf' = [msg_buf EXCEPT ![h] = {}]
    /\ UNCHANGED <<sent, inboundMessageBuffer, channelVars, markerVars, stateVars, pc>>

TakeSnapshot(t) ==
    \/ CopyQueue(t)
    \/ CopyDelivered(t)
    \/ StartRecording(t)
    \/ \E p \in Host : SendMarker(t, p)

Listen(h) ==
    \/ AcceptFirst(h)
    \/ AcceptNext(h)
    \/ ProcessMarker(h)
    \/ StopRecording(h)

Next ==
    \/ \E h \in Host : Multicast(h) \/ Handle(h) \/ Listen(h)
    \/ \E x \in network : Receive(x.to, x)
    \/ \E t \in Thread : TakeSnapshot(t)

Spec == Init /\ [][Next]_vars

\* A thread that can go on does.
Fairness ==
    /\ \A h \in Host : WF_vars(Multicast(h)) /\ WF_vars(Listen(h))
    /\ \A t \in Thread : WF_vars(TakeSnapshot(t))

FairSpec == Spec /\ Fairness

-----------------------------------------------------------------------------
(***************************************************************************)
(* Properties.                                                             *)
(***************************************************************************)
ListenerPC == {"first", "accept", "marker", "stop", "done"} \cup Range(Steps)

\* Where the threads of all hosts are.
Places ==
    /\ pc \in [Thread -> {"multicast"} \cup ListenerPC]
    /\ \A h \in Host : /\ pc[Main(h)] \in {"multicast"} \cup Range(Steps)
                       /\ pc[Listener(h)] \in ListenerPC

\* The types of the variables of the multicast, of the snapshots and of the
\* markers.
MulticastTypes ==
    /\ sent \in [Host -> Nat]
    /\ \A h \in Host : sent[h] <= Count[h]
    /\ deliveryQueue \in [Host -> SUBSET Msg]
    /\ deliveredMessage \in [Host -> SUBSET Msg]
    /\ deliverable \in [Host -> SUBSET Msg]
    /\ \A h \in Host :
         /\ deliverable[h] \subseteq deliveryQueue[h]
         /\ deliveryQueue[h] \cap deliveredMessage[h] = {}
    /\ acks \in [Msg -> SUBSET Host]
    /\ network \subseteq Packet
    /\ msg_buf \in [Host -> SUBSET Packet]

StateTypes ==
    /\ recordMessages \in [Host -> BOOLEAN]
    /\ amInitiator \in [Host -> BOOLEAN]
    /\ locsnap \in [Host -> [deliveryQueue : SUBSET Msg, deliveredMessage : SUBSET Msg]]

ChannelTypes ==
    /\ inboundMessageBuffer \in [Host -> SUBSET Packet]
    /\ outboundMessageBuffer \in [Host -> SUBSET Packet]
    /\ inboundChannelState \in [Host -> [Host -> SUBSET Packet]]
    /\ outboundChannelState \in [Host -> [Host -> SUBSET Packet]]

\* What the bytes of a marker can be read as.
Mark == 0 .. 999

MarkerTypes ==
    /\ backlog \in [Host -> Seq(Host)]
    /\ \A h \in Host : Len(backlog[h]) < Cardinality(Host)
    /\ buf \in [Host -> Mark]
    /\ alreadyReceivedProc \in [Host -> Seq(Mark)]
    /\ due \in [Thread -> SUBSET Host]

\* The type invariant; what is deliverable is queued, and a message is never
\* queued and delivered at once; the backlog holds at most a marker of each
\* other host.
TypeOK == MulticastTypes /\ StateTypes /\ ChannelTypes /\ MarkerTypes /\ Places

\* Host h has taken its copy of the state: the initiator's main thread, or the
\* listener of any other host, is past copying it.
Recorded(h) ==
    \/ amInitiator[h]
    \/ pc[Listener(h)] \notin {"first", "copyQueue", "copyDelivered"}

Finished(h) == pc[Listener(h)] \in {"stop", "done"}

\* What the copy of h's state shows h to hold.
Held(h) == locsnap[h].deliveryQueue \cup locsnap[h].deliveredMessage

\* README.md:58, the snapshot "finishes taking a snapshot after it has received
\* a marker from everybody": whatever order the markers of the other hosts
\* and the host's own snapshot come in, the listener ends with one marker of
\* each other host, and none of its own host.
FinishedHeardAll ==
    \A h \in Host : Finished(h) => /\ Range(alreadyReceivedProc[h]) = Others(h)
                                   /\ Len(alreadyReceivedProc[h]) = Cardinality(Host) - 1

\* A host takes one copy of its state and keeps it: no late marker makes the
\* listener of the initiator, nor any other thread, copy the state again.
StateRecordedOnce ==
    [][\A h \in Host : Recorded(h) => locsnap'[h] = locsnap[h]]_vars

\* Although the two lists are copied one after the other, a message that moves
\* from the queue to the delivered list meanwhile is not missed: the initiator
\* has all it multicast before in its state.
InitiatorStateComplete ==
    Recorded(Initiator) => \A k \in 1 .. SnapshotAfter : <<Initiator, k>> \in Held(Initiator)

\* A data message is not both in the recorded state of a host and in the state
\* of a channel to it, whichever way copying, recording and handling
\* interleave.
RecordedNotInState ==
    \A h \in Host : \A x \in inboundMessageBuffer[h] \cup UNION Range(inboundChannelState[h]) :
        x.type = "data" => x.msg \notin Held(h)

\* README.md:53, "We implement the Chandi-Lamport Global Snapshot algorithm":
\* what a recorded state holds, its sender had sent in its own recorded state.
ConsistentCut ==
    \A h, p \in Host : Finished(h) /\ Recorded(p) =>
        \A m \in Held(h) : m[1] = p => m \in Held(p)

\* A thread that has a step of the snapshot to take; one that waits in accept
\* for a marker, or has no part in the snapshot (any more), has none.
CanGoOn(t) ==
    \/ pc[t] \in {"copyQueue", "copyDelivered", "startRecording", "marker", "stop"}
    \/ pc[t] = "sendMarkers" /\ due[t] # {}
    \/ pc[t] \in {"first", "accept"} /\ backlog[t[1]] # <<>>

\* The listeners wait for each other's markers, and a host sends its own only
\* after its first; yet from the message on that -X names they never all wait:
\* until every listener is done, some thread of some host can go on.
SnapshotGoesOn ==
    SnapshotAfter =< sent[Initiator] =>
        \/ \A h \in Host : pc[Listener(h)] = "done"
        \/ \E t \in Thread : CanGoOn(t)

\* Every host finishes its local snapshot.
EventuallyFinished == <>(\A h \in Host : Finished(h))

=============================================================================
