------------------------- MODULE GlobalSnapshotInv -------------------------
(***************************************************************************)
(* The inductive invariant of GlobalSnapshot.  Three things are tied to    *)
(* each other: where the threads of all hosts are, from the initiator's    *)
(* main thread on; where each marker is, until it has been processed; and  *)
(* where each message is, until it has been delivered everywhere.          *)
(***************************************************************************)
EXTENDS GlobalSnapshot

\* The thread of host h that takes its snapshot and sends its markers.
Taker(h) == IF h = Initiator THEN Main(h) ELSE Listener(h)

Copying == {"copyQueue", "copyDelivered", "startRecording"}

\* Only the initiator's main thread and the listeners of the others take a
\* snapshot, the initiator's first and once.
ThreadsInOrder ==
    /\ \A h \in Others(Initiator) : pc[Main(h)] = "multicast" /\ ~ amInitiator[h]
    /\ pc[Main(Initiator)] # "multicast" => SnapshotAfter =< sent[Initiator]
    /\ amInitiator[Initiator] <=>
         SnapshotAfter =< sent[Initiator] /\ pc[Main(Initiator)] \notin Copying
    /\ pc[Listener(Initiator)] \notin Range(Steps)
    /\ \A h \in Host :
         pc[Listener(h)] # "first" \/ backlog[h] # <<>> => amInitiator[Initiator]

\* The marker of host p is on its way to h, or was.
MarkerSent(p, h) == p \in Others(h) /\ h \notin due[Taker(p)]

\* A thread owes markers to other hosts only, and no marker waits twice.
MarkersSentOnce ==
    /\ \A t \in Thread : due[t] \subseteq Others(t[1])
    /\ \A h \in Host :
         /\ \A i, j \in DOMAIN backlog[h] : backlog[h][i] = backlog[h][j] => i = j
         /\ \A i \in DOMAIN backlog[h] : MarkerSent(backlog[h][i], h)

\* The ids of the hosts fit into a marker.
ShortIds == Host \subseteq 0 .. 99

\* What a listener has read are markers that were sent to it and have left its
\* backlog, each read once; it stops only when it misses none.
MarkersReadOnce ==
    \A h \in Host :
        LET markers == alreadyReceivedProc[h]
        IN  /\ \A i, j \in DOMAIN markers : markers[i] = markers[j] => i = j
            /\ \A i \in DOMAIN markers :
                 MarkerSent(markers[i], h) /\ markers[i] \notin Range(backlog[h])
            /\ pc[Listener(h)] = "marker" =>
                 /\ MarkerSent(buf[h], h)
                 /\ buf[h] \notin Range(backlog[h]) /\ buf[h] \notin Range(markers)
            /\ Finished(h) => ~ Missing(h, markers)

-----------------------------------------------------------------------------
Holds(h, m) == m \in deliveryQueue[h] \/ m \in deliveredMessage[h]

\* All hosts have acked m, so that it has its final number.
Acked(m) == acks[m] = Others(m[1])

\* What a packet in flight says of its message: no host gets a message that it
\* holds, an ack that was counted, or a final number that it has applied.
TruthfulPacket(x) ==
    /\ x.type = "data" =>
         /\ x.from = x.msg[1] /\ x.to # x.from
         /\ x.msg[2] =< sent[x.from]
         /\ ~ Holds(x.to, x.msg)
    /\ x.type = "ack" =>
         /\ x.to = x.msg[1] /\ x.from # x.to
         /\ x.from \notin acks[x.msg]
         /\ x.msg \in deliveryQueue[x.from]
    /\ x.type = "seq" =>
         /\ x.from = x.msg[1] /\ x.to # x.from
         /\ Acked(x.msg)
         /\ x.msg \in deliveryQueue[x.to] \ deliverable[x.to]

\* Packets in flight are true, and one that is in hand is no longer there.
TruthfulPackets ==
    /\ \A x \in network : TruthfulPacket(x)
    /\ \A h \in Host : \A x \in msg_buf[h] :
         /\ msg_buf[h] = {x}
         /\ x.to = h
         /\ TruthfulPacket(x)
         /\ x \notin network

\* A message is held by its sender from the time it is multicast, by others once
\* they acked it, and is deliverable nowhere before all of them have.
MessagesHeld ==
    /\ \A m \in Msg : m[2] =< sent[m[1]] => Holds(m[1], m)
    /\ \A h \in Host, m \in Msg :
         /\ Holds(h, m) => m[2] =< sent[m[1]]
         /\ h \in acks[m] => h # m[1] /\ Holds(h, m)
         /\ m \in deliverable[h] \/ m \in deliveredMessage[h] => Acked(m)

-----------------------------------------------------------------------------
\* The state of h is copied and recording has started.
Copied(h) ==
    IF h = Initiator THEN amInitiator[h]
    ELSE pc[Listener(h)] # "first" /\ pc[Listener(h)] \notin Copying

\* A host still holds what its copy shows; nothing is recorded before the copy
\* is complete; and between the two critical sections of the copy a message
\* that is missing in the queue's part has been delivered.
CopiesHeld ==
    /\ \A h \in Host : \A m \in Held(h) : Holds(h, m)
    /\ \A h \in Host :
         \/ recordMessages[h]
         \/ inboundMessageBuffer[h] # {}
         \/ \E p \in Host : inboundChannelState[h][p] # {}
         => Copied(h)
    /\ \A k \in 1 .. SnapshotAfter :
         /\ pc[Main(Initiator)] = "copyDelivered" =>
              \/ <<Initiator, k>> \in locsnap[Initiator].deliveryQueue
              \/ <<Initiator, k>> \in deliveredMessage[Initiator]
         /\ pc[Main(Initiator)] = "startRecording" \/ amInitiator[Initiator] =>
              <<Initiator, k>> \in Held(Initiator)

\* The inductive invariant.
SnapshotInv ==
    /\ TypeOK
    /\ ThreadsInOrder
    /\ MarkersSentOnce
    /\ ShortIds => MarkersReadOnce
    /\ TruthfulPackets
    /\ MessagesHeld
    /\ CopiesHeld
    /\ RecordedNotInState

-----------------------------------------------------------------------------
\* A host owes markers until it has copied its state and sent them all.
SentAll(h) == Copied(h) /\ pc[Taker(h)] # "sendMarkers"

MarkersOwed == \A h \in Host : due[Taker(h)] = {} <=> SentAll(h)

\* The hosts whose marker for h has been sent, and the marker that h has in hand.
MarkersFor(h) == {p \in Others(h) : h \notin due[Taker(p)]}
InHand(h)     == IF pc[Listener(h)] = "marker" THEN 1 ELSE 0

\* Every marker sent to a host waits in its backlog, is in hand or was counted,
\* whatever was read of it.
MarkersCounted ==
    \A h \in Host :
        Len(backlog[h]) + Len(alreadyReceivedProc[h]) + InHand(h) = Cardinality(MarkersFor(h))

\* A listener has counted no marker before the first, and accepts another only
\* while it misses one.
ListenersCount ==
    \A h \in Host :
        /\ pc[Listener(h)] = "first" => alreadyReceivedProc[h] = <<>>
        /\ pc[Listener(h)] = "accept" => Missing(h, alreadyReceivedProc[h])

\* With SnapshotInv, the inductive invariant that keeps the snapshot going.
MarkerFlow == MarkersOwed /\ MarkersCounted /\ ListenersCount

=============================================================================
