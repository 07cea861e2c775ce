-------------------------- MODULE WaitToSync_proofs --------------------------
(***************************************************************************)
(* Proofs about WaitToSync: the barrier opens for no host before all hosts *)
(* have started and have been heard, for any number of hosts, any losses   *)
(* and any worker with a negative addr_len.                                *)
(*                                                                         *)
(* The argument follows an ack backwards.  A worker that has its ack took  *)
(* it from the network; the ack was sent by the listener of the other host *)
(* in the step that counted this host; and a listener that has stopped has *)
(* counted as many different peers as there are.                           *)
(***************************************************************************)
EXTENDS WaitToSync, FiniteSetTheorems, TLAPS

\* What the packets in flight witness: a "hi" that its sender runs, an ack
\* that the listener which sent it has counted the host it is for.
Witnesses ==
    \A x \in network :
        /\ x.type = "hi" => x.from \in running /\ x.from # x.to
        /\ x.type = "ACK" => x.to \in Range(encountered_ips[x.from])

\* A listener is closed when it has counted enough, and counts only once bound.
ListenerStates ==
    \A h \in Host :
        /\ listener[h] = "unbound" => encountered_ips[h] = <<>>
        /\ listener[h] = "open" => Listening(encountered_ips[h])
        /\ listener[h] = "closed" => ~ Listening(encountered_ips[h])

\* A worker that has its ack was counted.
AckedAreCounted ==
    \A h \in Host : \A p \in received_ack[h] : h \in Range(encountered_ips[p])

\* The inductive invariant.
BarrierInv ==
    /\ TypeOK
    /\ CountsEachPeerOnce
    /\ Witnesses
    /\ ListenerStates
    /\ AckedAreCounted

-----------------------------------------------------------------------------
\* The number of hosts is a number, and positive.
LEMMA HostCount == Cardinality(Host) \in Nat /\ 0 < Cardinality(Host)
<1>1. Cardinality(Host) \in Nat
    BY HostAssumption, FS_CardinalityType
<1>2. Cardinality(Host) # 0
    BY HostAssumption, FS_EmptySet
<1> QED
    BY <1>1, <1>2

\* The network never gains a packet that was not sent.
LEMMA PacketFacts ==
    ASSUME NEW a \in Host, NEW b \in Host
    PROVE  /\ Hi(a, b) \in Packet /\ Hi(a, b).type = "hi"
           /\ Hi(a, b).from = a /\ Hi(a, b).to = b
           /\ Ack(a, b) \in Packet /\ Ack(a, b).type = "ACK"
           /\ Ack(a, b).from = a /\ Ack(a, b).to = b
    BY DEF Packet, Hi, Ack

\* Counting a peer keeps what was counted, adds that peer, and counts nobody
\* twice.
LEMMA CountFacts ==
    ASSUME NEW peers \in Seq(Host), NEW p \in Host,
           \A i, j \in DOMAIN peers : peers[i] = peers[j] => i = j
    PROVE  /\ Count(peers, p) \in Seq(Host)
           /\ Range(Count(peers, p)) = Range(peers) \cup {p}
           /\ \A i, j \in DOMAIN Count(peers, p) :
                Count(peers, p)[i] = Count(peers, p)[j] => i = j
           /\ Len(Count(peers, p)) =< Len(peers) + 1
<1>1. CASE p \in Range(peers)
    BY <1>1 DEF Count, Range
<1>2. CASE p \notin Range(peers)
  <2> DEFINE new == Append(peers, p)
  <2>1. /\ new \in Seq(Host) /\ Len(new) = Len(peers) + 1
        /\ DOMAIN new = DOMAIN peers \cup {Len(peers) + 1}
        /\ \A i \in DOMAIN peers : new[i] = peers[i]
        /\ new[Len(peers) + 1] = p
        /\ Len(peers) + 1 \notin DOMAIN peers
      OBVIOUS
  <2>2. Count(peers, p) = new
      BY <1>2 DEF Count
  <2> HIDE DEF new
  <2>3. Range(new) = Range(peers) \cup {p}
      BY <2>1 DEF Range
  <2>4. ASSUME NEW i \in DOMAIN new, NEW j \in DOMAIN new, new[i] = new[j]
        PROVE  i = j
    <3>1. \A k \in DOMAIN peers : new[k] # p
        BY <1>2, <2>1 DEF Range
    <3> QED
        BY <2>1, <2>4, <3>1
  <2> QED
      BY <2>1, <2>2, <2>3, <2>4
<1> QED
    BY <1>1, <1>2

\* Among the other hosts, a list without repetitions that the listener's loop
\* stops at has all of them.
LEMMA AllCounted ==
    ASSUME NEW h \in Host, NEW peers \in Seq(Host),
           \A i, j \in DOMAIN peers : peers[i] = peers[j] => i = j,
           Range(peers) \subseteq Host \ {h}
    PROVE  /\ Len(peers) < Cardinality(Host)
           /\ ~ Listening(peers) => Range(peers) = Host \ {h}
<1> DEFINE others == Host \ {h}
<1>1. /\ IsFiniteSet(others)
      /\ Cardinality(others) = Cardinality(Host) - 1
    BY HostAssumption, FS_RemoveElement
<1>2. /\ DOMAIN peers = 1 .. Len(peers) /\ Len(peers) \in Nat
      /\ peers \in [1 .. Len(peers) -> others]
    BY DEF Range
<1>3. peers \in Injection(1 .. Len(peers), others)
    BY <1>2 DEF Injection, IsInjective
<1>4. /\ IsFiniteSet(1 .. Len(peers)) /\ Cardinality(1 .. Len(peers)) = Len(peers)
  <2>1. 1 \in Int /\ Len(peers) \in Int /\ Len(peers) - 1 + 1 = Len(peers)
      BY <1>2
  <2>2. /\ IsFiniteSet(1 .. Len(peers))
        /\ Cardinality(1 .. Len(peers)) = IF 1 > Len(peers) THEN 0 ELSE Len(peers) - 1 + 1
      BY <2>1, FS_Interval
  <2> QED
      BY <1>2, <2>1, <2>2
<1>5. /\ Cardinality(1 .. Len(peers)) =< Cardinality(others)
      /\ Cardinality(1 .. Len(peers)) = Cardinality(others)
           <=> peers \in Surjection(1 .. Len(peers), others)
    BY <1>1, <1>3, FS_Injection
<1>6. Len(peers) =< Cardinality(Host) - 1
    BY <1>1, <1>4, <1>5
<1>7. ASSUME ~ Listening(peers) PROVE Range(peers) = others
  <2>1. Len(peers) = Cardinality(others)
      BY <1>1, <1>2, <1>6, <1>7, HostCount DEF Listening
  <2>2. peers \in Surjection(1 .. Len(peers), others)
      BY <1>4, <1>5, <2>1
  <2> QED
      BY <1>2, <2>2 DEF Surjection, Range
<1> QED
    BY <1>2, <1>6, <1>7, HostCount

-----------------------------------------------------------------------------
\* The inductive invariant holds initially.
LEMMA BarrierInit == Init => BarrierInv
<1> SUFFICES ASSUME Init PROVE BarrierInv
    OBVIOUS
<1>1. TypeOK
    BY HostCount, LossAssumption DEF Init, TypeOK
<1>2. CountsEachPeerOnce
    BY DEF Init, CountsEachPeerOnce, Range
<1>3. Witnesses /\ ListenerStates /\ AckedAreCounted
    BY DEF Init, Witnesses, ListenerStates, AckedAreCounted
<1> QED
    BY <1>1, <1>2, <1>3 DEF BarrierInv

\* The start of a host disturbs nothing.
LEMMA StepStart ==
    ASSUME BarrierInv, NEW h \in Host, Start(h)
    PROVE  BarrierInv'
<1>1. TypeOK' /\ CountsEachPeerOnce'
    BY DEF BarrierInv, Start, TypeOK, CountsEachPeerOnce
<1>2. Witnesses' /\ ListenerStates' /\ AckedAreCounted'
    BY DEF BarrierInv, Start, Witnesses, ListenerStates, AckedAreCounted
<1> QED
    BY <1>1, <1>2 DEF BarrierInv

\* A listener that is bound has counted nobody, and is closed at once if
\* there is nobody to count.
LEMMA StepBind ==
    ASSUME BarrierInv, NEW h \in Host, Bind(h)
    PROVE  BarrierInv'
<1>1. TypeOK' /\ CountsEachPeerOnce'
    BY DEF BarrierInv, Bind, TypeOK, CountsEachPeerOnce
<1>2. Witnesses' /\ AckedAreCounted'
    BY DEF BarrierInv, Bind, Witnesses, AckedAreCounted
<1>3. ListenerStates'
    BY DEF BarrierInv, Bind, TypeOK, ListenerStates
<1> QED
    BY <1>1, <1>2, <1>3 DEF BarrierInv

\* A "hi" that is heard: its sender is counted, and an ack says so.
LEMMA StepReceiveSignal ==
    ASSUME BarrierInv, NEW h \in Host, NEW p \in Host, ReceiveSignal(h, p)
    PROVE  BarrierInv'
<1> DEFINE peers == Count(encountered_ips[h], p)
<1>1. /\ listener[h] = "open"
      /\ Hi(p, h) \in network
      /\ network' \subseteq network \cup {Ack(h, p)}
      /\ encountered_ips' = [encountered_ips EXCEPT ![h] = peers]
      /\ listener' = [listener EXCEPT ![h] = IF Listening(peers) THEN "open" ELSE "closed"]
      /\ UNCHANGED <<running, received_ack, badLen, lostHi, lostAck>>
    BY DEF ReceiveSignal, Receivable
<1>2. p \in running /\ p # h
    BY <1>1, PacketFacts DEF BarrierInv, Witnesses
<1>3. /\ encountered_ips \in [Host -> Seq(Host)]
      /\ listener \in [Host -> {"unbound", "open", "closed"}]
      /\ encountered_ips[h] \in Seq(Host)
      /\ \A i, j \in DOMAIN encountered_ips[h] :
           encountered_ips[h][i] = encountered_ips[h][j] => i = j
      /\ Range(encountered_ips[h]) \subseteq running \ {h}
      /\ running \subseteq Host
    BY DEF BarrierInv, TypeOK, CountsEachPeerOnce
<1>4. /\ peers \in Seq(Host)
      /\ Range(peers) = Range(encountered_ips[h]) \cup {p}
      /\ \A i, j \in DOMAIN peers : peers[i] = peers[j] => i = j
    BY <1>3, CountFacts
<1> HIDE DEF peers
<1>5. Range(peers) \subseteq running \ {h} /\ Range(peers) \subseteq Host \ {h}
    BY <1>2, <1>3, <1>4
<1>6. Len(peers) < Cardinality(Host)
    BY <1>4, <1>5, AllCounted
<1>7. \A k \in Host :
        /\ k # h => encountered_ips'[k] = encountered_ips[k]
        /\ k = h => encountered_ips'[k] = peers
        /\ Range(encountered_ips[k]) \subseteq Range(encountered_ips'[k])
    BY <1>1, <1>3, <1>4
<1>8. TypeOK'
  <2>1. network' \subseteq Packet
      BY <1>1, PacketFacts DEF BarrierInv, TypeOK
  <2>2. /\ encountered_ips' \in [Host -> Seq(Host)]
        /\ listener' \in [Host -> {"unbound", "open", "closed"}]
      BY <1>1, <1>3, <1>4
  <2>3. \A k \in Host : Len(encountered_ips'[k]) < Cardinality(Host)
    <3>1. \A k \in Host : Len(encountered_ips[k]) < Cardinality(Host)
        BY DEF BarrierInv, TypeOK
    <3> QED
        BY <1>6, <1>7, <3>1
  <2> QED
      BY <1>1, <2>1, <2>2, <2>3 DEF BarrierInv, TypeOK
<1>9. CountsEachPeerOnce'
    BY <1>1, <1>4, <1>5, <1>7 DEF BarrierInv, CountsEachPeerOnce
<1>10. Witnesses'
  <2> SUFFICES ASSUME NEW x \in network'
               PROVE  /\ x.type = "hi" => x.from \in running /\ x.from # x.to
                      /\ x.type = "ACK" => x.to \in Range(encountered_ips'[x.from])
      BY <1>1 DEF Witnesses
  <2>1. CASE x \in network
    <3>1. x.from \in Host
        BY <2>1 DEF BarrierInv, TypeOK, Packet
    <3>2. Range(encountered_ips[x.from]) \subseteq Range(encountered_ips'[x.from])
        BY <1>7, <3>1
    <3> QED
        BY <2>1, <3>2 DEF BarrierInv, Witnesses
  <2>2. CASE x = Ack(h, p)
    <3>1. p \in Range(encountered_ips'[h])
        BY <1>4, <1>7
    <3>2. x.type = "ACK" /\ x.from = h /\ x.to = p
        BY <2>2, PacketFacts
    <3> QED
        BY <3>1, <3>2
  <2> QED
      BY <1>1, <2>1, <2>2
<1>11. ListenerStates'
    BY <1>1, <1>3, <1>7 DEF BarrierInv, ListenerStates
<1>12. AckedAreCounted'
  <2> SUFFICES ASSUME NEW k \in Host, NEW q \in received_ack[k]
               PROVE  k \in Range(encountered_ips'[q])
      BY <1>1 DEF AckedAreCounted
  <2>1. q \in Host /\ k \in Range(encountered_ips[q])
      BY DEF BarrierInv, TypeOK, AckedAreCounted
  <2> QED
      BY <1>7, <2>1
<1> QED
    BY <1>8, <1>9, <1>10, <1>11, <1>12 DEF BarrierInv

\* A loss: fewer packets, and the loss counts stay within their bounds.
LEMMA StepLoss ==
    ASSUME BarrierInv, network' \subseteq network,
           UNCHANGED <<running, listener, encountered_ips, received_ack, badLen>>,
           lostHi' \in 0 .. MaxLostHi, lostAck' \in 0 .. MaxLostAck
    PROVE  BarrierInv'
<1>1. TypeOK' /\ CountsEachPeerOnce'
    BY DEF BarrierInv, TypeOK, CountsEachPeerOnce
<1>2. Witnesses' /\ ListenerStates' /\ AckedAreCounted'
    BY DEF BarrierInv, Witnesses, ListenerStates, AckedAreCounted
<1> QED
    BY <1>1, <1>2 DEF BarrierInv

\* A "hi" is sent by a running host to another.
LEMMA StepSendSignal ==
    ASSUME BarrierInv, NEW h \in Host, NEW p \in Host, SendSignal(h, p)
    PROVE  BarrierInv'
<1>1. /\ h \in running /\ p \in Host \ {h}
      /\ network' \subseteq network \cup {Hi(h, p)}
      /\ UNCHANGED <<running, listener, encountered_ips, received_ack, badLen, lostHi, lostAck>>
    BY DEF SendSignal, Receivable, Peers
<1>2. TypeOK' /\ CountsEachPeerOnce'
    BY <1>1, PacketFacts DEF BarrierInv, TypeOK, CountsEachPeerOnce
<1>3. Witnesses'
    BY <1>1, PacketFacts DEF BarrierInv, Witnesses
<1>4. ListenerStates' /\ AckedAreCounted'
    BY <1>1 DEF BarrierInv, ListenerStates, AckedAreCounted
<1> QED
    BY <1>2, <1>3, <1>4 DEF BarrierInv

\* A worker that keeps an ack was counted by the listener that sent it.
LEMMA StepTakeAck ==
    ASSUME BarrierInv, NEW h \in Host, NEW p \in Host, TakeAck(h, p)
    PROVE  BarrierInv'
<1>1. /\ p \in Host \ {h}
      /\ Ack(p, h) \in network
      /\ network' = network \ {Ack(p, h)}
      /\ \/ received_ack' = received_ack
         \/ received_ack' = [received_ack EXCEPT ![h] = @ \cup {p}]
      /\ UNCHANGED <<running, listener, encountered_ips, badLen, lostHi, lostAck>>
    BY DEF TakeAck, Peers
<1>2. h \in Range(encountered_ips[p])
    BY <1>1, PacketFacts DEF BarrierInv, Witnesses
<1>3. /\ received_ack' \in [Host -> SUBSET Host]
      /\ \A k \in Host : k \notin received_ack'[k]
      /\ \A k \in Host : \A q \in received_ack'[k] :
           q \in received_ack[k] \/ (k = h /\ q = p)
  <2>1. /\ received_ack \in [Host -> SUBSET Host]
        /\ \A k \in Host : k \notin received_ack[k]
      BY DEF BarrierInv, TypeOK
  <2> QED
      BY <1>1, <2>1
<1>4. TypeOK'
    BY <1>1, <1>3 DEF BarrierInv, TypeOK
<1>5. CountsEachPeerOnce' /\ Witnesses' /\ ListenerStates'
    BY <1>1 DEF BarrierInv, CountsEachPeerOnce, Witnesses, ListenerStates
<1>6. AckedAreCounted'
    BY <1>1, <1>2, <1>3 DEF BarrierInv, AckedAreCounted
<1> QED
    BY <1>4, <1>5, <1>6 DEF BarrierInv

\* Every step, and every stutter, keeps the inductive invariant.
LEMMA BarrierNext == BarrierInv /\ [Next]_vars => BarrierInv'
<1> SUFFICES ASSUME BarrierInv, [Next]_vars PROVE BarrierInv'
    OBVIOUS
<1>0. lostHi \in 0 .. MaxLostHi /\ lostAck \in 0 .. MaxLostAck
    BY DEF BarrierInv, TypeOK
<1>1. CASE \E h \in Host : Start(h) \/ Bind(h)
    BY <1>1, StepStart, StepBind
<1>2. CASE \E h, p \in Host : ReceiveSignal(h, p)
    BY <1>2, StepReceiveSignal
<1>3. CASE \E h, p \in Host : SendAckFails(h, p)
  <2>1. /\ network' \subseteq network
        /\ UNCHANGED <<running, listener, encountered_ips, received_ack, badLen>>
        /\ lostHi' = lostHi /\ lostAck' = lostAck + 1 /\ lostAck < MaxLostAck
      BY <1>3 DEF SendAckFails
  <2>2. lostAck' \in 0 .. MaxLostAck
      BY <1>0, <2>1, LossAssumption
  <2> QED
      BY <1>0, <2>1, <2>2, StepLoss
<1>4. CASE \E h, p \in Host : SendSignal(h, p)
    BY <1>4, StepSendSignal
<1>5. CASE \E h, p \in Host : TakeAck(h, p)
    BY <1>5, StepTakeAck
<1>6. CASE \E x \in network : Lose(x)
  <2>1. /\ network' \subseteq network
        /\ UNCHANGED <<running, listener, encountered_ips, received_ack, badLen>>
        /\ lostHi' = lostHi \/ (lostHi' = lostHi + 1 /\ lostHi < MaxLostHi)
        /\ lostAck' = lostAck \/ (lostAck' = lostAck + 1 /\ lostAck < MaxLostAck)
      BY <1>6 DEF Lose
  <2>2. lostHi' \in 0 .. MaxLostHi /\ lostAck' \in 0 .. MaxLostAck
      BY <1>0, <2>1, LossAssumption
  <2> QED
      BY <2>1, <2>2, StepLoss
<1>7. CASE UNCHANGED vars
    BY <1>0, <1>7, StepLoss DEF vars
<1> QED
    BY <1>1, <1>2, <1>3, <1>4, <1>5, <1>6, <1>7 DEF Next

\* The inductive invariant holds of every reachable state.
THEOREM BarrierInvariance == Spec => []BarrierInv
<1> QED
    BY BarrierInit, BarrierNext, PTL DEF Spec

\* No socket, list or packet of the barrier leaves its type; in particular no
\* listener writes past the end of encountered_ips.
THEOREM BarrierTypes == Spec => []TypeOK
<1>1. BarrierInv => TypeOK
    BY DEF BarrierInv
<1> QED
    BY <1>1, BarrierInvariance, PTL

\* A listener counts every peer once, whatever is repeated or lost.
THEOREM BarrierCounts == Spec => []CountsEachPeerOnce
<1>1. BarrierInv => CountsEachPeerOnce
    BY DEF BarrierInv
<1> QED
    BY <1>1, BarrierInvariance, PTL

\* In a state of the inductive invariant a host that is READY has heard from,
\* and was heard by, every other host.
LEMMA ReadyFacts == BarrierInv => ReadyAfterAll
<1> SUFFICES ASSUME BarrierInv, NEW h \in Host, Ready(h), NEW p \in Peers(h)
             PROVE  /\ p \in running
                    /\ p \in Range(encountered_ips[h])
                    /\ h \in Range(encountered_ips[p])
    BY DEF ReadyAfterAll
<1>1. /\ p \in Host \ {h}
      /\ listener[h] = "closed"
      /\ p \in received_ack[h]
    BY DEF Ready, Peers
<1>2. /\ encountered_ips[h] \in Seq(Host)
      /\ running \subseteq Host
      /\ Range(encountered_ips[h]) \subseteq running \ {h}
      /\ \A i, j \in DOMAIN encountered_ips[h] :
           encountered_ips[h][i] = encountered_ips[h][j] => i = j
      /\ ~ Listening(encountered_ips[h])
    BY <1>1 DEF BarrierInv, TypeOK, CountsEachPeerOnce, ListenerStates
<1>3. Range(encountered_ips[h]) = Host \ {h}
    BY <1>2, AllCounted
<1>4. h \in Range(encountered_ips[p])
    BY <1>1 DEF BarrierInv, AckedAreCounted
<1> QED
    BY <1>1, <1>2, <1>3, <1>4

\* A host that is READY has heard from, and was heard by, every other host.
THEOREM BarrierHolds == Spec => []ReadyAfterAll
<1> QED
    BY ReadyFacts, BarrierInvariance, PTL

-----------------------------------------------------------------------------
(***************************************************************************)
(* The barrier implements its abstract specification.                      *)
(***************************************************************************)

\* The abstract state: who has heard whom, and who is READY.
HeardBy == [h \in Host |-> Range(encountered_ips[h])]
Passed  == {h \in Host : Ready(h)}

\* The initial states map to initial states: a host with no peers is not READY
\* either, as its listener is not bound.
LEMMA AbstractInit == Init => Abstract!Init
    BY DEF Init, Abstract!Init, Ready, Range

\* A step that lets at most h become READY, and leaves what was heard, is a
\* step of the abstract barrier or none.
LEMMA GoOnOrStutter ==
    ASSUME NEW h \in Host, ReadyAfterAll', UNCHANGED <<running, HeardBy>>,
           Passed' \in {Passed, Passed \cup {h}}
    PROVE  Abstract!Next \/ UNCHANGED Abstract!vars
<1>1. CASE Passed' = Passed
    BY <1>1 DEF Passed, HeardBy, Abstract!vars
<1>2. CASE Passed' = Passed \cup {h}
  <2>1. Ready(h)'
      BY <1>2 DEF Passed
  <2>2. \A p \in Host \ {h} : p \in HeardBy'[h] /\ h \in HeardBy'[p]
      BY <2>1 DEF ReadyAfterAll, Peers, HeardBy
  <2>3. Abstract!GoOn(h)
      BY <1>2, <2>2 DEF Abstract!GoOn, Abstract!Pass, Abstract!MayPass, Passed, HeardBy
  <2> QED
      BY <2>3 DEF Abstract!Next
<1> QED
    BY <1>1, <1>2

\* Every step of the barrier is a step of the abstract one, or changes nothing
\* of it.
LEMMA AbstractNext ==
    BarrierInv /\ BarrierInv' /\ [Next]_vars => Abstract!Next \/ UNCHANGED Abstract!vars
<1>1. ReadyAfterAll' \/ ~ BarrierInv'
    BY ReadyFacts, PTL
<1> SUFFICES ASSUME BarrierInv, BarrierInv', [Next]_vars
             PROVE  Abstract!Next \/ UNCHANGED Abstract!vars
    OBVIOUS
<1>2. ReadyAfterAll'
    BY <1>1
<1>3. ASSUME NEW h \in Host, Start(h)
      PROVE  Abstract!Next
    BY <1>3 DEF Start, Abstract!Next, Abstract!Arrive, Ready
<1>4. ASSUME NEW h \in Host, Bind(h)
      PROVE  Abstract!Next \/ UNCHANGED Abstract!vars
  <2>1. UNCHANGED <<running, HeardBy>>
      BY <1>4 DEF Bind, HeardBy
  <2>2. /\ listener \in [Host -> {"unbound", "open", "closed"}]
        /\ listener[h] = "unbound"
        /\ listener' \in [Host -> {"unbound", "open", "closed"}]
        /\ \A k \in Host \ {h} : listener'[k] = listener[k]
        /\ UNCHANGED received_ack
      BY <1>4 DEF BarrierInv, TypeOK, Bind
  <2>3. Passed' \in {Passed, Passed \cup {h}}
      BY <2>2 DEF Passed, Ready
  <2> QED
      BY <1>2, <2>1, <2>3, GoOnOrStutter
<1>5. ASSUME NEW h \in Host, NEW p \in Host, ReceiveSignal(h, p)
      PROVE  Abstract!Next
  <2>1. p \in running /\ p # h
      BY <1>5, PacketFacts DEF ReceiveSignal, BarrierInv, Witnesses
  <2>2. Range(Count(encountered_ips[h], p)) = Range(encountered_ips[h]) \cup {p}
    <3>1. /\ encountered_ips[h] \in Seq(Host)
          /\ \A i, j \in DOMAIN encountered_ips[h] :
               encountered_ips[h][i] = encountered_ips[h][j] => i = j
        BY DEF BarrierInv, TypeOK, CountsEachPeerOnce
    <3> QED
        BY <3>1, CountFacts
  <2>3. HeardBy' = [HeardBy EXCEPT ![h] = @ \cup {p}]
    <3>1. encountered_ips' = [encountered_ips EXCEPT ![h] = Count(encountered_ips[h], p)]
        BY <1>5 DEF ReceiveSignal
    <3>2. encountered_ips \in [Host -> Seq(Host)]
        BY DEF BarrierInv, TypeOK
    <3>3. \A k \in Host : Range(encountered_ips'[k]) =
            IF k = h THEN Range(encountered_ips[h]) \cup {p} ELSE Range(encountered_ips[k])
        BY <2>2, <3>1, <3>2
    <3> QED
        BY <3>3 DEF HeardBy
  <2>4. /\ listener \in [Host -> {"unbound", "open", "closed"}]
        /\ listener[h] = "open"
        /\ \A k \in Host \ {h} : listener'[k] = listener[k]
        /\ UNCHANGED <<received_ack, running>>
      BY <1>5 DEF BarrierInv, TypeOK, ReceiveSignal
  <2>5. Passed' \in {Passed, Passed \cup {h}}
      BY <2>4 DEF Passed, Ready
  <2>6. Passed' = Passed \cup {h} => Abstract!MayPass(h, HeardBy')
    <3>1. Passed' = Passed \cup {h} => Ready(h)'
        BY DEF Passed
    <3>2. Ready(h)' => \A q \in Host \ {h} : q \in HeardBy'[h] /\ h \in HeardBy'[q]
        BY <1>2 DEF ReadyAfterAll, Peers, HeardBy
    <3> QED
        BY <3>1, <3>2 DEF Abstract!MayPass
  <2>7. Abstract!Hear(h, p)
      BY <2>1, <2>3, <2>4, <2>5, <2>6 DEF Abstract!Hear, Abstract!Pass, HeardBy, Passed
  <2> QED
      BY <2>7 DEF Abstract!Next
<1>6. ASSUME NEW h \in Host, NEW p \in Host, TakeAck(h, p)
      PROVE  Abstract!Next \/ UNCHANGED Abstract!vars
  <2>1. UNCHANGED <<running, HeardBy>>
      BY <1>6 DEF TakeAck, HeardBy
  <2>2. /\ received_ack \in [Host -> SUBSET Host]
        /\ p \in Peers(h) \ received_ack[h]
        /\ \A k \in Host \ {h} : received_ack'[k] = received_ack[k]
        /\ UNCHANGED listener
      BY <1>6 DEF BarrierInv, TypeOK, TakeAck
  <2>3. Passed' \in {Passed, Passed \cup {h}}
      BY <2>2 DEF Passed, Ready
  <2> QED
      BY <1>2, <2>1, <2>3, GoOnOrStutter
<1>7. ASSUME UNCHANGED <<running, listener, encountered_ips, received_ack>>
      PROVE  UNCHANGED Abstract!vars
    BY <1>7 DEF Abstract!vars, Ready
<1>8. ASSUME NEW h \in Host, NEW p \in Host, SendAckFails(h, p) \/ SendSignal(h, p)
      PROVE  UNCHANGED Abstract!vars
    BY <1>7, <1>8 DEF SendAckFails, SendSignal
<1>9. ASSUME NEW x \in network, Lose(x)
      PROVE  UNCHANGED Abstract!vars
    BY <1>7, <1>9 DEF Lose
<1>10. CASE UNCHANGED vars
    BY <1>7, <1>10 DEF vars
<1> QED
    BY <1>3, <1>4, <1>5, <1>6, <1>8, <1>9, <1>10 DEF Next

\* The barrier implements its abstract specification, for any number of hosts
\* and any losses.
THEOREM BarrierRefinement == Spec => ImplementsBarrier
<1> QED
    BY AbstractInit, AbstractNext, BarrierInvariance, PTL
       DEF Spec, ImplementsBarrier, Abstract!Spec


-----------------------------------------------------------------------------
(***************************************************************************)
(* Who is left without an answer.                                          *)
(***************************************************************************)

\* A host that was counted and lacks the ack finds it on its way, unless some
\* ack was lost or the host's worker throws its acks away.
CountedAreAnswered ==
    \A h, p \in Host :
        h \in Range(encountered_ips[p]) /\ p \notin received_ack[h] =>
            Ack(p, h) \in network \/ 0 < lostAck \/ <<h, p>> \in badLen

\* An ack on its way stays there, as its socket is open, when packets arrive.
LEMMA AckStays ==
    ASSUME NEW h \in Host, NEW p \in Host, NEW packets, NEW sockets, NEW acks,
           Ack(p, h) \in packets, p \notin acks[h]
    PROVE  Ack(p, h) \in Receivable(packets, sockets, acks)
    BY DEF Receivable, Ack

LEMMA AnsweredNext == BarrierInv /\ CountedAreAnswered /\ [Next]_vars => CountedAreAnswered'
<1> SUFFICES ASSUME BarrierInv, CountedAreAnswered, [Next]_vars,
                    NEW h \in Host, NEW p \in Host,
                    h \in Range(encountered_ips'[p]), p \notin received_ack'[h]
             PROVE  Ack(p, h) \in network' \/ 0 < lostAck' \/ <<h, p>> \in badLen'
    BY DEF CountedAreAnswered, Ack
<1>1. /\ encountered_ips \in [Host -> Seq(Host)]
      /\ received_ack \in [Host -> SUBSET Host]
      /\ lostAck \in Nat
    BY LossAssumption DEF BarrierInv, TypeOK
<1>2. h \in Range(encountered_ips[p]) /\ p \notin received_ack[h] =>
        Ack(p, h) \in network \/ 0 < lostAck \/ <<h, p>> \in badLen
    BY DEF CountedAreAnswered
<1>3. CASE UNCHANGED <<encountered_ips, received_ack, badLen, lostAck, network>>
    BY <1>2, <1>3
<1>4. ASSUME NEW q \in Host, NEW r \in Host, ReceiveSignal(q, r)
      PROVE  Ack(p, h) \in network' \/ 0 < lostAck' \/ <<h, p>> \in badLen'
  <2>1. /\ encountered_ips' = [encountered_ips EXCEPT ![q] = Count(encountered_ips[q], r)]
        /\ network' = Receivable((network \ {Hi(r, q)}) \cup {Ack(q, r)}, listener', received_ack)
        /\ UNCHANGED <<received_ack, badLen, lostAck>>
      BY <1>4 DEF ReceiveSignal
  <2>2. p # q \/ h # r => h \in Range(encountered_ips[p])
    <3>1. CASE p # q
        BY <1>1, <2>1, <3>1
    <3>2. CASE p = q /\ h # r
      <4>1. Range(Count(encountered_ips[q], r)) = Range(encountered_ips[q]) \cup {r}
          BY <1>1, CountFacts DEF BarrierInv, CountsEachPeerOnce
      <4> QED
          BY <1>1, <2>1, <3>2, <4>1
    <3> QED
        BY <3>1, <3>2
  <2>3. CASE p = q /\ h = r
      BY <2>1, <2>3, AckStays
  <2>4. CASE (p # q \/ h # r) /\ Ack(p, h) \in network
    <3>1. Ack(p, h) # Hi(r, q)
        BY DEF Ack, Hi
    <3> QED
        BY <2>1, <2>4, <3>1, AckStays
  <2>5. CASE (p # q \/ h # r) /\ Ack(p, h) \notin network
      BY <1>2, <2>1, <2>2, <2>5
  <2> QED
      BY <2>3, <2>4, <2>5
<1>5. ASSUME NEW q \in Host, NEW r \in Host, SendAckFails(q, r)
      PROVE  0 < lostAck'
    BY <1>1, <1>5 DEF SendAckFails
<1>6. ASSUME NEW q \in Host, NEW r \in Host, SendSignal(q, r)
      PROVE  Ack(p, h) \in network' \/ 0 < lostAck' \/ <<h, p>> \in badLen'
  <2>1. /\ network' = Receivable(network \cup {Hi(q, r)}, listener, received_ack)
        /\ UNCHANGED <<encountered_ips, received_ack, badLen, lostAck>>
      BY <1>6 DEF SendSignal
  <2>2. CASE Ack(p, h) \in network
      BY <2>1, <2>2, AckStays
  <2>3. CASE Ack(p, h) \notin network
      BY <1>2, <2>1, <2>3
  <2> QED
      BY <2>2, <2>3
<1>7. ASSUME NEW q \in Host, NEW r \in Host, TakeAck(q, r)
      PROVE  Ack(p, h) \in network' \/ 0 < lostAck' \/ <<h, p>> \in badLen'
  <2>1. /\ network' = network \ {Ack(r, q)}
        /\ received_ack' = IF <<q, r>> \in badLen
                             THEN received_ack
                             ELSE [received_ack EXCEPT ![q] = @ \cup {r}]
        /\ UNCHANGED <<encountered_ips, badLen, lostAck>>
      BY <1>7 DEF TakeAck
  <2>2. p \notin received_ack[h]
      BY <1>1, <2>1
  <2>3. CASE h = q /\ p = r
      BY <1>1, <2>1, <2>3
  <2>4. CASE h # q \/ p # r
    <3>1. Ack(p, h) # Ack(r, q)
        BY <2>4 DEF Ack
    <3> QED
        BY <1>2, <2>1, <2>2, <3>1
  <2> QED
      BY <2>3, <2>4
<1>8. ASSUME NEW x \in network, Lose(x)
      PROVE  Ack(p, h) \in network' \/ 0 < lostAck' \/ <<h, p>> \in badLen'
  <2>1. /\ network' = network \ {x}
        /\ \/ x.type = "hi" /\ lostAck' = lostAck
           \/ lostAck' = lostAck + 1
        /\ UNCHANGED <<encountered_ips, received_ack, badLen>>
      BY <1>8 DEF Lose
  <2>2. CASE lostAck' = lostAck + 1
      BY <1>1, <2>2
  <2>3. CASE x.type = "hi" /\ lostAck' = lostAck
    <3>1. Ack(p, h) # x
        BY <2>3 DEF Ack
    <3> QED
        BY <1>2, <2>1, <2>3, <3>1
  <2> QED
      BY <2>1, <2>2, <2>3
<1>9. CASE \E q \in Host : Start(q) \/ Bind(q)
    BY <1>3, <1>9 DEF Start, Bind
<1>10. CASE UNCHANGED vars
    BY <1>3, <1>10 DEF vars
<1> QED
    BY <1>4, <1>5, <1>6, <1>7, <1>8, <1>9, <1>10 DEF Next

\* When a listener has closed its socket, every other host has its ack, finds it
\* on its way, or has lost one.
THEOREM BarrierLeavesNone == Spec => []NoneLeftBehind
<1>1. Init => CountedAreAnswered
    BY DEF Init, CountedAreAnswered, Range
<1>2. Spec => []CountedAreAnswered
    BY <1>1, AnsweredNext, BarrierInvariance, PTL DEF Spec
<1>3. BarrierInv /\ CountedAreAnswered => NoneLeftBehind
  <2> SUFFICES ASSUME BarrierInv, CountedAreAnswered,
                      NEW h \in Host, NEW p \in Peers(h), listener[p] = "closed"
               PROVE  h \in Range(encountered_ips[p])
      BY DEF NoneLeftBehind, CountedAreAnswered, Peers
  <2>1. p \in Host /\ h \in Host \ {p}
      BY DEF Peers
  <2>2. encountered_ips[p] \in Seq(Host) /\ ~ Listening(encountered_ips[p])
      BY <2>1 DEF BarrierInv, TypeOK, ListenerStates
  <2>3. /\ \A i, j \in DOMAIN encountered_ips[p] :
             encountered_ips[p][i] = encountered_ips[p][j] => i = j
        /\ Range(encountered_ips[p]) \subseteq Host \ {p}
      BY <2>1 DEF BarrierInv, TypeOK, CountsEachPeerOnce
  <2> QED
      BY <2>1, <2>2, <2>3, AllCounted
<1> QED
    BY <1>2, <1>3, BarrierInvariance, PTL

=============================================================================
