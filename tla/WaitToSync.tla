----------------------------- MODULE WaitToSync -----------------------------
(***************************************************************************)
(* The start-up barrier of waittosync.cpp.  Before a host multicasts it    *)
(* runs one thread per line of the Hostfile: for its own line a listener   *)
(* that acks the "hi" of every other host, for any other line a worker     *)
(* that sends "hi" until it is acked.  When all its threads have returned  *)
(* the host is READY and the constructor of ReliableMulticast goes on.     *)
(*                                                                         *)
(* Both packets travel over UDP.  The listener stops after the first "hi"  *)
(* of the last peer, so that nobody acks a "hi" that is repeated after     *)
(* that.  A worker passes an uninitialized addr_len to recvfrom: read as a *)
(* negative length it makes every recvfrom of that worker fail, after the  *)
(* datagram has been taken from the socket.  badLen is the set of workers  *)
(* that find such a value on their stacks.                                 *)
(***************************************************************************)
EXTENDS Naturals, FiniteSets, Sequences, Functions

CONSTANTS
    Host,         \* the hosts of the Hostfile
    UninitLens,   \* the workers <<h, p>> whose addr_len may be negative
    MaxLostHi,    \* bound on the "hi" packets the network loses
    MaxLostAck    \* bound on the "ACK" packets lost, or not sent

ASSUME HostAssumption == IsFiniteSet(Host) /\ Host # {}
ASSUME LossAssumption ==
    UninitLens \subseteq Host \X Host /\ MaxLostHi \in Nat /\ MaxLostAck \in Nat

VARIABLES
    running,          \* hosts whose process, and container name, exist
    listener,         \* per host: the state of the listener's socket
    encountered_ips,  \* per host: the peers its listener has counted
    received_ack,     \* per host: the peers whose worker has its ack
    badLen,           \* workers with a negative addr_len
    network,          \* packets in flight
    lostHi, lostAck   \* packets lost so far

vars == <<running, listener, encountered_ips, received_ack, badLen, network,
          lostHi, lostAck>>

\* Mutant of Peers: check_up_with_host takes its own line for another host's.
PeersAndSelf(h) == Host

Peers(h) == Host \ {h}
Hi(from, to)  == [type |-> "hi", from |-> from, to |-> to]
Ack(from, to) == [type |-> "ACK", from |-> from, to |-> to]

\* The packets that something may still receive.  A listener that has heard all
\* has closed its socket, and a worker that has returned reads no more from its.
Receivable(packets, sockets, acks) ==
    {x \in packets : IF x.type = "hi" THEN sockets[x.to] # "closed"
                                     ELSE x.from \notin acks[x.to]}

\* All threads of host h have been joined: it prints READY.
Ready(h) == listener[h] = "closed" /\ received_ack[h] = Peers(h)

Init ==
    /\ running = {}
    /\ listener = [h \in Host |-> "unbound"]
    /\ encountered_ips = [h \in Host |-> <<>>]
    /\ received_ack = [h \in Host |-> {}]
    /\ badLen \in SUBSET UninitLens
    /\ network = {}
    /\ lostHi = 0 /\ lostAck = 0

\* The process of h starts; its multicast socket is bound before its threads run.
Start(h) ==
    /\ h \notin running
    /\ running' = running \cup {h}
    /\ UNCHANGED <<listener, encountered_ips, received_ack, badLen, network, lostHi, lostAck>>

-----------------------------------------------------------------------------
(***************************************************************************)
(* The listener of host h.                                                 *)
(***************************************************************************)
\* Mutant of Listening: the loop waits for one peer too few.
ListeningForMost(peers) == Len(peers) + 1 < Cardinality(Host) - 1

\* Whether the loop of the listener goes on after it has counted these peers.
Listening(peers) == Len(peers) < Cardinality(Host) - 1

\* Mutant of Count: a repeated "hi" is counted again.
CountAgain(peers, p) == Append(peers, p)

Count(peers, p) == IF p \in Range(peers) THEN peers ELSE Append(peers, p)

Bind(h) ==
    /\ h \in running
    /\ listener[h] = "unbound"
    /\ listener' = [listener EXCEPT ![h] = IF Listening(<<>>) THEN "open" ELSE "closed"]
    /\ UNCHANGED <<running, encountered_ips, received_ack, badLen, network, lostHi, lostAck>>

\* The listener takes a "hi" of p, acks it and counts p, once; after the last
\* peer it closes its socket.
ReceiveSignal(h, p) ==
    /\ listener[h] = "open"
    /\ Hi(p, h) \in network
    /\ LET peers == Count(encountered_ips[h], p)
       IN  /\ encountered_ips' = [encountered_ips EXCEPT ![h] = peers]
           /\ listener' = [listener EXCEPT ![h] = IF Listening(peers) THEN "open" ELSE "closed"]
    /\ network' = Receivable((network \ {Hi(p, h)}) \cup {Ack(h, p)}, listener', received_ack)
    /\ UNCHANGED <<running, received_ack, badLen, lostHi, lostAck>>

\* The listener takes a "hi" but its sendto fails: it does not count the peer.
SendAckFails(h, p) ==
    /\ listener[h] = "open"
    /\ Hi(p, h) \in network
    /\ lostAck < MaxLostAck
    /\ lostAck' = lostAck + 1
    /\ network' = network \ {Hi(p, h)}
    /\ UNCHANGED <<running, listener, encountered_ips, received_ack, badLen, lostHi>>

-----------------------------------------------------------------------------
(***************************************************************************)
(* The worker of host h for host p.                                        *)
(***************************************************************************)
\* It sends "hi" once p's name resolves, and again after each poll without
\* an ack.
SendSignal(h, p) ==
    /\ h \in running /\ p \in running
    /\ p \in Peers(h) \ received_ack[h]
    /\ network' = Receivable(network \cup {Hi(h, p)}, listener, received_ack)
    /\ UNCHANGED <<running, listener, encountered_ips, received_ack, badLen, lostHi, lostAck>>

\* Mutant of TakeAck: the worker returns on any answer to any of its host.
TakeAnyAck(h, p) ==
    /\ h \in running
    /\ p \in Peers(h) \ received_ack[h]
    /\ \E q \in Peers(h) : Ack(q, h) \in network
    /\ UNCHANGED network
    /\ received_ack' = [received_ack EXCEPT ![h] = @ \cup {p}]
    /\ UNCHANGED <<running, listener, encountered_ips, badLen, lostHi, lostAck>>

\* It takes an ack from its socket.  With a negative addr_len recvfrom fails,
\* the ack is gone and the worker sends "hi" again.
TakeAck(h, p) ==
    /\ h \in running
    /\ p \in Peers(h) \ received_ack[h]
    /\ Ack(p, h) \in network
    /\ network' = network \ {Ack(p, h)}
    /\ received_ack' = IF <<h, p>> \in badLen
                         THEN received_ack
                         ELSE [received_ack EXCEPT ![h] = @ \cup {p}]
    /\ UNCHANGED <<running, listener, encountered_ips, badLen, lostHi, lostAck>>

-----------------------------------------------------------------------------
(***************************************************************************)
(* The network: a packet is lost on the way, and a "hi" that arrives where *)
(* no socket is bound yet is dropped.                                      *)
(***************************************************************************)
Lose(x) ==
    /\ x \in network
    /\ network' = network \ {x}
    /\ \/ /\ x.type = "hi" /\ listener[x.to] = "unbound"
          /\ UNCHANGED <<lostHi, lostAck>>
       \/ /\ x.type = "hi" /\ lostHi < MaxLostHi
          /\ lostHi' = lostHi + 1 /\ UNCHANGED lostAck
       \/ /\ x.type = "ACK" /\ lostAck < MaxLostAck
          /\ lostAck' = lostAck + 1 /\ UNCHANGED lostHi
    /\ UNCHANGED <<running, listener, encountered_ips, received_ack, badLen>>

Next ==
    \/ \E h \in Host : Start(h) \/ Bind(h)
    \/ \E h, p \in Host :
         \/ ReceiveSignal(h, p)
         \/ SendAckFails(h, p)
         \/ SendSignal(h, p)
         \/ TakeAck(h, p)
    \/ \E x \in network : Lose(x)

Spec == Init /\ [][Next]_vars

\* Every container is started; a thread that can go on does.
Fairness ==
    /\ \A h \in Host : WF_vars(Start(h) \/ Bind(h))
    /\ \A h \in Host : \A p \in Peers(h) :
         /\ WF_vars(SendSignal(h, p))
         /\ WF_vars(ReceiveSignal(h, p))
         /\ WF_vars(TakeAck(h, p))

FairSpec == Spec /\ Fairness

-----------------------------------------------------------------------------
(***************************************************************************)
(* Properties.                                                             *)
(***************************************************************************)
Packet == [type : {"hi", "ACK"}, from : Host, to : Host]

\* The type invariant; a host has workers for the other hosts only, and no
\* listener counts more peers than its array encountered_ips holds.
TypeOK ==
    /\ running \subseteq Host
    /\ listener \in [Host -> {"unbound", "open", "closed"}]
    /\ encountered_ips \in [Host -> Seq(Host)]
    /\ \A h \in Host : Len(encountered_ips[h]) < Cardinality(Host)
    /\ received_ack \in [Host -> SUBSET Host]
    /\ \A h \in Host : h \notin received_ack[h]
    /\ badLen \subseteq Host \X Host
    /\ network \subseteq Packet
    /\ lostHi \in 0 .. MaxLostHi
    /\ lostAck \in 0 .. MaxLostAck

\* A host that is READY has heard from every other host and has been heard by
\* every other host, so the sockets it will multicast to are all bound, and
\* no loss, repetition or early closing of a listener makes it go on before.
ReadyAfterAll ==
    \A h \in Host : Ready(h) =>
        \A p \in Peers(h) :
            /\ p \in running
            /\ p \in Range(encountered_ips[h])
            /\ h \in Range(encountered_ips[p])

\* However often a "hi" is repeated or an ack fails, a listener counts a peer
\* once, and only peers that have started; never its own host.
CountsEachPeerOnce ==
    \A h \in Host :
        /\ \A i, j \in DOMAIN encountered_ips[h] :
             encountered_ips[h][i] = encountered_ips[h][j] => i = j
        /\ Range(encountered_ips[h]) \subseteq running \ {h}

\* The worker of h for p waits for an ack that nobody will send: p's listener
\* has heard h and closed, and its last ack to h is gone.
Abandoned(h, p) ==
    /\ p \notin received_ack[h]
    /\ listener[p] = "closed" /\ h \in Range(encountered_ips[p])
    /\ Ack(p, h) \notin network

\* A listener that has closed its socket leaves no worker without an answer,
\* unless an ack was lost, was never sent, or was thrown away by the worker's
\* own recvfrom: the loop neither ends too early nor misses a peer.
NoneLeftBehind ==
    \A h \in Host : \A p \in Peers(h) :
        listener[p] = "closed" /\ p \notin received_ack[h] =>
            Ack(p, h) \in network \/ 0 < lostAck \/ <<h, p>> \in badLen

\* However hosts start, and whatever is lost before a listener closes, every
\* host is READY at length, unless one of its workers is abandoned: a "hi" is
\* repeated until it is acked, and a peer that was not heard is heard later.
ReadyUnlessAbandoned ==
    <>(\A h \in Host : Ready(h) \/ \E p \in Peers(h) : Abandoned(h, p))

\* The barrier implements its abstract specification: a host that has started
\* arrives, a host hears those that its listener counts, and READY it passes;
\* every other step changes nothing that a host can rely on.
Abstract == INSTANCE Barrier
    WITH arrived <- running,
         heard   <- [h \in Host |-> Range(encountered_ips[h])],
         passed  <- {h \in Host : Ready(h)}
ImplementsBarrier == Abstract!Spec

-----------------------------------------------------------------------------
(***************************************************************************)
(* What the documentation says and the code does not do.                   *)
(***************************************************************************)

\* README.md:36, "nobody send until every process specified in the Hostfile is
\* 'ready'": every host is READY at length.
EventuallyReady == \A h \in Host : <>Ready(h)

=============================================================================
