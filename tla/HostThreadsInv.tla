--------------------------- MODULE HostThreadsInv ---------------------------
(***************************************************************************)
(* The invariants of HostThreads.  LocksInv, behind NoDataRace and         *)
(* NoCircularWait: what each thread has still to execute takes and         *)
(* releases the mutexes in a proper way, starting from those that the      *)
(* thread holds.  DataInv: what each instruction relies on will be so when *)
(* its thread comes to it.                                                 *)
(***************************************************************************)
EXTENDS HostThreads

\* The order in which nested sections take the mutexes.
Rank == [l \in Mutexes |->
    CASE l = "ackHistory" -> 1
      [] l \in {"seqMessageHistory", "deliveryQueue"} -> 2
      [] l \in {"recordMessages", "deliveredMessage"} -> 3
      [] OTHER -> 4]

\* What a thread must hold when it comes to instruction i: the mutexes of the
\* memory it touches, and the one it unlocks.
Needs(i) == Touches(i) \cup (IF i[1] = "unlock" THEN {i[2]} ELSE {})

\* What a thread may hold there: a lock comes after those of lower rank, and an
\* instruction that leads to further sections comes before them in the order.
May(i) ==
    CASE i[1] = "lock" -> {l \in Mutexes : Rank[l] < Rank[i[2]]}
      [] i[1] \in {"multicast", "apply"} -> {}
      [] i[1] \in {"checkAck", "collect", "checkAcked", "printDelivered"} -> {"ackHistory"}
      [] i[1] = "checkSeq" -> {"seqMessageHistory"}
      [] i[1] \in {"toss", "broadcast", "resend"} -> {"ackHistory", "seqMessageHistory"}
      [] i[1] = "testRecord" -> {"ackHistory", "seqMessageHistory", "recordMessages"}
      [] OTHER -> Mutexes

\* No instruction of s from the i-th to the j-th unlocks l.
Keeps(s, l, i, j) == \A n \in i .. j : s[n] # <<"unlock", l>>

\* The mutexes that a thread holds before the k-th instruction of s, if it
\* starts with those in held.
HeldBefore(s, held, k) ==
    {l \in Mutexes :
       \/ l \in held /\ Keeps(s, l, 1, k - 1)
       \/ \E i \in 1 .. (k - 1) : s[i] = <<"lock", l>> /\ Keeps(s, l, i + 1, k - 1)}

\* A thread that holds held can execute s, and holds end after it.
Runs(s, held, end) ==
    /\ s \in Seq(Instruction)
    /\ \A k \in 1 .. Len(s) :
         Needs(s[k]) \subseteq HeldBefore(s, held, k) /\ HeldBefore(s, held, k) \subseteq May(s[k])
    /\ HeldBefore(s, held, Len(s) + 1) = end

Holding(t) == {l \in Mutexes : owner[l] = t}

\* What a thread may be given to do from outside: acks of messages that were
\* sent, answers to where a packet came from, a marker from every other host.
Surroundings ==
    /\ sent \subseteq Packets
    /\ their_addr \in Peers \cup {Asker}
    /\ markers \in 0 .. (Len(hostNames) - 1)

\* Every thread runs to the end of its instructions, and then holds no mutex.
LocksInv ==
    /\ Surroundings
    /\ todo \in [Threads -> Seq(Instruction)]
    /\ owner \in [Mutexes -> Threads \cup {None}]
    /\ \A t \in Threads : Runs(todo[t], Holding(t), {})

-----------------------------------------------------------------------------
(***************************************************************************)
(* The invariant behind TypeOK, NoExit, AnsweredIsHeld, FinalIsApplied and *)
(* OvertakenOnlyByRace: what is known of a message when a thread comes to  *)
(* an instruction about it.  A fact is a pair of a kind and a message.     *)
(***************************************************************************)
Applied(m) ==
    (Queued(m) \/ Delivered(m)) /\ \A e \in deliveryQueue : e.msg = m => e.status = DELIVERABLE

\* What holds for good once it holds: the message is in one of the two lists;
\* this host has proposed; the final number is in the history; it is applied.
Facts ==
    ({"held"} \X {m \in Msg : Queued(m) \/ Delivered(m)})
      \cup ({"proposed"} \X {m \in Msg : IF m \in Own THEN ackHistory[m][Me] # 0
                                         ELSE alreadyAcked[m] # 0})
      \cup ({"final"} \X {m \in Msg : m \in seqMessageHistory})
      \cup ({"applied"} \X {m \in Msg : Applied(m)})

\* What the register of t says: a number that can be proposed, or whether the
\* message was in the queue.
Local(t) ==
    ({"positive"} \X (IF reg[t] > 0 THEN {None} ELSE {}))
      \cup ({"checked"} \X {m \in Msg : reg[t] = 1 => Delivered(m)})

FactsOf(t) == Facts \cup Local(t)

\* What is known of a message that another host may know of.
Known(m) == {"held", "proposed"} \X {m}

\* The facts that an instruction relies on.
Requires(i) ==
    CASE i[1] \in {"toss", "sendto", "broadcast"} -> Known(i[2].msg)
      [] i[1] = "spawn" -> Known(i[2][2])
      [] i[1] \in {"checkAck", "collect", "checkAcked", "checkSeq", "change"} -> Known(i[2])
      [] i[1] = "checkDelivered" -> Known(i[2]) \cup {<<"checked", i[2]>>}
      [] i[1] = "apply" -> Known(i[2]) \cup {<<"applied", i[2]>>}
      [] i[1] = "addSeq" -> Known(i[2]) \cup (IF i[2] \in Own THEN {} ELSE {<<"applied", i[2]>>})
      [] i[1] = "resend" -> Known(i[2]) \cup {<<"final", i[2]>>}
      [] i[1] \in {"push", "proposeOwn"} -> {<<"positive", None>>}
      [] i[1] = "ack" -> {<<"positive", None>>, <<"held", i[2]>>}
      [] OTHER -> {}

\* The facts that it makes true.
Establishes(i) ==
    CASE i[1] = "push" -> {<<"held", i[2]>>}
      [] i[1] \in {"proposeOwn", "ack"} -> {<<"proposed", i[2]>>}
      [] i[1] = "addSeq" -> {<<"final", i[2]>>}
      [] i[1] = "change" -> {<<"checked", i[2]>>, <<"applied", i[2]>>}
      [] i[1] = "load" -> {<<"positive", None>>}
      [] OTHER -> {}

\* The facts about the register that it may make false.
Destroys(i) ==
    CASE i[1] \in {"load", "deliver"} -> {"checked"} \X Msg
      [] i[1] = "change" -> ({"checked"} \X (Msg \ {i[2]})) \cup {<<"positive", None>>}
      [] OTHER -> {}

\* The facts about messages that it alone makes true, or leads to.
Makes(i) ==
    CASE i[1] = "push" -> {<<"held", i[2]>>}
      [] i[1] \in {"proposeOwn", "ack"} -> {<<"proposed", i[2]>>}
      [] i[1] = "multicast" -> {"held", "proposed"} \X {m \in Own : m[2] >= i[2][2]}
      [] OTHER -> {}

\* In one list i may come before j.
MayPrecede(i, j) ==
    /\ i[1] \in {"multicast", "checkAck", "collect", "apply"} => j[1] = "unlock"
    /\ Makes(i) \cap Makes(j) = {}
    /\ Destroys(i) \cap Requires(j) = {}
    /\ j[1] \in {"addSeq", "change"} /\ j[2] \in Own =>
         i # <<"unlock", "ackHistory">> /\ i[1] # "change"

\* Who executes i.
Place(i, t) ==
    /\ i[1] \in {"push", "proposeOwn", "ack"} => t = IF i[2] \in Own THEN Main ELSE Receiver
    /\ i[1] = "multicast" => t = Main
    /\ i[1] = "checkSeq" => t \in Watchdogs
    /\ i[1] \in {"checkAck", "collect", "addSeq", "change", "apply"} => t = Receiver

\* What is known before the k-th instruction of s, if the facts of F hold.
Before(s, F, k) == F \cup UNION {Establishes(s[j]) : j \in 1 .. (k - 1)}

\* The lists of instructions in themselves, and with what holds.
Orderly(s, t) ==
    \A k \in 1 .. Len(s) : Place(s[k], t) /\ \A j \in 1 .. (k - 1) : MayPrecede(s[j], s[k])
Follows(s, F) == \A k \in 1 .. Len(s) : Requires(s[k]) \subseteq Before(s, F, k)
Fresh(s)      == \A i \in Range(s) : Makes(i) \cap Facts = {}

Lists == \A t \in Threads : Orderly(todo[t], t) /\ Follows(todo[t], FactsOf(t)) /\ Fresh(todo[t])

\* What other hosts may ask for, and watchdogs will look for, is known here.
KnownAbroad ==
    /\ \A x \in sent : Known(x.msg) \subseteq Facts
    /\ \A w \in Watchdogs : alarms[w] > 0 => Known(w[2]) \subseteq Facts
    /\ \A m \in Own, p \in Peers : ackHistory[m][p] # 0 => <<"proposed", m>> \in Facts
    /\ \A m \in Foreign : <<"proposed", m>> \in Facts => <<"held", m>> \in Facts

\* The receiver is between two steps of a handler.
ToDo(i) == i \in Range(todo[Receiver])

Underway ==
    /\ \A m \in Foreign :
         /\ ToDo(<<"push", m>>) => ToDo(<<"ack", m>>)
         /\ <<"held", m>> \in Facts => <<"proposed", m>> \in Facts \/ ToDo(<<"ack", m>>)
    /\ \A m \in Own : Complete(ackHistory[m]) => <<"final", m>> \in Facts \/ ToDo(<<"addSeq", m>>)
    /\ \A m \in Msg : <<"final", m>> \in Facts =>
         <<"applied", m>> \in Facts \/ (m \in Own /\ ToDo(<<"change", m>>))
    /\ \A m \in Own :
         /\ ToDo(<<"addSeq", m>>) => ToDo(<<"change", m>>)
         /\ ToDo(<<"change", m>>) => owner["ackHistory"] = Receiver

\* The delivery queue.
Queues ==
    /\ \A d, e \in deliveryQueue : d.msg = e.msg => d = e
    /\ \A e \in deliveryQueue : ~ Delivered(e.msg)
    /\ \A e \in deliveryQueue : e.status = DELIVERABLE =>
         /\ <<"proposed", e.msg>> \in Facts
         /\ e.seq = FinalSeq(e.msg) /\ e.proposer = FinalProposer(e.msg)

Types ==
    /\ reg \in [Threads -> Nat]
    /\ alarms \in [Watchdogs -> 0 .. WATCHDOG_RESEND_CAP]
    /\ curr_seq_number \in Nat \ {0}
    /\ ackHistory \in [Own -> [Host -> Nat]]
    /\ alreadyAcked \in [Foreign -> Nat]
    /\ seqMessageHistory \subseteq Msg
    /\ deliveryQueue \subseteq QueueEntry
    /\ deliveredMessage \in Seq(QueueEntry)
    /\ recordMessages \in BOOLEAN
    /\ recv_cap \in 1 .. RECV_CAP

\* What an instruction relies on has been established before it or will be by
\* the instructions in front of it, other hosts know of nothing but what this
\* host holds and has proposed for, and the queue has each message once, under
\* its final number if it is deliverable.
DataInv == Types /\ Lists /\ KnownAbroad /\ Underway /\ Queues /\ exited = FALSE

=============================================================================
