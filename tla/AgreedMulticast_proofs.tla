----------------------- MODULE AgreedMulticast_proofs -----------------------
(***************************************************************************)
(* Proofs about AgreedMulticast: a final number is overtaken by late       *)
(* arrivals only, at any host and for any number of messages.              *)
(*                                                                         *)
(* What is delivered is compared with everything that waits or is yet to   *)
(* be delivered at the same host.  A message that waits when another one   *)
(* is delivered has no smaller key, and its key can only grow; a message   *)
(* that comes to wait later is proposed for later, with no smaller number. *)
(***************************************************************************)
EXTENDS AgreedMulticast, TLAPS

\* The number under which a message waits, or was delivered, at a host.
NumberAt(h, m) == KeyAt(h, m, learnt[h], final).seq

\* The types of the four variables.
Types ==
    /\ proposal \in [Host -> [Msg -> Nat]]
    /\ final \in [Msg -> [seq : Nat, proposer : Host \cup {Sender(m) : m \in Msg}]]
    /\ learnt \in [Host -> SUBSET Msg]
    /\ delivered \in [Host -> Seq(Msg)]

\* A final key bounds all the proposals, which have all been made.
FinalsAbove ==
    \A m \in Msg : final[m].seq # 0 =>
        \A h \in Host : proposal[h][m] # 0 /\ proposal[h][m] =< final[m].seq

\* A host learns final keys only, and delivers what it has learnt.
LearntFirst ==
    \A h \in Host :
        /\ \A m \in learnt[h] : final[m].seq # 0
        /\ \A i \in DOMAIN delivered[h] : delivered[h][i] \in learnt[h]

\* Whatever waits at h, or was delivered there after its i-th message, has no
\* smaller number than that message, or was not proposed for before it.
InOrderOrLate ==
    \A h \in Host : \A i \in DOMAIN delivered[h] : \A m \in Msg :
        proposal[h][m] # 0 /\ (\A j \in 1 .. i : delivered[h][j] # m) =>
          \/ final[delivered[h][i]].seq =< NumberAt(h, m)
          \/ proposal[h][delivered[h][i]] =< proposal[h][m]

\* No message is delivered twice by one host.
DeliveredOnce ==
    \A h \in Host : \A i, j \in DOMAIN delivered[h] :
        delivered[h][i] = delivered[h][j] => i = j

\* The inductive invariant.
AgreedInv ==
    /\ Types
    /\ FinalsAbove
    /\ LearntFirst
    /\ InOrderOrLate
    /\ DeliveredOnce

-----------------------------------------------------------------------------
\* The inductive invariant holds initially.
LEMMA AgreedInit == Init => AgreedInv
<1> SUFFICES ASSUME Init PROVE AgreedInv
    OBVIOUS
<1>1. Types
    BY DEF Init, Types, Key
<1>2. FinalsAbove /\ LearntFirst /\ InOrderOrLate /\ DeliveredOnce
    BY DEF Init, FinalsAbove, LearntFirst, InOrderOrLate, DeliveredOnce, Key
<1> QED
    BY <1>1, <1>2 DEF AgreedInv

\* A new proposal: its message is new to the host, and its number is no smaller
\* than that of anything delivered there.
LEMMA StepPropose ==
    ASSUME AgreedInv, NEW h \in Host, NEW m \in Msg, Propose(h, m)
    PROVE  AgreedInv'
<1> DEFINE n == proposal'[h][m]
<1>1. /\ proposal[h][m] = 0
      /\ n \in Nat \ {0}
      /\ \A k \in Msg : proposal[h][k] =< n
      /\ \A g \in Host, k \in Msg :
           proposal'[g][k] = IF g = h /\ k = m THEN n ELSE proposal[g][k]
      /\ proposal' \in [Host -> [Msg -> Nat]]
      /\ UNCHANGED <<final, learnt, delivered>>
  <2>1. /\ proposal[h][m] = 0
        /\ n \in Nat \ {0}
        /\ \A k \in Msg : proposal[h][k] =< n
        /\ proposal' = [proposal EXCEPT ![h][m] = n]
        /\ UNCHANGED <<final, learnt, delivered>>
      BY DEF Propose
  <2>2. proposal \in [Host -> [Msg -> Nat]]
      BY DEF AgreedInv, Types
  <2> HIDE DEF n
  <2> QED
      BY <2>1, <2>2
<1> HIDE DEF n
<1>2. Types' /\ LearntFirst' /\ DeliveredOnce'
    BY <1>1 DEF AgreedInv, Types, LearntFirst, DeliveredOnce
<1>3. FinalsAbove'
    BY <1>1 DEF AgreedInv, FinalsAbove
<1>4. InOrderOrLate'
  <2> SUFFICES ASSUME NEW g \in Host, NEW i \in DOMAIN delivered[g], NEW k \in Msg,
                      proposal'[g][k] # 0, \A j \in 1 .. i : delivered[g][j] # k
               PROVE  \/ final[delivered[g][i]].seq =< NumberAt(g, k)'
                      \/ proposal'[g][delivered[g][i]] =< proposal'[g][k]
      BY <1>1 DEF InOrderOrLate
  <2>1. /\ delivered[g][i] \in Msg /\ delivered[g][i] \in learnt[g]
        /\ proposal[g][delivered[g][i]] # 0
      BY DEF AgreedInv, Types, LearntFirst, FinalsAbove
  <2>2. CASE g = h /\ k = m
      BY <1>1, <2>1, <2>2
  <2>3. CASE ~ (g = h /\ k = m)
    <3>1. proposal'[g][k] = proposal[g][k] /\ NumberAt(g, k)' = NumberAt(g, k)
        BY <1>1, <2>3 DEF NumberAt, KeyAt, Key
    <3>2. proposal'[g][delivered[g][i]] = proposal[g][delivered[g][i]]
        BY <1>1, <2>1
    <3> QED
        BY <3>1, <3>2 DEF AgreedInv, InOrderOrLate
  <2> QED
      BY <2>2, <2>3
<1> QED
    BY <1>2, <1>3, <1>4 DEF AgreedInv

\* What a host that learns of m adds to its delivered messages, when keys are
\* the final keys from then on: messages that were waiting, each with a final
\* key and no larger than what was left.
LEMMA DeliverFacts ==
    ASSUME AgreedInv, NEW h \in Host, NEW m \in Msg, NEW keys, Deliver(h, m, keys)
    PROVE  /\ delivered' \in [Host -> Seq(Msg)]
           /\ \A g \in Host \ {h} : delivered'[g] = delivered[g] /\ learnt'[g] = learnt[g]
           /\ learnt' \in [Host -> SUBSET Msg]
           /\ learnt'[h] = learnt[h] \cup {m}
           /\ \A i \in DOMAIN delivered[h] :
                i \in DOMAIN delivered'[h] /\ delivered'[h][i] = delivered[h][i]
           /\ \A i \in DOMAIN delivered'[h] : i \notin DOMAIN delivered[h] =>
                /\ delivered'[h][i] \in learnt'[h]
                /\ \A j \in 1 .. (i - 1) : delivered'[h][j] # delivered'[h][i]
                /\ \A w \in Msg :
                     proposal[h][w] # 0 /\ (\A j \in 1 .. (i - 1) : delivered'[h][j] # w) =>
                       ~ Before(KeyAt(h, w, learnt'[h], keys), keys[delivered'[h][i]])
<1> DEFINE old     == delivered[h]
           new     == delivered'[h]
           known   == learnt[h] \cup {m}
           left(n) == Waiting(h) \ {new[i] : i \in 1 .. n}
<1>1. /\ learnt' = [learnt EXCEPT ![h] = known]
      /\ delivered' = [delivered EXCEPT ![h] = new]
      /\ new \in Seq(Msg)
      /\ Len(old) =< Len(new) /\ \A i \in 1 .. Len(old) : new[i] = old[i]
      /\ \A n \in Len(old) .. (Len(new) - 1) :
           new[n + 1] \in known /\ InFront(h, new[n + 1], left(n), known, keys)
    BY DEF Deliver
<1>2. /\ learnt \in [Host -> SUBSET Msg]
      /\ delivered \in [Host -> Seq(Msg)]
      /\ old \in Seq(Msg)
    BY DEF AgreedInv, Types
<1>3. /\ learnt' \in [Host -> SUBSET Msg]
      /\ learnt'[h] = known
      /\ \A g \in Host \ {h} : learnt'[g] = learnt[g]
    BY <1>1, <1>2
<1> HIDE DEF known
<1>4. /\ delivered' \in [Host -> Seq(Msg)]
      /\ \A g \in Host \ {h} : delivered'[g] = delivered[g]
  <2> HIDE DEF new
  <2> QED
      BY <1>1, <1>2
<1> HIDE DEF new
<1>5. /\ Len(old) \in Nat /\ Len(new) \in Nat
      /\ DOMAIN old = 1 .. Len(old) /\ DOMAIN new = 1 .. Len(new)
    BY <1>1, <1>2
<1>6. \A i \in DOMAIN old : i \in DOMAIN new /\ new[i] = old[i]
    BY <1>1, <1>5
<1>7. ASSUME NEW i \in DOMAIN new, i \notin DOMAIN old
      PROVE  /\ new[i] \in known
             /\ \A j \in 1 .. (i - 1) : new[j] # new[i]
             /\ \A w \in Msg :
                  proposal[h][w] # 0 /\ (\A j \in 1 .. (i - 1) : new[j] # w) =>
                    ~ Before(KeyAt(h, w, known, keys), keys[new[i]])
  <2>1. /\ i - 1 \in Len(old) .. (Len(new) - 1) /\ (i - 1) + 1 = i
        /\ 1 .. Len(old) \subseteq 1 .. (i - 1)
      BY <1>5, <1>7
  <2>2. new[i] \in known /\ InFront(h, new[i], left(i - 1), known, keys)
      BY <1>1, <2>1
  <2>3. new[i] \in left(i - 1) /\ KeyAt(h, new[i], known, keys) = keys[new[i]]
      BY <2>2 DEF InFront, KeyAt
  <2>4. ASSUME NEW w \in Msg, proposal[h][w] # 0, \A j \in 1 .. (i - 1) : new[j] # w
        PROVE  w \in left(i - 1)
    <3>1. w \notin Range(old)
        BY <1>1, <1>5, <2>1, <2>4 DEF Range
    <3> QED
        BY <2>4, <3>1 DEF Waiting
  <2> QED
      BY <2>2, <2>3, <2>4 DEF InFront
<1>8. \A i \in DOMAIN new : i \notin DOMAIN old =>
        /\ new[i] \in learnt'[h]
        /\ \A j \in 1 .. (i - 1) : new[j] # new[i]
        /\ \A w \in Msg :
             proposal[h][w] # 0 /\ (\A j \in 1 .. (i - 1) : new[j] # w) =>
               ~ Before(KeyAt(h, w, learnt'[h], keys), keys[new[i]])
    BY <1>3, <1>7
<1> QED
    BY <1>3, <1>4, <1>6, <1>8 DEF new, known

\* A delivery keeps the inductive invariant, when m has its final key by then
\* and no other message gets or changes one.
LEMMA StepDeliver ==
    ASSUME AgreedInv, NEW h \in Host, NEW m \in Msg, Deliver(h, m, final'),
           UNCHANGED proposal,
           final' \in [Msg -> [seq : Nat, proposer : Host \cup {Sender(k) : k \in Msg}]],
           \A k \in Msg : k # m \/ final[k].seq # 0 => final'[k] = final[k],
           final'[m].seq # 0,
           \A g \in Host : proposal[g][m] # 0 /\ proposal[g][m] =< final'[m].seq
    PROVE  AgreedInv'
<1>1. /\ delivered' \in [Host -> Seq(Msg)]
      /\ \A g \in Host \ {h} : delivered'[g] = delivered[g] /\ learnt'[g] = learnt[g]
      /\ learnt' \in [Host -> SUBSET Msg]
      /\ learnt'[h] = learnt[h] \cup {m}
      /\ \A i \in DOMAIN delivered[h] :
           i \in DOMAIN delivered'[h] /\ delivered'[h][i] = delivered[h][i]
      /\ \A i \in DOMAIN delivered'[h] : i \notin DOMAIN delivered[h] =>
           /\ delivered'[h][i] \in learnt'[h]
           /\ \A j \in 1 .. (i - 1) : delivered'[h][j] # delivered'[h][i]
           /\ \A w \in Msg :
                proposal[h][w] # 0 /\ (\A j \in 1 .. (i - 1) : delivered'[h][j] # w) =>
                  ~ Before(KeyAt(h, w, learnt'[h], final'), final'[delivered'[h][i]])
    BY DeliverFacts
<1>2. Types'
    BY <1>1 DEF AgreedInv, Types
<1>3. FinalsAbove'
    BY DEF AgreedInv, FinalsAbove
<1>4. LearntFirst'
  <2>1. \A g \in Host, k \in Msg : k \in learnt[g] => final'[k].seq # 0
      BY DEF AgreedInv, LearntFirst
  <2>2. \A g \in Host : \A k \in learnt'[g] : final'[k].seq # 0
      BY <1>1, <2>1, <1>2 DEF Types
  <2>3. ASSUME NEW g \in Host, NEW i \in DOMAIN delivered'[g]
        PROVE  delivered'[g][i] \in learnt'[g]
    <3>1. \A j \in DOMAIN delivered[g] : delivered[g][j] \in learnt[g]
        BY DEF AgreedInv, LearntFirst
    <3>2. CASE g # h
        BY <1>1, <2>3, <3>1, <3>2
    <3>3. CASE g = h /\ i \in DOMAIN delivered[h]
        BY <1>1, <3>1, <3>3
    <3>4. CASE g = h /\ i \notin DOMAIN delivered[h]
        BY <1>1, <2>3, <3>4
    <3> QED
        BY <3>2, <3>3, <3>4
  <2> QED
      BY <2>2, <2>3 DEF LearntFirst
<1>5. ASSUME NEW g \in Host, NEW k \in Msg, proposal[g][k] # 0
      PROVE  NumberAt(g, k) =< NumberAt(g, k)' /\ NumberAt(g, k) \in Nat /\ NumberAt(g, k)' \in Nat
  <2>1. /\ proposal[g][k] \in Nat
        /\ final[k].seq \in Nat
        /\ final'[k].seq \in Nat
      BY DEF AgreedInv, Types
  <2>2. CASE k \in learnt[g]
    <3>1. k \in learnt'[g] /\ final'[k] = final[k]
        BY <1>1, <2>2 DEF AgreedInv, LearntFirst
    <3> QED
        BY <2>1, <2>2, <3>1 DEF NumberAt, KeyAt
  <2>3. CASE k \notin learnt[g] /\ k \in learnt'[g]
    <3>1. k = m
        BY <1>1, <2>3
    <3> QED
        BY <2>1, <2>3, <3>1 DEF NumberAt, KeyAt, Key
  <2>4. CASE k \notin learnt[g] /\ k \notin learnt'[g]
      BY <2>1, <2>4 DEF NumberAt, KeyAt, Key
  <2> QED
      BY <2>2, <2>3, <2>4
<1>6. ASSUME NEW g \in Host, NEW i \in DOMAIN delivered'[g], NEW k \in Msg,
             proposal[g][k] # 0, \A j \in 1 .. i : delivered'[g][j] # k
      PROVE  \/ final'[delivered'[g][i]].seq =< NumberAt(g, k)'
             \/ proposal[g][delivered'[g][i]] =< proposal[g][k]
  <2> DEFINE d == delivered'[g][i]
  <2>1. CASE i \in DOMAIN delivered[g]
    <3>1. \A j \in 1 .. i : delivered'[g][j] = delivered[g][j]
      <4>1. DOMAIN delivered[g] = 1 .. Len(delivered[g]) /\ Len(delivered[g]) \in Nat
          BY DEF AgreedInv, Types
      <4>2. \A j \in 1 .. i : j \in DOMAIN delivered[g]
          BY <2>1, <4>1
      <4> QED
          BY <1>1, <4>2
    <3>2. i \in 1 .. i /\ d = delivered[g][i]
      <4>1. DOMAIN delivered[g] = 1 .. Len(delivered[g]) /\ Len(delivered[g]) \in Nat
          BY DEF AgreedInv, Types
      <4> QED
          BY <2>1, <3>1, <4>1
    <3>3. d \in Msg /\ final'[d] = final[d] /\ final[d].seq \in Nat
        BY <2>1, <3>2 DEF AgreedInv, Types, LearntFirst
    <3>4. final[d].seq =< NumberAt(g, k) \/ proposal[g][d] =< proposal[g][k]
        BY <1>6, <2>1, <3>1, <3>2 DEF AgreedInv, InOrderOrLate
    <3> QED
        BY <1>5, <1>6, <3>3, <3>4
  <2>2. CASE i \notin DOMAIN delivered[g]
    <3>1. g = h
        BY <1>1, <2>2
    <3>2. i \in Nat /\ 1 .. (i - 1) \subseteq 1 .. i
        BY <1>1
    <3>3. ~ Before(KeyAt(h, k, learnt'[h], final'), final'[d])
        BY <1>1, <1>6, <2>2, <3>1, <3>2
    <3>4. NumberAt(h, k)' = KeyAt(h, k, learnt'[h], final').seq
        BY DEF NumberAt, KeyAt
    <3>5. d \in Msg /\ final'[d].seq \in Nat
        BY <1>1
    <3> QED
        BY <1>5, <1>6, <3>1, <3>3, <3>4, <3>5 DEF Before
  <2> QED
      BY <2>1, <2>2
<1>7. InOrderOrLate'
    BY <1>6 DEF InOrderOrLate
<1>8. \A g \in Host : \A i \in DOMAIN delivered[g] : delivered'[g][i] = delivered[g][i]
    BY <1>1
<1>9. DeliveredOnce'
  <2> SUFFICES ASSUME NEW g \in Host, NEW i \in DOMAIN delivered'[g],
                      NEW j \in DOMAIN delivered'[g], i < j,
                      delivered'[g][i] = delivered'[g][j]
               PROVE  FALSE
    <3>1. \A g \in Host : DOMAIN delivered'[g] \subseteq Nat
        BY <1>1
    <3> QED
        BY <3>1 DEF DeliveredOnce
  <2>1. /\ DOMAIN delivered[g] = 1 .. Len(delivered[g]) /\ Len(delivered[g]) \in Nat
        /\ i \in 1 .. Len(delivered'[g]) /\ j \in 1 .. Len(delivered'[g])
    <3>1. delivered[g] \in Seq(Msg) /\ delivered'[g] \in Seq(Msg)
        BY <1>1 DEF AgreedInv, Types
    <3> QED
        BY <3>1
  <2>4. i \in 1 .. (j - 1)
      BY <2>1
  <2>2. CASE j \in DOMAIN delivered[g]
    <3>1. i \in DOMAIN delivered[g]
        BY <2>1, <2>2
    <3> QED
        BY <1>8, <2>1, <2>2, <3>1 DEF AgreedInv, DeliveredOnce
  <2>3. CASE j \notin DOMAIN delivered[g]
    <3>1. g = h
        BY <1>1, <2>3
    <3>2. \A c \in 1 .. (j - 1) : delivered'[h][c] # delivered'[h][j]
        BY <1>1, <2>3, <3>1
    <3> QED
        BY <2>4, <3>1, <3>2
  <2> QED
      BY <2>2, <2>3
<1> QED
    BY <1>2, <1>3, <1>4, <1>7, <1>9 DEF AgreedInv

\* Every step keeps the inductive invariant.
LEMMA AgreedNext == AgreedInv /\ [Next]_vars => AgreedInv'
<1> SUFFICES ASSUME AgreedInv, [Next]_vars PROVE AgreedInv'
    OBVIOUS
<1>1. ASSUME NEW h \in Host, NEW m \in Msg, Propose(h, m) PROVE AgreedInv'
    BY <1>1, StepPropose
<1>2. ASSUME NEW h \in Host, NEW m \in Msg, Learn(h, m) PROVE AgreedInv'
  <2>1. /\ final[m].seq # 0
        /\ Deliver(h, m, final')
        /\ UNCHANGED <<proposal, final>>
      BY <1>2 DEF Learn
  <2>2. /\ final' \in [Msg -> [seq : Nat, proposer : Host \cup {Sender(k) : k \in Msg}]]
        /\ \A g \in Host : proposal[g][m] # 0 /\ proposal[g][m] =< final'[m].seq
      BY <2>1 DEF AgreedInv, Types, FinalsAbove
  <2> QED
      BY <2>1, <2>2, StepDeliver
<1>3. ASSUME NEW h \in Host, NEW m \in Msg, Decide(h, m) PROVE AgreedInv'
  <2>1. PICK top \in Host :
          /\ \A p \in Host : proposal[p][m] =< proposal[top][m]
          /\ final' = [final EXCEPT ![m] = Key(proposal[top][m], top)]
      BY <1>3 DEF Decide
  <2>2. /\ final[m].seq = 0
        /\ \A p \in Host : proposal[p][m] # 0
        /\ Deliver(h, m, final')
        /\ UNCHANGED proposal
      BY <1>3 DEF Decide
  <2>3. /\ final \in [Msg -> [seq : Nat, proposer : Host \cup {Sender(k) : k \in Msg}]]
        /\ proposal[top][m] \in Nat
      BY DEF AgreedInv, Types
  <2>4. Key(proposal[top][m], top) \in
          [seq : Nat, proposer : Host \cup {Sender(k) : k \in Msg}]
      BY <2>3 DEF Key
  <2>5. /\ final' \in [Msg -> [seq : Nat, proposer : Host \cup {Sender(k) : k \in Msg}]]
        /\ final'[m] = Key(proposal[top][m], top)
        /\ \A k \in Msg : k # m => final'[k] = final[k]
      BY <2>1, <2>3, <2>4
  <2>6. final'[m].seq = proposal[top][m]
      BY <2>5 DEF Key
  <2> QED
      BY <1>3, <2>1, <2>2, <2>5, <2>6, StepDeliver
<1>4. CASE UNCHANGED vars
    BY <1>4 DEF vars, AgreedInv, Types, FinalsAbove, LearntFirst, InOrderOrLate,
                DeliveredOnce, NumberAt, KeyAt
<1> QED
    BY <1>1, <1>2, <1>3, <1>4 DEF Next

\* The inductive invariant holds of every reachable state.
THEOREM AgreedInvariance == Spec => []AgreedInv
<1> QED
    BY AgreedInit, AgreedNext, PTL DEF Spec

\* A final number is overtaken by late arrivals only.
THEOREM AgreedOrder == Spec => []OvertakenByLateArrivals
<1>1. ASSUME AgreedInv PROVE OvertakenByLateArrivals
  <2> SUFFICES ASSUME NEW h \in Host, NEW j \in DOMAIN delivered[h], NEW i \in 1 .. (j - 1),
                      final[delivered[h][j]].seq < final[delivered[h][i]].seq
               PROVE  proposal[h][delivered[h][i]] =< proposal[h][delivered[h][j]]
      BY DEF OvertakenByLateArrivals
  <2> DEFINE first == delivered[h][i]
             second == delivered[h][j]
  <2>1. /\ DOMAIN delivered[h] = 1 .. Len(delivered[h]) /\ Len(delivered[h]) \in Nat
        /\ i \in DOMAIN delivered[h] /\ \A k \in 1 .. i : k \in DOMAIN delivered[h] /\ k # j
      BY <1>1 DEF AgreedInv, Types
  <2>2. /\ first \in Msg /\ second \in Msg
        /\ second \in learnt[h]
        /\ proposal[h][second] # 0
        /\ final[first].seq \in Nat /\ final[second].seq \in Nat
      BY <1>1, <2>1 DEF AgreedInv, Types, LearntFirst, FinalsAbove
  <2>3. \A k \in 1 .. i : delivered[h][k] # second
      BY <1>1, <2>1 DEF AgreedInv, DeliveredOnce
  <2>4. NumberAt(h, second) = final[second].seq
      BY <2>2 DEF NumberAt, KeyAt
  <2>5. final[first].seq =< NumberAt(h, second) \/ proposal[h][first] =< proposal[h][second]
      BY <1>1, <2>1, <2>2, <2>3 DEF AgreedInv, InOrderOrLate
  <2> QED
      BY <2>2, <2>4, <2>5
<1> QED
    BY <1>1, AgreedInvariance, PTL

=============================================================================
