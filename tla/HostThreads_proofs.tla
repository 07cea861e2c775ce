-------------------------- MODULE HostThreads_proofs --------------------------
(***************************************************************************)
(* Proofs about HostThreads: its threads never wait for one another in a   *)
(* circle and never touch shared memory at the same time, whatever the     *)
(* number of hosts, messages, packets and wake-ups.                        *)
(***************************************************************************)
EXTENDS HostThreadsInv, SequenceTheorems, TLAPS

-----------------------------------------------------------------------------
(***************************************************************************)
(* What is held along a list of instructions.                              *)
(***************************************************************************)

\* Nothing is executed: what is held stays held.
LEMMA HeldFirst ==
    ASSUME NEW s, NEW held \in SUBSET Mutexes
    PROVE  HeldBefore(s, held, 1) = held
    BY DEF HeldBefore, Keeps

\* A part of a list that continues another.
LEMMA KeepsAlong ==
    ASSUME NEW a \in Seq(Instruction), NEW b \in Seq(Instruction), NEW l \in Mutexes,
           NEW k \in 1 .. (Len(b) + 1)
    PROVE  /\ \A i \in 0 .. Len(a) :
                Keeps(a \o b, l, i + 1, Len(a) + k - 1)
                  <=> Keeps(a, l, i + 1, Len(a)) /\ Keeps(b, l, 1, k - 1)
           /\ \A i \in 1 .. (k - 1) :
                Keeps(a \o b, l, Len(a) + i + 1, Len(a) + k - 1) <=> Keeps(b, l, i + 1, k - 1)
<1> DEFINE ab == a \o b
           n == Len(a)
<1>1. /\ n \in Nat /\ Len(b) \in Nat
      /\ \A i \in 1 .. n : ab[i] = a[i]
      /\ \A i \in 1 .. Len(b) : ab[n + i] = b[i]
    OBVIOUS
<1> HIDE DEF ab
<1>2. ASSUME NEW i \in 0 .. n
      PROVE  Keeps(ab, l, i + 1, n + k - 1) <=> Keeps(a, l, i + 1, n) /\ Keeps(b, l, 1, k - 1)
  <2>1. ASSUME Keeps(ab, l, i + 1, n + k - 1)
        PROVE  Keeps(a, l, i + 1, n) /\ Keeps(b, l, 1, k - 1)
    <3>1. ASSUME NEW j \in (i + 1) .. n PROVE a[j] # <<"unlock", l>>
      <4>1. j \in (i + 1) .. (n + k - 1) /\ j \in 1 .. n
          BY <1>1
      <4>2. ab[j] # <<"unlock", l>>
          BY <2>1, <4>1 DEF Keeps
      <4> QED
          BY <1>1, <4>1, <4>2
    <3>2. ASSUME NEW j \in 1 .. (k - 1) PROVE b[j] # <<"unlock", l>>
      <4>1. n + j \in (i + 1) .. (n + k - 1) /\ j \in 1 .. Len(b)
          BY <1>1
      <4> QED
          BY <1>1, <2>1, <4>1 DEF Keeps
    <3> QED
        BY <3>1, <3>2 DEF Keeps
  <2>2. ASSUME Keeps(a, l, i + 1, n), Keeps(b, l, 1, k - 1)
        PROVE  Keeps(ab, l, i + 1, n + k - 1)
    <3> SUFFICES ASSUME NEW j \in (i + 1) .. (n + k - 1) PROVE ab[j] # <<"unlock", l>>
        BY DEF Keeps
    <3>1. CASE j =< n
      <4>1. j \in (i + 1) .. n /\ j \in 1 .. n
          BY <1>1, <3>1
      <4> QED
          BY <1>1, <2>2, <4>1 DEF Keeps
    <3>2. CASE j > n
      <4>1. j - n \in 1 .. (k - 1) /\ j - n \in 1 .. Len(b) /\ n + (j - n) = j
          BY <1>1, <3>2
      <4> QED
          BY <1>1, <2>2, <4>1 DEF Keeps
    <3> QED
        BY <1>1, <3>1, <3>2
  <2> QED
      BY <2>1, <2>2
<1>3. ASSUME NEW i \in 1 .. (k - 1)
      PROVE  Keeps(ab, l, n + i + 1, n + k - 1) <=> Keeps(b, l, i + 1, k - 1)
  <2>1. ASSUME Keeps(ab, l, n + i + 1, n + k - 1), NEW j \in (i + 1) .. (k - 1)
        PROVE  b[j] # <<"unlock", l>>
    <3>1. n + j \in (n + i + 1) .. (n + k - 1) /\ j \in 1 .. Len(b)
        BY <1>1
    <3> QED
        BY <1>1, <2>1, <3>1 DEF Keeps
  <2>2. ASSUME Keeps(b, l, i + 1, k - 1), NEW j \in (n + i + 1) .. (n + k - 1)
        PROVE  ab[j] # <<"unlock", l>>
    <3>1. j - n \in (i + 1) .. (k - 1) /\ j - n \in 1 .. Len(b) /\ n + (j - n) = j
        BY <1>1
    <3> QED
        BY <1>1, <2>2, <3>1 DEF Keeps
  <2> QED
      BY <2>1, <2>2 DEF Keeps
<1> QED
    BY <1>2, <1>3 DEF ab

\* Along a list that continues another, the second starts with what the first
\* ends with.
LEMMA HeldAlong ==
    ASSUME NEW a \in Seq(Instruction), NEW b \in Seq(Instruction), NEW held \in SUBSET Mutexes
    PROVE  /\ \A k \in 1 .. (Len(a) + 1) :
                HeldBefore(a \o b, held, k) = HeldBefore(a, held, k)
           /\ \A k \in 1 .. (Len(b) + 1) :
                HeldBefore(a \o b, held, Len(a) + k)
                  = HeldBefore(b, HeldBefore(a, held, Len(a) + 1), k)
<1> DEFINE ab == a \o b
           n == Len(a)
           mid == HeldBefore(a, held, n + 1)
<1>1. /\ n \in Nat /\ Len(b) \in Nat
      /\ \A i \in 1 .. n : ab[i] = a[i]
      /\ \A i \in 1 .. Len(b) : ab[n + i] = b[i]
    OBVIOUS
<1> HIDE DEF ab
<1>2. ASSUME NEW k \in 1 .. (n + 1)
      PROVE  HeldBefore(ab, held, k) = HeldBefore(a, held, k)
  <2>1. \A i \in 1 .. (k - 1) : i \in 1 .. n
      BY <1>1
  <2>2. \A j \in 1 .. (k - 1) : ab[j] = a[j]
      BY <1>1, <2>1
  <2>3. \A l \in Mutexes : \A i \in 1 .. k : Keeps(ab, l, i, k - 1) <=> Keeps(a, l, i, k - 1)
    <3>1. \A i \in 1 .. k : \A j \in i .. (k - 1) : j \in 1 .. (k - 1)
        OBVIOUS
    <3> QED
        BY <2>2, <3>1 DEF Keeps
  <2>4. 1 \in 1 .. k /\ \A i \in 1 .. (k - 1) : i + 1 \in 1 .. k
      BY <1>1
  <2> QED
      BY <2>2, <2>3, <2>4 DEF HeldBefore
<1>3. ASSUME NEW k \in 1 .. (Len(b) + 1)
      PROVE  HeldBefore(ab, held, n + k) = HeldBefore(b, mid, k)
  <2> SUFFICES ASSUME NEW l \in Mutexes
               PROVE  l \in HeldBefore(ab, held, n + k) <=> l \in HeldBefore(b, mid, k)
      BY DEF HeldBefore
  <2> DEFINE L == <<"lock", l>>
             p == n + k - 1
  <2>1. n + 1 - 1 = n /\ n + k - 1 = p /\ n \in 0 .. n /\ 0 \in 0 .. n /\ 0 + 1 = 1
      BY <1>1
  <2>2. l \in mid <=>
          \/ l \in held /\ Keeps(a, l, 1, n)
          \/ \E i \in 1 .. n : a[i] = L /\ Keeps(a, l, i + 1, n)
    <3> HIDE DEF n
    <3> QED
        BY <2>1 DEF HeldBefore
  <2>3. l \in HeldBefore(b, mid, k) <=>
          \/ l \in mid /\ Keeps(b, l, 1, k - 1)
          \/ \E i \in 1 .. (k - 1) : b[i] = L /\ Keeps(b, l, i + 1, k - 1)
      BY DEF HeldBefore
  <2>4. l \in HeldBefore(ab, held, n + k) <=>
          \/ l \in held /\ Keeps(ab, l, 1, p)
          \/ \E i \in 1 .. p : ab[i] = L /\ Keeps(ab, l, i + 1, p)
    <3> DEFINE q == n + k
    <3>1. q - 1 = p
        BY <2>1
    <3> HIDE DEF p, q
    <3>2. l \in HeldBefore(ab, held, q) <=>
            \/ l \in held /\ Keeps(ab, l, 1, p)
            \/ \E i \in 1 .. p : ab[i] = L /\ Keeps(ab, l, i + 1, p)
        BY <3>1 DEF HeldBefore
    <3> QED
        BY <3>2 DEF q
  <2>5. /\ \A i \in 0 .. n : Keeps(ab, l, i + 1, p)
                               <=> Keeps(a, l, i + 1, n) /\ Keeps(b, l, 1, k - 1)
        /\ \A i \in 1 .. (k - 1) : Keeps(ab, l, n + i + 1, p) <=> Keeps(b, l, i + 1, k - 1)
      BY KeepsAlong DEF ab
  <2>6. (\E i \in 1 .. p : ab[i] = L /\ Keeps(ab, l, i + 1, p)) <=>
          \/ \E i \in 1 .. n : a[i] = L /\ Keeps(ab, l, i + 1, p)
          \/ \E i \in 1 .. (k - 1) : b[i] = L /\ Keeps(ab, l, n + i + 1, p)
    <3>1. ASSUME NEW i \in 1 .. p, ab[i] = L, Keeps(ab, l, i + 1, p), i > n
          PROVE  \E m \in 1 .. (k - 1) : b[m] = L /\ Keeps(ab, l, n + m + 1, p)
      <4>1. i - n \in 1 .. (k - 1) /\ i - n \in 1 .. Len(b) /\ n + (i - n) = i
          BY <1>1, <3>1
      <4> QED
          BY <1>1, <3>1, <4>1
    <3>2. ASSUME NEW i \in 1 .. (k - 1), b[i] = L, Keeps(ab, l, n + i + 1, p)
          PROVE  \E m \in 1 .. p : ab[m] = L /\ Keeps(ab, l, m + 1, p)
      <4>1. n + i \in 1 .. p /\ i \in 1 .. Len(b)
          BY <1>1
      <4> QED
          BY <1>1, <3>2, <4>1
    <3>3. \A i \in 1 .. n : i \in 1 .. p /\ ab[i] = a[i]
        BY <1>1
    <3>4. \A i \in 1 .. p : i > n \/ i \in 1 .. n
        BY <1>1
    <3> QED
        BY <3>1, <3>2, <3>3, <3>4
  <2>7. \A i \in 1 .. n : i \in 0 .. n
      BY <1>1
  <2>8. Keeps(ab, l, 1, p) <=> Keeps(a, l, 1, n) /\ Keeps(b, l, 1, k - 1)
      BY <2>1, <2>5
  <2>9. (\E i \in 1 .. n : a[i] = L /\ Keeps(ab, l, i + 1, p)) <=>
          (\E i \in 1 .. n : a[i] = L /\ Keeps(a, l, i + 1, n)) /\ Keeps(b, l, 1, k - 1)
      BY <2>5, <2>7
  <2>10. (\E i \in 1 .. (k - 1) : b[i] = L /\ Keeps(ab, l, n + i + 1, p)) <=>
          (\E i \in 1 .. (k - 1) : b[i] = L /\ Keeps(b, l, i + 1, k - 1))
      BY <2>5
  <2> HIDE DEF mid, L, p, n
  <2> QED
      BY <2>2, <2>3, <2>4, <2>6, <2>8, <2>9, <2>10
<1> QED
    BY <1>2, <1>3 DEF ab

\* What a thread that holds held holds after instruction i.
After(i, held) ==
    {l \in Mutexes : i = <<"lock", l>> \/ (l \in held /\ i # <<"unlock", l>>)}

-----------------------------------------------------------------------------
(***************************************************************************)
(* Lists that run properly, put together and taken apart.                  *)
(***************************************************************************)

\* Nothing runs, and what is held stays held.
LEMMA RunsNothing ==
    ASSUME NEW held \in SUBSET Mutexes
    PROVE  Runs(<<>>, held, held)
<1>1. Len(<<>>) = 0 /\ 0 + 1 = 1 /\ <<>> \in Seq(Instruction) /\ 1 .. 0 = {}
    OBVIOUS
<1>2. HeldBefore(<<>>, held, 1) = held
    BY HeldFirst
<1> QED
    BY <1>1, <1>2 DEF Runs

\* One instruction runs where what it needs is held, and nothing that it may
\* not meet.
LEMMA RunsOne ==
    ASSUME NEW i \in Instruction, NEW held \in SUBSET Mutexes,
           Needs(i) \subseteq held, held \subseteq May(i)
    PROVE  Runs(<<i>>, held, After(i, held))
<1> DEFINE s == <<i>>
<1>1. Len(s) = 1 /\ s[1] = i /\ s \in Seq(Instruction) /\ 1 + 1 = 2 /\ 1 .. 1 = {1}
    OBVIOUS
<1>2. HeldBefore(s, held, 1) = held
    BY HeldFirst
<1>3. HeldBefore(s, held, 2) = After(i, held)
  <2>1. 2 - 1 = 1 /\ 1 .. 1 = {1} /\ 2 .. 1 = {} /\ 1 + 1 = 2
      OBVIOUS
  <2> HIDE DEF s
  <2> QED
      BY <1>1, <2>1 DEF HeldBefore, After, Keeps
<1> HIDE DEF s
<1>4. Runs(s, held, After(i, held))
    BY <1>1, <1>2, <1>3 DEF Runs
<1> QED
    BY <1>4 DEF s

\* One list runs, and then another from what the first has left.
LEMMA RunsConcat ==
    ASSUME NEW a, NEW b, NEW held \in SUBSET Mutexes, NEW mid, NEW end,
           Runs(a, held, mid), Runs(b, mid, end)
    PROVE  Runs(a \o b, held, end)
<1> DEFINE ab == a \o b
           n == Len(a)
<1>1. a \in Seq(Instruction) /\ b \in Seq(Instruction) /\ mid = HeldBefore(a, held, n + 1)
    BY DEF Runs
<1>2. /\ n \in Nat /\ Len(b) \in Nat /\ ab \in Seq(Instruction) /\ Len(ab) = n + Len(b)
      /\ \A k \in 1 .. n : ab[k] = a[k] /\ k \in 1 .. (n + 1)
      /\ \A k \in 1 .. Len(b) : ab[n + k] = b[k] /\ k \in 1 .. (Len(b) + 1)
    BY <1>1
<1>3. /\ \A k \in 1 .. (n + 1) : HeldBefore(ab, held, k) = HeldBefore(a, held, k)
      /\ \A k \in 1 .. (Len(b) + 1) : HeldBefore(ab, held, n + k) = HeldBefore(b, mid, k)
    BY <1>1, HeldAlong
<1> HIDE DEF ab
<1>4. ASSUME NEW k \in 1 .. Len(ab)
      PROVE  Needs(ab[k]) \subseteq HeldBefore(ab, held, k) /\ HeldBefore(ab, held, k) \subseteq May(ab[k])
  <2>1. CASE k \in 1 .. n
      BY <1>2, <1>3, <2>1 DEF Runs
  <2>2. CASE k \notin 1 .. n
    <3>1. k - n \in 1 .. Len(b) /\ n + (k - n) = k
        BY <1>2, <2>2
    <3>2. ab[k] = b[k - n] /\ HeldBefore(ab, held, k) = HeldBefore(b, mid, k - n)
        BY <1>2, <1>3, <3>1
    <3> QED
        BY <3>1, <3>2 DEF Runs
  <2> QED
      BY <2>1, <2>2
<1>5. HeldBefore(ab, held, Len(ab) + 1) = end
  <2>1. Len(b) + 1 \in 1 .. (Len(b) + 1) /\ Len(ab) + 1 = n + (Len(b) + 1)
      BY <1>2
  <2> QED
      BY <1>3, <2>1 DEF Runs
<1> QED
    BY <1>2, <1>4, <1>5 DEF Runs, ab

\* If two lists run one after the other, so do the first and, from what it
\* leaves, the second.
LEMMA RunsSplit ==
    ASSUME NEW a \in Seq(Instruction), NEW b \in Seq(Instruction),
           NEW held \in SUBSET Mutexes, NEW end, Runs(a \o b, held, end)
    PROVE  /\ Runs(a, held, HeldBefore(a, held, Len(a) + 1))
           /\ Runs(b, HeldBefore(a, held, Len(a) + 1), end)
<1> DEFINE ab == a \o b
           n == Len(a)
           mid == HeldBefore(a, held, n + 1)
<1>2. /\ n \in Nat /\ Len(b) \in Nat /\ ab \in Seq(Instruction) /\ Len(ab) = n + Len(b)
      /\ \A k \in 1 .. n : ab[k] = a[k] /\ k \in 1 .. (n + 1) /\ k \in 1 .. Len(ab)
      /\ \A k \in 1 .. Len(b) : /\ ab[n + k] = b[k] /\ k \in 1 .. (Len(b) + 1)
                                /\ n + k \in 1 .. Len(ab)
    OBVIOUS
<1>3. /\ \A k \in 1 .. (n + 1) : HeldBefore(ab, held, k) = HeldBefore(a, held, k)
      /\ \A k \in 1 .. (Len(b) + 1) : HeldBefore(ab, held, n + k) = HeldBefore(b, mid, k)
    BY HeldAlong
<1> HIDE DEF ab
<1>4. /\ HeldBefore(ab, held, Len(ab) + 1) = end
      /\ \A k \in 1 .. Len(ab) :
           Needs(ab[k]) \subseteq HeldBefore(ab, held, k) /\ HeldBefore(ab, held, k) \subseteq May(ab[k])
    BY DEF Runs, ab
<1>5. Len(b) + 1 \in 1 .. (Len(b) + 1) /\ Len(ab) + 1 = n + (Len(b) + 1)
    BY <1>2
<1> HIDE DEF mid, n
<1>6. HeldBefore(b, mid, Len(b) + 1) = end
    BY <1>3, <1>4, <1>5
<1>7. \A k \in 1 .. n : Needs(a[k]) \subseteq HeldBefore(a, held, k) /\ HeldBefore(a, held, k) \subseteq May(a[k])
    BY <1>2, <1>3, <1>4
<1>8. \A k \in 1 .. Len(b) : Needs(b[k]) \subseteq HeldBefore(b, mid, k) /\ HeldBefore(b, mid, k) \subseteq May(b[k])
    BY <1>2, <1>3, <1>4
<1> QED
    BY <1>6, <1>7, <1>8 DEF Runs, mid, n


\* A critical section runs where the order of the mutexes allows its lock, if
\* its body runs with the mutex and leaves it held.
LEMMA RunsSection ==
    ASSUME NEW l \in Mutexes, NEW held \in SUBSET Mutexes,
           \A h \in held : Rank[h] < Rank[l],
           NEW body, Runs(body, held \cup {l}, held \cup {l})
    PROVE  Runs(Section(l, body), held, held)
<1> DEFINE lock   == <<"lock", l>>
           unlock == <<"unlock", l>>
           inside == held \cup {l}
<1>1. lock \in Instruction /\ unlock \in Instruction
    BY DEF Instruction
<1>2. l \notin held
  <2>1. Rank[l] \in Nat
      BY DEF Rank
  <2> QED
      BY <2>1
<1>3. Needs(lock) = {} /\ Needs(unlock) = {l}
    BY DEF Needs, Touches
<1>4. May(lock) = {h \in Mutexes : Rank[h] < Rank[l]} /\ May(unlock) = Mutexes
    BY DEF May
<1>5. After(lock, held) = inside /\ After(unlock, inside) = held
    BY <1>2 DEF After
<1>6. Runs(<<lock>>, held, inside)
  <2>1. Needs(lock) \subseteq held /\ held \subseteq May(lock)
      BY <1>3, <1>4
  <2>2. Runs(<<lock>>, held, After(lock, held))
      BY <1>1, <2>1, RunsOne
  <2> QED
      BY <2>2, <1>5
<1>7. Runs(<<unlock>>, inside, held)
  <2>1. Needs(unlock) \subseteq inside /\ inside \subseteq May(unlock) /\ inside \in SUBSET Mutexes
      BY <1>3, <1>4
  <2>2. Runs(<<unlock>>, inside, After(unlock, inside))
      BY <1>1, <2>1, RunsOne
  <2> QED
      BY <2>2, <1>5
<1> HIDE DEF lock, unlock, inside
<1>8. Runs(<<lock>> \o body, held, inside)
    BY <1>6, RunsConcat DEF inside
<1>9. Runs((<<lock>> \o body) \o <<unlock>>, held, held)
    BY <1>7, <1>8, RunsConcat
<1> QED
    BY <1>9 DEF Section, lock, unlock

\* An instruction that is neither a lock nor an unlock leaves what is held.
LEMMA RunsPlain ==
    ASSUME NEW i \in Instruction, i[1] \notin {"lock", "unlock"},
           NEW held \in SUBSET Mutexes, Needs(i) \subseteq held, held \subseteq May(i)
    PROVE  Runs(<<i>>, held, held)
<1>1. \A l : i # <<"lock", l>> /\ i # <<"unlock", l>>
    OBVIOUS
<1>2. After(i, held) = held
    BY <1>1 DEF After
<1> QED
    BY <1>2, RunsOne

\* The first instruction of a list that runs, and the rest of the list.
LEMMA RunsFirst ==
    ASSUME NEW s, s # <<>>, NEW held \in SUBSET Mutexes, NEW end, Runs(s, held, end)
    PROVE  /\ Head(s) \in Instruction
           /\ Needs(Head(s)) \subseteq held /\ held \subseteq May(Head(s))
           /\ Tail(s) \in Seq(Instruction)
           /\ Runs(Tail(s), After(Head(s), held), end)
<1>1. s \in Seq(Instruction)
    BY DEF Runs
<1> DEFINE i == Head(s)
<1>2. /\ i = s[1] /\ i \in Instruction /\ Tail(s) \in Seq(Instruction) /\ 1 \in 1 .. Len(s)
      /\ <<i>> \in Seq(Instruction) /\ Len(<<i>>) = 1 /\ <<i>> \o Tail(s) = s
    BY <1>1
<1>3. Needs(i) \subseteq held /\ held \subseteq May(i)
    BY <1>2, HeldFirst DEF Runs
<1>4. Runs(Tail(s), HeldBefore(<<i>>, held, 1 + 1), end)
  <2>1. Runs(<<i>> \o Tail(s), held, end)
      BY <1>2
  <2> HIDE DEF i
  <2> QED
      BY <1>2, <2>1, RunsSplit
<1>5. HeldBefore(<<i>>, held, 1 + 1) = After(i, held)
    BY <1>2, <1>3, RunsOne DEF Runs
<1> QED
    BY <1>2, <1>3, <1>4, <1>5


\* A list cut in two.
LEMMA SplitAt ==
    ASSUME NEW S, NEW s \in Seq(S), NEW n \in 0 .. Len(s)
    PROVE  /\ SubSeq(s, 1, n) \in Seq(S) /\ SubSeq(s, n + 1, Len(s)) \in Seq(S)
           /\ SubSeq(s, 1, n) \o SubSeq(s, n + 1, Len(s)) = s
           /\ Len(SubSeq(s, 1, n)) = n
           /\ \A i \in 1 .. n : SubSeq(s, 1, n)[i] = s[i]
<1> DEFINE N == Len(s)
<1>1. N \in Nat /\ n \in Int /\ 1 \in Int /\ N \in Int /\ n + 1 \in Int
    OBVIOUS
<1>2. (\A i \in 1 .. n : s[i] \in S) /\ (\A i \in (n + 1) .. N : s[i] \in S)
    BY <1>1
<1> HIDE DEF N
<1>3. /\ SubSeq(s, 1, n) \in Seq(S)
      /\ Len(SubSeq(s, 1, n)) = IF 1 =< n THEN n - 1 + 1 ELSE 0
      /\ \A i \in 1 .. n - 1 + 1 : SubSeq(s, 1, n)[i] = s[1 + i - 1]
    BY <1>1, <1>2, SubSeqProperties
<1>4. SubSeq(s, n + 1, N) \in Seq(S)
    BY <1>1, <1>2, SubSeqProperties
<1>5. SubSeq(s, 1, n) \o SubSeq(s, n + 1, N) = SubSeq(s, 1, N)
  <2>1. 1 \in 1 .. Len(s) + 1 /\ n \in 1 - 1 .. Len(s) /\ Len(s) \in n .. Len(s)
      BY <1>1 DEF N
  <2> QED
      BY <2>1, ConcatAdjacentSubSeq DEF N
<1>6. SubSeq(s, 1, N) = s
    BY SubSeqFull DEF N
<1>7. n - 1 + 1 = n /\ (n = 0 \/ 1 =< n) /\ \A i \in 1 .. n : 1 + i - 1 = i
    BY <1>1
<1> QED
    BY <1>3, <1>4, <1>5, <1>6, <1>7 DEF N

\* A list that begins with unlocks: they give back mutexes that are held, and
\* the rest runs with the others.
LEMMA RunsUnlocks ==
    ASSUME NEW a \in Seq(Instruction), NEW b \in Seq(Instruction),
           NEW held \in SUBSET Mutexes, NEW end, Runs(a \o b, held, end),
           \A i \in 1 .. Len(a) : a[i][1] = "unlock"
    PROVE  /\ \A l : (\E i \in 1 .. Len(a) : a[i] = <<"unlock", l>>) => l \in held
           /\ Runs(b, {l \in held : \A i \in 1 .. Len(a) : a[i] # <<"unlock", l>>}, end)
<1> DEFINE n == Len(a)
           left == {l \in held : \A i \in 1 .. n : a[i] # <<"unlock", l>>}
<1>1. n \in Nat /\ n + 1 - 1 = n
    OBVIOUS
<1>2. \A l : \A i \in 1 .. n : a[i] # <<"lock", l>>
    OBVIOUS
<1>3. HeldBefore(a, held, n + 1) = left
  <2> HIDE DEF n
  <2> QED
      BY <1>1, <1>2 DEF HeldBefore, Keeps
<1>4. Runs(a, held, HeldBefore(a, held, n + 1)) /\ Runs(b, HeldBefore(a, held, n + 1), end)
    BY RunsSplit
<1>5. ASSUME NEW l, NEW i \in 1 .. n, a[i] = <<"unlock", l>>
      PROVE  l \in held
  <2>1. l \in Needs(a[i])
      BY <1>5 DEF Needs
  <2>2. l \in HeldBefore(a, held, i)
      BY <2>1, <1>4 DEF Runs
  <2>3. \A j \in 1 .. (i - 1) : j \in 1 .. n
      BY <1>1
  <2> QED
      BY <2>2, <2>3, <1>2 DEF HeldBefore
<1> QED
    BY <1>3, <1>4, <1>5

\* Threads are tuples with a name, and so not None.
LEMMA NoneIsNoThread == None \notin Threads
    BY DEF None, Threads, Main, Receiver, Listener, Watchdogs, DataWatchdogs, AckWatchdogs

\* A thread goes on with instructions that run with what it holds: every thread
\* then runs properly.
LEMMA GoKeeps ==
    ASSUME LocksInv, NEW t \in Threads, todo[t] # <<>>, Head(todo[t])[1] \notin {"lock", "unlock"},
           NEW s, Runs(s, Holding(t), Holding(t)), Go(t, s), Surroundings'
    PROVE  LocksInv'
<1> DEFINE H == Holding(t)
           rest == s \o Tail(todo[t])
<1>1. /\ todo \in [Threads -> Seq(Instruction)] /\ owner \in [Mutexes -> Threads \cup {None}]
      /\ \A u \in Threads : Runs(todo[u], Holding(u), {})
      /\ H \in SUBSET Mutexes
    BY DEF LocksInv, Holding
<1>2. Tail(todo[t]) \in Seq(Instruction) /\ Runs(Tail(todo[t]), H, {})
  <2>1. /\ Tail(todo[t]) \in Seq(Instruction)
        /\ Runs(Tail(todo[t]), After(Head(todo[t]), H), {})
    <3> HIDE DEF H
    <3>1. Runs(todo[t], H, {})
        BY <1>1 DEF H
    <3> QED
        BY <1>1, <3>1, RunsFirst
  <2>2. After(Head(todo[t]), H) = H
      BY <1>1 DEF After
  <2> QED
      BY <2>1, <2>2
<1>3. rest \in Seq(Instruction) /\ Runs(rest, H, {})
  <2>1. s \in Seq(Instruction)
      BY DEF Runs
  <2>2. Runs(rest, H, {})
    <3> HIDE DEF H
    <3> QED
        BY <1>1, <1>2, RunsConcat DEF H
  <2> QED
      BY <1>2, <2>1, <2>2
<1> HIDE DEF rest
<1>4. PICK n \in 0 .. Len(rest) :
          /\ \A i \in 1 .. n : rest[i][1] = "unlock"
          /\ todo' = [todo EXCEPT ![t] = SubSeq(rest, n + 1, Len(rest))]
          /\ owner' = [l \in Mutexes |->
                          IF \E i \in 1 .. n : rest[i] = <<"unlock", l>> THEN None ELSE owner[l]]
    BY DEF Go, rest
<1> DEFINE a == SubSeq(rest, 1, n)
           b == SubSeq(rest, n + 1, Len(rest))
           left == {l \in H : \A i \in 1 .. n : rest[i] # <<"unlock", l>>}
<1>5. /\ a \in Seq(Instruction) /\ b \in Seq(Instruction) /\ a \o b = rest
      /\ Len(a) = n /\ \A i \in 1 .. n : a[i] = rest[i]
    BY <1>3, SplitAt
<1> HIDE DEF a, b, left, H
<1>6. /\ \A l : (\E i \in 1 .. n : rest[i] = <<"unlock", l>>) => l \in H
      /\ Runs(b, left, {})
  <2>1. Runs(a \o b, H, {}) /\ \A i \in 1 .. Len(a) : a[i][1] = "unlock"
      BY <1>3, <1>4, <1>5
  <2>2. /\ \A l : (\E i \in 1 .. Len(a) : a[i] = <<"unlock", l>>) => l \in H
        /\ Runs(b, {l \in H : \A i \in 1 .. Len(a) : a[i] # <<"unlock", l>>}, {})
      BY <1>1, <1>5, <2>1, RunsUnlocks
  <2>3. {l \in H : \A i \in 1 .. Len(a) : a[i] # <<"unlock", l>>} = left
      BY <1>5 DEF left
  <2> QED
      BY <1>5, <2>2, <2>3
<1>7. /\ todo' \in [Threads -> Seq(Instruction)] /\ owner' \in [Mutexes -> Threads \cup {None}]
      /\ todo'[t] = b /\ \A u \in Threads \ {t} : todo'[u] = todo[u]
  <2>1. todo' = [todo EXCEPT ![t] = b]
      BY <1>4 DEF b
  <2>2. todo \in [Threads -> Seq(Instruction)] /\ owner \in [Mutexes -> Threads \cup {None}]
      BY <1>1
  <2>3. todo' \in [Threads -> Seq(Instruction)]
      BY <1>5, <2>1, <2>2
  <2>4. owner' \in [Mutexes -> Threads \cup {None}]
      BY <1>4, <2>2
  <2>5. todo'[t] = b /\ \A u \in Threads \ {t} : todo'[u] = todo[u]
      BY <2>1, <2>2
  <2> QED
      BY <2>3, <2>4, <2>5
<1>8. \A u \in Threads : u # None
    BY NoneIsNoThread
<1>9. Holding(t)' = left
    BY <1>4, <1>8 DEF Holding, left, H
<1>10. ASSUME NEW u \in Threads \ {t} PROVE Holding(u)' = Holding(u)
  <2>1. \A l \in Mutexes : owner[l] = u => ~ \E i \in 1 .. n : rest[i] = <<"unlock", l>>
      BY <1>6 DEF Holding, H
  <2> QED
      BY <1>4, <1>8, <2>1 DEF Holding
<1>11. \A u \in Threads : Runs(todo'[u], Holding(u)', {})
    BY <1>1, <1>6, <1>7, <1>9, <1>10
<1> QED
    BY <1>7, <1>11 DEF LocksInv, Runs, HeldBefore, Keeps


-----------------------------------------------------------------------------
(***************************************************************************)
(* The code of the threads runs with the mutexes it is reached with.       *)
(***************************************************************************)

\* The order of the mutexes.
LEMMA Ranks ==
    /\ \A l \in Mutexes : Rank[l] \in 1 .. 4
    /\ Rank["ackHistory"] = 1 /\ Rank["seqMessageHistory"] = 2 /\ Rank["deliveryQueue"] = 2
    /\ Rank["recordMessages"] = 3 /\ Rank["deliveredMessage"] = 3
    /\ \A b \in Buffers : Rank[b] = 4 /\ b \in Mutexes
    BY DEF Rank, Mutexes, Buffers

\* A watchdog is started, a packet leaves, curr_seq_number is accessed: no
\* mutex is needed, and any may be held.
LEMMA RunsFree ==
    ASSUME NEW i \in Instruction, i[1] \in {"load", "store", "spawn", "sendto", "ack"},
           NEW H \in SUBSET Mutexes
    PROVE  Runs(<<i>>, H, H)
<1>1. Needs(i) = {} /\ May(i) = Mutexes
    BY DEF Needs, Touches, May
<1>2. i[1] \notin {"lock", "unlock"}
    OBVIOUS
<1> QED
    BY <1>1, <1>2, RunsPlain

\* curr_seq_number++
LEMMA RunsIncrement ==
    ASSUME NEW H \in SUBSET Mutexes
    PROVE  Runs(<< <<"load">> >>, H, H) /\ Runs(Increment, H, H)
<1>1. <<"load">> \in Instruction /\ <<"store">> \in Instruction
    BY DEF Instruction
<1>2. Runs(<< <<"load">> >>, H, H) /\ Runs(<< <<"store">> >>, H, H)
    BY <1>1, RunsFree
<1>3. Increment = << <<"load">> >> \o << <<"store">> >>
    BY DEF Increment
<1> QED
    BY <1>2, <1>3, RunsConcat

\* What a send may be reached with.
Sender == {"ackHistory", "seqMessageHistory"}

LEMMA RunsSendMsg ==
    ASSUME NEW type, NEW to, NEW m, Packet(type, to, m) \in Packets, NEW H \in SUBSET Sender
    PROVE  Runs(SendMsg(type, to, m), H, H)
<1> DEFINE i == <<"toss", Packet(type, to, m)>>
<1>1. i \in Instruction
    BY DEF Instruction
<1>2. Needs(i) = {} /\ May(i) = Sender
    BY DEF Needs, Touches, May, Sender
<1>3. H \in SUBSET Mutexes /\ i[1] \notin {"lock", "unlock"}
    BY DEF Sender, Mutexes
<1> HIDE DEF i
<1>4. Runs(<<i>>, H, H)
    BY <1>1, <1>2, <1>3, RunsPlain
<1> QED
    BY <1>4 DEF SendMsg, i

\* The position of the next host is that of another host, or after the last.
LEMMA NextHostIsPeer ==
    ASSUME NEW i \in Nat
    PROVE  /\ NextHost(i) \in Nat \ {0}
           /\ NextHost(i) =< Len(hostNames) => hostNames[NextHost(i)] \in Peers
<1>1. /\ Len(hostNames) \in Nat /\ DOMAIN hostNames = 1 .. Len(hostNames)
      /\ \A j, k \in 1 .. Len(hostNames) : hostNames[j] = hostNames[k] => j = k
    BY HostAssumption DEF IsInjective
<1>2. \A j \in 1 .. Len(hostNames) : hostNames[j] # Me => hostNames[j] \in Peers
    BY <1>1 DEF Peers, Host, Range
<1>3. CASE i < Len(hostNames) /\ hostNames[i + 1] = Me
  <2>1. NextHost(i) = i + 2
      BY <1>3 DEF NextHost
  <2>2. ASSUME i + 2 =< Len(hostNames) PROVE hostNames[i + 2] # Me
    <3>1. i + 1 \in 1 .. Len(hostNames) /\ i + 2 \in 1 .. Len(hostNames) /\ i + 1 # i + 2
        BY <1>1, <2>2
    <3> QED
        BY <1>1, <1>3, <3>1
  <2> QED
      BY <1>1, <1>2, <2>1, <2>2
<1>4. CASE ~ (i < Len(hostNames) /\ hostNames[i + 1] = Me)
  <2>1. NextHost(i) = i + 1
      BY <1>4 DEF NextHost
  <2> QED
      BY <1>1, <1>2, <1>4, <2>1
<1> QED
    BY <1>3, <1>4

\* A broadcast, from any turn on.
LEMMA RunsBroadcast ==
    ASSUME NEW type \in {"DATAMSG", "SEQMSG"}, NEW m \in Own, NEW n \in Nat,
           NEW H \in SUBSET Sender
    PROVE  Runs(BroadcastFrom(type, m, NextHost(n)), H, H)
<1> DEFINE k == NextHost(n)
<1>1. H \in SUBSET Mutexes /\ k \in Nat \ {0} /\ (k =< Len(hostNames) => hostNames[k] \in Peers)
    BY NextHostIsPeer DEF Sender, Mutexes
<1> HIDE DEF k
<1>2. CASE k =< Len(hostNames)
  <2> DEFINE i == <<"broadcast", Packet(type, hostNames[k], m), k>>
  <2>1. k \in 1 .. Len(hostNames)
      BY <1>1, <1>2, HostAssumption
  <2>2. Packet(type, hostNames[k], m) \in Broadcasts
      BY <1>1, <1>2 DEF Packet, Broadcasts
  <2>3. i \in Instruction
      BY <2>1, <2>2 DEF Instruction
  <2>4. Needs(i) = {} /\ May(i) = Sender /\ i[1] \notin {"lock", "unlock"}
      BY DEF Needs, Touches, May, Sender
  <2> HIDE DEF i
  <2>5. Runs(<<i>>, H, H)
      BY <1>1, <2>3, <2>4, RunsPlain
  <2>6. Runs(BroadcastFrom(type, m, k), H, H)
      BY <1>2, <2>5 DEF BroadcastFrom, i
  <2> QED
      BY <2>6 DEF k
<1>3. CASE ~ k =< Len(hostNames)
  <2>1. Runs(BroadcastFrom(type, m, k), H, H)
      BY <1>1, <1>3, RunsNothing DEF BroadcastFrom
  <2> QED
      BY <2>1 DEF k
<1> QED
    BY <1>2, <1>3

\* The body of a section: one access to the memory of its mutex.
LEMMA RunsAccess ==
    ASSUME NEW l \in Mutexes, NEW i \in Instruction, NEW H \in SUBSET Mutexes,
           \A h \in H : Rank[h] < Rank[l],
           i[1] \notin {"lock", "unlock"}, Touches(i) \subseteq {l}, H \cup {l} \subseteq May(i)
    PROVE  Runs(Section(l, <<i>>), H, H)
<1>1. Needs(i) \subseteq H \cup {l} /\ H \cup {l} \in SUBSET Mutexes
    BY DEF Needs
<1>2. Runs(<<i>>, H \cup {l}, H \cup {l})
    BY <1>1, RunsPlain
<1> QED
    BY <1>2, RunsSection


\* A send that is not dropped.
LEMMA RunsSending ==
    ASSUME NEW x \in Packets, NEW H \in SUBSET Sender, NEW sending \in Sendings(x)
    PROVE  Runs(sending, H, H)
<1> DEFINE test == <<"testRecord", "outboundMessageBuffer">>
           send == <<"sendto", x>>
<1>1. /\ H \in SUBSET Mutexes /\ "recordMessages" \in Mutexes
      /\ \A h \in H : Rank[h] < Rank["recordMessages"]
    BY Ranks DEF Sender, Mutexes
<1>2. test \in Instruction /\ send \in Instruction
    BY DEF Instruction, Buffers
<1>3. /\ test[1] \notin {"lock", "unlock"} /\ Touches(test) = {"recordMessages"}
      /\ May(test) = Sender \cup {"recordMessages"}
    BY DEF Touches, May, Sender
<1>4. send[1] = "sendto"
    OBVIOUS
<1> HIDE DEF test, send
<1>5. Runs(Section("recordMessages", <<test>>), H, H)
    BY <1>1, <1>2, <1>3, RunsAccess
<1>6. Runs(<<send>>, H, H)
    BY <1>1, <1>2, <1>4, RunsFree
<1>7. Runs(Section("recordMessages", <<test>>) \o <<send>>, H, H)
    BY <1>1, <1>5, <1>6, RunsConcat
<1>8. Runs(<<>>, H, H)
    BY <1>1, RunsNothing
<1> QED
    BY <1>7, <1>8 DEF Sendings, test, send

\* deliver_msg_from_deliveryqueue, with ackHistory or without.
LEMMA RunsDeliver ==
    ASSUME NEW H \in SUBSET {"ackHistory"}
    PROVE  Runs(Deliver, H, H)
<1> DEFINE deliver == <<"deliver">>
           print   == <<"printDelivered">>
           Q       == H \cup {"deliveryQueue"}
           D       == Q \cup {"deliveredMessage"}
<1>1. /\ H \in SUBSET Mutexes /\ Q \in SUBSET Mutexes /\ D \in SUBSET Mutexes
      /\ "deliveryQueue" \in Mutexes /\ "deliveredMessage" \in Mutexes
      /\ \A h \in H : Rank[h] < Rank["deliveryQueue"]
      /\ \A h \in Q : Rank[h] < Rank["deliveredMessage"]
    BY Ranks DEF Mutexes
<1>2. deliver \in Instruction /\ print \in Instruction
    BY DEF Instruction
<1>3. /\ deliver[1] \notin {"lock", "unlock"} /\ Needs(deliver) \subseteq D
      /\ D \subseteq May(deliver)
    BY <1>1 DEF Needs, Touches, May
<1>4. /\ print[1] \notin {"lock", "unlock"} /\ Needs(print) \subseteq H
      /\ H \subseteq May(print)
    BY DEF Needs, Touches, May
<1> HIDE DEF deliver, print, Q, D
<1>5. Runs(<<deliver>>, D, D)
    BY <1>1, <1>2, <1>3, RunsPlain
<1>6. Runs(Section("deliveredMessage", <<deliver>>), Q, Q)
    BY <1>1, <1>5, RunsSection DEF D
<1>7. Runs(Section("deliveryQueue", Section("deliveredMessage", <<deliver>>)), H, H)
    BY <1>1, <1>6, RunsSection DEF Q
<1>8. Runs(<<print>>, H, H)
    BY <1>1, <1>2, <1>4, RunsPlain
<1>9. Runs(Section("deliveryQueue", Section("deliveredMessage", <<deliver>>)) \o <<print>>, H, H)
    BY <1>1, <1>7, <1>8, RunsConcat
<1> QED
    BY <1>9 DEF Deliver, deliver, print

\* The sections that a handler of messages consists of.
LEMMA RunsSections ==
    ASSUME NEW H \in SUBSET {"ackHistory"}, NEW m \in Msg
    PROVE  /\ Runs(Section("deliveryQueue", << <<"push", m>> >>), H, H)
           /\ Runs(Section("deliveryQueue", << <<"change", m>> >>), H, H)
           /\ Runs(Section("seqMessageHistory", << <<"addSeq", m>> >>), H, H)
<1>1. /\ H \in SUBSET Mutexes /\ "deliveryQueue" \in Mutexes /\ "seqMessageHistory" \in Mutexes
      /\ \A h \in H : Rank[h] < Rank["deliveryQueue"] /\ Rank[h] < Rank["seqMessageHistory"]
    BY Ranks DEF Mutexes
<1> DEFINE push == <<"push", m>>
           change == <<"change", m>>
           addSeq == <<"addSeq", m>>
<1>2. push \in Instruction /\ change \in Instruction /\ addSeq \in Instruction
    BY DEF Instruction
<1>3. /\ push[1] \notin {"lock", "unlock"} /\ change[1] \notin {"lock", "unlock"}
      /\ addSeq[1] \notin {"lock", "unlock"}
      /\ May(push) = Mutexes /\ May(change) = Mutexes /\ May(addSeq) = Mutexes
      /\ Touches(push) = {"deliveryQueue"} /\ Touches(change) = {"deliveryQueue"}
      /\ Touches(addSeq) = {"seqMessageHistory"}
    BY DEF Touches, May
<1> HIDE DEF push, change, addSeq
<1>4. Runs(Section("deliveryQueue", <<push>>), H, H)
    BY <1>1, <1>2, <1>3, RunsAccess
<1>5. Runs(Section("deliveryQueue", <<change>>), H, H)
    BY <1>1, <1>2, <1>3, RunsAccess
<1>6. Runs(Section("seqMessageHistory", <<addSeq>>), H, H)
    BY <1>1, <1>2, <1>3, RunsAccess
<1> QED
    BY <1>4, <1>5, <1>6 DEF push, change, addSeq

\* The rest of handle_ackmsg, under ackHistory.
LEMMA RunsFinalize ==
    ASSUME NEW m \in Own
    PROVE  Runs(Finalize(m), {"ackHistory"}, {"ackHistory"})
<1> DEFINE H == {"ackHistory"}
           a == Section("seqMessageHistory", << <<"addSeq", m>> >>)
           b == BroadcastSeq(m)
           c == Section("deliveryQueue", << <<"change", m>> >>)
<1>1. H \in SUBSET Mutexes /\ H \in SUBSET Sender /\ H \in SUBSET {"ackHistory"} /\ m \in Msg
    BY DEF Mutexes, Sender, Msg
<1>2. Runs(a, H, H) /\ Runs(c, H, H)
    BY <1>1, RunsSections
<1>3. Runs(b, H, H)
    BY <1>1, RunsBroadcast DEF BroadcastSeq
<1>4. Runs(Deliver, H, H)
    BY <1>1, RunsDeliver
<1> HIDE DEF H, a, b, c
<1>5. Runs(a \o b, H, H)
    BY <1>1, <1>2, <1>3, RunsConcat
<1>6. Runs((a \o b) \o c, H, H)
    BY <1>1, <1>2, <1>5, RunsConcat
<1>7. Runs(((a \o b) \o c) \o Deliver, H, H)
    BY <1>1, <1>4, <1>6, RunsConcat
<1> QED
    BY <1>7 DEF Finalize, H, a, b, c

\* multicast_datamsg, and the loop of main that calls it.
LEMMA RunsMulticastDatamsg ==
    ASSUME NEW m \in Own
    PROVE  Runs(MulticastDatamsg(m), {}, {})
<1> DEFINE load == << <<"load">> >>
           propose == <<"proposeOwn", m>>
           p == Section("ackHistory", << <<"proposeOwn", m>> >>)
           q == Section("deliveryQueue", << <<"push", m>> >>)
           b == BroadcastData(m)
<1>1. {} \in SUBSET Mutexes /\ {} \in SUBSET Sender /\ {} \in SUBSET {"ackHistory"} /\ m \in Msg
    BY DEF Msg
<1>2. Runs(load, {}, {}) /\ Runs(Increment, {}, {})
    BY <1>1, RunsIncrement
<1>3. Runs(p, {}, {})
  <2>1. propose \in Instruction /\ "ackHistory" \in Mutexes
      BY DEF Instruction, Mutexes
  <2>2. /\ propose[1] \notin {"lock", "unlock"} /\ Touches(propose) = {"ackHistory"}
        /\ May(propose) = Mutexes
      BY DEF Touches, May
  <2> HIDE DEF propose
  <2>3. Runs(Section("ackHistory", <<propose>>), {}, {})
      BY <1>1, <2>1, <2>2, RunsAccess
  <2> QED
      BY <2>3 DEF propose
<1>4. Runs(q, {}, {})
    BY <1>1, RunsSections
<1>5. Runs(b, {}, {})
    BY <1>1, RunsBroadcast DEF BroadcastData
<1> HIDE DEF load, p, q, b
<1>6. Runs(Increment \o load, {}, {})
    BY <1>1, <1>2, RunsConcat
<1>7. Runs((Increment \o load) \o p, {}, {})
    BY <1>1, <1>3, <1>6, RunsConcat
<1>8. Runs(((Increment \o load) \o p) \o load, {}, {})
    BY <1>1, <1>2, <1>7, RunsConcat
<1>9. Runs((((Increment \o load) \o p) \o load) \o q, {}, {})
    BY <1>1, <1>4, <1>8, RunsConcat
<1>10. Runs(((((Increment \o load) \o p) \o load) \o q) \o b, {}, {})
    BY <1>1, <1>5, <1>9, RunsConcat
<1> QED
    BY <1>10 DEF MulticastDatamsg, load, p, q, b

LEMMA RunsMulticasts ==
    ASSUME NEW n \in Nat
    PROVE  Runs(Multicasts(n), {}, {})
<1>1. CASE n < NumMsgToSend
  <2> DEFINE i == <<"multicast", <<Me, n>> >>
  <2>1. i \in Instruction
    <3>1. n \in 0 .. (NumMsgToSend - 1)
        BY <1>1, MessageAssumption
    <3>2. <<Me, n>> \in Own
        BY <3>1 DEF Own
    <3> QED
        BY <3>2 DEF Instruction
  <2>2. Needs(i) = {} /\ May(i) = {} /\ i[1] \notin {"lock", "unlock"}
      BY DEF Needs, Touches, May
  <2> HIDE DEF i
  <2>3. Runs(<<i>>, {}, {})
      BY <2>1, <2>2, RunsPlain
  <2> QED
      BY <1>1, <2>3 DEF Multicasts, i
<1>2. CASE ~ n < NumMsgToSend
    BY <1>2, RunsNothing DEF Multicasts
<1> QED
    BY <1>1, <1>2


\* The handlers of the receiver, which holds nothing when a packet arrives.
LEMMA RunsHandleDatamsg ==
    ASSUME NEW m \in Foreign
    PROVE  Runs(HandleDatamsg(m), {}, {})
<1> DEFINE load == << <<"load">> >>
           push == Section("deliveryQueue", << <<"push", m>> >>)
           ack  == << <<"ack", m>> >>
           send == SendMsg("ACKMSG", Asker, m)
           spawn == << <<"spawn", <<"ack", m>> >> >>
<1>1. {} \in SUBSET Mutexes /\ {} \in SUBSET Sender /\ {} \in SUBSET {"ackHistory"} /\ m \in Msg
    BY DEF Msg
<1>2. Runs(load, {}, {}) /\ Runs(Increment, {}, {})
    BY <1>1, RunsIncrement
<1>3. Runs(push, {}, {})
    BY <1>1, RunsSections
<1>4. Runs(ack, {}, {}) /\ Runs(spawn, {}, {})
  <2>1. <<"ack", m>> \in Instruction
      BY DEF Instruction
  <2>2. <<"spawn", <<"ack", m>> >> \in Instruction
    <3>1. <<"ack", m>> \in Watchdogs
        BY DEF Watchdogs, AckWatchdogs
    <3> QED
        BY <3>1 DEF Instruction
  <2> QED
      BY <1>1, <2>1, <2>2, RunsFree
<1>5. Runs(send, {}, {})
  <2>1. Packet("ACKMSG", Asker, m) \in Packets
      BY DEF Packet, Packets
  <2> QED
      BY <1>1, <2>1, RunsSendMsg
<1>6. << <<"load">>, <<"ack", m>> >> = load \o ack
    OBVIOUS
<1> HIDE DEF load, push, ack, send, spawn
<1>7. Runs(load \o push, {}, {})
    BY <1>1, <1>2, <1>3, RunsConcat
<1>8. Runs(load \o ack, {}, {})
    BY <1>1, <1>2, <1>4, RunsConcat
<1>9. Runs((load \o push) \o (load \o ack), {}, {})
    BY <1>1, <1>7, <1>8, RunsConcat
<1>10. Runs(((load \o push) \o (load \o ack)) \o send, {}, {})
    BY <1>1, <1>5, <1>9, RunsConcat
<1>11. Runs((((load \o push) \o (load \o ack)) \o send) \o Increment, {}, {})
    BY <1>1, <1>2, <1>10, RunsConcat
<1>12. Runs(((((load \o push) \o (load \o ack)) \o send) \o Increment) \o spawn, {}, {})
    BY <1>1, <1>4, <1>11, RunsConcat
<1>13. ProposeFor(m) = ((((load \o push) \o (load \o ack)) \o send) \o Increment) \o spawn
    BY <1>6 DEF ProposeFor, load, push, send, spawn
<1> QED
    BY <1>5, <1>12, <1>13 DEF HandleDatamsg, send

LEMMA RunsHandleAckmsg ==
    ASSUME NEW m \in Own, NEW p \in Peers
    PROVE  Runs(HandleAckmsg(m, p), {}, {})
<1> DEFINE i == <<"checkAck", m, p>>
<1>1. {} \in SUBSET Mutexes /\ "ackHistory" \in Mutexes /\ i \in Instruction
    BY DEF Mutexes, Instruction
<1>2. i[1] \notin {"lock", "unlock"} /\ Touches(i) = {"ackHistory"} /\ May(i) = {"ackHistory"}
    BY DEF Touches, May
<1> HIDE DEF i
<1>3. Runs(Section("ackHistory", <<i>>), {}, {})
    BY <1>1, <1>2, RunsAccess
<1> QED
    BY <1>3 DEF HandleAckmsg, i

LEMMA RunsHandleSeqmsg ==
    ASSUME NEW m \in Foreign
    PROVE  Runs(HandleSeqmsg(m), {}, {}) /\ Runs(ApplySeq(m), {}, {})
<1> DEFINE a == Section("deliveryQueue", << <<"change", m>> >>)
           check == <<"checkDelivered", m>>
           apply == <<"apply", m>>
           d == Section("seqMessageHistory", << <<"addSeq", m>> >>)
<1>1. {} \in SUBSET Mutexes /\ {} \in SUBSET {"ackHistory"} /\ m \in Msg
    BY DEF Msg
<1>2. Runs(a, {}, {}) /\ Runs(d, {}, {})
    BY <1>1, RunsSections
<1>3. check \in Instruction /\ apply \in Instruction /\ "deliveredMessage" \in Mutexes
    BY DEF Instruction, Mutexes
<1>4. /\ check[1] \notin {"lock", "unlock"} /\ apply[1] \notin {"lock", "unlock"}
      /\ Touches(check) = {"deliveredMessage"} /\ May(check) = Mutexes
      /\ Needs(apply) = {} /\ May(apply) = {}
    BY DEF Needs, Touches, May
<1> HIDE DEF a, check, apply, d
<1>5. Runs(Section("deliveredMessage", <<check>>), {}, {})
    BY <1>1, <1>3, <1>4, RunsAccess
<1>6. Runs(<<apply>>, {}, {})
    BY <1>1, <1>3, <1>4, RunsPlain
<1>7. Runs(a \o Section("deliveredMessage", <<check>>), {}, {})
    BY <1>1, <1>2, <1>5, RunsConcat
<1>8. Runs((a \o Section("deliveredMessage", <<check>>)) \o <<apply>>, {}, {})
    BY <1>1, <1>6, <1>7, RunsConcat
<1>9. Runs(d \o Deliver, {}, {})
    BY <1>1, <1>2, RunsDeliver, RunsConcat
<1> QED
    BY <1>8, <1>9 DEF HandleSeqmsg, ApplySeq, a, check, apply, d

\* A wake-up of a watchdog.
LEMMA RunsWatchdogs ==
    /\ \A m \in Own, p \in Peers : Runs(DatamsgWatchdog(m, p), {}, {})
    /\ \A m \in Foreign : Runs(AckmsgWatchdog(m), {}, {})
<1>1. {} \in SUBSET Mutexes /\ "ackHistory" \in Mutexes /\ "seqMessageHistory" \in Mutexes
    BY DEF Mutexes
<1>2. ASSUME NEW m \in Own, NEW p \in Peers
      PROVE  Runs(DatamsgWatchdog(m, p), {}, {})
  <2> DEFINE i == <<"checkAcked", m, p>>
  <2>1. i \in Instruction
      BY DEF Instruction
  <2>2. i[1] \notin {"lock", "unlock"} /\ Touches(i) = {"ackHistory"} /\ May(i) = {"ackHistory"}
      BY DEF Touches, May
  <2> HIDE DEF i
  <2>3. Runs(Section("ackHistory", <<i>>), {}, {})
      BY <1>1, <2>1, <2>2, RunsAccess
  <2> QED
      BY <2>3 DEF DatamsgWatchdog, i
<1>3. ASSUME NEW m \in Foreign
      PROVE  Runs(AckmsgWatchdog(m), {}, {})
  <2> DEFINE i == <<"checkSeq", m>>
  <2>1. i \in Instruction
      BY DEF Instruction
  <2>2. /\ i[1] \notin {"lock", "unlock"} /\ Touches(i) = {"seqMessageHistory"}
        /\ May(i) = {"seqMessageHistory"}
      BY DEF Touches, May
  <2> HIDE DEF i
  <2>3. Runs(Section("seqMessageHistory", <<i>>), {}, {})
      BY <1>1, <2>1, <2>2, RunsAccess
  <2>4. Packet("ACKMSG", m[1], m) \in Packets
    <3>1. m[1] \in Host
        BY MessageAssumption DEF Peers
    <3> QED
        BY <3>1 DEF Packet, Packets
  <2>5. Runs(SendMsg("ACKMSG", m[1], m), {}, {})
      BY <2>4, RunsSendMsg
  <2>6. Runs(Section("seqMessageHistory", <<i>>) \o SendMsg("ACKMSG", m[1], m), {}, {})
      BY <1>1, <2>3, <2>5, RunsConcat
  <2> QED
      BY <2>6 DEF AckmsgWatchdog, i
<1> QED
    BY <1>2, <1>3

\* The listener of the snapshot, after any marker.
LEMMA RunsHandleMarker ==
    ASSUME NEW n \in Nat
    PROVE  Runs(HandleMarker(n), {}, {})
<1> DEFINE simple(i) ==
        /\ i \in Instruction /\ i[1] \notin {"lock", "unlock"} /\ May(i) = Mutexes
<1>1. {} \in SUBSET Mutexes
    OBVIOUS
<1>2. ASSUME NEW l \in Mutexes, NEW i, simple(i), Touches(i) = {l}
      PROVE  Runs(Section(l, <<i>>), {}, {})
    BY <1>1, <1>2, RunsAccess
<1>3. /\ simple(<<"copyQueue">>) /\ simple(<<"copyDelivered">>)
      /\ simple(<<"record", TRUE>>) /\ simple(<<"record", FALSE>>)
      /\ simple(<<"drain", "inboundMessageBuffer">>) /\ simple(<<"drain", "outboundMessageBuffer">>)
    BY DEF Instruction, Buffers, May
<1>4. /\ Touches(<<"copyQueue">>) = {"deliveryQueue"}
      /\ Touches(<<"copyDelivered">>) = {"deliveredMessage"}
      /\ \A b : Touches(<<"record", b>>) = {"recordMessages"}
      /\ \A b : Touches(<<"drain", b>>) = {b}
    BY DEF Touches
<1>5. {"deliveryQueue", "deliveredMessage", "recordMessages",
       "inboundMessageBuffer", "outboundMessageBuffer"} \subseteq Mutexes
    BY DEF Mutexes
<1> DEFINE a == Section("deliveryQueue", << <<"copyQueue">> >>)
           b == Section("deliveredMessage", << <<"copyDelivered">> >>)
           c == Section("recordMessages", << <<"record", TRUE>> >>)
           d == Section("inboundMessageBuffer", << <<"drain", "inboundMessageBuffer">> >>)
           e == Section("outboundMessageBuffer", << <<"drain", "outboundMessageBuffer">> >>)
           f == Section("recordMessages", << <<"record", FALSE>> >>)
<1> HIDE DEF simple
<1>6. Runs(a, {}, {}) /\ Runs(b, {}, {}) /\ Runs(c, {}, {})
    BY <1>2, <1>3, <1>4, <1>5
<1>7. Runs(d, {}, {}) /\ Runs(e, {}, {}) /\ Runs(f, {}, {}) /\ Runs(<<>>, {}, {})
    BY <1>1, <1>2, <1>3, <1>4, <1>5, RunsNothing
<1> HIDE DEF a, b, c, d, e, f
<1> DEFINE first == (a \o b) \o c
           later == d \o e
<1>8. Runs(a \o b, {}, {}) /\ Runs(later, {}, {})
    BY <1>1, <1>6, <1>7, RunsConcat
<1>9. Runs(first, {}, {})
    BY <1>1, <1>6, <1>8, RunsConcat
<1> HIDE DEF first, later
<1>10. HandleMarker(n) =
         (IF n = 1 THEN first ELSE later) \o (IF n = Len(hostNames) - 1 THEN f ELSE <<>>)
    BY DEF HandleMarker, CopyState, first, later, a, b, c, d, e, f
<1>11. \A x, y : Runs(x, {}, {}) /\ Runs(y, {}, {}) => Runs(x \o y, {}, {})
    BY <1>1, RunsConcat
<1> QED
    BY <1>7, <1>8, <1>9, <1>10, <1>11


-----------------------------------------------------------------------------
(***************************************************************************)
(* Every step keeps the threads running properly.                          *)
(***************************************************************************)

\* The arguments of an instruction.
LEMMA Arguments ==
    ASSUME NEW i \in Instruction
    PROVE  /\ i[1] \in {"lock", "unlock"} => i[2] \in Mutexes /\ i = <<i[1], i[2]>>
           /\ i[1] \in {"testRecord", "pushBuffer", "drain"} => i[2] \in Buffers
           /\ i[1] = "record" => i[2] \in BOOLEAN
           /\ i[1] = "spawn" => i[2] \in Watchdogs
           /\ i[1] \in {"toss", "sendto"} => i[2] \in Packets
           /\ i[1] = "broadcast" => i[2] \in Broadcasts /\ i[3] \in 1 .. Len(hostNames)
           /\ i[1] \in {"multicast", "proposeOwn", "resend"} => i[2] \in Own
           /\ i[1] \in {"checkAck", "collect", "checkAcked"} => i[2] \in Own /\ i[3] \in Peers
           /\ i[1] \in {"ack", "checkSeq", "checkDelivered", "apply"} => i[2] \in Foreign
           /\ i[1] \in {"push", "addSeq", "change"} => i[2] \in Msg
    BY DEF Instruction

\* Where a thread stands: at an instruction it has the mutexes for.
LEMMA Standing ==
    ASSUME LocksInv, NEW t \in Threads, NEW op, At(t, op)
    PROVE  /\ todo[t] # <<>> /\ Head(todo[t]) \in Instruction /\ Head(todo[t])[1] = op
           /\ Tail(todo[t]) \in Seq(Instruction)
           /\ Holding(t) \in SUBSET Mutexes
           /\ Needs(Head(todo[t])) \subseteq Holding(t)
           /\ Holding(t) \subseteq May(Head(todo[t]))
           /\ Runs(Tail(todo[t]), After(Head(todo[t]), Holding(t)), {})
<1>1. todo[t] # <<>> /\ Head(todo[t])[1] = op /\ Runs(todo[t], Holding(t), {})
    BY DEF At, LocksInv
<1>2. Holding(t) \in SUBSET Mutexes
    BY DEF Holding
<1> QED
    BY <1>1, <1>2, RunsFirst

\* A step of t that only executes an instruction of its list.
LEMMA GoOn ==
    ASSUME LocksInv, NEW t \in Threads, NEW op, op \notin {"lock", "unlock"}, At(t, op),
           Go(t, <<>>), Surroundings'
    PROVE  LocksInv'
<1>1. todo[t] # <<>> /\ Head(todo[t])[1] \notin {"lock", "unlock"} /\ Holding(t) \in SUBSET Mutexes
    BY Standing
<1>2. Runs(<<>>, Holding(t), Holding(t))
    BY <1>1, RunsNothing
<1> QED
    BY <1>1, <1>2, GoKeeps

\* A step of t that puts the instructions s before the rest of its list.
LEMMA GoOnWith ==
    ASSUME LocksInv, NEW t \in Threads, NEW op, op \notin {"lock", "unlock"}, At(t, op),
           NEW s, Runs(s, Holding(t), Holding(t)), Go(t, s), Surroundings'
    PROVE  LocksInv'
<1>1. todo[t] # <<>> /\ Head(todo[t])[1] \notin {"lock", "unlock"}
    BY Standing
<1> QED
    BY <1>1, GoKeeps

\* A lock is taken.
LEMMA LockKeeps ==
    ASSUME LocksInv, NEW t \in Threads, Lock(t)
    PROVE  LocksInv'
<1> DEFINE l == Arg(t)
           H == Holding(t)
<1>1. /\ At(t, "lock") /\ owner[l] = None
      /\ owner' = [owner EXCEPT ![l] = t] /\ todo' = [todo EXCEPT ![t] = Tail(todo[t])]
      /\ Surroundings'
    BY DEF Lock, LocksInv, Surroundings, memory, settings, Packets
<1>2. /\ todo[t] # <<>> /\ Head(todo[t]) \in Instruction /\ Head(todo[t])[1] = "lock"
      /\ Tail(todo[t]) \in Seq(Instruction) /\ H \in SUBSET Mutexes
      /\ Runs(Tail(todo[t]), After(Head(todo[t]), H), {})
    BY <1>1, Standing
<1>3. l \in Mutexes /\ Head(todo[t]) = <<"lock", l>>
    BY <1>2, Arguments DEF Arg
<1>4. After(Head(todo[t]), H) = H \cup {l}
    BY <1>2, <1>3 DEF After
<1>5. \A u \in Threads : u # None
    BY NoneIsNoThread
<1> HIDE DEF l
<1>6. /\ todo \in [Threads -> Seq(Instruction)] /\ owner \in [Mutexes -> Threads \cup {None}]
      /\ \A u \in Threads : Runs(todo[u], Holding(u), {})
    BY DEF LocksInv
<1>7. todo' \in [Threads -> Seq(Instruction)] /\ owner' \in [Mutexes -> Threads \cup {None}]
    BY <1>1, <1>2, <1>3, <1>6
<1>8. Holding(t)' = H \cup {l} /\ \A u \in Threads \ {t} : Holding(u)' = Holding(u)
    BY <1>1, <1>3, <1>5, <1>6 DEF Holding
<1>9. todo'[t] = Tail(todo[t]) /\ \A u \in Threads \ {t} : todo'[u] = todo[u]
    BY <1>1, <1>6
<1> HIDE DEF H
<1>10. \A u \in Threads : Runs(todo'[u], Holding(u)', {})
    BY <1>2, <1>4, <1>6, <1>8, <1>9
<1> QED
    BY <1>1, <1>7, <1>10 DEF LocksInv, Runs, HeldBefore, Keeps

\* An ackmsg_watchdog that finds the final number returns, and gives back the
\* one mutex it holds.
LEMMA CheckSeqKeeps ==
    ASSUME LocksInv, NEW t \in Threads, CheckSeq(t)
    PROVE  LocksInv'
<1> DEFINE l == "seqMessageHistory"
<1>1. At(t, "checkSeq") /\ Surroundings'
    BY DEF CheckSeq, LocksInv, Surroundings, memory, settings, Packets
<1>2. CASE Go(t, <<>>)
    BY <1>1, <1>2, GoOn
<1>3. CASE todo' = [todo EXCEPT ![t] = <<>>] /\ owner' = [owner EXCEPT ![l] = None]
  <2>1. Holding(t) = {l}
    <3>1. Head(todo[t])[1] = "checkSeq"
        BY <1>1, Standing
    <3>2. Needs(Head(todo[t])) = {l} /\ May(Head(todo[t])) = {l}
        BY <3>1 DEF Needs, Touches, May
    <3>3. Needs(Head(todo[t])) \subseteq Holding(t) /\ Holding(t) \subseteq May(Head(todo[t]))
        BY <1>1, Standing
    <3> QED
        BY <3>2, <3>3
  <2>2. \A u \in Threads : u # None
      BY NoneIsNoThread
  <2>3. /\ todo \in [Threads -> Seq(Instruction)] /\ owner \in [Mutexes -> Threads \cup {None}]
        /\ \A u \in Threads : Runs(todo[u], Holding(u), {})
        /\ l \in Mutexes /\ <<>> \in Seq(Instruction)
      BY DEF LocksInv, Mutexes
  <2>4. todo' \in [Threads -> Seq(Instruction)] /\ owner' \in [Mutexes -> Threads \cup {None}]
      BY <1>3, <2>3
  <2>5. Holding(t)' = {} /\ \A u \in Threads \ {t} : Holding(u)' = Holding(u)
      BY <1>3, <2>1, <2>2, <2>3 DEF Holding
  <2>6. todo'[t] = <<>> /\ \A u \in Threads \ {t} : todo'[u] = todo[u]
      BY <1>3, <2>3
  <2>7. Runs(<<>>, {}, {})
      BY RunsNothing
  <2>8. \A u \in Threads : Runs(todo'[u], Holding(u)', {})
      BY <2>3, <2>5, <2>6, <2>7
  <2> QED
      BY <1>1, <2>4, <2>8 DEF LocksInv, Runs, HeldBefore, Keeps
<1> QED
    BY <1>2, <1>3 DEF CheckSeq


\* Steps that execute one instruction of the list.
LEMMA PlainStepsKeep ==
    ASSUME LocksInv, NEW t \in Threads,
           \/ Load(t) \/ Store(t) \/ Spawn(t) \/ ProposeOwn(t) \/ Ack(t) \/ AddSeq(t)
           \/ Push(t) \/ Change(t) \/ CheckDelivered(t) \/ DeliverNoMore(t) \/ Access(t) \/ Record(t)
    PROVE  LocksInv'
<1>1. PICK op : op \notin {"lock", "unlock"} /\ At(t, op)
    BY DEF Load, Store, Spawn, ProposeOwn, Ack, AddSeq, Push, Change, CheckDelivered,
           DeliverNoMore, Access, Record
<1>2. Go(t, <<>>)
    BY DEF Load, Store, Spawn, ProposeOwn, Ack, AddSeq, Push, Change, CheckDelivered,
           DeliverNoMore, Access, Record
<1>3. UNCHANGED <<sent, their_addr, markers>>
    BY DEF Load, Store, Spawn, ProposeOwn, Ack, AddSeq, Push, Change, CheckDelivered,
           DeliverNoMore, Access, Record, memory, settings
<1>4. Surroundings'
    BY <1>3 DEF LocksInv, Surroundings, Packets
<1> QED
    BY <1>1, <1>2, <1>4, GoOn

\* A packet reaches the socket.
LEMMA SendToKeeps ==
    ASSUME LocksInv, NEW t \in Threads, SendTo(t)
    PROVE  LocksInv'
<1>1. At(t, "sendto") /\ Go(t, <<>>)
    BY DEF SendTo
<1>2. Arg(t) \in Packets
    BY <1>1, Standing, Arguments DEF Arg
<1>3. their_addr \in Host \cup {Asker} /\ sent \subseteq Packets
    BY DEF LocksInv, Surroundings, Peers
<1> DEFINE x == [Arg(t) EXCEPT !.to = IF @ = Asker THEN their_addr ELSE @]
<1>4. x \in Packets
    BY <1>2, <1>3 DEF Packets
<1>5. sent' = sent \cup {x} /\ UNCHANGED <<their_addr, markers>>
    BY DEF SendTo, settings
<1>6. Surroundings'
    BY <1>4, <1>5 DEF LocksInv, Surroundings, Packets
<1> QED
    BY <1>1, <1>6, GoOn

\* What a thread holds at the instructions that lead to further sections.
LEMMA HoldingAt ==
    ASSUME LocksInv, NEW t \in Threads, NEW op, At(t, op)
    PROVE  /\ op \in {"multicast", "apply"} => Holding(t) = {}
           /\ op \in {"checkAck", "collect", "checkAcked"} => Holding(t) = {"ackHistory"}
           /\ op = "printDelivered" => Holding(t) \in SUBSET {"ackHistory"}
           /\ op \in {"toss", "broadcast", "resend"} => Holding(t) \in SUBSET Sender
           /\ op = "testRecord" => Holding(t) \in SUBSET (Sender \cup {"recordMessages"})
<1> DEFINE i == Head(todo[t])
<1>1. i[1] = op /\ Needs(i) \subseteq Holding(t) /\ Holding(t) \subseteq May(i)
    BY Standing
<1> HIDE DEF i
<1>2. op \in {"multicast", "apply"} => May(i) = {}
    BY <1>1 DEF May
<1>3. op \in {"checkAck", "collect", "checkAcked"} =>
        May(i) = {"ackHistory"} /\ Needs(i) = {"ackHistory"}
    BY <1>1 DEF May, Needs, Touches
<1>4. op = "printDelivered" => May(i) = {"ackHistory"}
    BY <1>1 DEF May
<1>5. op \in {"toss", "broadcast", "resend"} => May(i) = Sender
    BY <1>1 DEF May, Sender
<1>6. op = "testRecord" => May(i) = Sender \cup {"recordMessages"}
    BY <1>1 DEF May, Sender
<1> QED
    BY <1>1, <1>2, <1>3, <1>4, <1>5, <1>6

\* Steps that go on with further instructions.
LEMMA CallsKeep ==
    ASSUME LocksInv, NEW t \in Threads,
           \/ Multicast(t) \/ Toss(t) \/ Broadcast(t) \/ TestRecord(t) \/ CheckAck(t) \/ Collect(t)
           \/ Resend(t) \/ CheckAcked(t) \/ Apply(t) \/ PrintDelivered(t)
    PROVE  LocksInv'
<1> DEFINE i == Head(todo[t])
           H == Holding(t)
<1>1. Surroundings'
  <2>1. UNCHANGED <<sent, their_addr, markers>>
      BY DEF Multicast, Toss, Broadcast, TestRecord, CheckAck, Collect, Resend, CheckAcked,
             Apply, PrintDelivered, memory, settings
  <2> QED
      BY <2>1 DEF LocksInv, Surroundings, Packets
<1>2. \A op : At(t, op) => i \in Instruction /\ i[1] = op /\ H \in SUBSET Mutexes
    BY Standing
<1>3. CASE Multicast(t)
  <2>1. At(t, "multicast") /\ Go(t, MulticastDatamsg(i[2]) \o Multicasts(i[2][2] + 1))
      BY <1>3 DEF Multicast, Arg
  <2>2. H = {} /\ i[2] \in Own
      BY <1>2, <2>1, HoldingAt, Arguments
  <2>3. i[2][2] + 1 \in Nat
      BY <2>2, MessageAssumption DEF Own
  <2>4. Runs(MulticastDatamsg(i[2]), {}, {}) /\ Runs(Multicasts(i[2][2] + 1), {}, {})
      BY <2>2, <2>3, RunsMulticastDatamsg, RunsMulticasts
  <2>5. Runs(MulticastDatamsg(i[2]) \o Multicasts(i[2][2] + 1), {}, {})
    <3>1. {} \in SUBSET Mutexes
        OBVIOUS
    <3> QED
        BY <2>4, <3>1, RunsConcat
  <2> QED
      BY <1>1, <2>1, <2>2, <2>5, GoOnWith
<1>4. CASE Toss(t)
  <2>1. At(t, "toss") /\ \E sending \in Sendings(i[2]) : Go(t, sending)
      BY <1>4 DEF Toss, Arg
  <2>2. H \in SUBSET Sender /\ i[2] \in Packets
      BY <1>2, <2>1, HoldingAt, Arguments
  <2>3. PICK sending \in Sendings(i[2]) : Go(t, sending)
      BY <2>1
  <2>4. Runs(sending, H, H)
      BY <2>2, RunsSending
  <2> QED
      BY <1>1, <2>1, <2>3, <2>4, GoOnWith
<1>5. CASE Broadcast(t)
  <2> DEFINE x == i[2]
             watchdog == IF x.type = "DATAMSG" THEN << <<"spawn", <<"data", x.msg, x.to>> >> >>
                         ELSE <<>>
             more == BroadcastFrom(x.type, x.msg, NextHost(i[3]))
  <2>1. At(t, "broadcast") /\ \E sending \in Sendings(x) : Go(t, sending \o watchdog \o more)
      BY <1>5 DEF Broadcast, Arg
  <2>2. /\ H \in SUBSET Sender /\ H \in SUBSET Mutexes
        /\ x \in Broadcasts /\ i[3] \in Nat
      BY <1>2, <2>1, HoldingAt, Arguments
  <2>3. PICK sending \in Sendings(x) : Go(t, sending \o watchdog \o more)
      BY <2>1
  <2>4. /\ x.type \in {"DATAMSG", "SEQMSG"} /\ x.to \in Peers /\ x.msg \in Own /\ x \in Packets
      BY <2>2 DEF Broadcasts, Packets, Peers
  <2>5. Runs(sending, H, H) /\ Runs(more, H, H)
    <3> HIDE DEF x, H
    <3> QED
        BY <2>2, <2>4, RunsSending, RunsBroadcast
  <2>6. Runs(watchdog, H, H)
    <3> DEFINE s == <<"spawn", <<"data", x.msg, x.to>> >>
    <3>1. s \in Instruction
      <4>1. <<"data", x.msg, x.to>> \in Watchdogs
          BY <2>4 DEF Watchdogs, DataWatchdogs
      <4> QED
          BY <4>1 DEF Instruction
    <3>2. s[1] = "spawn"
        OBVIOUS
    <3> HIDE DEF s
    <3>3. Runs(<<s>>, H, H) /\ Runs(<<>>, H, H)
        BY <2>2, <3>1, <3>2, RunsFree, RunsNothing
    <3> QED
        BY <3>3 DEF s
  <2> HIDE DEF watchdog, more, x, H, i
  <2>7. Runs(sending \o watchdog, H, H)
      BY <2>2, <2>5, <2>6, RunsConcat
  <2>8. Runs((sending \o watchdog) \o more, H, H)
      BY <2>2, <2>5, <2>7, RunsConcat
  <2> QED
      BY <1>1, <2>1, <2>3, <2>8, GoOnWith DEF H
<1>6. CASE TestRecord(t)
  <2>1. /\ At(t, "testRecord")
        /\ Go(t, IF recordMessages THEN Section(i[2], << <<"pushBuffer", i[2]>> >>) ELSE <<>>)
      BY <1>6 DEF TestRecord, Arg
  <2>2. H \in SUBSET (Sender \cup {"recordMessages"}) /\ H \in SUBSET Mutexes /\ i[2] \in Buffers
      BY <1>2, <2>1, HoldingAt, Arguments
  <2> DEFINE push == <<"pushBuffer", i[2]>>
  <2>3. i[2] \in Mutexes /\ \A h \in H : Rank[h] < Rank[i[2]]
      BY <2>2, Ranks DEF Sender
  <2>4. push \in Instruction
      BY <2>2 DEF Instruction
  <2>5. push[1] \notin {"lock", "unlock"} /\ Touches(push) = {i[2]} /\ May(push) = Mutexes
      BY DEF Touches, May
  <2> HIDE DEF push, H, i
  <2>6. Runs(Section(i[2], <<push>>), H, H) /\ Runs(<<>>, H, H)
      BY <2>2, <2>3, <2>4, <2>5, RunsAccess, RunsNothing
  <2> QED
      BY <1>1, <2>1, <2>6, GoOnWith DEF push, H
<1>7. CASE CheckAck(t)
  <2> DEFINE m == i[2]
             p == i[3]
  <2>1. /\ At(t, "checkAck")
        /\ Go(t, IF ackHistory[m][p] = 0 THEN Increment \o << <<"collect", m, p>> >>
                 ELSE IF Complete(ackHistory[m])
                 THEN Section("seqMessageHistory", << <<"resend", m>> >>)
                 ELSE <<>>)
      BY <1>7 DEF CheckAck, Arg
  <2>2. H = {"ackHistory"} /\ H \in SUBSET Mutexes /\ m \in Own /\ p \in Peers
      BY <1>2, <2>1, HoldingAt, Arguments
  <2> DEFINE collect == <<"collect", m, p>>
             resend  == <<"resend", m>>
  <2>3. /\ collect \in Instruction /\ resend \in Instruction /\ "seqMessageHistory" \in Mutexes
        /\ \A h \in H : Rank[h] < Rank["seqMessageHistory"]
      BY <2>2, Ranks DEF Instruction, Mutexes
  <2>4. /\ collect[1] \notin {"lock", "unlock"} /\ resend[1] \notin {"lock", "unlock"}
        /\ Needs(collect) = {"ackHistory"} /\ May(collect) = {"ackHistory"}
        /\ Touches(resend) = {"seqMessageHistory"} /\ May(resend) = Sender
      BY DEF Needs, Touches, May, Sender
  <2> HIDE DEF collect, resend, H, i, m, p
  <2>5. Runs(Increment, H, H) /\ Runs(<<collect>>, H, H) /\ Runs(<<>>, H, H)
      BY <2>2, <2>3, <2>4, RunsIncrement, RunsPlain, RunsNothing
  <2>6. Runs(Increment \o <<collect>>, H, H)
      BY <2>2, <2>5, RunsConcat
  <2>7. Runs(Section("seqMessageHistory", <<resend>>), H, H)
    <3>1. H \cup {"seqMessageHistory"} \subseteq May(resend)
        BY <2>2, <2>4 DEF Sender
    <3> QED
        BY <2>2, <2>3, <2>4, <3>1, RunsAccess
  <2> QED
      BY <1>1, <2>1, <2>5, <2>6, <2>7, GoOnWith DEF collect, resend, H
<1>8. CASE Collect(t)
  <2>1. At(t, "collect") /\ (Go(t, Finalize(i[2])) \/ Go(t, <<>>))
      BY <1>8 DEF Collect, Arg
  <2>2. H = {"ackHistory"} /\ i[2] \in Own
      BY <1>2, <2>1, HoldingAt, Arguments
  <2>3. Runs(Finalize(i[2]), H, H)
      BY <2>2, RunsFinalize
  <2> QED
      BY <1>1, <2>1, <2>3, GoOn, GoOnWith
<1>9. CASE Resend(t)
  <2>1. At(t, "resend") /\ Go(t, SendMsg("SEQMSG", Asker, i[2]))
      BY <1>9 DEF Resend, Arg
  <2>2. H \in SUBSET Sender /\ i[2] \in Own
      BY <1>2, <2>1, HoldingAt, Arguments
  <2>3. Packet("SEQMSG", Asker, i[2]) \in Packets
      BY <2>2 DEF Packet, Packets
  <2>4. Runs(SendMsg("SEQMSG", Asker, i[2]), H, H)
      BY <2>2, <2>3, RunsSendMsg
  <2> QED
      BY <1>1, <2>1, <2>4, GoOnWith
<1>10. CASE CheckAcked(t)
  <2>1. At(t, "checkAcked") /\ (Go(t, SendMsg("DATAMSG", i[3], i[2])) \/ Go(t, <<>>))
      BY <1>10 DEF CheckAcked, Arg
  <2>2. H \in SUBSET Sender /\ i[2] \in Own /\ i[3] \in Host
      BY <1>2, <2>1, HoldingAt, Arguments DEF Sender, Peers
  <2>3. Packet("DATAMSG", i[3], i[2]) \in Packets
      BY <2>2 DEF Packet, Packets
  <2>4. Runs(SendMsg("DATAMSG", i[3], i[2]), H, H)
      BY <2>2, <2>3, RunsSendMsg
  <2> QED
      BY <1>1, <2>1, <2>4, GoOn, GoOnWith
<1>11. CASE Apply(t)
  <2>1. At(t, "apply") /\ (Go(t, ApplySeq(i[2])) \/ Go(t, <<>>))
      BY <1>11 DEF Apply, Arg
  <2>2. H = {} /\ i[2] \in Foreign
      BY <1>2, <2>1, HoldingAt, Arguments
  <2>3. Runs(ApplySeq(i[2]), H, H)
      BY <2>2, RunsHandleSeqmsg
  <2> QED
      BY <1>1, <2>1, <2>3, GoOn, GoOnWith
<1>12. CASE PrintDelivered(t)
  <2> DEFINE print == <<"print">>
  <2>1. /\ At(t, "printDelivered")
        /\ Go(t, Section("deliveredMessage", <<print>>)) \/ Go(t, <<>>)
      BY <1>12 DEF PrintDelivered
  <2>2. H \in SUBSET {"ackHistory"}
      BY <2>1, HoldingAt
  <2>3. /\ print \in Instruction /\ "deliveredMessage" \in Mutexes /\ H \in SUBSET Mutexes
        /\ \A h \in H : Rank[h] < Rank["deliveredMessage"]
      BY <2>2, Ranks DEF Instruction, Mutexes
  <2>4. /\ print[1] \notin {"lock", "unlock"} /\ Touches(print) = {"deliveredMessage"}
        /\ May(print) = Mutexes
      BY DEF Touches, May
  <2> HIDE DEF print, H
  <2>5. Runs(Section("deliveredMessage", <<print>>), H, H)
      BY <2>3, <2>4, RunsAccess
  <2> QED
      BY <1>1, <2>1, <2>5, GoOn, GoOnWith DEF H
<1> QED
    BY <1>3, <1>4, <1>5, <1>6, <1>7, <1>8, <1>9, <1>10, <1>11, <1>12


\* A thread with nothing to do holds no mutex, and is given s to execute.
LEMMA StartKeeps ==
    ASSUME LocksInv, NEW t \in Threads, todo[t] = <<>>, NEW s, Runs(s, {}, {}),
           todo' = [todo EXCEPT ![t] = s], owner' = owner, Surroundings'
    PROVE  LocksInv'
<1>1. /\ todo \in [Threads -> Seq(Instruction)] /\ owner \in [Mutexes -> Threads \cup {None}]
      /\ \A u \in Threads : Runs(todo[u], Holding(u), {})
      /\ s \in Seq(Instruction)
    BY DEF LocksInv, Runs
<1>2. Holding(t) = {}
  <2>1. Len(<<>>) = 0 /\ 0 + 1 = 1
      OBVIOUS
  <2>2. HeldBefore(<<>>, Holding(t), 1) = Holding(t)
      BY HeldFirst DEF Holding
  <2> QED
      BY <1>1, <2>1, <2>2 DEF Runs
<1>3. \A u \in Threads : Holding(u)' = Holding(u)
    BY DEF Holding
<1>4. todo'[t] = s /\ \A u \in Threads \ {t} : todo'[u] = todo[u]
    BY <1>1
<1>5. \A u \in Threads : Runs(todo'[u], Holding(u)', {})
    BY <1>1, <1>2, <1>3, <1>4
<1>6. todo' \in [Threads -> Seq(Instruction)] /\ owner' \in [Mutexes -> Threads \cup {None}]
    BY <1>1
<1> QED
    BY <1>5, <1>6 DEF LocksInv, Runs, HeldBefore, Keeps

\* A packet arrives: whoever asks for a message of this host, or answers it,
\* names one that this host sent, and the others are foreign.
LEMMA RecvKeeps ==
    ASSUME LocksInv, NEW type \in {"DATAMSG", "ACKMSG", "SEQMSG"}, NEW p \in Peers, NEW m \in Msg,
           Recv(type, p, m)
    PROVE  LocksInv'
<1> DEFINE test == <<"testRecord", "inboundMessageBuffer">>
           handler == HandlePacket(type, p, m)
<1>1. {} \in SUBSET Mutexes /\ Receiver \in Threads /\ "recordMessages" \in Mutexes
    BY DEF Mutexes, Threads
<1>2. /\ todo[Receiver] = <<>> /\ owner' = owner /\ Surroundings'
      /\ todo' = [todo EXCEPT ![Receiver] = Section("recordMessages", <<test>>) \o handler]
    BY DEF Recv, LocksInv, Surroundings, Packets
<1>3. Runs(Section("recordMessages", <<test>>), {}, {})
  <2>1. test \in Instruction
      BY DEF Instruction, Buffers
  <2>2. /\ test[1] \notin {"lock", "unlock"} /\ Touches(test) = {"recordMessages"}
        /\ May(test) = {"ackHistory", "seqMessageHistory", "recordMessages"}
      BY DEF Touches, May
  <2> HIDE DEF test
  <2> QED
      BY <1>1, <2>1, <2>2, RunsAccess
<1>4. /\ type = "DATAMSG" => m \in Foreign
      /\ type = "SEQMSG" => m \in Foreign
      /\ type = "ACKMSG" => m \in Own
  <2>1. MaySend(type, p, m) /\ sent \subseteq Packets
      BY DEF Recv, LocksInv, Surroundings
  <2>2. m \in Own => m[1] = Me
      BY DEF Own
  <2>3. p # Me
      BY DEF Peers
  <2> QED
      BY <2>1, <2>2, <2>3 DEF MaySend, Msg, Packet, Packets
<1>5. Runs(handler, {}, {})
    BY <1>4, RunsHandleDatamsg, RunsHandleAckmsg, RunsHandleSeqmsg DEF HandlePacket
<1> HIDE DEF test, handler
<1>6. Runs(Section("recordMessages", <<test>>) \o handler, {}, {})
    BY <1>1, <1>3, <1>5, RunsConcat
<1> QED
    BY <1>1, <1>2, <1>6, StartKeeps

LEMMA WakeUpKeeps ==
    ASSUME LocksInv, NEW w \in Watchdogs, WakeUp(w)
    PROVE  LocksInv'
<1> DEFINE s == IF w[1] = "data" THEN DatamsgWatchdog(w[2], w[3]) ELSE AckmsgWatchdog(w[2])
<1>1. /\ w \in Threads /\ todo[w] = <<>> /\ owner' = owner
      /\ todo' = [todo EXCEPT ![w] = s]
    BY DEF WakeUp, Threads
<1>2. Surroundings'
    BY DEF WakeUp, memory, settings, LocksInv, Surroundings, Packets
<1>3. Runs(s, {}, {})
  <2>1. CASE w \in DataWatchdogs
    <3>1. w[1] = "data" /\ w[2] \in Own /\ w[3] \in Peers
        BY <2>1 DEF DataWatchdogs
    <3> QED
        BY <3>1, RunsWatchdogs
  <2>2. CASE w \in AckWatchdogs
    <3>1. w[1] = "ack" /\ w[2] \in Foreign
        BY <2>2 DEF AckWatchdogs
    <3> QED
        BY <3>1, RunsWatchdogs
  <2> QED
      BY <2>1, <2>2 DEF Watchdogs
<1> HIDE DEF s
<1> QED
    BY <1>1, <1>2, <1>3, StartKeeps

LEMMA AcceptMarkerKeeps ==
    ASSUME LocksInv, AcceptMarker
    PROVE  LocksInv'
<1>1. /\ Listener \in Threads /\ todo[Listener] = <<>> /\ owner' = owner
      /\ todo' = [todo EXCEPT ![Listener] = HandleMarker(markers')]
    BY DEF AcceptMarker, Threads
<1>2. Len(hostNames) \in Nat /\ markers \in 0 .. (Len(hostNames) - 1)
    BY HostAssumption DEF LocksInv, Surroundings
<1>3. markers' \in 0 .. (Len(hostNames) - 1) /\ markers' \in Nat
    BY <1>2 DEF AcceptMarker
<1>4. Surroundings'
    BY <1>3 DEF AcceptMarker, LocksInv, Surroundings, Packets
<1>5. Runs(HandleMarker(markers'), {}, {})
    BY <1>3, RunsHandleMarker
<1> QED
    BY <1>1, <1>4, <1>5, StartKeeps

\* Nothing of the threads changes.
LEMMA NothingMoves ==
    ASSUME LocksInv, UNCHANGED <<todo, owner, sent, their_addr, markers>>
    PROVE  LocksInv'
<1>1. Surroundings'
    BY DEF LocksInv, Surroundings, Packets
<1>2. \A t \in Threads : todo'[t] = todo[t] /\ Holding(t)' = Holding(t)
    BY DEF Holding
<1>3. \A t \in Threads : Runs(todo'[t], Holding(t)', {})
    BY <1>2 DEF LocksInv
<1> QED
    BY <1>1, <1>3 DEF LocksInv, Runs, HeldBefore, Keeps

-----------------------------------------------------------------------------
(***************************************************************************)
(* The theorems.                                                           *)
(***************************************************************************)

\* In every reachable state each thread runs to the end of its instructions
\* with the mutexes it holds: an access to a history, a queue, a flag or a
\* buffer is under the mutex of it, sections are nested in the order of the
\* ranks, and every unlock is of a mutex that the thread holds.
THEOREM LocksInvariance == Spec => []LocksInv
<1>1. Init => LocksInv
  <2> SUFFICES ASSUME Init PROVE LocksInv
      OBVIOUS
  <2>1. Surroundings
    <3>1. Len(hostNames) \in Nat /\ Len(hostNames) # 0
        BY HostAssumption DEF Host, Range
    <3> QED
        BY <3>1 DEF Init, Surroundings
  <2>2. \A t \in Threads : todo[t] = IF t = Main THEN Multicasts(0) ELSE <<>>
      BY DEF Init
  <2>3. Runs(Multicasts(0), {}, {}) /\ Runs(<<>>, {}, {})
      BY RunsMulticasts, RunsNothing
  <2>4. \A t \in Threads : Holding(t) = {}
      BY NoneIsNoThread DEF Init, Holding
  <2>5. \A t \in Threads : Runs(todo[t], Holding(t), {})
      BY <2>2, <2>3, <2>4
  <2>6. todo \in [Threads -> Seq(Instruction)]
      BY <2>3 DEF Init, Runs
  <2>7. owner \in [Mutexes -> Threads \cup {None}]
      BY DEF Init
  <2> QED
      BY <2>1, <2>5, <2>6, <2>7 DEF LocksInv
<1>2. LocksInv /\ [Next]_vars => LocksInv'
  <2> SUFFICES ASSUME LocksInv, [Next]_vars PROVE LocksInv'
      OBVIOUS
  <2>1. ASSUME NEW t \in Threads, Step(t) PROVE LocksInv'
    <3>1. CASE DeliverFront(t)
        BY <3>1, NothingMoves DEF DeliverFront, settings
    <3> QED
        BY <2>1, <3>1, LockKeeps, CheckSeqKeeps, PlainStepsKeep, SendToKeeps, CallsKeep DEF Step
  <2>2. CASE UNCHANGED vars
      BY <2>2, NothingMoves DEF vars, memory, settings
  <2> QED
      BY <2>1, <2>2, RecvKeeps, WakeUpKeeps, AcceptMarkerKeeps DEF Next
<1> QED
    BY <1>1, <1>2, PTL DEF Spec

\* No two threads stand before accesses to the same memory, other than to
\* curr_seq_number: each of them would hold the mutex of it.
THEOREM DataRaceFree == Spec => []NoDataRace
<1>1. LocksInv => NoDataRace
  <2> SUFFICES ASSUME LocksInv, NEW t \in Threads, NEW u \in Threads, t # u,
                      todo[t] # <<>>, todo[u] # <<>>,
                      NEW l, l \in Touches(Head(todo[t])), l \in Touches(Head(todo[u]))
               PROVE  FALSE
      BY DEF NoDataRace
  <2>1. At(t, Head(todo[t])[1]) /\ At(u, Head(todo[u])[1])
      BY DEF At
  <2>2. l \in Holding(t) /\ l \in Holding(u)
      BY <2>1, Standing DEF Needs
  <2> QED
      BY <2>2 DEF Holding
<1> QED
    BY <1>1, LocksInvariance, PTL

\* No threads wait for one another in a circle: one that waits for the highest
\* of the mutexes that are waited for waits for a thread that goes on.
THEOREM DeadlockFree == Spec => []NoCircularWait
<1>1. LocksInv => NoCircularWait
  <2> SUFFICES ASSUME LocksInv, NEW S \in SUBSET Waiting, S # {},
                      \A t \in S : owner[Arg(t)] \in S
               PROVE  FALSE
      BY DEF NoCircularWait
  <2> DEFINE R(t) == Rank[Arg(t)]
  <2>1. ASSUME NEW t \in S
        PROVE  R(t) \in 1 .. 4 /\ R(t) < R(owner[Arg(t)])
    <3>1. t \in Threads /\ At(t, "lock")
        BY DEF Waiting
    <3>2. Arg(t) \in Mutexes
        BY <3>1, Standing, Arguments DEF Arg
    <3> DEFINE u == owner[Arg(t)]
               i == Head(todo[u])
    <3>3. u \in Threads /\ At(u, "lock")
        BY DEF Waiting
    <3>4. i[1] = "lock" /\ Holding(u) \subseteq May(i)
        BY <3>3, Standing
    <3>5. Arg(t) \in Holding(u)
        BY <3>2 DEF Holding
    <3>6. May(i) = {l \in Mutexes : Rank[l] < Rank[i[2]]}
        BY <3>4 DEF May
    <3> QED
        BY <3>2, <3>4, <3>5, <3>6, Ranks DEF Arg
  <2> HIDE DEF R
  <2>2. \A t \in S : owner[Arg(t)] \in S
      OBVIOUS
  <2>3. \A t \in S : R(t) # 4
      BY <2>1, <2>2
  <2>4. \A t \in S : R(t) # 3
      BY <2>1, <2>2, <2>3
  <2>5. \A t \in S : R(t) # 2
      BY <2>1, <2>2, <2>3, <2>4
  <2>6. \A t \in S : R(t) # 1
      BY <2>1, <2>2, <2>3, <2>4, <2>5
  <2> QED
      BY <2>1, <2>3, <2>4, <2>5, <2>6
<1> QED
    BY <1>1, LocksInvariance, PTL

=============================================================================
