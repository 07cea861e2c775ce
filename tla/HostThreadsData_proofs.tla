------------------------ MODULE HostThreadsData_proofs ------------------------
(***************************************************************************)
(* Proofs about what the threads of HostThreads do to its data: a message  *)
(* is held before another host can know of it, no exit(1) is reached, a    *)
(* final number in the history is applied, and a message that waits is     *)
(* overtaken only if it was queued above its proposal.                     *)
(***************************************************************************)
EXTENDS HostThreads_proofs, WellFoundedInduction

-----------------------------------------------------------------------------
(***************************************************************************)
(* Lists of instructions, put together and taken apart.                    *)
(***************************************************************************)

\* The facts that a list establishes.
Gains(s) == UNION {Establishes(s[j]) : j \in 1 .. Len(s)}

\* The instructions of a list that continues another.
LEMMA RangeOfConcat ==
    ASSUME NEW a \in Seq(Instruction), NEW b \in Seq(Instruction)
    PROVE  /\ a \o b \in Seq(Instruction)
           /\ Range(a \o b) = Range(a) \cup Range(b)
           /\ Range(a) \subseteq Instruction
<1> DEFINE ab == a \o b
           n == Len(a)
<1>1. /\ n \in Nat /\ Len(b) \in Nat /\ Len(ab) = n + Len(b) /\ ab \in Seq(Instruction)
      /\ \A k \in 1 .. n : ab[k] = a[k]
      /\ \A k \in 1 .. Len(b) : ab[n + k] = b[k]
    OBVIOUS
<1>2. DOMAIN a = 1 .. n /\ DOMAIN b = 1 .. Len(b) /\ \A k \in 1 .. n : a[k] \in Instruction
    OBVIOUS
<1> HIDE DEF ab
<1>3. Range(a) \cup Range(b) \subseteq Range(ab)
  <2>1. \A k \in 1 .. n : k \in 1 .. Len(ab)
      BY <1>1
  <2>2. \A k \in 1 .. Len(b) : n + k \in 1 .. Len(ab)
      BY <1>1
  <2>3. DOMAIN ab = 1 .. Len(ab)
      BY <1>1
  <2> QED
      BY <1>1, <1>2, <2>1, <2>2, <2>3 DEF Range
<1>4. ASSUME NEW k \in 1 .. Len(ab) PROVE ab[k] \in Range(a) \cup Range(b)
  <2>1. CASE k =< n
      BY <1>1, <1>2, <2>1 DEF Range
  <2>2. CASE k > n
    <3>1. k - n \in 1 .. Len(b) /\ n + (k - n) = k
        BY <1>1, <2>2
    <3> QED
        BY <1>1, <1>2, <3>1 DEF Range
  <2> QED
      BY <1>1, <2>1, <2>2
<1>5. Range(ab) \subseteq Range(a) \cup Range(b)
    BY <1>1, <1>4 DEF Range
<1> QED
    BY <1>1, <1>2, <1>3, <1>5 DEF ab, Range

\* An instruction of a list is at some position of it.
LEMMA RangeAt ==
    ASSUME NEW s \in Seq(Instruction)
    PROVE  \A x : x \in Range(s) <=> \E k \in 1 .. Len(s) : s[k] = x
    BY DEF Range

LEMMA GainsOfRange ==
    ASSUME NEW s \in Seq(Instruction)
    PROVE  Gains(s) = UNION {Establishes(x) : x \in Range(s)}
    BY RangeAt DEF Gains

LEMMA GainsOfConcat ==
    ASSUME NEW a \in Seq(Instruction), NEW b \in Seq(Instruction)
    PROVE  Gains(a \o b) = Gains(a) \cup Gains(b)
<1>1. a \o b \in Seq(Instruction) /\ Range(a \o b) = Range(a) \cup Range(b)
    BY RangeOfConcat
<1>2. Gains(a \o b) = UNION {Establishes(x) : x \in Range(a \o b)}
    BY <1>1, GainsOfRange
<1>3. /\ Gains(a) = UNION {Establishes(x) : x \in Range(a)}
      /\ Gains(b) = UNION {Establishes(x) : x \in Range(b)}
    BY GainsOfRange
<1> QED
    BY <1>1, <1>2, <1>3

LEMMA OrderlyConcat ==
    ASSUME NEW t, NEW a \in Seq(Instruction), NEW b \in Seq(Instruction),
           Orderly(a, t), Orderly(b, t),
           \A i \in Range(a), j \in Range(b) : MayPrecede(i, j)
    PROVE  Orderly(a \o b, t)
<1> DEFINE ab == a \o b
           n == Len(a)
<1>1. /\ n \in Nat /\ Len(b) \in Nat /\ Len(ab) = n + Len(b)
      /\ \A k \in 1 .. n : ab[k] = a[k]
      /\ \A k \in 1 .. Len(b) : ab[n + k] = b[k]
    OBVIOUS
<1>2. (\A k \in 1 .. n : a[k] \in Range(a)) /\ (\A k \in 1 .. Len(b) : b[k] \in Range(b))
    BY RangeAt
<1> HIDE DEF ab
<1>3. ASSUME NEW k \in 1 .. Len(ab)
      PROVE  Place(ab[k], t) /\ \A j \in 1 .. (k - 1) : MayPrecede(ab[j], ab[k])
  <2>1. CASE k =< n
    <3>1. k \in 1 .. n /\ \A j \in 1 .. (k - 1) : j \in 1 .. n
        BY <1>1, <2>1
    <3> QED
        BY <1>1, <3>1 DEF Orderly
  <2>2. CASE k > n
    <3>1. k - n \in 1 .. Len(b) /\ n + (k - n) = k
        BY <1>1, <2>2
    <3>2. ab[k] = b[k - n] /\ b[k - n] \in Range(b) /\ Place(ab[k], t)
        BY <1>1, <1>2, <3>1 DEF Orderly
    <3>3. ASSUME NEW j \in 1 .. (k - 1) PROVE MayPrecede(ab[j], ab[k])
      <4>1. CASE j \in 1 .. n
          BY <1>1, <1>2, <3>2, <4>1
      <4>2. CASE j \notin 1 .. n
        <5>1. j - n \in 1 .. Len(b) /\ n + (j - n) = j /\ j - n \in 1 .. ((k - n) - 1)
            BY <1>1, <2>2, <4>2
        <5>2. ab[j] = b[j - n]
            BY <1>1, <5>1
        <5> QED
            BY <3>1, <3>2, <5>1, <5>2 DEF Orderly
      <4> QED
          BY <4>1, <4>2
    <3> QED
        BY <3>2, <3>3
  <2> QED
      BY <1>1, <2>1, <2>2
<1> QED
    BY <1>3 DEF Orderly, ab

LEMMA FollowsConcat ==
    ASSUME NEW F, NEW a \in Seq(Instruction), NEW b \in Seq(Instruction),
           Follows(a, F), Follows(b, F \cup Gains(a))
    PROVE  Follows(a \o b, F)
<1> DEFINE ab == a \o b
           n == Len(a)
<1>1. /\ n \in Nat /\ Len(b) \in Nat /\ Len(ab) = n + Len(b)
      /\ \A k \in 1 .. n : ab[k] = a[k]
      /\ \A k \in 1 .. Len(b) : ab[n + k] = b[k]
    OBVIOUS
<1> HIDE DEF ab
<1>2. ASSUME NEW k \in 1 .. Len(ab) PROVE Requires(ab[k]) \subseteq Before(ab, F, k)
  <2>1. CASE k =< n
    <3>1. k \in 1 .. n /\ \A j \in 1 .. (k - 1) : j \in 1 .. n
        BY <1>1, <2>1
    <3>2. Before(ab, F, k) = Before(a, F, k)
        BY <1>1, <3>1 DEF Before
    <3> QED
        BY <1>1, <3>1, <3>2 DEF Follows
  <2>2. CASE k > n
    <3>1. k - n \in 1 .. Len(b) /\ n + (k - n) = k
        BY <1>1, <2>2
    <3>2. \A j \in 1 .. n : j \in 1 .. (k - 1)
        BY <1>1, <2>2
    <3>3. \A j \in 1 .. ((k - n) - 1) : n + j \in 1 .. (k - 1) /\ j \in 1 .. Len(b)
        BY <1>1, <2>2
    <3>4. Before(b, F \cup Gains(a), k - n) \subseteq Before(ab, F, k)
        BY <1>1, <3>2, <3>3 DEF Before, Gains
    <3> QED
        BY <1>1, <3>1, <3>4 DEF Follows
  <2> QED
      BY <1>1, <2>1, <2>2
<1> QED
    BY <1>2 DEF Follows, ab

\* What follows from facts follows from more facts.
LEMMA FollowsMore ==
    ASSUME NEW F, NEW G, F \subseteq G, NEW s, Follows(s, F)
    PROVE  Follows(s, G)
    BY DEF Follows, Before

\* Facts that no instruction of the list relies on may be missing.
LEMMA FollowsLess ==
    ASSUME NEW F, NEW D, NEW s, Follows(s, F), \A k \in 1 .. Len(s) : D \cap Requires(s[k]) = {}
    PROVE  Follows(s, F \ D)
    BY DEF Follows, Before

\* One instruction.
LEMMA ListOfOne ==
    ASSUME NEW i \in Instruction
    PROVE  /\ <<i>> \in Seq(Instruction) /\ Range(<<i>>) = {i}
           /\ Gains(<<i>>) = Establishes(i)
           /\ \A t : Orderly(<<i>>, t) <=> Place(i, t)
           /\ \A F : Follows(<<i>>, F) <=> Requires(i) \subseteq F
<1> DEFINE s == <<i>>
<1>1. s \in Seq(Instruction) /\ Len(s) = 1 /\ s[1] = i /\ 1 .. 1 = {1} /\ 1 .. (1 - 1) = {}
    OBVIOUS
<1> HIDE DEF s
<1>2. Range(s) = {i} /\ Gains(s) = Establishes(i)
    BY <1>1 DEF Range, Gains
<1>3. \A t : Orderly(s, t) <=> Place(i, t)
    BY <1>1 DEF Orderly
<1>4. \A F : Follows(s, F) <=> Requires(i) \subseteq F
    BY <1>1 DEF Follows, Before
<1> QED
    BY <1>1, <1>2, <1>3, <1>4 DEF s

LEMMA ListOfNone ==
    /\ <<>> \in Seq(Instruction) /\ Range(<<>>) = {} /\ Gains(<<>>) = {}
    /\ \A t : Orderly(<<>>, t)
    /\ \A F : Follows(<<>>, F)
<1>1. <<>> \in Seq(Instruction) /\ 1 .. Len(<<>>) = {}
    OBVIOUS
<1>2. Range(<<>>) = {} /\ Gains(<<>>) = {}
    BY <1>1 DEF Range, Gains
<1> QED
    BY <1>1, <1>2 DEF Orderly, Follows

\* What can be executed by t from the facts F, and b after a.
Sound(s, t, F) == s \in Seq(Instruction) /\ Orderly(s, t) /\ Follows(s, F)
Precedes(a, b) == \A i \in Range(a), j \in Range(b) : MayPrecede(i, j)

LEMMA SoundConcat ==
    ASSUME NEW t, NEW F, NEW a, NEW b,
           Sound(a, t, F), Sound(b, t, F \cup Gains(a)), Precedes(a, b)
    PROVE  Sound(a \o b, t, F)
    BY RangeOfConcat, OrderlyConcat, FollowsConcat DEF Sound, Precedes

\* The first instruction of a list, and the others.
LEMMA SoundFirst ==
    ASSUME NEW t, NEW F, NEW s, s # <<>>, Sound(s, t, F)
    PROVE  /\ Head(s) \in Instruction /\ Place(Head(s), t) /\ Requires(Head(s)) \subseteq F
           /\ Sound(Tail(s), t, F \cup Establishes(Head(s)))
           /\ \A j \in Range(Tail(s)) : MayPrecede(Head(s), j)
           /\ Range(s) = {Head(s)} \cup Range(Tail(s))
<1> DEFINE i == Head(s)
           r == Tail(s)
<1>1. s \in Seq(Instruction)
    BY DEF Sound
<1>2. /\ i \in Instruction /\ r \in Seq(Instruction) /\ Len(s) \in Nat /\ Len(r) \in Nat
      /\ Len(s) = Len(r) + 1
      /\ s[1] = i /\ \A k \in 1 .. Len(r) : r[k] = s[k + 1]
    BY <1>1
<1> HIDE DEF i, r
<1>3. Place(i, t) /\ Requires(i) \subseteq F
  <2>1. 1 \in 1 .. Len(s) /\ 1 .. (1 - 1) = {}
      BY <1>2
  <2>2. Place(s[1], t) /\ Requires(s[1]) \subseteq Before(s, F, 1)
      BY <2>1 DEF Sound, Orderly, Follows
  <2> QED
      BY <1>2, <2>1, <2>2 DEF Before
<1>4. ASSUME NEW k \in 1 .. Len(r)
      PROVE  /\ Place(r[k], t) /\ MayPrecede(i, r[k])
             /\ \A j \in 1 .. (k - 1) : MayPrecede(r[j], r[k])
             /\ Requires(r[k]) \subseteq Before(r, F \cup Establishes(i), k)
  <2>1. k + 1 \in 1 .. Len(s) /\ 1 \in 1 .. ((k + 1) - 1) /\ r[k] = s[k + 1]
      BY <1>2
  <2>2. \A j \in 1 .. (k - 1) : j \in 1 .. Len(r) /\ j + 1 \in 1 .. ((k + 1) - 1) /\ r[j] = s[j + 1]
      BY <1>2
  <2>3. Place(r[k], t) /\ MayPrecede(i, r[k]) /\ \A j \in 1 .. (k - 1) : MayPrecede(r[j], r[k])
      BY <1>2, <2>1, <2>2 DEF Sound, Orderly
  <2>4. \A j \in 1 .. ((k + 1) - 1) : j = 1 \/ (j - 1 \in 1 .. (k - 1) /\ s[j] = r[j - 1])
    <3>1. \A j \in 1 .. ((k + 1) - 1) : j = 1 \/ (j - 1 \in 1 .. (k - 1) /\ (j - 1) + 1 = j)
        BY <1>2
    <3> QED
        BY <2>2, <3>1
  <2>5. Before(s, F, k + 1) \subseteq Before(r, F \cup Establishes(i), k)
      BY <1>2, <2>4 DEF Before
  <2> QED
      BY <2>1, <2>3, <2>5 DEF Sound, Follows
<1>5. Range(s) = {i} \cup Range(r)
  <2>1. \A k \in 1 .. Len(s) : k = 1 \/ (k - 1 \in 1 .. Len(r) /\ (k - 1) + 1 = k)
      BY <1>2
  <2>2. \A k \in 1 .. Len(r) : k + 1 \in 1 .. Len(s)
      BY <1>2
  <2>3. /\ \A x : x \in Range(s) <=> \E k \in 1 .. Len(s) : s[k] = x
        /\ \A x : x \in Range(r) <=> \E k \in 1 .. Len(r) : r[k] = x
      BY <1>1, <1>2, RangeAt
  <2>4. Range(s) \subseteq {i} \cup Range(r)
    <3>1. ASSUME NEW k \in 1 .. Len(s) PROVE s[k] = i \/ \E j \in 1 .. Len(r) : r[j] = s[k]
      <4>1. CASE k = 1
          BY <1>2, <4>1
      <4>2. CASE k # 1
        <5>1. k - 1 \in 1 .. Len(r) /\ (k - 1) + 1 = k
            BY <2>1, <4>2
        <5>2. r[k - 1] = s[(k - 1) + 1]
            BY <1>2, <5>1
        <5> QED
            BY <5>1, <5>2
      <4> QED
          BY <4>1, <4>2
    <3> QED
        BY <2>3, <3>1
  <2>5. 1 \in 1 .. Len(s)
      BY <1>2
  <2>6. {i} \cup Range(r) \subseteq Range(s)
      BY <1>2, <2>2, <2>3, <2>5
  <2> QED
      BY <2>4, <2>6
<1>6. Sound(r, t, F \cup Establishes(i)) /\ \A j \in Range(r) : MayPrecede(i, j)
    BY <1>2, <1>4, RangeAt DEF Sound, Orderly, Follows
<1> QED
    BY <1>2, <1>3, <1>5, <1>6 DEF i, r

\* What is left of a list when the unlocks it starts with are done.
LEMMA SoundRest ==
    ASSUME NEW t, NEW F, NEW a \in Seq(Instruction), NEW b \in Seq(Instruction),
           Sound(a \o b, t, F), \A i \in 1 .. Len(a) : a[i][1] = "unlock"
    PROVE  /\ Sound(b, t, F) /\ Precedes(a, b)
           /\ \A i : i[1] # "unlock" => (i \in Range(b) <=> i \in Range(a \o b))
           /\ Range(b) \subseteq Range(a \o b)
<1> DEFINE ab == a \o b
           n == Len(a)
<1>1. /\ n \in Nat /\ Len(b) \in Nat /\ Len(ab) = n + Len(b)
      /\ \A k \in 1 .. n : ab[k] = a[k]
      /\ \A k \in 1 .. Len(b) : ab[n + k] = b[k]
    OBVIOUS
<1> HIDE DEF ab
<1>2. \A k \in 1 .. n : Establishes(ab[k]) = {}
    BY <1>1 DEF Establishes
<1>3. ASSUME NEW k \in 1 .. Len(b)
      PROVE  /\ Place(b[k], t)
             /\ \A j \in 1 .. (k - 1) : MayPrecede(b[j], b[k])
             /\ \A j \in 1 .. n : MayPrecede(a[j], b[k])
             /\ Requires(b[k]) \subseteq Before(b, F, k)
  <2>1. n + k \in 1 .. Len(ab) /\ ab[n + k] = b[k]
      BY <1>1
  <2>2. \A j \in 1 .. (k - 1) : n + j \in 1 .. ((n + k) - 1) /\ j \in 1 .. Len(b)
      BY <1>1
  <2>3. \A j \in 1 .. n : j \in 1 .. ((n + k) - 1)
      BY <1>1
  <2>4. \A j \in 1 .. ((n + k) - 1) : j \in 1 .. n \/ (j - n \in 1 .. (k - 1) /\ n + (j - n) = j)
      BY <1>1
  <2>5. Before(ab, F, n + k) \subseteq Before(b, F, k)
    <3>1. ASSUME NEW j \in 1 .. ((n + k) - 1)
          PROVE  Establishes(ab[j]) = {} \/ \E h \in 1 .. (k - 1) : ab[j] = b[h]
      <4>1. CASE j \in 1 .. n
          BY <1>1, <1>2, <4>1
      <4>2. CASE j - n \in 1 .. (k - 1) /\ n + (j - n) = j
        <5>1. j - n \in 1 .. Len(b)
            BY <1>1, <2>2, <4>2
        <5>2. ab[j] = b[j - n]
            BY <1>1, <4>2, <5>1
        <5> QED
            BY <4>2, <5>2
      <4> QED
          BY <2>4, <4>1, <4>2
    <3>2. ASSUME NEW x \in Before(ab, F, n + k) PROVE x \in Before(b, F, k)
      <4>1. CASE x \in F
          BY <4>1 DEF Before
      <4>2. ASSUME NEW j \in 1 .. ((n + k) - 1), x \in Establishes(ab[j])
            PROVE  x \in Before(b, F, k)
        <5>1. PICK h \in 1 .. (k - 1) : ab[j] = b[h]
            BY <3>1, <4>2
        <5> QED
            BY <4>2, <5>1 DEF Before
      <4> QED
          BY <3>2, <4>1, <4>2 DEF Before
    <3> QED
        BY <3>2
  <2>6. Orderly(ab, t) /\ Follows(ab, F)
      BY DEF Sound, ab
  <2>7. /\ Place(ab[n + k], t) /\ Requires(ab[n + k]) \subseteq Before(ab, F, n + k)
        /\ \A j \in 1 .. ((n + k) - 1) : MayPrecede(ab[j], ab[n + k])
      BY <2>1, <2>6 DEF Orderly, Follows
  <2> QED
      BY <1>1, <2>1, <2>2, <2>3, <2>5, <2>7
<1>4. Sound(b, t, F)
    BY <1>3 DEF Sound, Orderly, Follows
<1>5. Precedes(a, b)
    BY <1>3, RangeAt DEF Precedes
<1>6. \A i \in Range(a) : i[1] = "unlock"
    BY RangeAt
<1>7. Range(ab) = Range(a) \cup Range(b)
    BY RangeOfConcat DEF ab
<1> QED
    BY <1>4, <1>5, <1>6, <1>7 DEF ab


-----------------------------------------------------------------------------
(***************************************************************************)
(* Which instructions may precede which.                                   *)
(***************************************************************************)
Calls   == {"multicast", "checkAck", "collect", "apply"}
Makers  == {"push", "proposeOwn", "ack", "multicast"}
Loaders == {"load", "deliver", "change"}

\* Instructions that may precede whatever follows them.
Quiet(i) ==
    /\ i[1] \in {"lock", "unlock", "store", "toss", "sendto", "broadcast", "testRecord", "pushBuffer",
                 "drain", "record", "spawn", "copyQueue", "copyDelivered", "print",
                 "printDelivered", "checkDelivered", "checkAcked", "checkSeq", "resend", "addSeq"}
    /\ i # <<"unlock", "ackHistory">>

LEMMA QuietPrecedes ==
    ASSUME NEW i, Quiet(i), NEW j PROVE MayPrecede(i, j)
<1>1. i[1] \notin Calls /\ Makes(i) = {} /\ Destroys(i) = {} /\ i[1] # "change"
    BY DEF Quiet, Calls, Makes, Destroys
<1> QED
    BY <1>1 DEF MayPrecede, Quiet, Calls

\* Instructions that may follow whatever is not a call.
Docile(j) ==
    j[1] \in {"lock", "unlock", "load", "store", "toss", "sendto", "broadcast", "testRecord", "pushBuffer",
              "drain", "record", "spawn", "copyQueue", "copyDelivered", "print", "deliver",
              "printDelivered", "checkAcked", "checkSeq", "checkAck", "collect", "resend", "apply"}

LEMMA DocileFollows ==
    ASSUME NEW i, i[1] \notin Calls, NEW j, Docile(j) PROVE MayPrecede(i, j)
<1>1. Makes(j) = {} /\ j[1] \notin {"addSeq", "change"}
    BY DEF Docile, Makes
<1>2. Destroys(i) \cap Requires(j) = {}
  <2>1. \A f \in Destroys(i) : f[1] \in {"checked", "positive"}
      BY DEF Destroys
  <2>2. \A f \in Requires(j) : f[1] \in {"held", "proposed", "applied", "final"}
      BY DEF Docile, Requires, Known
  <2> QED
      BY <2>1, <2>2
<1> QED
    BY <1>1, <1>2 DEF MayPrecede, Calls

\* An unlock may follow everything.
LEMMA UnlockFollows ==
    ASSUME NEW i, NEW j, j[1] = "unlock" PROVE MayPrecede(i, j)
<1>1. Makes(j) = {} /\ Requires(j) = {}
    BY DEF Makes, Requires
<1> QED
    BY <1>1 DEF MayPrecede

\* A list of quiet instructions whose requirements are all met at its start.
Idle(s, F) ==
    s \in Seq(Instruction) /\ \A i \in Range(s) : Quiet(i) /\ Requires(i) \subseteq F

LEMMA IdleConcat ==
    ASSUME NEW F, NEW a, NEW b, Idle(a, F), Idle(b, F)
    PROVE  Idle(a \o b, F)
    BY RangeOfConcat DEF Idle

LEMMA IdleNone == \A F : Idle(<<>>, F)
    BY ListOfNone DEF Idle

LEMMA IdleOne ==
    ASSUME NEW i \in Instruction, Quiet(i), NEW F, Requires(i) \subseteq F
    PROVE  Idle(<<i>>, F)
    BY ListOfOne DEF Idle

LEMMA IdleSound ==
    ASSUME NEW F, NEW s, Idle(s, F), NEW t, \A i \in Range(s) : Place(i, t)
    PROVE  Sound(s, t, F) /\ \A r : Precedes(s, r)
<1>1. s \in Seq(Instruction) /\ \A k \in 1 .. Len(s) : s[k] \in Range(s)
    BY RangeAt DEF Idle
<1>2. \A i \in Range(s) : \A j : MayPrecede(i, j)
    BY QuietPrecedes DEF Idle
<1>3. \A k \in 1 .. Len(s) : \A j \in 1 .. (k - 1) : j \in 1 .. Len(s)
    BY <1>1
<1>4. Orderly(s, t)
    BY <1>1, <1>2, <1>3 DEF Orderly
<1>5. Follows(s, F)
    BY <1>1 DEF Follows, Before, Idle
<1> QED
    BY <1>1, <1>2, <1>4, <1>5 DEF Sound, Precedes

\* A section of a quiet instruction.
LEMMA IdleSection ==
    ASSUME NEW F, NEW l \in Mutexes \ {"ackHistory"}, NEW body, Idle(body, F)
    PROVE  /\ Idle(Section(l, body), F)
           /\ Range(Section(l, body)) = {<<"lock", l>>, <<"unlock", l>>} \cup Range(body)
<1>1. <<"lock", l>> \in Instruction /\ <<"unlock", l>> \in Instruction
    BY DEF Instruction
<1>2. Quiet(<<"lock", l>>) /\ Quiet(<<"unlock", l>>)
    BY DEF Quiet
<1>3. Requires(<<"lock", l>>) = {} /\ Requires(<<"unlock", l>>) = {}
    BY DEF Requires
<1>4. Idle(<< <<"lock", l>> >>, F) /\ Idle(<< <<"unlock", l>> >>, F)
    BY <1>1, <1>2, <1>3, IdleOne
<1>5. Idle(<< <<"lock", l>> >> \o body, F)
    BY <1>4, IdleConcat
<1>6. Idle(Section(l, body), F)
    BY <1>4, <1>5, IdleConcat DEF Section
<1>7. /\ Range(<< <<"lock", l>> >>) = {<<"lock", l>>}
      /\ Range(<< <<"unlock", l>> >>) = {<<"unlock", l>>}
    BY <1>1, ListOfOne
<1>8. Range(<< <<"lock", l>> >> \o body) = {<<"lock", l>>} \cup Range(body)
    BY <1>4, <1>7, RangeOfConcat DEF Idle
<1>9. Range(Section(l, body)) = ({<<"lock", l>>} \cup Range(body)) \cup {<<"unlock", l>>}
  <2> DEFINE a == << <<"lock", l>> >> \o body
             c == << <<"unlock", l>> >>
  <2>1. a \in Seq(Instruction) /\ c \in Seq(Instruction)
      BY <1>4, <1>5 DEF Idle
  <2>2. Section(l, body) = a \o c
      BY DEF Section
  <2>3. Range(a) = {<<"lock", l>>} \cup Range(body) /\ Range(c) = {<<"unlock", l>>}
      BY <1>7, <1>8
  <2> HIDE DEF a, c
  <2> QED
      BY <2>1, <2>2, <2>3, RangeOfConcat
<1> QED
    BY <1>6, <1>9


-----------------------------------------------------------------------------
(***************************************************************************)
(* The lists that functions of the code stand for.                         *)
(***************************************************************************)

LEMMA OwnIsNotForeign ==
    /\ Own \subseteq Msg /\ Foreign \subseteq Msg /\ \A m \in Msg : m \in Own \/ m \in Foreign
    /\ \A m \in Foreign : m \notin Own
    /\ \A m \in Own : m[1] = Me
<1>1. \A m \in Foreign : m[1] \in Peers
    BY MessageAssumption
<1>2. \A m \in Own : m[1] = Me
    BY DEF Own
<1> QED
    BY <1>1, <1>2 DEF Msg, Peers

\* A send, and what it comes to.
LEMMA IdleSendMsg ==
    ASSUME NEW type, NEW to, NEW m, Packet(type, to, m) \in Packets, NEW F, Known(m) \subseteq F
    PROVE  /\ Idle(SendMsg(type, to, m), F)
           /\ Range(SendMsg(type, to, m)) = {<<"toss", Packet(type, to, m)>>}
<1> DEFINE i == <<"toss", Packet(type, to, m)>>
<1>1. i \in Instruction
    BY DEF Instruction
<1>2. Quiet(i)
    BY DEF Quiet
<1>3. Requires(i) = Known(m)
    BY DEF Requires, Packet
<1> HIDE DEF i
<1>4. Idle(<<i>>, F) /\ Range(<<i>>) = {i}
    BY <1>1, <1>2, <1>3, IdleOne, ListOfOne
<1> QED
    BY <1>4 DEF i, SendMsg

LEMMA IdleSendings ==
    ASSUME NEW x \in Packets, NEW F, Known(x.msg) \subseteq F, NEW s \in Sendings(x)
    PROVE  /\ Idle(s, F)
           /\ \A i \in Range(s) : i[1] \in {"lock", "unlock", "testRecord", "sendto"}
<1> DEFINE i == <<"testRecord", "outboundMessageBuffer">>
           j == <<"sendto", x>>
<1>1. i \in Instruction /\ j \in Instruction
    BY DEF Instruction, Buffers
<1>2. Quiet(i) /\ Quiet(j) /\ Requires(i) \subseteq F /\ Requires(j) \subseteq F
    BY DEF Quiet, Requires
<1>3. i[1] = "testRecord" /\ j[1] = "sendto"
    OBVIOUS
<1>4. Sendings(x) = {<<>>, Section("recordMessages", <<i>>) \o <<j>>}
    BY DEF Sendings
<1> HIDE DEF i, j
<1>5. Idle(<<i>>, F) /\ Range(<<i>>) = {i} /\ Idle(<<j>>, F) /\ Range(<<j>>) = {j}
    BY <1>1, <1>2, IdleOne, ListOfOne
<1> DEFINE a == Section("recordMessages", <<i>>)
           b == <<j>>
<1>6. "recordMessages" \in Mutexes \ {"ackHistory"}
    BY DEF Mutexes
<1>7. /\ Idle(a, F)
      /\ Range(a) = {<<"lock", "recordMessages">>, <<"unlock", "recordMessages">>, i}
    BY <1>5, <1>6, IdleSection
<1>8. Idle(b, F) /\ Range(b) = {j} /\ Sendings(x) = {<<>>, a \o b}
    BY <1>4, <1>5
<1> HIDE DEF a, b
<1>9. Idle(a \o b, F)
    BY <1>7, <1>8, IdleConcat
<1>10. Range(a \o b) = Range(a) \cup Range(b)
    BY <1>7, <1>8, RangeOfConcat DEF Idle
<1>11. CASE s = <<>>
    BY <1>11, IdleNone, ListOfNone
<1>12. CASE s = a \o b
    BY <1>3, <1>7, <1>8, <1>9, <1>10, <1>12
<1> QED
    BY <1>8, <1>11, <1>12

\* One turn of a broadcast, and the rest of it.
LEMMA IdleBroadcast ==
    ASSUME NEW type \in {"DATAMSG", "SEQMSG"}, NEW m \in Own, NEW n \in Nat, NEW F, Known(m) \subseteq F
    PROVE  /\ Idle(BroadcastFrom(type, m, NextHost(n)), F)
           /\ \A i \in Range(BroadcastFrom(type, m, NextHost(n))) : i[1] = "broadcast"
<1> DEFINE k == NextHost(n)
           i == <<"broadcast", Packet(type, hostNames[k], m), k>>
<1>1. CASE k =< Len(hostNames)
  <2>1. k \in 1 .. Len(hostNames) /\ hostNames[k] \in Peers
      BY <1>1, NextHostIsPeer, HostAssumption
  <2>2. Packet(type, hostNames[k], m) \in Broadcasts
      BY <2>1 DEF Broadcasts, Packet
  <2>3. i \in {"broadcast"} \X Broadcasts \X (1 .. Len(hostNames))
      BY <2>1, <2>2
  <2>4. i \in Instruction
      BY <2>3 DEF Instruction
  <2>5. Quiet(i) /\ Requires(i) = Known(m) /\ i[1] = "broadcast"
      BY DEF Quiet, Requires, Packet
  <2>6. BroadcastFrom(type, m, k) = <<i>>
      BY <1>1 DEF BroadcastFrom
  <2> HIDE DEF i, k
  <2>7. Idle(<<i>>, F) /\ Range(<<i>>) = {i}
      BY <2>4, <2>5, IdleOne, ListOfOne
  <2> QED
      BY <2>5, <2>6, <2>7 DEF k
<1>2. CASE ~ (k =< Len(hostNames))
  <2>1. BroadcastFrom(type, m, k) = <<>>
      BY <1>2 DEF BroadcastFrom
  <2> QED
      BY <2>1, IdleNone, ListOfNone
<1> QED
    BY <1>1, <1>2


\* A list after another one that establishes what it needs.
LEMMA SoundThen ==
    ASSUME NEW t, NEW F, NEW G, NEW a, NEW b, Sound(a, t, F), Sound(b, t, F \cup G), Precedes(a, b),
           \A f \in G : \E i \in Range(a) : f \in Establishes(i)
    PROVE  Sound(a \o b, t, F)
<1>1. a \in Seq(Instruction) /\ b \in Seq(Instruction)
    BY DEF Sound
<1>2. Gains(a) = UNION {Establishes(x) : x \in Range(a)}
    BY <1>1, GainsOfRange
<1>3. F \cup G \subseteq F \cup Gains(a)
    BY <1>2
<1>4. Sound(b, t, F \cup Gains(a))
    BY <1>3, FollowsMore DEF Sound
<1> QED
    BY <1>1, <1>4, SoundConcat

\* A list after another one, from whose instructions it needs nothing.
LEMMA SoundBoth ==
    ASSUME NEW t, NEW F, NEW a, NEW b, Sound(a, t, F), Sound(b, t, F), Precedes(a, b)
    PROVE  Sound(a \o b, t, F)
<1>1. F \subseteq F \cup Gains(a)
    OBVIOUS
<1>2. Sound(b, t, F \cup Gains(a))
    BY <1>1, FollowsMore DEF Sound
<1> QED
    BY <1>2, SoundConcat

LEMMA RangeBoth ==
    ASSUME NEW t, NEW F, NEW G, NEW a, NEW b, Sound(a, t, F), Sound(b, t, G)
    PROVE  Range(a \o b) = Range(a) \cup Range(b)
    BY RangeOfConcat DEF Sound

LEMMA SoundOne ==
    ASSUME NEW i \in Instruction, NEW t, Place(i, t), NEW F, Requires(i) \subseteq F
    PROVE  Sound(<<i>>, t, F) /\ Range(<<i>>) = {i}
    BY ListOfOne DEF Sound

LEMMA SoundSection ==
    ASSUME NEW l \in Mutexes, NEW body, NEW t, NEW F, Sound(body, t, F)
    PROVE  /\ Sound(Section(l, body), t, F)
           /\ Range(Section(l, body)) = {<<"lock", l>>, <<"unlock", l>>} \cup Range(body)
<1> DEFINE i == <<"lock", l>>
           j == <<"unlock", l>>
<1>1. i \in Instruction /\ j \in Instruction
    BY DEF Instruction
<1>2. Requires(i) = {} /\ Requires(j) = {} /\ Place(i, t) /\ Place(j, t)
    BY DEF Requires, Place
<1>3. Quiet(i) /\ j[1] = "unlock"
    BY DEF Quiet
<1>4. Section(l, body) = (<<i>> \o body) \o <<j>>
    BY DEF Section
<1> HIDE DEF i, j
<1>5. Sound(<<i>>, t, F) /\ Range(<<i>>) = {i} /\ Sound(<<j>>, t, F) /\ Range(<<j>>) = {j}
    BY <1>1, <1>2, SoundOne
<1> DEFINE a == <<i>>
           b == a \o body
           c == <<j>>
<1>6. Sound(a, t, F) /\ Range(a) = {i} /\ Sound(c, t, F) /\ Range(c) = {j}
    BY <1>5
<1> HIDE DEF a
<1>7. Precedes(a, body)
    BY <1>3, <1>6, QuietPrecedes DEF Precedes
<1>8. Sound(b, t, F) /\ Range(b) = {i} \cup Range(body)
  <2>1. Sound(a \o body, t, F) /\ Range(a \o body) = Range(a) \cup Range(body)
      BY <1>6, <1>7, SoundBoth, RangeBoth
  <2> QED
      BY <1>6, <2>1
<1> HIDE DEF b, c
<1>9. Precedes(b, c)
    BY <1>3, <1>6, UnlockFollows DEF Precedes
<1>10. Sound(b \o c, t, F) /\ Range(b \o c) = Range(b) \cup Range(c)
    BY <1>6, <1>8, <1>9, SoundBoth, RangeBoth
<1>11. Section(l, body) = b \o c
    BY <1>4 DEF a, b, c
<1>12. Range(Section(l, body)) = {i, j} \cup Range(body)
    BY <1>6, <1>8, <1>10, <1>11
<1> QED
    BY <1>10, <1>11, <1>12 DEF i, j

\* A section of one access.
LEMMA SoundAccess ==
    ASSUME NEW l \in Mutexes, NEW i \in Instruction, NEW t, Place(i, t), NEW F, Requires(i) \subseteq F
    PROVE  /\ Sound(Section(l, <<i>>), t, F)
           /\ Range(Section(l, <<i>>)) = {<<"lock", l>>, <<"unlock", l>>, i}
<1>1. Sound(<<i>>, t, F) /\ Range(<<i>>) = {i}
    BY SoundOne
<1>2. /\ Sound(Section(l, <<i>>), t, F)
      /\ Range(Section(l, <<i>>)) = {<<"lock", l>>, <<"unlock", l>>} \cup {i}
    BY <1>1, SoundSection
<1> QED
    BY <1>2

\* curr_seq_number, read and counted on.
LEMMA SoundIncrement ==
    ASSUME NEW t, NEW F
    PROVE  /\ Sound(<< <<"load">> >>, t, F) /\ Range(<< <<"load">> >>) = {<<"load">>}
           /\ Sound(Increment, t, F) /\ Range(Increment) = {<<"load">>, <<"store">>}
<1> DEFINE i == <<"load">>
           j == <<"store">>
<1>1. i \in Instruction /\ j \in Instruction
    BY DEF Instruction
<1>2. /\ Requires(i) = {} /\ Requires(j) = {} /\ Place(i, t) /\ Place(j, t)
      /\ i[1] \notin Calls /\ Docile(j)
    BY DEF Requires, Place, Calls, Docile
<1>3. Increment = <<i>> \o <<j>>
    BY DEF Increment
<1> HIDE DEF i, j
<1>4. Sound(<<i>>, t, F) /\ Range(<<i>>) = {i} /\ Sound(<<j>>, t, F) /\ Range(<<j>>) = {j}
    BY <1>1, <1>2, SoundOne
<1> DEFINE a == <<i>>
           b == <<j>>
<1>5. /\ Sound(a, t, F) /\ Range(a) = {i} /\ Sound(b, t, F) /\ Range(b) = {j}
      /\ Increment = a \o b
    BY <1>3, <1>4
<1> HIDE DEF a, b
<1>6. Precedes(a, b)
    BY <1>2, <1>5, DocileFollows DEF Precedes
<1>7. Sound(a \o b, t, F) /\ Range(a \o b) = Range(a) \cup Range(b)
    BY <1>5, <1>6, SoundBoth, RangeBoth
<1>8. Sound(Increment, t, F) /\ Range(Increment) = {i, j}
    BY <1>5, <1>7
<1> QED
    BY <1>4, <1>8 DEF i, j

\* A list without calls, and one that may follow it.
LEMMA DocilePrecedes ==
    ASSUME NEW a, \A i \in Range(a) : i[1] \notin Calls, NEW b, \A j \in Range(b) : Docile(j)
    PROVE  Precedes(a, b)
    BY DocileFollows DEF Precedes

LEMMA SoundDeliver ==
    ASSUME NEW t, NEW F
    PROVE  /\ Sound(Deliver, t, F)
           /\ Range(Deliver) = {<<"lock", "deliveryQueue">>, <<"unlock", "deliveryQueue">>,
                                <<"lock", "deliveredMessage">>, <<"unlock", "deliveredMessage">>,
                                <<"deliver">>, <<"printDelivered">>}
           /\ \A i \in Range(Deliver) : i[1] \in {"lock", "unlock", "deliver", "printDelivered"}
<1> DEFINE i == <<"deliver">>
           j == <<"printDelivered">>
<1>1. i \in Instruction /\ j \in Instruction
    BY DEF Instruction
<1>2. /\ Requires(i) = {} /\ Requires(j) = {} /\ Place(i, t) /\ Place(j, t)
      /\ i[1] = "deliver" /\ j[1] = "printDelivered" /\ Docile(j)
    BY DEF Requires, Place, Docile
<1>3. "deliveryQueue" \in Mutexes /\ "deliveredMessage" \in Mutexes
    BY DEF Mutexes
<1>4. Deliver = Section("deliveryQueue", Section("deliveredMessage", <<i>>)) \o <<j>>
    BY DEF Deliver
<1> HIDE DEF i, j
<1> DEFINE a == Section("deliveredMessage", <<i>>)
           b == Section("deliveryQueue", a)
<1>5. /\ Sound(a, t, F)
      /\ Range(a) = {<<"lock", "deliveredMessage">>, <<"unlock", "deliveredMessage">>, i}
    BY <1>1, <1>2, <1>3, SoundAccess
<1> HIDE DEF a
<1>6. /\ Sound(b, t, F)
      /\ Range(b) = {<<"lock", "deliveryQueue">>, <<"unlock", "deliveryQueue">>} \cup Range(a)
    BY <1>3, <1>5, SoundSection
<1> HIDE DEF b
<1>7. Sound(<<j>>, t, F) /\ Range(<<j>>) = {j}
    BY <1>1, <1>2, SoundOne
<1>8. \A x \in Range(b) : x[1] \in {"lock", "unlock", "deliver"}
    BY <1>2, <1>5, <1>6
<1>9. Precedes(b, <<j>>)
    BY <1>2, <1>7, <1>8, DocilePrecedes DEF Calls
<1>10. Sound(b \o <<j>>, t, F) /\ Range(b \o <<j>>) = Range(b) \cup {j}
    BY <1>6, <1>7, <1>9, SoundBoth, RangeBoth
<1>11. Deliver = b \o <<j>>
    BY <1>4 DEF a, b
<1> HIDE DEF b
<1>12. /\ Range(b \o <<j>>) = {<<"lock", "deliveryQueue">>, <<"unlock", "deliveryQueue">>,
                              <<"lock", "deliveredMessage">>, <<"unlock", "deliveredMessage">>, i, j}
       /\ \A x \in Range(b \o <<j>>) : x[1] \in {"lock", "unlock", "deliver", "printDelivered"}
    BY <1>2, <1>5, <1>6, <1>8, <1>10
<1> QED
    BY <1>10, <1>11, <1>12 DEF i, j


\* Where the instructions of a multicast of m and of the turns of main after it
\* come from: they make what the call of multicast_datamsg leads to, and no more.
LEMMA SoundMulticast ==
    ASSUME NEW n \in 0 .. (NumMsgToSend - 1), NEW F
    PROVE  /\ Sound(MulticastDatamsg(<<Me, n>>) \o Multicasts(n + 1), Main, F)
           /\ \A i \in Range(MulticastDatamsg(<<Me, n>>) \o Multicasts(n + 1)) :
                Makes(i) \subseteq Makes(<<"multicast", <<Me, n>> >>)
<1> DEFINE m == <<Me, n>>
           load == << <<"load">> >>
           propose == <<"proposeOwn", m>>
           push == <<"push", m>>
           G == F \cup Known(m)
           P == F \cup {<<"positive", None>>}
<1>1. m \in Own /\ m \in Msg /\ m[2] = n /\ n \in Nat
    BY MessageAssumption, OwnIsNotForeign DEF Own
<1>2. propose \in Instruction /\ push \in Instruction
    BY <1>1 DEF Instruction
<1>3. /\ Place(propose, Main) /\ Place(push, Main)
      /\ Requires(propose) \subseteq P /\ Requires(push) \subseteq P
      /\ Establishes(push) = {<<"held", m>>} /\ Establishes(propose) = {<<"proposed", m>>}
    BY <1>1 DEF Place, Requires, Establishes
<1>4. propose[1] = "proposeOwn" /\ push[1] = "push" /\ propose[2] = m /\ push[2] = m
    OBVIOUS
<1>5. "ackHistory" \in Mutexes /\ "deliveryQueue" \in Mutexes
    BY DEF Mutexes
<1> HIDE DEF m, propose, push, load
<1> DEFINE a == Section("ackHistory", <<propose>>)
           b == Section("deliveryQueue", <<push>>)
           c == BroadcastData(m)
           d == Multicasts(n + 1)
<1>6. /\ Sound(a, Main, P)
      /\ Range(a) = {<<"lock", "ackHistory">>, <<"unlock", "ackHistory">>, propose}
    BY <1>2, <1>3, <1>5, SoundAccess
<1>7. /\ Sound(b, Main, P)
      /\ Range(b) = {<<"lock", "deliveryQueue">>, <<"unlock", "deliveryQueue">>, push}
    BY <1>2, <1>3, <1>5, SoundAccess
<1>8. Sound(c, Main, G) /\ \A i \in Range(c) : i[1] = "broadcast"
  <2>1. Idle(c, G) /\ \A i \in Range(c) : i[1] = "broadcast"
      BY <1>1, IdleBroadcast DEF BroadcastData
  <2>2. \A i \in Range(c) : Place(i, Main)
      BY <2>1 DEF Place
  <2> QED
      BY <2>1, <2>2, IdleSound
<1>9. /\ Sound(d, Main, G)
      /\ \A i \in Range(d) : i[1] = "multicast" /\ i[2] = <<Me, n + 1>>
  <2>1. CASE n + 1 < NumMsgToSend
    <3> DEFINE i == <<"multicast", <<Me, n + 1>> >>
    <3>1. <<Me, n + 1>> \in Own
        BY <1>1, <2>1, MessageAssumption DEF Own
    <3>2. i \in Instruction
        BY <3>1 DEF Instruction
    <3>3. Place(i, Main) /\ Requires(i) = {} /\ i[1] = "multicast" /\ i[2] = <<Me, n + 1>>
        BY DEF Place, Requires
    <3>4. d = <<i>>
        BY <2>1 DEF Multicasts
    <3> HIDE DEF i, d
    <3>5. Sound(<<i>>, Main, G) /\ Range(<<i>>) = {i}
        BY <3>2, <3>3, SoundOne
    <3> QED
        BY <3>3, <3>4, <3>5
  <2>2. CASE ~ (n + 1 < NumMsgToSend)
    <3>1. d = <<>>
        BY <2>2 DEF Multicasts
    <3> QED
        BY <3>1, ListOfNone DEF Sound
  <2> QED
      BY <2>1, <2>2
<1>10. /\ Sound(Increment, Main, F) /\ Range(Increment) = {<<"load">>, <<"store">>}
       /\ Sound(load, Main, F) /\ Range(load) = {<<"load">>}
       /\ Sound(load, Main, P)
    BY SoundIncrement DEF load
<1>11. MulticastDatamsg(m) \o d = (((((Increment \o load) \o a) \o load) \o b) \o c) \o d
    BY DEF MulticastDatamsg, load, propose, push
<1> HIDE DEF a, b, c, d
<1> DEFINE s1 == Increment \o load
           s2 == s1 \o a
           s3 == s2 \o load
           s4 == s3 \o b
           s5 == s4 \o c
           s6 == s5 \o d
<1>12. Sound(s1, Main, F) /\ Range(s1) = {<<"load">>, <<"store">>}
  <2>1. \A i \in Range(load) : Docile(i)
      BY <1>10 DEF Docile
  <2>2. \A i \in Range(Increment) : i[1] \notin Calls
      BY <1>10 DEF Calls
  <2>3. Precedes(Increment, load)
      BY <2>1, <2>2, DocilePrecedes
  <2>4. Sound(s1, Main, F) /\ Range(s1) = Range(Increment) \cup Range(load)
      BY <1>10, <2>3, SoundBoth, RangeBoth
  <2> QED
      BY <1>10, <2>4
<1>13. /\ Establishes(<<"load">>) = {<<"positive", None>>}
       /\ Makes(<<"load">>) = {} /\ Makes(<<"store">>) = {}
       /\ Makes(propose) = {<<"proposed", m>>} /\ Makes(push) = {<<"held", m>>}
    BY <1>4 DEF Establishes, Makes
<1>14. MayPrecede(<<"load">>, propose) /\ MayPrecede(<<"store">>, propose)
    BY <1>4, <1>13 DEF MayPrecede, Destroys, Requires
<1>15. Precedes(s1, a)
  <2>1. \A i \in Range(s1) : MayPrecede(i, <<"lock", "ackHistory">>)
      BY <1>12, DocileFollows DEF Docile, Calls
  <2>2. \A i \in Range(s1) : MayPrecede(i, <<"unlock", "ackHistory">>)
      BY UnlockFollows
  <2> QED
      BY <1>6, <1>12, <1>14, <2>1, <2>2 DEF Precedes
<1> HIDE DEF s1
<1>16. /\ Sound(s2, Main, F)
       /\ Range(s2) = {<<"load">>, <<"store">>, <<"lock", "ackHistory">>, <<"unlock", "ackHistory">>, propose}
  <2>1. \A f \in {<<"positive", None>>} : \E i \in Range(s1) : f \in Establishes(i)
      BY <1>12, <1>13
  <2>2. Sound(s2, Main, F)
      BY <1>6, <1>12, <1>15, <2>1, SoundThen
  <2>3. Range(s2) = Range(s1) \cup Range(a)
      BY <1>6, <1>12, RangeBoth
  <2> QED
      BY <1>6, <1>12, <2>2, <2>3
<1> HIDE DEF s2
<1>17. Sound(s3, Main, F) /\ Range(s3) = Range(s2)
  <2>1. \A i \in Range(load) : Docile(i)
      BY <1>10 DEF Docile
  <2>2. \A i \in Range(s2) : i[1] \notin Calls
      BY <1>4, <1>16 DEF Calls
  <2>3. Precedes(s2, load)
      BY <2>1, <2>2, DocilePrecedes
  <2>4. Sound(s3, Main, F) /\ Range(s3) = Range(s2) \cup Range(load)
      BY <1>10, <1>16, <2>3, SoundBoth, RangeBoth
  <2> QED
      BY <1>10, <1>16, <2>4
<1>18. Precedes(s3, b)
  <2>1. \A i \in Range(s3) : i[1] \notin Calls
      BY <1>4, <1>16, <1>17 DEF Calls
  <2>2. \A i \in Range(s3) : MayPrecede(i, <<"lock", "deliveryQueue">>)
      BY <2>1, DocileFollows DEF Docile
  <2>3. \A i \in Range(s3) : MayPrecede(i, <<"unlock", "deliveryQueue">>)
      BY UnlockFollows
  <2>4. MayPrecede(<<"load">>, push)
      BY <1>4, <1>13 DEF MayPrecede, Destroys, Requires
  <2>5. Quiet(<<"store">>) /\ Quiet(<<"lock", "ackHistory">>)
      BY DEF Quiet
  <2>6. MayPrecede(<<"unlock", "ackHistory">>, push)
      BY <1>4 DEF MayPrecede, Makes, Destroys
  <2>7. MayPrecede(propose, push)
      BY <1>4, <1>13 DEF MayPrecede, Destroys
  <2>8. \A i \in Range(s3) : MayPrecede(i, push)
      BY <1>16, <1>17, <2>4, <2>5, <2>6, <2>7, QuietPrecedes
  <2> QED
      BY <1>7, <2>2, <2>3, <2>8 DEF Precedes
<1> HIDE DEF s3
<1>19. /\ Sound(s4, Main, F)
       /\ Range(s4) = {<<"load">>, <<"store">>, <<"lock", "ackHistory">>, <<"unlock", "ackHistory">>,
                       propose, <<"lock", "deliveryQueue">>, <<"unlock", "deliveryQueue">>, push}
  <2>1. \A f \in {<<"positive", None>>} : \E i \in Range(s3) : f \in Establishes(i)
      BY <1>13, <1>16, <1>17
  <2>2. Sound(s4, Main, F)
      BY <1>7, <1>17, <1>18, <2>1, SoundThen
  <2>3. Range(s4) = Range(s3) \cup Range(b)
      BY <1>7, <1>17, RangeBoth
  <2> QED
      BY <1>7, <1>16, <1>17, <2>2, <2>3
<1> HIDE DEF s4
<1>20. \A i \in Range(s4) : i[1] \notin Calls /\ (i \in {propose, push} \/ Makes(i) = {})
    BY <1>4, <1>19 DEF Calls, Makes
<1>21. \A f \in Known(m) : \E i \in Range(s4) : f \in Establishes(i)
    BY <1>3, <1>19 DEF Known
<1>22. Sound(s5, Main, F) /\ Range(s5) = Range(s4) \cup Range(c)
  <2>1. Precedes(s4, c)
      BY <1>8, <1>20, DocilePrecedes DEF Docile
  <2>2. Sound(s5, Main, F)
      BY <1>8, <1>19, <1>21, <2>1, SoundThen
  <2>3. Range(s5) = Range(s4) \cup Range(c)
      BY <1>8, <1>19, RangeBoth
  <2> QED
      BY <2>2, <2>3
<1> HIDE DEF s5
<1>23. \A i \in Range(c) : i[1] \notin Calls /\ Makes(i) = {}
    BY <1>8 DEF Calls, Makes
<1>24. \A i \in Range(s5) : i[1] \notin Calls /\ (i \in {propose, push} \/ Makes(i) = {})
    BY <1>20, <1>22, <1>23
<1>25. \A j \in Range(d) : Makes(j) = {"held", "proposed"} \X {x \in Own : x[2] >= n + 1}
    BY <1>9 DEF Makes
<1>26. Precedes(s5, d)
  <2>1. ASSUME NEW i \in Range(s5), NEW j \in Range(d) PROVE MayPrecede(i, j)
    <3>1. j[1] = "multicast" /\ Requires(j) = {}
        BY <1>9 DEF Requires
    <3>2. Makes(i) \cap Makes(j) = {}
        BY <1>1, <1>13, <1>24, <1>25
    <3> QED
        BY <1>24, <3>1, <3>2 DEF MayPrecede, Calls
  <2> QED
      BY <2>1 DEF Precedes
<1>27. \A f \in Known(m) : \E i \in Range(s5) : f \in Establishes(i)
    BY <1>21, <1>22
<1>28. Sound(s6, Main, F) /\ Range(s6) = Range(s5) \cup Range(d)
  <2>1. Sound(s6, Main, F)
      BY <1>9, <1>22, <1>26, <1>27, SoundThen
  <2>2. Range(s6) = Range(s5) \cup Range(d)
      BY <1>9, <1>22, RangeBoth
  <2> QED
      BY <2>1, <2>2
<1>29. Makes(<<"multicast", m>>) = {"held", "proposed"} \X {x \in Own : x[2] >= n}
    BY <1>1 DEF Makes
<1>30. \A i \in Range(s6) : Makes(i) \subseteq Makes(<<"multicast", m>>)
  <2>1. \A i \in Range(s5) : Makes(i) \subseteq Makes(<<"multicast", m>>)
      BY <1>1, <1>13, <1>24, <1>29
  <2>2. \A x \in Own : x[2] >= n + 1 => x[2] >= n
      BY <1>1 DEF Own
  <2>3. \A i \in Range(d) : Makes(i) \subseteq Makes(<<"multicast", m>>)
      BY <1>25, <1>29, <2>2
  <2> QED
      BY <1>28, <2>1, <2>3
<1>31. MulticastDatamsg(m) \o Multicasts(n + 1) = s6
    BY <1>11 DEF d, s1, s2, s3, s4, s5
<1> HIDE DEF s6
<1> QED
    BY <1>28, <1>30, <1>31 DEF m


\* handle_datamsg, for a message of another host.
LEMMA SoundHandleDatamsg ==
    ASSUME NEW m \in Foreign, NEW F
    PROVE  /\ Known(m) \subseteq F => Sound(SendMsg("ACKMSG", Asker, m), Receiver, F)
           /\ \A i \in Range(SendMsg("ACKMSG", Asker, m)) : i[1] = "toss"
           /\ Sound(ProposeFor(m), Receiver, F)
           /\ <<"ack", m>> \in Range(ProposeFor(m))
           /\ \A i \in Range(ProposeFor(m)) :
                \/ i \in {<<"push", m>>, <<"ack", m>>}
                \/ i[1] \in {"load", "store", "lock", "unlock", "toss", "spawn"}
<1> DEFINE load == << <<"load">> >>
           push == <<"push", m>>
           ack == <<"ack", m>>
           spawn == <<"spawn", <<"ack", m>> >>
           P == F \cup {<<"positive", None>>}
           A == F \cup {<<"positive", None>>, <<"held", m>>}
           G == F \cup Known(m)
           e == SendMsg("ACKMSG", Asker, m)
<1>1. m \in Msg /\ m \notin Own
    BY OwnIsNotForeign
<1>2. push \in Instruction /\ ack \in Instruction /\ spawn \in Instruction
    BY <1>1 DEF Instruction, Watchdogs, AckWatchdogs
<1>3. /\ Place(push, Receiver) /\ Place(ack, Receiver) /\ Place(spawn, Receiver)
      /\ Requires(push) \subseteq P /\ Requires(ack) \subseteq A /\ Requires(spawn) \subseteq G
    BY <1>1 DEF Place, Requires
<1>4. /\ push[1] = "push" /\ ack[1] = "ack" /\ spawn[1] = "spawn"
      /\ Establishes(push) = {<<"held", m>>} /\ Establishes(ack) = {<<"proposed", m>>}
      /\ Establishes(<<"load">>) = {<<"positive", None>>}
      /\ Makes(push) = {<<"held", m>>} /\ Makes(ack) = {<<"proposed", m>>}
      /\ MayPrecede(<<"load">>, push) /\ MayPrecede(<<"load">>, ack)
      /\ MayPrecede(<<"store">>, push)
      /\ MayPrecede(push, ack)
    BY DEF Establishes, Makes, MayPrecede, Destroys, Requires
<1>5. "deliveryQueue" \in Mutexes
    BY DEF Mutexes
<1>6. Packet("ACKMSG", Asker, m) \in Packets
    BY DEF Packet, Packets
<1>7. ASSUME NEW H, Known(m) \subseteq H
      PROVE  Sound(e, Receiver, H) /\ \A i \in Range(e) : i[1] = "toss"
  <2>1. Idle(e, H) /\ Range(e) = {<<"toss", Packet("ACKMSG", Asker, m)>>}
      BY <1>6, <1>7, IdleSendMsg
  <2>2. \A i \in Range(e) : i[1] = "toss" /\ Place(i, Receiver)
      BY <2>1 DEF Place
  <2> QED
      BY <2>1, <2>2, IdleSound
<1> HIDE DEF push, ack, spawn, load, e
<1> DEFINE b == Section("deliveryQueue", <<push>>)
           ls == <<ack>>
           w == <<spawn>>
<1>8. /\ Sound(b, Receiver, P)
      /\ Range(b) = {<<"lock", "deliveryQueue">>, <<"unlock", "deliveryQueue">>, push}
    BY <1>2, <1>3, <1>5, SoundAccess
<1>9. /\ Sound(load, Receiver, F) /\ Range(load) = {<<"load">>} /\ Sound(load, Receiver, P)
      /\ Sound(Increment, Receiver, G) /\ Range(Increment) = {<<"load">>, <<"store">>}
    BY SoundIncrement DEF load
<1>10. Sound(ls, Receiver, A) /\ Range(ls) = {ack} /\ Sound(w, Receiver, G) /\ Range(w) = {spawn}
    BY <1>2, <1>3, SoundOne
<1>11. Sound(e, Receiver, G) /\ \A i \in Range(e) : i[1] = "toss"
    BY <1>7
<1>12. << <<"load">>, ack>> = load \o ls
    BY DEF load
<1>13. ProposeFor(m) = ((((load \o b) \o (load \o ls)) \o e) \o Increment) \o w
    BY <1>12 DEF ProposeFor, load, push, ack, spawn, e
<1> HIDE DEF b, ls, w
<1> DEFINE s1 == load \o b
           s2 == load \o ls
           s3 == s1 \o s2
           s4 == s3 \o e
           s5 == s4 \o Increment
           s6 == s5 \o w
           Q == <<"lock", "deliveryQueue">>
           U == <<"unlock", "deliveryQueue">>
<1>14. Sound(s1, Receiver, F) /\ Range(s1) = {<<"load">>, Q, U, push}
  <2>1. MayPrecede(<<"load">>, Q) /\ MayPrecede(<<"load">>, U)
      BY DocileFollows DEF Docile, Calls
  <2>2. Precedes(load, b)
      BY <1>4, <1>8, <1>9, <2>1 DEF Precedes
  <2>3. \A f \in {<<"positive", None>>} : \E i \in Range(load) : f \in Establishes(i)
      BY <1>4, <1>9
  <2> DEFINE H == {<<"positive", None>>}
  <2>4. Sound(s1, Receiver, F)
    <3>1. Sound(load, Receiver, F) /\ Sound(b, Receiver, F \cup H)
        BY <1>8, <1>9
    <3>2. \A f \in H : \E i \in Range(load) : f \in Establishes(i)
        BY <2>3
    <3> HIDE DEF H
    <3> QED
        BY <2>2, <3>1, <3>2, SoundThen
  <2>5. Range(s1) = Range(load) \cup Range(b)
      BY <1>8, <1>9, RangeBoth
  <2> QED
      BY <1>8, <1>9, <2>4, <2>5
<1>15. Sound(s2, Receiver, F \cup {<<"held", m>>}) /\ Range(s2) = {<<"load">>, ack}
  <2> DEFINE H == F \cup {<<"held", m>>}
  <2>1. Precedes(load, ls)
      BY <1>4, <1>9, <1>10 DEF Precedes
  <2>2. \A f \in {<<"positive", None>>} : \E i \in Range(load) : f \in Establishes(i)
      BY <1>4, <1>9
  <2>3. H \cup {<<"positive", None>>} = A
      OBVIOUS
  <2>4. Sound(load, Receiver, H)
      BY SoundIncrement DEF load
  <2> HIDE DEF H, A
  <2>5. Sound(s2, Receiver, H)
      BY <1>10, <2>1, <2>2, <2>3, <2>4, SoundThen
  <2>6. Range(s2) = Range(load) \cup Range(ls)
      BY <1>9, <1>10, RangeBoth
  <2> QED
      BY <1>9, <1>10, <2>5, <2>6 DEF H
<1> HIDE DEF s1, s2
<1>16. Sound(s3, Receiver, F) /\ Range(s3) = {<<"load">>, Q, U, push, ack}
  <2>1. Quiet(Q) /\ Quiet(U)
      BY DEF Quiet
  <2>2. \A i \in Range(s1) : i[1] \notin Calls
      BY <1>4, <1>14 DEF Calls
  <2>3. \A i \in Range(s1) : MayPrecede(i, <<"load">>)
      BY <2>2, DocileFollows DEF Docile
  <2>4. \A i \in Range(s1) : MayPrecede(i, ack)
      BY <1>4, <1>14, <2>1, QuietPrecedes
  <2>5. Precedes(s1, s2)
      BY <1>15, <2>3, <2>4 DEF Precedes
  <2>6. \A f \in {<<"held", m>>} : \E i \in Range(s1) : f \in Establishes(i)
      BY <1>4, <1>14
  <2>7. Sound(s3, Receiver, F)
      BY <1>14, <1>15, <2>5, <2>6, SoundThen
  <2>8. Range(s3) = Range(s1) \cup Range(s2)
      BY <1>14, <1>15, RangeBoth
  <2> QED
      BY <1>14, <1>15, <2>7, <2>8
<1> HIDE DEF s3
<1>17. \A i \in Range(s3) : i[1] \notin Calls
    BY <1>4, <1>16 DEF Calls
<1>18. \A f \in Known(m) : \E i \in Range(s3) : f \in Establishes(i)
    BY <1>4, <1>16 DEF Known
<1>19. Sound(s4, Receiver, F) /\ Range(s4) = Range(s3) \cup Range(e)
  <2>1. Precedes(s3, e)
      BY <1>11, <1>17, DocilePrecedes DEF Docile
  <2>2. Sound(s4, Receiver, F)
      BY <1>11, <1>16, <1>18, <2>1, SoundThen
  <2>3. Range(s4) = Range(s3) \cup Range(e)
      BY <1>11, <1>16, RangeBoth
  <2> QED
      BY <2>2, <2>3
<1> HIDE DEF s4
<1>20. \A i \in Range(s4) : i[1] \notin Calls
    BY <1>11, <1>17, <1>19 DEF Calls
<1>21. \A f \in Known(m) : \E i \in Range(s4) : f \in Establishes(i)
    BY <1>18, <1>19
<1>22. Sound(s5, Receiver, F) /\ Range(s5) = Range(s4) \cup Range(Increment)
  <2>1. \A i \in Range(Increment) : Docile(i)
      BY <1>9 DEF Docile
  <2>2. Precedes(s4, Increment)
      BY <1>20, <2>1, DocilePrecedes
  <2>3. Sound(s5, Receiver, F)
      BY <1>9, <1>19, <1>21, <2>2, SoundThen
  <2>4. Range(s5) = Range(s4) \cup Range(Increment)
      BY <1>9, <1>19, RangeBoth
  <2> QED
      BY <2>3, <2>4
<1> HIDE DEF s5
<1>23. \A i \in Range(s5) : i[1] \notin Calls
    BY <1>9, <1>20, <1>22 DEF Calls
<1>24. \A f \in Known(m) : \E i \in Range(s5) : f \in Establishes(i)
    BY <1>21, <1>22
<1>25. Sound(s6, Receiver, F) /\ Range(s6) = Range(s5) \cup {spawn}
  <2>1. Docile(spawn)
      BY <1>4 DEF Docile
  <2>2. Precedes(s5, w)
      BY <1>10, <1>23, <2>1, DocilePrecedes
  <2>3. Sound(s6, Receiver, F)
      BY <1>10, <1>22, <1>24, <2>2, SoundThen
  <2>4. Range(s6) = Range(s5) \cup Range(w)
      BY <1>10, <1>22, RangeBoth
  <2> QED
      BY <1>10, <2>3, <2>4
<1>26. Range(s6) = {<<"load">>, Q, U, push, ack} \cup Range(e) \cup {<<"load">>, <<"store">>} \cup {spawn}
    BY <1>9, <1>16, <1>19, <1>22, <1>25
<1>27. ProposeFor(m) = s6
    BY <1>13 DEF s1, s2, s3, s4, s5
<1> HIDE DEF s6
<1>28. ack \in Range(s6) /\ \A i \in Range(s6) :
         i \in {push, ack} \/ i[1] \in {"load", "store", "lock", "unlock", "toss", "spawn"}
    BY <1>4, <1>11, <1>26
<1>29. Known(m) \subseteq F => Sound(e, Receiver, F)
    BY <1>7
<1> QED
    BY <1>11, <1>25, <1>27, <1>28, <1>29 DEF e, push, ack


\* handle_ackmsg, and the increment that it starts with for a new ack.
LEMMA SoundHandleAckmsg ==
    ASSUME NEW m \in Own, NEW p \in Peers, NEW F, Known(m) \subseteq F
    PROVE  /\ Sound(HandleAckmsg(m, p), Receiver, F)
           /\ \A i \in Range(HandleAckmsg(m, p)) : i[1] \in {"lock", "unlock", "checkAck"}
           /\ Sound(Increment \o << <<"collect", m, p>> >>, Receiver, F)
           /\ \A i \in Range(Increment \o << <<"collect", m, p>> >>) : i[1] \in {"load", "store", "collect"}
<1> DEFINE check == <<"checkAck", m, p>>
           collect == <<"collect", m, p>>
           c == <<collect>>
<1>1. check \in Instruction /\ collect \in Instruction
    BY DEF Instruction
<1>2. /\ Place(check, Receiver) /\ Place(collect, Receiver)
      /\ Requires(check) \subseteq F /\ Requires(collect) \subseteq F
      /\ check[1] = "checkAck" /\ collect[1] = "collect" /\ Docile(collect)
    BY DEF Place, Requires, Docile
<1>3. "ackHistory" \in Mutexes
    BY DEF Mutexes
<1> HIDE DEF check, collect
<1>4. /\ Sound(Section("ackHistory", <<check>>), Receiver, F)
      /\ Range(Section("ackHistory", <<check>>)) = {<<"lock", "ackHistory">>, <<"unlock", "ackHistory">>, check}
    BY <1>1, <1>2, <1>3, SoundAccess
<1>5. Sound(c, Receiver, F) /\ Range(c) = {collect}
    BY <1>1, <1>2, SoundOne
<1>6. Sound(Increment, Receiver, F) /\ Range(Increment) = {<<"load">>, <<"store">>}
    BY SoundIncrement
<1> HIDE DEF c
<1>7. Precedes(Increment, c)
  <2>1. \A i \in Range(Increment) : i[1] \notin Calls
      BY <1>6 DEF Calls
  <2> QED
      BY <1>2, <1>5, <2>1, DocilePrecedes
<1>8. Sound(Increment \o c, Receiver, F)
    BY <1>5, <1>6, <1>7, SoundBoth
<1>9. Range(Increment \o c) = Range(Increment) \cup Range(c)
    BY <1>5, <1>6, RangeBoth
<1>10. \A i \in Range(Increment \o c) : i[1] \in {"load", "store", "collect"}
    BY <1>2, <1>5, <1>6, <1>9
<1>11. \A i \in Range(Section("ackHistory", <<check>>)) : i[1] \in {"lock", "unlock", "checkAck"}
    BY <1>2, <1>4
<1> QED
    BY <1>4, <1>8, <1>10, <1>11 DEF HandleAckmsg, check, collect, c

\* The end of handle_ackmsg.
LEMMA SoundFinalize ==
    ASSUME NEW m \in Own, NEW F, Known(m) \subseteq F
    PROVE  /\ Sound(Finalize(m), Receiver, F)
           /\ <<"addSeq", m>> \in Range(Finalize(m)) /\ <<"change", m>> \in Range(Finalize(m))
           /\ \A i \in Range(Finalize(m)) :
                \/ i \in {<<"addSeq", m>>, <<"change", m>>}
                \/ i[1] \in {"lock", "unlock", "broadcast", "deliver", "printDelivered"}
           /\ <<"unlock", "ackHistory">> \notin Range(Finalize(m))
<1> DEFINE add == <<"addSeq", m>>
           change == <<"change", m>>
           a == Section("seqMessageHistory", <<add>>)
           b == BroadcastSeq(m)
           c == Section("deliveryQueue", <<change>>)
           d == Deliver
<1>1. m \in Msg
    BY OwnIsNotForeign
<1>2. add \in Instruction /\ change \in Instruction
    BY <1>1 DEF Instruction
<1>3. /\ Place(add, Receiver) /\ Place(change, Receiver)
      /\ Requires(add) \subseteq F /\ Requires(change) \subseteq F
      /\ add[1] = "addSeq" /\ change[1] = "change" /\ Quiet(add)
    BY DEF Place, Requires, Quiet
<1>4. "seqMessageHistory" \in Mutexes /\ "deliveryQueue" \in Mutexes
    BY DEF Mutexes
<1> HIDE DEF add, change
<1>5. /\ Sound(a, Receiver, F)
      /\ Range(a) = {<<"lock", "seqMessageHistory">>, <<"unlock", "seqMessageHistory">>, add}
    BY <1>2, <1>3, <1>4, SoundAccess
<1>6. /\ Sound(c, Receiver, F)
      /\ Range(c) = {<<"lock", "deliveryQueue">>, <<"unlock", "deliveryQueue">>, change}
    BY <1>2, <1>3, <1>4, SoundAccess
<1>7. Sound(b, Receiver, F) /\ \A i \in Range(b) : i[1] = "broadcast" /\ Quiet(i)
  <2>1. Idle(b, F) /\ \A i \in Range(b) : i[1] = "broadcast"
      BY IdleBroadcast DEF BroadcastSeq
  <2>2. \A i \in Range(b) : Place(i, Receiver)
      BY <2>1 DEF Place
  <2> QED
      BY <2>1, <2>2, IdleSound DEF Idle
<1>8. Sound(d, Receiver, F) /\ \A i \in Range(d) : i[1] \in {"lock", "unlock", "deliver", "printDelivered"}
    BY SoundDeliver
<1>9. Finalize(m) = ((a \o b) \o c) \o d
    BY DEF Finalize, add, change
<1>10. \A i \in Range(a) : Quiet(i)
    BY <1>3, <1>5 DEF Quiet
<1>11. <<"unlock", "ackHistory">> \notin Range(d)
  <2>1. Range(Deliver) \subseteq {<<"lock", "deliveryQueue">>, <<"unlock", "deliveryQueue">>,
                                  <<"lock", "deliveredMessage">>, <<"unlock", "deliveredMessage">>,
                                  <<"deliver">>, <<"printDelivered">>}
      BY SoundDeliver
  <2> QED
      BY <2>1
<1> HIDE DEF a, b, c, d
<1> DEFINE s1 == a \o b
           s2 == s1 \o c
           s3 == s2 \o d
<1>12. Sound(s1, Receiver, F) /\ Range(s1) = Range(a) \cup Range(b)
  <2>1. Precedes(a, b)
      BY <1>10, QuietPrecedes DEF Precedes
  <2> QED
      BY <1>5, <1>7, <2>1, SoundBoth, RangeBoth
<1>13. \A i \in Range(s1) : Quiet(i)
    BY <1>7, <1>10, <1>12
<1> HIDE DEF s1
<1>14. Sound(s2, Receiver, F) /\ Range(s2) = Range(s1) \cup Range(c)
  <2>1. Precedes(s1, c)
      BY <1>13, QuietPrecedes DEF Precedes
  <2> QED
      BY <1>6, <1>12, <2>1, SoundBoth, RangeBoth
<1>15. \A i \in Range(s2) : i[1] \notin Calls
    BY <1>3, <1>6, <1>13, <1>14 DEF Calls, Quiet
<1> HIDE DEF s2
<1>16. Sound(s3, Receiver, F) /\ Range(s3) = Range(s2) \cup Range(d)
  <2>1. Precedes(s2, d)
      BY <1>8, <1>15, DocilePrecedes DEF Docile
  <2> QED
      BY <1>8, <1>14, <2>1, SoundBoth, RangeBoth
<1>17. Range(s3) = ((Range(a) \cup Range(b)) \cup Range(c)) \cup Range(d)
    BY <1>12, <1>14, <1>16
<1> HIDE DEF s3
<1>18. /\ add \in Range(s3) /\ change \in Range(s3)
       /\ \A i \in Range(s3) : \/ i \in {add, change}
                               \/ i[1] \in {"lock", "unlock", "broadcast", "deliver", "printDelivered"}
    BY <1>5, <1>6, <1>7, <1>8, <1>17
<1>19. <<"unlock", "ackHistory">> \notin Range(s3)
  <2>1. add # <<"unlock", "ackHistory">> /\ change # <<"unlock", "ackHistory">>
      BY <1>3
  <2>2. <<"unlock", "ackHistory">> \notin Range(b)
      BY <1>7
  <2> QED
      BY <1>5, <1>6, <1>11, <1>17, <2>1, <2>2
<1>20. Finalize(m) = s3
    BY <1>9 DEF s1, s2, s3
<1> QED
    BY <1>16, <1>18, <1>19, <1>20 DEF add, change


\* handle_seqmsg: what its instructions rely on is established on the way.
LEMMA SoundHandleSeqmsg ==
    ASSUME NEW m \in Foreign, NEW F, Known(m) \subseteq F
    PROVE  /\ Sound(HandleSeqmsg(m), Receiver, F)
           /\ \A i \in Range(HandleSeqmsg(m)) :
                \/ i = <<"change", m>>
                \/ i[1] \in {"lock", "unlock", "checkDelivered", "apply"}
<1> DEFINE change == <<"change", m>>
           check == <<"checkDelivered", m>>
           apply == <<"apply", m>>
           C == {<<"checked", m>>, <<"applied", m>>}
           H == F \cup C
           a == Section("deliveryQueue", <<change>>)
           b == Section("deliveredMessage", <<check>>)
           c == <<apply>>
<1>1. m \in Msg /\ m \notin Own
    BY OwnIsNotForeign
<1>2. change \in Instruction /\ check \in Instruction /\ apply \in Instruction
    BY <1>1 DEF Instruction
<1>3. /\ Place(change, Receiver) /\ Place(check, Receiver) /\ Place(apply, Receiver)
      /\ Requires(change) \subseteq F /\ Requires(check) \subseteq H /\ Requires(apply) \subseteq H
      /\ Establishes(change) = C
    BY DEF Place, Requires, Establishes
<1>4. /\ change[1] = "change" /\ check[1] = "checkDelivered" /\ apply[1] = "apply"
      /\ Docile(apply) /\ Quiet(check)
    BY DEF Docile, Quiet
<1>5. MayPrecede(change, check)
  <2>1. Makes(change) = {} /\ Makes(check) = {}
      BY DEF Makes
  <2>2. Destroys(change) = ({"checked"} \X (Msg \ {m})) \cup {<<"positive", None>>}
      BY DEF Destroys
  <2>3. Requires(check) = Known(m) \cup {<<"checked", m>>}
      BY DEF Requires
  <2>4. Destroys(change) \cap Requires(check) = {}
      BY <2>2, <2>3 DEF Known
  <2> QED
      BY <1>4, <2>1, <2>4 DEF MayPrecede
<1>6. "deliveredMessage" \in Mutexes /\ "deliveryQueue" \in Mutexes
    BY DEF Mutexes
<1> HIDE DEF change, check, apply, C, H
<1>7. /\ Sound(a, Receiver, F)
      /\ Range(a) = {<<"lock", "deliveryQueue">>, <<"unlock", "deliveryQueue">>, change}
    BY <1>2, <1>3, <1>6, SoundAccess
<1>8. /\ Sound(b, Receiver, H)
      /\ Range(b) = {<<"lock", "deliveredMessage">>, <<"unlock", "deliveredMessage">>, check}
    BY <1>2, <1>3, <1>6, SoundAccess
<1>9. Sound(c, Receiver, H) /\ Range(c) = {apply}
    BY <1>2, <1>3, SoundOne
<1>10. HandleSeqmsg(m) = (a \o b) \o c
    BY DEF HandleSeqmsg, change, check, apply
<1> HIDE DEF a, b, c
<1> DEFINE s1 == a \o b
           s2 == s1 \o c
<1>11. \A f \in C : \E i \in Range(a) : f \in Establishes(i)
    BY <1>3, <1>7
<1>12. Precedes(a, b)
  <2>1. \A i \in Range(a) : i[1] \notin Calls
      BY <1>4, <1>7 DEF Calls
  <2>2. \A i \in Range(a) : MayPrecede(i, <<"lock", "deliveredMessage">>)
                            /\ MayPrecede(i, <<"unlock", "deliveredMessage">>)
      BY <2>1, DocileFollows DEF Docile
  <2>3. Quiet(<<"lock", "deliveryQueue">>) /\ Quiet(<<"unlock", "deliveryQueue">>)
      BY DEF Quiet
  <2>4. \A i \in Range(a) : MayPrecede(i, check)
      BY <1>5, <1>7, <2>3, QuietPrecedes
  <2> QED
      BY <1>8, <2>2, <2>4 DEF Precedes
<1>13. Sound(s1, Receiver, F)
  <2>1. Sound(b, Receiver, F \cup C)
      BY <1>8 DEF H
  <2> QED
      BY <1>7, <1>11, <1>12, <2>1, SoundThen
<1>14. Range(s1) = Range(a) \cup Range(b)
    BY <1>7, <1>8, RangeBoth
<1> HIDE DEF s1
<1>15. \A i \in Range(s1) : i[1] \notin Calls
    BY <1>4, <1>7, <1>8, <1>14 DEF Calls
<1>16. Sound(s2, Receiver, F)
  <2>1. Sound(c, Receiver, F \cup C)
      BY <1>9 DEF H
  <2>2. \A f \in C : \E i \in Range(s1) : f \in Establishes(i)
      BY <1>11, <1>14
  <2>3. Precedes(s1, c)
      BY <1>4, <1>9, <1>15, DocilePrecedes
  <2> QED
      BY <1>13, <2>1, <2>2, <2>3, SoundThen
<1>17. Range(s2) = Range(s1) \cup Range(c)
    BY <1>9, <1>13, RangeBoth
<1>18. \A i \in Range(s2) : i = change \/ i[1] \in {"lock", "unlock", "checkDelivered", "apply"}
    BY <1>4, <1>7, <1>8, <1>9, <1>14, <1>17
<1> HIDE DEF s2
<1>19. HandleSeqmsg(m) = s2
    BY <1>10 DEF s1, s2
<1> QED
    BY <1>16, <1>18, <1>19 DEF change

LEMMA SoundApplySeq ==
    ASSUME NEW m \in Foreign, NEW F, Known(m) \cup {<<"applied", m>>} \subseteq F
    PROVE  /\ Sound(ApplySeq(m), Receiver, F)
           /\ \A i \in Range(ApplySeq(m)) :
                \/ i = <<"addSeq", m>>
                \/ i[1] \in {"lock", "unlock", "deliver", "printDelivered"}
<1> DEFINE add == <<"addSeq", m>>
           a == Section("seqMessageHistory", <<add>>)
           d == Deliver
<1>1. m \in Msg /\ m \notin Own
    BY OwnIsNotForeign
<1>2. add \in Instruction
    BY <1>1 DEF Instruction
<1>3. Place(add, Receiver) /\ Requires(add) \subseteq F /\ add[1] = "addSeq" /\ Quiet(add)
    BY DEF Place, Requires, Quiet
<1>4. "seqMessageHistory" \in Mutexes
    BY DEF Mutexes
<1> HIDE DEF add
<1>5. /\ Sound(a, Receiver, F)
      /\ Range(a) = {<<"lock", "seqMessageHistory">>, <<"unlock", "seqMessageHistory">>, add}
    BY <1>2, <1>3, <1>4, SoundAccess
<1>6. Sound(d, Receiver, F) /\ \A i \in Range(d) : i[1] \in {"lock", "unlock", "deliver", "printDelivered"}
    BY SoundDeliver
<1>7. ApplySeq(m) = a \o d
    BY DEF ApplySeq, add
<1>8. \A i \in Range(a) : Quiet(i)
    BY <1>3, <1>5 DEF Quiet
<1> HIDE DEF a, d
<1>9. Precedes(a, d)
    BY <1>8, QuietPrecedes DEF Precedes
<1>10. Sound(a \o d, Receiver, F)
    BY <1>5, <1>6, <1>9, SoundBoth
<1>11. Range(a \o d) = Range(a) \cup Range(d)
    BY <1>5, <1>6, RangeBoth
<1>12. \A i \in Range(a \o d) : i = add \/ i[1] \in {"lock", "unlock", "deliver", "printDelivered"}
    BY <1>5, <1>6, <1>11
<1> QED
    BY <1>7, <1>10, <1>12 DEF add

\* A watchdog that wakes up.
LEMMA SoundWatchdogs ==
    ASSUME NEW F
    PROVE  /\ \A m \in Own, p \in Peers : Known(m) \subseteq F =>
                /\ Sound(DatamsgWatchdog(m, p), <<"data", m, p>>, F)
                /\ \A i \in Range(DatamsgWatchdog(m, p)) : Makes(i) = {}
           /\ \A m \in Foreign : Known(m) \subseteq F =>
                /\ Sound(AckmsgWatchdog(m), <<"ack", m>>, F)
                /\ \A i \in Range(AckmsgWatchdog(m)) : Makes(i) = {}
<1>1. ASSUME NEW m \in Own, NEW p \in Peers, Known(m) \subseteq F, NEW t
      PROVE  /\ Sound(DatamsgWatchdog(m, p), t, F)
             /\ \A i \in Range(DatamsgWatchdog(m, p)) : Makes(i) = {}
  <2> DEFINE check == <<"checkAcked", m, p>>
  <2>1. check \in Instruction
      BY DEF Instruction
  <2>2. Place(check, t) /\ Requires(check) \subseteq F /\ Makes(check) = {}
      BY <1>1 DEF Place, Requires, Makes
  <2>3. "ackHistory" \in Mutexes
      BY DEF Mutexes
  <2>4. Makes(<<"lock", "ackHistory">>) = {} /\ Makes(<<"unlock", "ackHistory">>) = {}
      BY DEF Makes
  <2> HIDE DEF check
  <2>5. /\ Sound(Section("ackHistory", <<check>>), t, F)
        /\ Range(Section("ackHistory", <<check>>)) = {<<"lock", "ackHistory">>, <<"unlock", "ackHistory">>, check}
      BY <2>1, <2>2, <2>3, SoundAccess
  <2> QED
      BY <2>2, <2>4, <2>5 DEF DatamsgWatchdog, check
<1>2. ASSUME NEW m \in Foreign, Known(m) \subseteq F
      PROVE  /\ Sound(AckmsgWatchdog(m), <<"ack", m>>, F)
             /\ \A i \in Range(AckmsgWatchdog(m)) : Makes(i) = {}
  <2> DEFINE t == <<"ack", m>>
             check == <<"checkSeq", m>>
             a == Section("seqMessageHistory", <<check>>)
             b == SendMsg("ACKMSG", m[1], m)
  <2>1. check \in Instruction /\ t \in Watchdogs
      BY DEF Instruction, Watchdogs, AckWatchdogs
  <2>2. Place(check, t) /\ Requires(check) \subseteq F /\ Quiet(check) /\ check[1] = "checkSeq"
      BY <1>2, <2>1 DEF Place, Requires, Quiet
  <2>3. "seqMessageHistory" \in Mutexes
      BY DEF Mutexes
  <2>4. Packet("ACKMSG", m[1], m) \in Packets
    <3>1. m[1] \in Host
        BY MessageAssumption DEF Peers
    <3> QED
        BY <3>1 DEF Packets, Packet
  <2>5. Idle(b, F) /\ Range(b) = {<<"toss", Packet("ACKMSG", m[1], m)>>}
      BY <1>2, <2>4, IdleSendMsg
  <2>6. \A i \in Range(b) : i[1] = "toss" /\ Place(i, t)
      BY <2>5 DEF Place
  <2>7. AckmsgWatchdog(m) = a \o b
      BY DEF AckmsgWatchdog
  <2> HIDE DEF check, b, t
  <2>8. /\ Sound(a, t, F)
        /\ Range(a) = {<<"lock", "seqMessageHistory">>, <<"unlock", "seqMessageHistory">>, check}
      BY <2>1, <2>2, <2>3, SoundAccess
  <2> HIDE DEF a
  <2>9. Sound(b, t, F)
      BY <2>5, <2>6, IdleSound
  <2>10. \A i \in Range(a) : Quiet(i)
      BY <2>2, <2>8 DEF Quiet
  <2>11. Precedes(a, b)
      BY <2>10, QuietPrecedes DEF Precedes
  <2>12. Sound(a \o b, t, F)
      BY <2>8, <2>9, <2>11, SoundBoth
  <2>13. Range(a \o b) = Range(a) \cup Range(b)
      BY <2>8, <2>9, RangeBoth
  <2>14. \A i \in Range(a \o b) : i[1] \in {"lock", "unlock", "checkSeq", "toss"}
      BY <2>2, <2>6, <2>8, <2>13
  <2>15. \A i \in Range(a \o b) : Makes(i) = {}
      BY <2>14 DEF Makes
  <2> QED
      BY <2>7, <2>12, <2>15 DEF t
<1> QED
    BY <1>1, <1>2

\* Accesses to the buffers, to the flag and to the copies, in sections of their own.
Accesses == {"pushBuffer", "drain", "record", "testRecord", "copyQueue", "copyDelivered", "print"}

LEMMA IdleAccess ==
    ASSUME NEW l \in Mutexes \ {"ackHistory"}, NEW i \in Instruction, i[1] \in Accesses, NEW F
    PROVE  /\ Idle(Section(l, <<i>>), F)
           /\ \A j \in Range(Section(l, <<i>>)) : j[1] \in {"lock", "unlock"} \cup Accesses
<1>1. Quiet(i) /\ Requires(i) = {}
    BY DEF Quiet, Requires, Accesses
<1>2. Idle(<<i>>, F) /\ Range(<<i>>) = {i}
    BY <1>1, IdleOne, ListOfOne
<1>3. /\ Idle(Section(l, <<i>>), F)
      /\ Range(Section(l, <<i>>)) = {<<"lock", l>>, <<"unlock", l>>} \cup {i}
    BY <1>2, IdleSection
<1> QED
    BY <1>3

LEMMA IdleBoth ==
    ASSUME NEW F, NEW a, NEW b, Idle(a, F), Idle(b, F), NEW S,
           \A i \in Range(a) : i[1] \in S, \A i \in Range(b) : i[1] \in S
    PROVE  Idle(a \o b, F) /\ \A i \in Range(a \o b) : i[1] \in S
<1>1. Range(a \o b) = Range(a) \cup Range(b)
    BY RangeOfConcat DEF Idle
<1> QED
    BY <1>1, IdleConcat

LEMMA IdleHandleMarker ==
    ASSUME NEW n, NEW F
    PROVE  /\ Idle(HandleMarker(n), F)
           /\ \A i \in Range(HandleMarker(n)) : i[1] \in {"lock", "unlock"} \cup Accesses
<1> DEFINE S == {"lock", "unlock"} \cup Accesses
           a == Section("deliveryQueue", << <<"copyQueue">> >>)
           b == Section("deliveredMessage", << <<"copyDelivered">> >>)
           c == Section("recordMessages", << <<"record", TRUE>> >>)
           d == Section("inboundMessageBuffer", << <<"drain", "inboundMessageBuffer">> >>)
           e == Section("outboundMessageBuffer", << <<"drain", "outboundMessageBuffer">> >>)
           g == Section("recordMessages", << <<"record", FALSE>> >>)
           Fine(s) == Idle(s, F) /\ \A i \in Range(s) : i[1] \in S
<1>1. {"deliveryQueue", "deliveredMessage", "recordMessages", "inboundMessageBuffer",
       "outboundMessageBuffer"} \subseteq Mutexes \ {"ackHistory"}
    BY DEF Mutexes
<1>2. /\ <<"copyQueue">> \in Instruction /\ <<"copyDelivered">> \in Instruction
      /\ <<"record", TRUE>> \in Instruction /\ <<"record", FALSE>> \in Instruction
      /\ <<"drain", "inboundMessageBuffer">> \in Instruction
      /\ <<"drain", "outboundMessageBuffer">> \in Instruction
    BY DEF Instruction, Buffers
<1>3. Fine(a) /\ Fine(b)
    BY <1>1, <1>2, IdleAccess DEF Accesses
<1>4. Fine(c) /\ Fine(g)
    BY <1>1, <1>2, IdleAccess DEF Accesses
<1>5. Fine(d) /\ Fine(e)
    BY <1>1, <1>2, IdleAccess DEF Accesses
<1>6. Fine(<<>>)
    BY IdleNone, ListOfNone
<1> DEFINE x == IF n = 1 THEN (a \o b) \o c ELSE d \o e
           y == IF n = Len(hostNames) - 1 THEN g ELSE <<>>
<1>7. HandleMarker(n) = x \o y
    BY DEF HandleMarker, CopyState
<1> HIDE DEF a, b, c, d, e, g, S
<1>8. Fine(x)
  <2>1. Fine(a \o b)
      BY <1>3, IdleBoth
  <2>2. Fine((a \o b) \o c)
      BY <1>4, <2>1, IdleBoth
  <2>3. Fine(d \o e)
      BY <1>5, IdleBoth
  <2> QED
      BY <2>2, <2>3
<1>9. Fine(y)
    BY <1>4, <1>6
<1> HIDE DEF x, y
<1>10. Fine(x \o y)
    BY <1>8, <1>9, IdleBoth
<1> QED
    BY <1>7, <1>10 DEF S


-----------------------------------------------------------------------------
(***************************************************************************)
(* Steps of a thread, whatever the instruction.                            *)
(***************************************************************************)

\* A set of natural numbers has a least element.
LEMMA Least ==
    ASSUME NEW T \in SUBSET Nat, T # {}
    PROVE  \E x \in T : \A y \in T : x =< y
<1> DEFINE R == {ss \in Nat \X Nat : ss[1] < ss[2]}
<1>1. IsWellFoundedOn(R, Nat)
    BY NatLessThanWellFounded DEF OpToRel
<1> HIDE DEF R
<1>2. PICK x \in T : \A y \in T : ~ (<<y, x>> \in R)
    BY <1>1, WFMin
<1>3. ASSUME NEW y \in T PROVE x =< y
  <2>1. <<y, x>> \in R <=> y < x
      BY DEF R
  <2> QED
      BY <1>2, <2>1
<1> QED
    BY <1>3

\* What a thread holds can be told from what it has still to execute: no mutex
\* that it is going to unlock is locked before.
LEMMA RunsOnce ==
    ASSUME NEW s, NEW H \in SUBSET Mutexes, NEW K \in SUBSET Mutexes,
           Runs(s, H, {}), Runs(s, K, {})
    PROVE  H \subseteq K
<1> SUFFICES ASSUME NEW l \in H, l \notin K PROVE FALSE
    OBVIOUS
<1> DEFINE T == {n \in 1 .. Len(s) : s[n] = <<"unlock", l>>}
<1>1. l \in Mutexes /\ s \in Seq(Instruction) /\ Len(s) \in Nat
    BY DEF Runs
<1>2. T # {}
  <2>1. l \notin HeldBefore(s, H, Len(s) + 1) /\ (Len(s) + 1) - 1 = Len(s)
      BY <1>1 DEF Runs
  <2>2. ~ Keeps(s, l, 1, Len(s))
      BY <1>1, <2>1 DEF HeldBefore
  <2> QED
      BY <2>2 DEF Keeps
<1>3. T \in SUBSET Nat
    BY <1>1
<1>4. PICK n \in T : \A k \in T : n =< k
    BY <1>2, <1>3, Least
<1>5. n \in 1 .. Len(s) /\ n \in Nat /\ s[n] = <<"unlock", l>>
    BY <1>1, <1>4
<1>6. l \in HeldBefore(s, K, n)
    BY <1>5 DEF Runs, Needs
<1>7. PICK i \in 1 .. (n - 1) : s[i] = <<"lock", l>>
    BY <1>6 DEF HeldBefore
<1>8. i \in 1 .. Len(s) /\ i < n /\ i \in Nat
    BY <1>1, <1>5
<1>9. Keeps(s, l, 1, i - 1)
    BY <1>1, <1>4, <1>5, <1>8 DEF Keeps
<1>10. l \in HeldBefore(s, H, i)
    BY <1>1, <1>9 DEF HeldBefore
<1>11. l \in May(<<"lock", l>>)
    BY <1>7, <1>8, <1>10 DEF Runs
<1>12. Rank[l] < Rank[l] /\ Rank[l] \in Nat
    BY <1>1, <1>11, Ranks DEF May
<1> QED
    BY <1>12

\* A thread that does nothing takes and releases nothing, whoever else does.
LEMMA HoldingStays ==
    ASSUME LocksInv, LocksInv', NEW u \in Threads, todo'[u] = todo[u]
    PROVE  \A l \in Mutexes : owner[l] = u <=> owner'[l] = u
<1> DEFINE H == Holding(u)
           K == {l \in Mutexes : owner'[l] = u}
<1>1. Runs(todo[u], H, {}) /\ H \in SUBSET Mutexes /\ K \in SUBSET Mutexes
    BY DEF LocksInv, Holding
<1>2. Runs(todo[u], K, {})
  <2>1. Holding(u)' = K
      BY DEF Holding
  <2>2. Runs(todo[u], Holding(u), {})'
      BY DEF LocksInv
  <2>3. Runs(todo'[u], Holding(u)', {})
      BY <2>2 DEF Runs, HeldBefore, Keeps
  <2> HIDE DEF K
  <2> QED
      BY <2>1, <2>3
<1> HIDE DEF H, K
<1>3. H \subseteq K /\ K \subseteq H
    BY <1>1, <1>2, RunsOnce
<1> QED
    BY <1>3 DEF H, K, Holding

\* A step of t: the instructions s, the rest of its list, and off the unlocks a.
LEMMA GoSplits ==
    ASSUME NEW t \in Threads, todo \in [Threads -> Seq(Instruction)], todo[t] # <<>>,
           NEW s \in Seq(Instruction), Go(t, s)
    PROVE  \E a \in Seq(Instruction), b \in Seq(Instruction) :
             /\ a \o b = s \o Tail(todo[t]) /\ \A i \in 1 .. Len(a) : a[i][1] = "unlock"
             /\ todo' = [todo EXCEPT ![t] = b]
             /\ owner' = [l \in Mutexes |-> IF <<"unlock", l>> \in Range(a) THEN None ELSE owner[l]]
<1> DEFINE rest == s \o Tail(todo[t])
<1>1. rest \in Seq(Instruction)
    OBVIOUS
<1> HIDE DEF rest
<1>2. PICK n \in 0 .. Len(rest) :
          /\ \A i \in 1 .. n : rest[i][1] = "unlock"
          /\ todo' = [todo EXCEPT ![t] = SubSeq(rest, n + 1, Len(rest))]
          /\ owner' = [l \in Mutexes |->
                          IF \E i \in 1 .. n : rest[i] = <<"unlock", l>> THEN None ELSE owner[l]]
    BY DEF Go, rest
<1> DEFINE a == SubSeq(rest, 1, n)
           b == SubSeq(rest, n + 1, Len(rest))
<1>3. /\ a \in Seq(Instruction) /\ b \in Seq(Instruction) /\ a \o b = rest
      /\ Len(a) = n /\ \A i \in 1 .. n : a[i] = rest[i]
    BY <1>1, SplitAt
<1>4. todo' = [todo EXCEPT ![t] = b]
    BY <1>2
<1> HIDE DEF a, b
<1>5. \A l : <<"unlock", l>> \in Range(a) <=> \E i \in 1 .. n : rest[i] = <<"unlock", l>>
  <2>1. \A l : <<"unlock", l>> \in Range(a) <=> \E i \in 1 .. Len(a) : a[i] = <<"unlock", l>>
      BY <1>3, RangeAt
  <2>2. \A l : (\E i \in 1 .. n : a[i] = <<"unlock", l>>) <=> \E i \in 1 .. n : rest[i] = <<"unlock", l>>
      BY <1>3
  <2> QED
      BY <1>3, <2>1, <2>2
<1>6. owner' = [l \in Mutexes |-> IF <<"unlock", l>> \in Range(a) THEN None ELSE owner[l]]
    BY <1>2, <1>5
<1>7. a \o b = s \o Tail(todo[t]) /\ \A i \in 1 .. Len(a) : a[i][1] = "unlock"
    BY <1>2, <1>3 DEF rest
<1> QED
    BY <1>3, <1>4, <1>6, <1>7

\* Only main makes facts about its own messages, only the receiver about others.
LEMMA MakersApart ==
    ASSUME NEW t, NEW u, t # u, NEW i \in Instruction, NEW j \in Instruction, Place(i, t), Place(j, u)
    PROVE  Makes(i) \cap Makes(j) = {}
<1>1. ASSUME NEW x \in Instruction, NEW v, Place(x, v), NEW f \in Makes(x)
      PROVE  v = IF f[2] \in Own THEN Main ELSE Receiver
  <2>1. CASE x[1] = "multicast"
      BY <1>1, <2>1 DEF Makes, Place
  <2>2. CASE x[1] \in {"push", "proposeOwn", "ack"}
      BY <1>1, <2>2 DEF Makes, Place
  <2>3. CASE x[1] \notin {"multicast", "push", "proposeOwn", "ack"}
      BY <1>1, <2>3 DEF Makes
  <2> QED
      BY <2>1, <2>2, <2>3
<1> QED
    BY <1>1

\* What a step of t at instruction i does to the facts.
Learns(t, i) ==
    /\ Facts \subseteq Facts'
    /\ \A f \in Facts' : f \in Facts \/ f[1] \notin {"held", "proposed"} \/ f \in Makes(i)
    /\ \A u \in Threads \ {t} : Local(u) \subseteq Local(u)'
    /\ (FactsOf(t) \cup Establishes(i)) \ Destroys(i) \subseteq FactsOf(t)'

LEMMA MakesKinds == \A i : \A f \in Makes(i) : f[1] \in {"held", "proposed"}
    BY DEF Makes

LEMMA ListsNext ==
    ASSUME NEW td, todo' = td,
           \A u \in Threads : Sound(td[u], u, FactsOf(u)'),
           \A u \in Threads : \A i \in Range(td[u]) : Makes(i) \cap Facts' = {}
    PROVE  Lists'
    BY DEF Lists, Sound, Orderly, Follows, Fresh, Before, Range

\* The lists of the threads which do nothing.
LEMMA OtherLists ==
    ASSUME LocksInv, Lists, NEW t \in Threads, NEW i \in Instruction, Place(i, t), Learns(t, i),
           NEW u \in Threads, u # t
    PROVE  Sound(todo[u], u, FactsOf(u)') /\ \A j \in Range(todo[u]) : Makes(j) \cap Facts' = {}
<1>1. todo[u] \in Seq(Instruction) /\ Orderly(todo[u], u) /\ Follows(todo[u], FactsOf(u)) /\ Fresh(todo[u])
    BY DEF LocksInv, Lists
<1>2. FactsOf(u) \subseteq FactsOf(u)'
    BY DEF Learns, FactsOf
<1>3. Follows(todo[u], FactsOf(u)')
    BY <1>1, <1>2, FollowsMore
<1>4. ASSUME NEW j \in Range(todo[u]) PROVE Makes(j) \cap Facts' = {}
  <2>1. j \in Instruction /\ Place(j, u)
      BY <1>1, RangeAt DEF Orderly
  <2>2. Makes(i) \cap Makes(j) = {}
      BY <2>1, MakersApart
  <2>3. Makes(j) \cap Facts = {}
      BY <1>1 DEF Fresh
  <2> QED
      BY <2>2, <2>3, MakesKinds DEF Learns
<1> QED
    BY <1>1, <1>3, <1>4 DEF Sound

\* A step that keeps the lists of instructions in order.
LEMMA GoLists ==
    ASSUME LocksInv, Lists, NEW t \in Threads, todo[t] # <<>>, NEW s,
           Learns(t, Head(todo[t])), Go(t, s),
           Sound(s, t, FactsOf(t)'), Precedes(s, Tail(todo[t])),
           \A i \in Range(s) : Makes(i) \cap Facts' = {}
    PROVE  Lists'
<1> DEFINE h == Head(todo[t])
           r == Tail(todo[t])
           F == FactsOf(t)
           E == FactsOf(t) \cup Establishes(h)
           N == FactsOf(t)'
<1>1. todo \in [Threads -> Seq(Instruction)] /\ Sound(todo[t], t, F) /\ Fresh(todo[t])
    BY DEF LocksInv, Lists, Sound
<1>2. /\ h \in Instruction /\ Place(h, t) /\ Sound(r, t, E)
      /\ \A j \in Range(r) : MayPrecede(h, j)
      /\ Range(todo[t]) = {h} \cup Range(r)
    BY <1>1, SoundFirst
<1>3. E \ Destroys(h) \subseteq N
    BY DEF Learns
<1>4. \A j \in Range(r) : Makes(j) \cap Facts' = {}
  <2>1. \A j \in Range(r) : Makes(j) \cap Facts = {} /\ Makes(h) \cap Makes(j) = {}
      BY <1>1, <1>2 DEF Fresh, MayPrecede
  <2> QED
      BY <2>1, MakesKinds DEF Learns
<1> HIDE DEF h, r, E, F, N
<1>5. Sound(r, t, N)
  <2>1. \A k \in 1 .. Len(r) : Destroys(h) \cap Requires(r[k]) = {}
      BY <1>2, RangeAt DEF Sound, MayPrecede
  <2>2. Follows(r, E \ Destroys(h))
      BY <1>2, <2>1, FollowsLess DEF Sound
  <2>3. Follows(r, N)
      BY <1>3, <2>2, FollowsMore
  <2> QED
      BY <1>2, <2>3 DEF Sound
<1>6. Sound(s, t, N) /\ Precedes(s, r) /\ s \in Seq(Instruction)
    BY DEF N, r, Sound
<1>7. Sound(s \o r, t, N)
    BY <1>5, <1>6, SoundBoth
<1>8. Range(s \o r) = Range(s) \cup Range(r)
    BY <1>5, <1>6, RangeBoth
<1>9. PICK a \in Seq(Instruction), b \in Seq(Instruction) :
         /\ a \o b = s \o r /\ \A i \in 1 .. Len(a) : a[i][1] = "unlock"
         /\ todo' = [todo EXCEPT ![t] = b]
  <2>1. \E a \in Seq(Instruction), b \in Seq(Instruction) :
             /\ a \o b = s \o Tail(todo[t]) /\ \A i \in 1 .. Len(a) : a[i][1] = "unlock"
             /\ todo' = [todo EXCEPT ![t] = b]
             /\ owner' = [l \in Mutexes |-> IF <<"unlock", l>> \in Range(a) THEN None ELSE owner[l]]
      BY <1>1, <1>6, GoSplits
  <2> QED
      BY <2>1 DEF r
<1>10. Sound(b, t, N) /\ Range(b) \subseteq Range(a \o b)
  <2>1. Sound(a \o b, t, N)
      BY <1>7, <1>9
  <2>2. Sound(b, t, N)
      BY <1>9, <2>1, SoundRest
  <2>3. Range(b) \subseteq Range(a \o b)
      BY <1>9, RangeOfConcat
  <2> QED
      BY <2>2, <2>3
<1>11. \A i \in Range(b) : Makes(i) \cap Facts' = {}
    BY <1>4, <1>8, <1>9, <1>10 DEF r
<1>12. \A u \in Threads : u # t =>
         Sound(todo[u], u, FactsOf(u)') /\ \A j \in Range(todo[u]) : Makes(j) \cap Facts' = {}
    BY <1>2, OtherLists DEF h
<1> DEFINE td == [todo EXCEPT ![t] = b]
<1>13. td[t] = b /\ \A u \in Threads : u # t => td[u] = todo[u]
    BY <1>1
<1>14. \A u \in Threads : Sound(td[u], u, FactsOf(u)')
    BY <1>10, <1>12, <1>13 DEF N
<1>15. \A u \in Threads : \A i \in Range(td[u]) : Makes(i) \cap Facts' = {}
    BY <1>11, <1>12, <1>13
<1>16. todo' = td
    BY <1>9
<1> HIDE DEF td
<1> QED
    BY <1>14, <1>15, <1>16, ListsNext


-----------------------------------------------------------------------------
(***************************************************************************)
(* The facts, and how the parts of the invariant outlast a step.           *)
(***************************************************************************)
Proposed(m) == IF m \in Own THEN ackHistory[m][Me] # 0 ELSE alreadyAcked[m] # 0

KindsOfFacts ==
    /\ \A m \in Msg : /\ <<"held", m>> \in Facts <=> Queued(m) \/ Delivered(m)
                      /\ <<"proposed", m>> \in Facts <=> Proposed(m)
                      /\ <<"final", m>> \in Facts <=> m \in seqMessageHistory
                      /\ <<"applied", m>> \in Facts <=> Applied(m)
    /\ \A f \in Facts : f[1] \in {"held", "proposed", "final", "applied"} /\ f[2] \in Msg /\ f = <<f[1], f[2]>>

LEMMA FactKinds == KindsOfFacts /\ KindsOfFacts'
<1>1. KindsOfFacts
  <2>1. \A m \in Msg : /\ <<"held", m>> \in Facts <=> Queued(m) \/ Delivered(m)
                       /\ <<"proposed", m>> \in Facts <=> Proposed(m)
      BY DEF Facts, Proposed
  <2>2. \A m \in Msg : /\ <<"final", m>> \in Facts <=> m \in seqMessageHistory
                       /\ <<"applied", m>> \in Facts <=> Applied(m)
      BY DEF Facts
  <2>3. \A f \in Facts : f[1] \in {"held", "proposed", "final", "applied"} /\ f[2] \in Msg /\ f = <<f[1], f[2]>>
      BY DEF Facts
  <2> QED
      BY <2>1, <2>2, <2>3 DEF KindsOfFacts
<1>2. KindsOfFacts'
  <2>1. \A m \in Msg : /\ <<"held", m>> \in Facts' <=> (Queued(m) \/ Delivered(m))'
                       /\ <<"proposed", m>> \in Facts' <=> Proposed(m)'
      BY DEF Facts, Proposed
  <2>2. \A m \in Msg : /\ <<"final", m>> \in Facts' <=> m \in seqMessageHistory'
                       /\ <<"applied", m>> \in Facts' <=> Applied(m)'
      BY DEF Facts
  <2>3. \A f \in Facts' : f[1] \in {"held", "proposed", "final", "applied"} /\ f[2] \in Msg /\ f = <<f[1], f[2]>>
      BY DEF Facts
  <2> QED
      BY <2>1, <2>2, <2>3 DEF KindsOfFacts
<1> QED
    BY <1>1, <1>2

KindsOfLocal ==
    \A t \in Threads :
      /\ <<"positive", None>> \in Local(t) <=> reg[t] > 0
      /\ \A m \in Msg : <<"checked", m>> \in Local(t) <=> (reg[t] = 1 => Delivered(m))
      /\ \A f \in Local(t) : f = <<"positive", None>> \/ \E m \in Msg : f = <<"checked", m>>

LEMMA LocalKinds == KindsOfLocal /\ KindsOfLocal'
    BY DEF KindsOfLocal, Local

\* What is known of a message is no local fact.
LEMMA FactsNotLocal ==
    ASSUME NEW t \in Threads, NEW f \in FactsOf(t), f[1] \in {"held", "proposed", "final", "applied"}
    PROVE  f \in Facts
    BY LocalKinds DEF KindsOfLocal, FactsOf

LEMMA KnownFacts ==
    ASSUME NEW t \in Threads, NEW m, Known(m) \subseteq FactsOf(t)
    PROVE  Known(m) \subseteq Facts
<1>1. \A f \in Known(m) : f[1] \in {"held", "proposed"}
    BY DEF Known
<1> QED
    BY <1>1, FactsNotLocal

\* Without a change of the histories and the lists no fact changes.
LEMMA SameFacts ==
    ASSUME UNCHANGED <<histories, queues>>
    PROVE  /\ Facts' = Facts
           /\ reg' = reg => \A t \in Threads : Local(t)' = Local(t) /\ FactsOf(t)' = FactsOf(t)
           /\ \A t \in Threads : reg'[t] = reg[t] => Local(t)' = Local(t) /\ FactsOf(t)' = FactsOf(t)
<1>1. Facts' = Facts
    BY DEF histories, queues, Facts, Queued, Delivered, Applied
<1>2. \A t \in Threads : reg'[t] = reg[t] => Local(t)' = Local(t)
    BY DEF queues, Local, Delivered
<1> QED
    BY <1>1, <1>2 DEF FactsOf

\* The instructions that Underway speaks of.
Special(i) == i[1] \in {"push", "ack", "change"} \/ (i[1] = "addSeq" /\ i[2] \in Own)

\* What the receiver has to do after a step of t.
LEMMA GoToDo ==
    ASSUME LocksInv, NEW t \in Threads, todo[t] # <<>>, NEW s \in Seq(Instruction), Go(t, s),
           NEW i, i[1] # "unlock"
    PROVE  /\ t = Receiver => (ToDo(i)' <=> i \in Range(s) \/ i \in Range(Tail(todo[t])))
           /\ t # Receiver => (ToDo(i)' <=> ToDo(i))
<1>1. todo \in [Threads -> Seq(Instruction)] /\ Tail(todo[t]) \in Seq(Instruction)
    BY DEF LocksInv
<1>2. PICK a \in Seq(Instruction), b \in Seq(Instruction) :
             /\ a \o b = s \o Tail(todo[t]) /\ \A k \in 1 .. Len(a) : a[k][1] = "unlock"
             /\ todo' = [todo EXCEPT ![t] = b]
             /\ owner' = [l \in Mutexes |-> IF <<"unlock", l>> \in Range(a) THEN None ELSE owner[l]]
    BY <1>1, GoSplits
<1>3. Range(a \o b) = Range(s) \cup Range(Tail(todo[t]))
    BY <1>1, <1>2, RangeOfConcat
<1>4. Range(a \o b) = Range(a) \cup Range(b) /\ \A x \in Range(a) : x[1] = "unlock"
  <2>1. Range(a \o b) = Range(a) \cup Range(b)
      BY RangeOfConcat
  <2>2. \A x \in Range(a) : \E k \in 1 .. Len(a) : a[k] = x
      BY RangeAt
  <2> QED
      BY <1>2, <2>1, <2>2
<1>5. ToDo(i)' <=> i \in Range(todo'[Receiver])
    BY DEF ToDo, Range
<1>6. t = Receiver => todo'[Receiver] = b
    BY <1>1, <1>2
<1>7. t # Receiver => todo'[Receiver] = todo[Receiver]
    BY <1>1, <1>2 DEF Threads
<1> QED
    BY <1>3, <1>4, <1>5, <1>6, <1>7 DEF ToDo

\* The receiver keeps ackHistory while it has to change a message of its own.
LEMMA GoOwner ==
    ASSUME LocksInv, LocksInv', NEW t \in Threads, todo[t] # <<>>, NEW s, Go(t, s),
           NEW F, Sound(s \o Tail(todo[t]), t, F), s \in Seq(Instruction),
           owner["ackHistory"] = Receiver,
           NEW m \in Own, ToDo(<<"change", m>>)'
    PROVE  owner'["ackHistory"] = Receiver
<1>1. todo \in [Threads -> Seq(Instruction)] /\ "ackHistory" \in Mutexes
    BY DEF LocksInv, Mutexes
<1>2. PICK a \in Seq(Instruction), b \in Seq(Instruction) :
             /\ a \o b = s \o Tail(todo[t]) /\ \A k \in 1 .. Len(a) : a[k][1] = "unlock"
             /\ todo' = [todo EXCEPT ![t] = b]
             /\ owner' = [l \in Mutexes |-> IF <<"unlock", l>> \in Range(a) THEN None ELSE owner[l]]
    BY <1>1, GoSplits
<1>3. CASE t = Receiver
  <2>1. Sound(a \o b, t, F)
      BY <1>2
  <2>2. Precedes(a, b)
      BY <1>2, <2>1, SoundRest
  <2>3. ToDo(<<"change", m>>)' <=> <<"change", m>> \in Range(todo'[Receiver])
      BY DEF ToDo, Range
  <2>4. <<"change", m>> \in Range(b)
      BY <1>1, <1>2, <1>3, <2>3
  <2>5. ~ MayPrecede(<<"unlock", "ackHistory">>, <<"change", m>>)
      BY DEF MayPrecede
  <2>6. <<"unlock", "ackHistory">> \notin Range(a)
      BY <2>2, <2>4, <2>5 DEF Precedes
  <2> QED
      BY <1>1, <1>2, <2>6
<1>4. CASE t # Receiver
  <2>1. Receiver \in Threads /\ todo'[Receiver] = todo[Receiver]
      BY <1>1, <1>2, <1>4 DEF Threads
  <2> QED
      BY <1>1, <2>1, HoldingStays
<1> QED
    BY <1>3, <1>4

\* No step towards one of the conditions of Underway.
LEMMA UnderwayStays ==
    ASSUME Underway, Facts \subseteq Facts',
           \A f \in Facts' : f \in Facts \/ (f[1] # "final" /\ (f[1] = "held" => f[2] \in Own)),
           \A m \in Own : Complete(ackHistory[m])' => Complete(ackHistory[m]),
           \A i : Special(i) => (ToDo(i)' <=> ToDo(i)),
           \A m \in Own : ToDo(<<"change", m>>)' /\ owner["ackHistory"] = Receiver =>
                            owner'["ackHistory"] = Receiver
    PROVE  Underway'
<1>1. ASSUME NEW m \in Foreign
      PROVE  /\ ToDo(<<"push", m>>)' => ToDo(<<"ack", m>>)'
             /\ <<"held", m>> \in Facts' => <<"proposed", m>> \in Facts' \/ ToDo(<<"ack", m>>)'
  <2>1. Special(<<"push", m>>) /\ Special(<<"ack", m>>) /\ m \notin Own
      BY OwnIsNotForeign DEF Special
  <2>2. <<"held", m>> \in Facts' => <<"held", m>> \in Facts
      BY <2>1
  <2> QED
      BY <2>1, <2>2 DEF Underway
<1>2. ASSUME NEW m \in Own
      PROVE  Complete(ackHistory[m])' => <<"final", m>> \in Facts' \/ ToDo(<<"addSeq", m>>)'
  <2>1. Special(<<"addSeq", m>>)
      BY DEF Special
  <2> QED
      BY <2>1 DEF Underway
<1>3. ASSUME NEW m \in Msg
      PROVE  <<"final", m>> \in Facts' =>
               <<"applied", m>> \in Facts' \/ (m \in Own /\ ToDo(<<"change", m>>)')
  <2>1. Special(<<"change", m>>)
      BY DEF Special
  <2>2. <<"final", m>> \in Facts' => <<"final", m>> \in Facts
      OBVIOUS
  <2> QED
      BY <2>1, <2>2 DEF Underway
<1>4. ASSUME NEW m \in Own
      PROVE  /\ ToDo(<<"addSeq", m>>)' => ToDo(<<"change", m>>)'
             /\ ToDo(<<"change", m>>)' => owner'["ackHistory"] = Receiver
  <2>1. Special(<<"change", m>>) /\ Special(<<"addSeq", m>>)
      BY DEF Special
  <2> QED
      BY <2>1 DEF Underway
<1> QED
    BY <1>1, <1>2, <1>3, <1>4 DEF Underway

\* A step at an instruction that Underway does not speak of.
LEMMA GoSteady ==
    ASSUME LocksInv, LocksInv', Lists, Underway, NEW t \in Threads, todo[t] # <<>>, NEW s,
           Learns(t, Head(todo[t])), Go(t, s),
           Sound(s, t, FactsOf(t)'), Precedes(s, Tail(todo[t])),
           \A i \in Range(s) : Makes(i) \cap Facts' = {},
           \A f \in Facts' : f \in Facts \/ (f[1] # "final" /\ (f[1] = "held" => f[2] \in Own)),
           \A m \in Own : Complete(ackHistory[m])' => Complete(ackHistory[m]),
           t = Receiver => ~ Special(Head(todo[t])) /\ \A i \in Range(s) : ~ Special(i)
    PROVE  Lists' /\ Underway'
<1>1. Lists'
    BY GoLists
<1>2. s \in Seq(Instruction) /\ Facts \subseteq Facts'
    BY DEF Sound, Learns
<1>3. todo[t] \in Seq(Instruction) /\ Sound(todo[t], t, FactsOf(t))
    BY DEF LocksInv, Lists, Sound
<1>4. Range(todo[t]) = {Head(todo[t])} \cup Range(Tail(todo[t]))
    BY <1>3, SoundFirst
<1>5. ASSUME NEW i, Special(i) PROVE ToDo(i)' <=> ToDo(i)
  <2>1. i[1] # "unlock"
      BY <1>5 DEF Special
  <2>2. CASE t = Receiver
    <3>1. i \notin Range(s) /\ i # Head(todo[t])
        BY <1>5, <2>2
    <3>2. ToDo(i)' <=> i \in Range(s) \/ i \in Range(Tail(todo[t]))
        BY <1>2, <2>1, <2>2, GoToDo
    <3>3. ToDo(i) <=> i \in Range(todo[t])
        BY <2>2 DEF ToDo
    <3> QED
        BY <1>4, <3>1, <3>2, <3>3
  <2>3. CASE t # Receiver
      BY <1>2, <2>1, <2>3, GoToDo
  <2> QED
      BY <2>2, <2>3
<1>6. ASSUME NEW m \in Own, ToDo(<<"change", m>>)', owner["ackHistory"] = Receiver
      PROVE  owner'["ackHistory"] = Receiver
  <2> DEFINE N == FactsOf(t)'
             r == Tail(todo[t])
             E == FactsOf(t) \cup Establishes(Head(todo[t]))
  <2>1. Sound(r, t, E)
      BY <1>3, SoundFirst
  <2>2. Sound(s, t, N) /\ Precedes(s, r)
      OBVIOUS
  <2>3. Sound(s, t, E \cup N) /\ Sound(r, t, E \cup N)
    <3> HIDE DEF E, N, r
    <3>1. E \subseteq E \cup N /\ N \subseteq E \cup N
        OBVIOUS
    <3> QED
        BY <2>1, <2>2, <3>1, FollowsMore DEF Sound
  <2>4. Sound(s \o r, t, E \cup N)
    <3> HIDE DEF E, N, r
    <3> QED
        BY <2>2, <2>3, SoundBoth
  <2> HIDE DEF E, N
  <2> QED
      BY <1>2, <1>6, <2>4, GoOwner
<1> QED
    BY <1>1, <1>2, <1>5, <1>6, UnderwayStays


LEMMA KnownAbroadStays ==
    ASSUME KnownAbroad, Facts \subseteq Facts', UNCHANGED sent,
           \A w \in Watchdogs : alarms'[w] > 0 => alarms[w] > 0,
           \A m \in Own, p \in Peers : ackHistory'[m][p] # 0 => ackHistory[m][p] # 0,
           \A m \in Foreign : <<"proposed", m>> \in Facts' => <<"proposed", m>> \in Facts
    PROVE  KnownAbroad'
<1>1. \A x \in sent' : Known(x.msg) \subseteq Facts'
    BY DEF KnownAbroad
<1>2. \A w \in Watchdogs : alarms'[w] > 0 => Known(w[2]) \subseteq Facts'
    BY DEF KnownAbroad
<1>3. \A m \in Own, p \in Peers : ackHistory'[m][p] # 0 => <<"proposed", m>> \in Facts'
    BY DEF KnownAbroad
<1>4. \A m \in Foreign : <<"proposed", m>> \in Facts' => <<"held", m>> \in Facts'
    BY DEF KnownAbroad
<1> QED
    BY <1>1, <1>2, <1>3, <1>4 DEF KnownAbroad, Known

LEMMA QueuesStay ==
    ASSUME Queues, UNCHANGED queues,
           \A e \in deliveryQueue : e.status = DELIVERABLE =>
                <<"proposed", e.msg>> \in Facts' /\ Proposals(e.msg)' = Proposals(e.msg)
    PROVE  Queues'
<1>1. \A m : Delivered(m)' <=> Delivered(m)
    BY DEF queues, Delivered
<1>2. \A m : Proposals(m)' = Proposals(m) => FinalSeq(m)' = FinalSeq(m) /\ FinalProposer(m)' = FinalProposer(m)
    BY DEF FinalSeq, FinalProposer, MaxSequence
<1>3. deliveryQueue' = deliveryQueue
    BY DEF queues
<1> QED
    BY <1>1, <1>2, <1>3 DEF Queues

LEMMA SameProposals ==
    ASSUME UNCHANGED <<ackHistory, alreadyAcked>>, NEW m
    PROVE  Proposals(m)' = Proposals(m)
    BY DEF Proposals

\* The invariant together with that of the locks.
Invariant == LocksInv /\ DataInv

\* Where a thread stands in its list.
LEMMA DataAt ==
    ASSUME Invariant, NEW t \in Threads, NEW op, At(t, op)
    PROVE  /\ todo[t] # <<>> /\ Head(todo[t]) \in Instruction /\ Head(todo[t])[1] = op
           /\ Tail(todo[t]) \in Seq(Instruction)
           /\ Place(Head(todo[t]), t) /\ Requires(Head(todo[t])) \subseteq FactsOf(t)
           /\ Makes(Head(todo[t])) \cap Facts = {}
           /\ \A j \in Range(Tail(todo[t])) : MayPrecede(Head(todo[t]), j)
           /\ op \in Calls => \A j \in Range(Tail(todo[t])) : j[1] = "unlock"
           /\ Range(todo[t]) = {Head(todo[t])} \cup Range(Tail(todo[t]))
           /\ \A j \in Range(Tail(todo[t])) : Makes(j) \cap Facts = {}
<1>1. todo[t] # <<>> /\ Head(todo[t])[1] = op
    BY DEF At
<1>2. todo[t] \in Seq(Instruction) /\ Sound(todo[t], t, FactsOf(t)) /\ Fresh(todo[t])
    BY DEF Invariant, LocksInv, DataInv, Lists, Sound
<1>3. /\ Head(todo[t]) \in Instruction /\ Place(Head(todo[t]), t) /\ Requires(Head(todo[t])) \subseteq FactsOf(t)
      /\ Tail(todo[t]) \in Seq(Instruction)
      /\ \A j \in Range(Tail(todo[t])) : MayPrecede(Head(todo[t]), j)
      /\ Range(todo[t]) = {Head(todo[t])} \cup Range(Tail(todo[t]))
    BY <1>1, <1>2, SoundFirst DEF Sound
<1>4. Makes(Head(todo[t])) \cap Facts = {} /\ \A j \in Range(Tail(todo[t])) : Makes(j) \cap Facts = {}
    BY <1>2, <1>3 DEF Fresh
<1>5. op \in Calls => \A j \in Range(Tail(todo[t])) : j[1] = "unlock"
    BY <1>1, <1>3 DEF MayPrecede, Calls
<1> QED
    BY <1>1, <1>3, <1>4, <1>5

\* A step that leaves the histories, the lists of messages and the registers
\* as they are: only sent and the alarms are left to look at.
LEMMA PlainGo ==
    ASSUME Invariant, LocksInv', NEW t \in Threads, NEW op, At(t, op),
           op \notin {"push", "ack", "change", "addSeq", "proposeOwn", "load"},
           UNCHANGED <<histories, queues, reg>>,
           NEW s, Go(t, s), Sound(s, t, FactsOf(t)), Precedes(s, Tail(todo[t])),
           \A i \in Range(s) : Makes(i) \cap Facts = {},
           t = Receiver => \A i \in Range(s) : ~ Special(i)
    PROVE  Lists' /\ Underway' /\ Queues' /\ Facts' = Facts
<1>1. /\ Facts' = Facts /\ \A u \in Threads : Local(u)' = Local(u) /\ FactsOf(u)' = FactsOf(u)
    BY SameFacts
<1>2. todo[t] # <<>> /\ Head(todo[t])[1] = op
    BY DataAt
<1>3. Establishes(Head(todo[t])) = {} /\ ~ Special(Head(todo[t]))
    BY <1>2 DEF Establishes, Special
<1>4. Learns(t, Head(todo[t]))
    BY <1>1, <1>3 DEF Learns
<1>5. \A m \in Own : Complete(ackHistory[m])' => Complete(ackHistory[m])
    BY DEF Complete, histories
<1>6. LocksInv /\ Lists /\ Underway /\ Queues
    BY DEF Invariant, DataInv
<1>7. Lists' /\ Underway'
    BY <1>1, <1>2, <1>3, <1>4, <1>5, <1>6, GoSteady
<1>8. Queues'
  <2>1. \A m : Proposals(m)' = Proposals(m)
      BY SameProposals DEF histories
  <2>2. UNCHANGED queues
      OBVIOUS
  <2>3. \A e \in deliveryQueue : e.status = DELIVERABLE => <<"proposed", e.msg>> \in Facts
      BY <1>6 DEF Queues
  <2> QED
      BY <1>1, <1>6, <2>1, <2>2, <2>3, QueuesStay
<1> QED
    BY <1>1, <1>7, <1>8

\* The same, for a step that only goes on, or sends.
LEMMA IdleGo ==
    ASSUME Invariant, LocksInv', NEW t \in Threads, NEW op, At(t, op),
           op \notin {"push", "ack", "change", "addSeq", "proposeOwn", "load"},
           UNCHANGED <<histories, queues, reg>>,
           NEW s, Go(t, s), Idle(s, FactsOf(t)), \A i \in Range(s) : i[1] \notin {"addSeq", "checkSeq"}
    PROVE  Lists' /\ Underway' /\ Queues' /\ Facts' = Facts
<1>1. \A i \in Range(s) : Quiet(i) /\ i[1] \notin {"addSeq", "checkSeq"}
    BY DEF Idle
<1>2. \A i \in Range(s) : Place(i, t) /\ Makes(i) = {} /\ ~ Special(i)
    BY <1>1 DEF Quiet, Place, Makes, Special
<1>3. Sound(s, t, FactsOf(t)) /\ Precedes(s, Tail(todo[t]))
    BY <1>2, IdleSound
<1> QED
    BY <1>2, <1>3, PlainGo


-----------------------------------------------------------------------------
(***************************************************************************)
(* The steps of the threads, one after the other.                          *)
(***************************************************************************)

\* What has still to be seen when the lists are in order.
LEMMA RestStays ==
    ASSUME Invariant, Lists', Underway', Queues', Facts' = Facts,
           UNCHANGED <<histories, queues, reg, sent, alarms, exited, recv_cap>>,
           curr_seq_number' \in Nat \ {0}, recordMessages' \in BOOLEAN
    PROVE  DataInv'
<1>1. Types'
    BY DEF Invariant, DataInv, Types, histories, queues
<1>2. KnownAbroad'
  <2>1. KnownAbroad /\ ackHistory' = ackHistory /\ alarms' = alarms /\ sent' = sent
      BY DEF Invariant, DataInv, histories
  <2> QED
      BY <2>1, KnownAbroadStays
<1>3. exited' = FALSE
    BY DEF Invariant, DataInv
<1> QED
    BY <1>1, <1>2, <1>3 DEF DataInv

LEMMA NothingToDo ==
    ASSUME NEW F PROVE Idle(<<>>, F) /\ \A i \in Range(<<>>) : i[1] \notin {"addSeq", "checkSeq"}
    BY IdleNone, ListOfNone

LEMMA PlainData ==
    ASSUME Invariant, LocksInv', NEW t \in Threads,
           Store(t) \/ DeliverNoMore(t) \/ Access(t) \/ Record(t)
    PROVE  DataInv'
<1>1. PICK op : /\ At(t, op)
                /\ op \in {"store", "deliver", "pushBuffer", "drain", "copyQueue", "copyDelivered", "print", "record"}
    BY DEF Store, DeliverNoMore, Access, Record
<1>2. Go(t, <<>>) /\ UNCHANGED <<histories, queues, reg, sent, alarms, exited, recv_cap>>
    BY DEF Store, DeliverNoMore, Access, Record, memory, settings
<1>3. curr_seq_number' \in Nat \ {0} /\ recordMessages' \in BOOLEAN
  <2>1. curr_seq_number \in Nat \ {0} /\ recordMessages \in BOOLEAN /\ reg[t] \in Nat
      BY DEF Invariant, DataInv, Types
  <2>2. CASE Store(t)
      BY <2>1, <2>2 DEF Store, settings
  <2>3. CASE DeliverNoMore(t) \/ Access(t)
      BY <2>1, <2>3 DEF DeliverNoMore, Access, memory, settings
  <2>4. CASE Record(t)
    <3>1. At(t, "record")
        BY <2>4 DEF Record
    <3>2. Arg(t) \in BOOLEAN
        BY <3>1, DataAt, Arguments DEF Arg
    <3> QED
        BY <2>1, <2>4, <3>2 DEF Record
  <2> QED
      BY <2>2, <2>3, <2>4
<1>4. Lists' /\ Underway' /\ Queues' /\ Facts' = Facts
    BY <1>1, <1>2, NothingToDo, IdleGo
<1> QED
    BY <1>2, <1>3, <1>4, RestStays

\* A packet that reaches the socket is about a message the thread knows of.
LEMMA SendToData ==
    ASSUME Invariant, LocksInv', NEW t \in Threads, SendTo(t)
    PROVE  DataInv'
<1>1. /\ At(t, "sendto") /\ Go(t, <<>>) /\ UNCHANGED <<histories, queues, reg, alarms, exited, recv_cap>>
      /\ UNCHANGED <<curr_seq_number, recordMessages>>
      /\ sent' = sent \cup {[Arg(t) EXCEPT !.to = IF @ = Asker THEN their_addr ELSE @]}
    BY DEF SendTo, settings
<1>2. Lists' /\ Underway' /\ Queues' /\ Facts' = Facts
    BY <1>1, NothingToDo, IdleGo
<1>3. /\ Head(todo[t]) \in Instruction /\ Head(todo[t])[1] = "sendto"
      /\ Requires(Head(todo[t])) \subseteq FactsOf(t)
    BY <1>1, DataAt
<1>4. Arg(t) \in Packets
    BY <1>3, Arguments DEF Arg
<1>5. Known(Arg(t).msg) \subseteq Facts
  <2>1. Known(Arg(t).msg) \subseteq FactsOf(t)
      BY <1>3 DEF Requires, Arg
  <2> QED
      BY <2>1, KnownFacts
<1>6. [Arg(t) EXCEPT !.to = IF @ = Asker THEN their_addr ELSE @].msg = Arg(t).msg
    BY <1>4 DEF Packets
<1>7. KnownAbroad'
  <2>1. \A x \in sent' : Known(x.msg) \subseteq Facts
      BY <1>1, <1>5, <1>6 DEF Invariant, DataInv, KnownAbroad
  <2> QED
      BY <1>1, <1>2, <2>1 DEF Invariant, DataInv, KnownAbroad, Known, histories
<1>8. Types' /\ exited' = FALSE
    BY <1>1 DEF Invariant, DataInv, Types, histories, queues
<1> QED
    BY <1>2, <1>7, <1>8 DEF DataInv

\* A watchdog is started for a message the thread knows of.
LEMMA SpawnData ==
    ASSUME Invariant, LocksInv', NEW t \in Threads, Spawn(t)
    PROVE  DataInv'
<1>1. /\ At(t, "spawn") /\ Go(t, <<>>) /\ UNCHANGED <<histories, queues, reg, sent, exited, recv_cap>>
      /\ UNCHANGED <<curr_seq_number, recordMessages>>
      /\ alarms' = [alarms EXCEPT ![Arg(t)] = WATCHDOG_RESEND_CAP]
    BY DEF Spawn, memory, settings
<1>2. Lists' /\ Underway' /\ Queues' /\ Facts' = Facts
    BY <1>1, NothingToDo, IdleGo
<1>3. /\ Head(todo[t]) \in Instruction /\ Head(todo[t])[1] = "spawn"
      /\ Requires(Head(todo[t])) \subseteq FactsOf(t)
    BY <1>1, DataAt
<1>4. Arg(t) \in Watchdogs
    BY <1>3, Arguments DEF Arg
<1>5. Known(Arg(t)[2]) \subseteq Facts
  <2>1. Known(Arg(t)[2]) \subseteq FactsOf(t)
      BY <1>3 DEF Requires, Arg
  <2> QED
      BY <2>1, KnownFacts
<1>6. alarms \in [Watchdogs -> 0 .. WATCHDOG_RESEND_CAP] /\ WATCHDOG_RESEND_CAP \in 0 .. WATCHDOG_RESEND_CAP
    BY CapAssumption DEF Invariant, DataInv, Types
<1>7. KnownAbroad'
  <2>1. \A w \in Watchdogs : alarms'[w] > 0 => Known(w[2]) \subseteq Facts
      BY <1>1, <1>5, <1>6 DEF Invariant, DataInv, KnownAbroad
  <2> QED
      BY <1>1, <1>2, <2>1 DEF Invariant, DataInv, KnownAbroad, Known, histories
<1>8. Types' /\ exited' = FALSE
  <2>1. alarms' \in [Watchdogs -> 0 .. WATCHDOG_RESEND_CAP]
      BY <1>1, <1>4, <1>6
  <2> QED
      BY <1>1, <2>1 DEF Invariant, DataInv, Types, histories, queues
<1> QED
    BY <1>2, <1>7, <1>8 DEF DataInv

\* The exits of datamsg_watchdog, handle_ackmsg and handle_seqmsg.
LEMMA CheckDeliveredData ==
    ASSUME Invariant, LocksInv', NEW t \in Threads, CheckDelivered(t)
    PROVE  DataInv'
<1>1. /\ At(t, "checkDelivered") /\ Go(t, <<>>) /\ UNCHANGED <<histories, queues, reg, sent, alarms, recv_cap>>
      /\ UNCHANGED <<curr_seq_number, recordMessages>>
      /\ exited' = (reg[t] = 1 /\ ~ Delivered(Arg(t)))
    BY DEF CheckDelivered, settings
<1>2. Lists' /\ Underway' /\ Queues' /\ Facts' = Facts
    BY <1>1, NothingToDo, IdleGo
<1>3. /\ Head(todo[t]) \in Instruction /\ Head(todo[t])[1] = "checkDelivered"
      /\ Requires(Head(todo[t])) \subseteq FactsOf(t)
    BY <1>1, DataAt
<1>4. Arg(t) \in Msg
    BY <1>3, Arguments, OwnIsNotForeign DEF Arg
<1>5. <<"checked", Arg(t)>> \in Local(t)
  <2>1. <<"checked", Arg(t)>> \in FactsOf(t)
      BY <1>3 DEF Requires, Arg
  <2>2. <<"checked", Arg(t)>> \notin Facts
      BY FactKinds DEF KindsOfFacts
  <2> QED
      BY <2>1, <2>2 DEF FactsOf
<1>6. exited' = FALSE
    BY <1>1, <1>4, <1>5, LocalKinds DEF KindsOfLocal
<1>7. exited' = exited
    BY <1>1, <1>6 DEF Invariant, DataInv
<1> QED
    BY <1>1, <1>2, <1>7, RestStays DEF Invariant, DataInv, Types

LEMMA ResendData ==
    ASSUME Invariant, LocksInv', NEW t \in Threads, Resend(t)
    PROVE  DataInv'
<1>1. PICK m : m = Arg(t)
    OBVIOUS
<1>2. /\ At(t, "resend") /\ Go(t, SendMsg("SEQMSG", Asker, m))
      /\ UNCHANGED <<histories, queues, reg, sent, alarms, recv_cap>>
      /\ UNCHANGED <<curr_seq_number, recordMessages>>
      /\ exited' = (m \notin seqMessageHistory)
    BY <1>1 DEF Resend, settings
<1>3. /\ Head(todo[t]) \in Instruction /\ Head(todo[t])[1] = "resend"
      /\ Requires(Head(todo[t])) \subseteq FactsOf(t)
    BY <1>2, DataAt
<1>4. m \in Own /\ m \in Msg
    BY <1>1, <1>3, Arguments, OwnIsNotForeign DEF Arg
<1>5. Known(m) \subseteq FactsOf(t) /\ <<"final", m>> \in FactsOf(t)
    BY <1>1, <1>3 DEF Requires, Arg
<1>6. Packet("SEQMSG", Asker, m) \in Packets
    BY <1>4 DEF Packet, Packets
<1>7. Lists' /\ Underway' /\ Queues' /\ Facts' = Facts
  <2>1. /\ Idle(SendMsg("SEQMSG", Asker, m), FactsOf(t))
        /\ Range(SendMsg("SEQMSG", Asker, m)) = {<<"toss", Packet("SEQMSG", Asker, m)>>}
      BY <1>5, <1>6, IdleSendMsg
  <2>2. \A i \in Range(SendMsg("SEQMSG", Asker, m)) : i[1] \notin {"addSeq", "checkSeq"}
      BY <2>1
  <2> QED
      BY <1>2, <2>1, <2>2, IdleGo
<1>8. m \in seqMessageHistory
    BY <1>4, <1>5, FactsNotLocal, FactKinds DEF KindsOfFacts
<1>9. exited' = exited
    BY <1>2, <1>8 DEF Invariant, DataInv
<1> QED
    BY <1>2, <1>7, <1>9, RestStays DEF Invariant, DataInv, Types

LEMMA CheckAckedData ==
    ASSUME Invariant, LocksInv', NEW t \in Threads, CheckAcked(t)
    PROVE  DataInv'
<1>1. PICK m, p, s : /\ m = Arg(t) /\ p = Head(todo[t])[3]
                     /\ s = IF ackHistory[m][p] = 0 THEN SendMsg("DATAMSG", p, m) ELSE <<>>
    OBVIOUS
<1>2. /\ At(t, "checkAcked") /\ Go(t, s) /\ UNCHANGED <<histories, queues, reg, sent, recv_cap>>
      /\ UNCHANGED <<curr_seq_number, recordMessages>>
      /\ exited' = (ackHistory[m][Me] = 0)
      /\ alarms' = [alarms EXCEPT ![t] = IF ackHistory[m][p] = 0 THEN @ ELSE 0]
    BY <1>1 DEF CheckAcked, settings
<1>3. /\ Head(todo[t]) \in Instruction /\ Head(todo[t])[1] = "checkAcked"
      /\ Requires(Head(todo[t])) \subseteq FactsOf(t)
    BY <1>2, DataAt
<1>4. m \in Own /\ m \in Msg /\ p \in Peers
    BY <1>1, <1>3, Arguments, OwnIsNotForeign DEF Arg
<1>5. Known(m) \subseteq FactsOf(t)
    BY <1>1, <1>3 DEF Requires, Arg
<1>6. Packet("DATAMSG", p, m) \in Packets
    BY <1>4 DEF Packet, Packets, Peers
<1>7. Lists' /\ Underway' /\ Queues' /\ Facts' = Facts
  <2>1. /\ Idle(SendMsg("DATAMSG", p, m), FactsOf(t))
        /\ Range(SendMsg("DATAMSG", p, m)) = {<<"toss", Packet("DATAMSG", p, m)>>}
      BY <1>5, <1>6, IdleSendMsg
  <2>2. Idle(s, FactsOf(t)) /\ \A i \in Range(s) : i[1] \notin {"addSeq", "checkSeq"}
      BY <1>1, <2>1, NothingToDo
  <2> QED
      BY <1>2, <2>2, IdleGo
<1>8. ackHistory[m][Me] # 0
  <2>1. <<"proposed", m>> \in FactsOf(t)
      BY <1>5 DEF Known
  <2>2. <<"proposed", m>> \in Facts
      BY <2>1, FactsNotLocal
  <2> QED
      BY <1>4, <2>2, FactKinds DEF KindsOfFacts, Proposed
<1>9. exited' = FALSE
    BY <1>2, <1>8
<1>10. alarms \in [Watchdogs -> 0 .. WATCHDOG_RESEND_CAP]
    BY DEF Invariant, DataInv, Types
<1>11. /\ alarms' \in [Watchdogs -> 0 .. WATCHDOG_RESEND_CAP]
       /\ \A w \in Watchdogs : alarms'[w] > 0 => alarms[w] > 0
  <2>1. 0 \in 0 .. WATCHDOG_RESEND_CAP /\ ~ (0 > 0)
      BY CapAssumption
  <2> QED
      BY <1>2, <1>10, <2>1
<1>12. Types'
    BY <1>2, <1>11 DEF Invariant, DataInv, Types, histories, queues
<1>13. KnownAbroad'
    BY <1>2, <1>7, <1>11, KnownAbroadStays DEF Invariant, DataInv, histories
<1> QED
    BY <1>7, <1>9, <1>12, <1>13 DEF DataInv


\* Calls that send or access a buffer.
LEMMA SendingData ==
    ASSUME Invariant, LocksInv', NEW t \in Threads,
           Toss(t) \/ Broadcast(t) \/ TestRecord(t) \/ PrintDelivered(t)
    PROVE  DataInv'
<1> DEFINE F == FactsOf(t)
           Fine(s) == Idle(s, F) /\ \A i \in Range(s) : i[1] \notin {"addSeq", "checkSeq"}
<1>1. UNCHANGED <<histories, queues, reg, sent, alarms, exited, recv_cap, curr_seq_number, recordMessages>>
    BY DEF Toss, Broadcast, TestRecord, PrintDelivered, memory, settings
<1>2. curr_seq_number' \in Nat \ {0} /\ recordMessages' \in BOOLEAN
    BY <1>1 DEF Invariant, DataInv, Types
<1>3. \A x \in Packets : Known(x.msg) \subseteq F => \A s \in Sendings(x) : Fine(s)
  <2> SUFFICES ASSUME NEW x \in Packets, Known(x.msg) \subseteq F, NEW s \in Sendings(x) PROVE Fine(s)
      OBVIOUS
  <2>1. Idle(s, F) /\ \A i \in Range(s) : i[1] \in {"lock", "unlock", "testRecord", "sendto"}
      BY IdleSendings
  <2> QED
      BY <2>1
<1>4. ASSUME NEW op, At(t, op), op \in {"toss", "broadcast", "testRecord", "printDelivered"},
             NEW s, Go(t, s), Fine(s)
      PROVE  DataInv'
  <2> HIDE DEF F
  <2>1. op \notin {"push", "ack", "change", "addSeq", "proposeOwn", "load"}
      BY <1>4
  <2>2. Lists' /\ Underway' /\ Queues' /\ Facts' = Facts
      BY <1>1, <1>4, <2>1, IdleGo DEF F
  <2> QED
      BY <1>1, <1>2, <2>2, RestStays
<1>5. CASE Toss(t)
  <2>1. At(t, "toss")
      BY <1>5 DEF Toss
  <2>2. /\ Head(todo[t]) \in Instruction /\ Head(todo[t])[1] = "toss"
        /\ Requires(Head(todo[t])) \subseteq F
      BY <2>1, DataAt
  <2>3. Arg(t) \in Packets /\ Known(Arg(t).msg) \subseteq F
      BY <2>2, Arguments DEF Arg, Requires
  <2>4. PICK s \in Sendings(Arg(t)) : Go(t, s)
      BY <1>5 DEF Toss
  <2>5. Fine(s)
    <3> HIDE DEF F, Fine
    <3> QED
        BY <1>3, <2>3, <2>4
  <2> QED
      BY <1>4, <2>1, <2>4, <2>5
<1>6. CASE Broadcast(t)
  <2>1. At(t, "broadcast")
      BY <1>6 DEF Broadcast
  <2>2. /\ Head(todo[t]) \in Instruction /\ Head(todo[t])[1] = "broadcast"
        /\ Requires(Head(todo[t])) \subseteq F
      BY <2>1, DataAt
  <2>3. Arg(t) \in Broadcasts /\ Head(todo[t])[3] \in 1 .. Len(hostNames)
      BY <2>2, Arguments DEF Arg
  <2>4. PICK x, n, w : /\ x = Arg(t) /\ n = Head(todo[t])[3]
                       /\ w = IF x.type = "DATAMSG" THEN << <<"spawn", <<"data", x.msg, x.to>> >> >> ELSE <<>>
      OBVIOUS
  <2>5. /\ x.type \in {"DATAMSG", "SEQMSG"} /\ x.to \in Peers /\ x.msg \in Own /\ n \in Nat
        /\ x \in Packets /\ Known(x.msg) \subseteq F
    <3>1. /\ x.type \in {"DATAMSG", "SEQMSG"} /\ x.to \in Peers /\ x.msg \in Own /\ n \in Nat
        BY <2>3, <2>4, HostAssumption DEF Broadcasts
    <3>2. x \in Packets
        BY <2>3, <2>4 DEF Broadcasts, Packets, Peers
    <3>3. Known(x.msg) \subseteq F
        BY <2>2, <2>4 DEF Arg, Requires
    <3> QED
        BY <3>1, <3>2, <3>3
  <2>6. PICK s \in Sendings(x) : Go(t, s \o w \o BroadcastFrom(x.type, x.msg, NextHost(n)))
      BY <1>6, <2>4 DEF Broadcast
  <2>7. Fine(s)
    <3> HIDE DEF F, Fine
    <3> QED
        BY <1>3, <2>5, <2>6
  <2>8. Fine(w)
    <3>1. CASE x.type = "DATAMSG"
      <4> DEFINE i == <<"spawn", <<"data", x.msg, x.to>> >>
      <4>1. i \in Instruction
          BY <2>5 DEF Instruction, Watchdogs, DataWatchdogs
      <4>2. Quiet(i) /\ Requires(i) \subseteq F /\ i[1] = "spawn"
          BY <2>5 DEF Quiet, Requires
      <4>3. w = <<i>>
          BY <2>4, <3>1
      <4> HIDE DEF i, F
      <4>4. Idle(<<i>>, F) /\ Range(<<i>>) = {i}
          BY <4>1, <4>2, IdleOne, ListOfOne
      <4> QED
          BY <4>2, <4>3, <4>4
    <3>2. CASE x.type # "DATAMSG"
        BY <2>4, <3>2, NothingToDo
    <3> QED
        BY <3>1, <3>2
  <2> DEFINE b == BroadcastFrom(x.type, x.msg, NextHost(n))
             S == {"lock", "unlock", "testRecord", "sendto", "spawn", "broadcast"}
  <2>9. Fine(b)
    <3>1. Idle(b, F) /\ \A i \in Range(b) : i[1] = "broadcast"
        BY <2>5, IdleBroadcast
    <3> QED
        BY <3>1
  <2>10. Fine((s \o w) \o b)
    <3> HIDE DEF b, F
    <3>1. Idle(s \o w, F) /\ Range(s \o w) = Range(s) \cup Range(w)
        BY <2>7, <2>8, IdleConcat, RangeOfConcat DEF Idle
    <3>2. Idle((s \o w) \o b, F) 
        BY <2>9, <3>1, IdleConcat
    <3>3. Range((s \o w) \o b) = Range(s \o w) \cup Range(b)
        BY <2>9, <3>1, RangeOfConcat DEF Idle
    <3> QED
        BY <2>7, <2>8, <2>9, <3>1, <3>2, <3>3
  <2> HIDE DEF b, Fine
  <2> QED
      BY <1>4, <2>1, <2>6, <2>10 DEF b
<1>7. CASE TestRecord(t)
  <2>1. At(t, "testRecord")
      BY <1>7 DEF TestRecord
  <2>2. Arg(t) \in Buffers
      BY <2>1, DataAt, Arguments DEF Arg
  <2>3. PICK b, s : /\ b = Arg(t)
                    /\ s = IF recordMessages THEN Section(b, << <<"pushBuffer", b>> >>) ELSE <<>>
      OBVIOUS
  <2>4. Go(t, s)
      BY <1>7, <2>3 DEF TestRecord
  <2>5. b \in Mutexes \ {"ackHistory"} /\ <<"pushBuffer", b>> \in Instruction
      BY <2>2, <2>3 DEF Buffers, Mutexes, Instruction
  <2>6. Fine(Section(b, << <<"pushBuffer", b>> >>))
    <3> DEFINE i == <<"pushBuffer", b>>
    <3>1. i \in Instruction /\ i[1] \in Accesses
        BY <2>5 DEF Accesses
    <3> HIDE DEF i, F
    <3>2. /\ Idle(Section(b, <<i>>), F)
          /\ \A j \in Range(Section(b, <<i>>)) : j[1] \in {"lock", "unlock"} \cup Accesses
        BY <2>5, <3>1, IdleAccess
    <3> QED
        BY <3>2 DEF i, Accesses
  <2>7. Fine(s)
      BY <2>3, <2>6, NothingToDo
  <2> QED
      BY <1>4, <2>1, <2>4, <2>7
<1>8. CASE PrintDelivered(t)
  <2>1. At(t, "printDelivered")
      BY <1>8 DEF PrintDelivered
  <2>2. PICK s : s = IF reg[t] = 1 THEN Section("deliveredMessage", << <<"print">> >>) ELSE <<>>
      OBVIOUS
  <2>3. Go(t, s)
      BY <1>8, <2>2 DEF PrintDelivered
  <2>4. Fine(Section("deliveredMessage", << <<"print">> >>))
    <3> DEFINE i == <<"print">>
    <3>1. i \in Instruction /\ i[1] \in Accesses /\ "deliveredMessage" \in Mutexes \ {"ackHistory"}
        BY DEF Accesses, Instruction, Mutexes
    <3> HIDE DEF i, F
    <3>2. /\ Idle(Section("deliveredMessage", <<i>>), F)
          /\ \A j \in Range(Section("deliveredMessage", <<i>>)) : j[1] \in {"lock", "unlock"} \cup Accesses
        BY <3>1, IdleAccess
    <3> QED
        BY <3>2 DEF i, Accesses
  <2>5. Fine(s)
      BY <2>2, <2>4, NothingToDo
  <2> QED
      BY <1>4, <2>1, <2>3, <2>5
<1> QED
    BY <1>5, <1>6, <1>7, <1>8

\* Calls of multicast_datamsg, and of the two halves of the handlers.
LEMMA CallData ==
    ASSUME Invariant, LocksInv', NEW t \in Threads,
           NEW op \in Calls \ {"collect"}, At(t, op), NEW s, Go(t, s), Sound(s, t, FactsOf(t)),
           \A i \in Range(s) : Makes(i) \cap Facts = {},
           t = Receiver => \A i \in Range(s) : ~ Special(i),
           UNCHANGED <<reg, alarms, memory>>
    PROVE  DataInv'
<1>1. Precedes(s, Tail(todo[t]))
    BY DataAt, UnlockFollows DEF Precedes
<1>2. UNCHANGED <<histories, queues, reg, sent, alarms, exited, recv_cap, curr_seq_number, recordMessages>>
    BY DEF memory, settings
<1>3. Lists' /\ Underway' /\ Queues' /\ Facts' = Facts
    BY <1>1, <1>2, PlainGo DEF Calls
<1>4. curr_seq_number' \in Nat \ {0} /\ recordMessages' \in BOOLEAN
    BY <1>2 DEF Invariant, DataInv, Types
<1> QED
    BY <1>2, <1>3, <1>4, RestStays

LEMMA MulticastData ==
    ASSUME Invariant, LocksInv', NEW t \in Threads, Multicast(t)
    PROVE  DataInv'
<1>1. At(t, "multicast") /\ UNCHANGED <<reg, alarms, memory>>
    BY DEF Multicast
<1>2. /\ Head(todo[t]) \in Instruction /\ Head(todo[t])[1] = "multicast" /\ t = Main
      /\ Makes(Head(todo[t])) \cap Facts = {}
    BY <1>1, DataAt DEF Place
<1>3. Arg(t) \in Own
    BY <1>2, Arguments DEF Arg
<1>4. PICK n \in 0 .. (NumMsgToSend - 1) : Arg(t) = <<Me, n>>
    BY <1>3 DEF Own
<1> DEFINE s == MulticastDatamsg(<<Me, n>>) \o Multicasts(n + 1)
<1>5. Go(t, s)
    BY <1>4 DEF Multicast
<1>6. Makes(Head(todo[t])) = Makes(<<"multicast", <<Me, n>> >>)
    BY <1>2, <1>4 DEF Makes, Arg
<1>7. /\ Sound(s, t, FactsOf(t))
      /\ \A i \in Range(s) : Makes(i) \subseteq Makes(<<"multicast", <<Me, n>> >>)
    BY <1>2, SoundMulticast
<1>8. \A i \in Range(s) : Makes(i) \cap Facts = {}
    BY <1>2, <1>6, <1>7
<1>9. t # Receiver
    BY <1>2 DEF Main, Receiver
<1> HIDE DEF s
<1> QED
    BY <1>1, <1>5, <1>7, <1>8, <1>9, CallData DEF Calls

LEMMA ApplyData ==
    ASSUME Invariant, LocksInv', NEW t \in Threads, Apply(t)
    PROVE  DataInv'
<1>1. At(t, "apply") /\ UNCHANGED <<reg, alarms, memory>>
    BY DEF Apply
<1>2. /\ Head(todo[t]) \in Instruction /\ Head(todo[t])[1] = "apply"
      /\ Requires(Head(todo[t])) \subseteq FactsOf(t)
    BY <1>1, DataAt
<1>3. PICK m, s : m = Arg(t) /\ s = IF reg[t] = 0 THEN ApplySeq(m) ELSE <<>>
    OBVIOUS
<1>4. Go(t, s)
    BY <1>3 DEF Apply
<1>5. m \in Foreign /\ m \notin Own /\ Known(m) \cup {<<"applied", m>>} \subseteq FactsOf(t)
    BY <1>2, <1>3, Arguments, OwnIsNotForeign DEF Arg, Requires
<1>6. t = Receiver
    BY <1>1, <1>2, DataAt DEF Place
<1>7. Sound(s, t, FactsOf(t)) /\ \A i \in Range(s) : Makes(i) = {} /\ ~ Special(i)
  <2>1. CASE reg[t] = 0
    <3>1. /\ Sound(ApplySeq(m), t, FactsOf(t))
          /\ \A i \in Range(ApplySeq(m)) :
                \/ i = <<"addSeq", m>>
                \/ i[1] \in {"lock", "unlock", "deliver", "printDelivered"}
        BY <1>5, <1>6, SoundApplySeq
    <3>2. Makes(<<"addSeq", m>>) = {} /\ ~ Special(<<"addSeq", m>>)
        BY <1>5 DEF Makes, Special
    <3>3. \A i : i[1] \in {"lock", "unlock", "deliver", "printDelivered"} => Makes(i) = {} /\ ~ Special(i)
        BY DEF Makes, Special
    <3> QED
        BY <1>3, <2>1, <3>1, <3>2, <3>3
  <2>2. CASE reg[t] # 0
    <3>1. s = <<>>
        BY <1>3, <2>2
    <3> QED
        BY <3>1, ListOfNone DEF Sound
  <2> QED
      BY <2>1, <2>2
<1>8. \A i \in Range(s) : Makes(i) \cap Facts = {}
    BY <1>7
<1> QED
    BY <1>1, <1>4, <1>7, <1>8, CallData DEF Calls

\* An ack that comes again is answered with the number in the history: the
\* receiver holds ackHistory and has no addSeq to do, so that it is there.
LEMMA CheckAckData ==
    ASSUME Invariant, LocksInv', NEW t \in Threads, CheckAck(t)
    PROVE  DataInv'
<1>1. At(t, "checkAck") /\ UNCHANGED <<reg, alarms, memory>>
    BY DEF CheckAck
<1>2. /\ Head(todo[t]) \in Instruction /\ Head(todo[t])[1] = "checkAck" /\ t = Receiver
      /\ Requires(Head(todo[t])) \subseteq FactsOf(t)
      /\ \A j \in Range(Tail(todo[t])) : j[1] = "unlock"
      /\ Range(todo[t]) = {Head(todo[t])} \cup Range(Tail(todo[t]))
    BY <1>1, DataAt DEF Place, Calls
<1>3. PICK m, p, s : /\ m = Arg(t) /\ p = Head(todo[t])[3]
                     /\ s = IF ackHistory[m][p] = 0 THEN Increment \o << <<"collect", m, p>> >>
                            ELSE IF Complete(ackHistory[m])
                            THEN Section("seqMessageHistory", << <<"resend", m>> >>)
                            ELSE <<>>
    OBVIOUS
<1>4. Go(t, s)
    BY <1>3 DEF CheckAck
<1>5. m \in Own /\ m \in Msg /\ p \in Peers /\ Known(m) \subseteq FactsOf(t)
    BY <1>2, <1>3, Arguments, OwnIsNotForeign DEF Arg, Requires
<1>6. Sound(s, t, FactsOf(t)) /\ \A i \in Range(s) : Makes(i) = {} /\ ~ Special(i)
  <2>1. CASE ackHistory[m][p] = 0
    <3>1. s = Increment \o << <<"collect", m, p>> >>
        BY <1>3, <2>1
    <3>2. Sound(s, t, FactsOf(t)) /\ \A i \in Range(s) : i[1] \in {"load", "store", "collect"}
        BY <1>2, <1>5, <3>1, SoundHandleAckmsg
    <3> QED
        BY <3>2 DEF Makes, Special
  <2>2. CASE ackHistory[m][p] # 0 /\ Complete(ackHistory[m])
    <3> DEFINE i == <<"resend", m>>
    <3>1. ~ ToDo(<<"addSeq", m>>)
        BY <1>2 DEF ToDo
    <3>2. <<"final", m>> \in Facts
        BY <1>5, <2>2, <3>1 DEF Invariant, DataInv, Underway
    <3>3. i \in Instruction /\ Place(i, t) /\ Requires(i) \subseteq FactsOf(t) /\ i[1] = "resend"
        BY <1>5, <3>2 DEF Instruction, Place, Requires, FactsOf
    <3>4. s = Section("seqMessageHistory", <<i>>) /\ "seqMessageHistory" \in Mutexes
        BY <1>3, <2>2 DEF Mutexes
    <3> HIDE DEF i
    <3>5. /\ Sound(Section("seqMessageHistory", <<i>>), t, FactsOf(t))
          /\ Range(Section("seqMessageHistory", <<i>>)) =
                {<<"lock", "seqMessageHistory">>, <<"unlock", "seqMessageHistory">>, i}
        BY <3>3, <3>4, SoundAccess
    <3>6. \A j \in Range(s) : j[1] \in {"lock", "unlock", "resend"}
        BY <3>3, <3>4, <3>5
    <3> QED
        BY <3>4, <3>5, <3>6 DEF Makes, Special
  <2>3. CASE ackHistory[m][p] # 0 /\ ~ Complete(ackHistory[m])
    <3>1. s = <<>>
        BY <1>3, <2>3
    <3> QED
        BY <3>1, ListOfNone DEF Sound
  <2> QED
      BY <2>1, <2>2, <2>3
<1>7. \A i \in Range(s) : Makes(i) \cap Facts = {}
    BY <1>6
<1> QED
    BY <1>1, <1>4, <1>6, <1>7, CallData DEF Calls


\* Reading curr_seq_number, which is never 0, gives a number to propose.
LEMMA LoadData ==
    ASSUME Invariant, LocksInv', NEW t \in Threads, Load(t)
    PROVE  DataInv'
<1>1. /\ At(t, "load") /\ Go(t, <<>>) /\ reg' = [reg EXCEPT ![t] = curr_seq_number]
      /\ UNCHANGED <<histories, queues, sent, alarms, exited, recv_cap, curr_seq_number, recordMessages>>
    BY DEF Load, memory, settings
<1>2. /\ Facts' = Facts
      /\ \A u \in Threads : reg'[u] = reg[u] => Local(u)' = Local(u) /\ FactsOf(u)' = FactsOf(u)
    BY <1>1, SameFacts
<1>3. todo[t] # <<>> /\ Head(todo[t])[1] = "load"
    BY <1>1, DataAt
<1>4. reg \in [Threads -> Nat] /\ curr_seq_number \in Nat \ {0}
    BY DEF Invariant, DataInv, Types
<1>5. reg' \in [Threads -> Nat] /\ reg'[t] > 0 /\ \A u \in Threads \ {t} : reg'[u] = reg[u]
    BY <1>1, <1>4
<1>6. Learns(t, Head(todo[t]))
  <2>1. /\ Establishes(Head(todo[t])) = {<<"positive", None>>}
        /\ Destroys(Head(todo[t])) = {"checked"} \X Msg
      BY <1>3 DEF Establishes, Destroys
  <2>2. <<"positive", None>> \in Local(t)'
      BY <1>5, LocalKinds DEF KindsOfLocal
  <2>3. \A f \in Local(t) : f \in {"checked"} \X Msg \/ f = <<"positive", None>>
      BY LocalKinds DEF KindsOfLocal
  <2>4. (FactsOf(t) \cup {<<"positive", None>>}) \ ({"checked"} \X Msg) \subseteq FactsOf(t)'
      BY <1>2, <2>2, <2>3 DEF FactsOf
  <2> QED
      BY <1>2, <1>5, <2>1, <2>4 DEF Learns
<1>7. LocksInv /\ Lists /\ Underway /\ Queues /\ KnownAbroad
    BY DEF Invariant, DataInv
<1>8. Lists' /\ Underway'
  <2> DEFINE s == <<>>
  <2>1. Sound(s, t, FactsOf(t)') /\ Precedes(s, Tail(todo[t])) /\ \A i \in Range(s) : FALSE
      BY ListOfNone DEF Sound, Precedes
  <2>2. ~ Special(Head(todo[t]))
      BY <1>3 DEF Special
  <2>3. \A m \in Own : Complete(ackHistory[m])' => Complete(ackHistory[m])
      BY <1>1 DEF Complete, histories
  <2>4. Go(t, s)
      BY <1>1
  <2> HIDE DEF s
  <2> QED
      BY <1>2, <1>3, <1>6, <1>7, <2>1, <2>2, <2>3, <2>4, GoSteady
<1>9. Queues'
  <2>1. \A m : Proposals(m)' = Proposals(m)
      BY <1>1, SameProposals DEF histories
  <2> QED
      BY <1>1, <1>2, <1>7, <2>1, QueuesStay DEF Queues
<1>10. KnownAbroad'
    BY <1>1, <1>2, <1>7, KnownAbroadStays DEF histories
<1>11. Types' /\ exited' = FALSE
    BY <1>1, <1>5 DEF Invariant, DataInv, Types, histories, queues
<1> QED
    BY <1>8, <1>9, <1>10, <1>11 DEF DataInv

\* A thread takes a mutex: it waits for none that is held.
LEMMA ToDoOthers ==
    ASSUME NEW td, todo' = td, td[Receiver] = todo[Receiver], NEW i
    PROVE  ToDo(i)' <=> ToDo(i)
    BY DEF ToDo, Range

LEMMA LockData ==
    ASSUME Invariant, LocksInv', NEW t \in Threads, Lock(t)
    PROVE  DataInv'
<1>1. /\ At(t, "lock") /\ owner[Arg(t)] = None /\ owner' = [owner EXCEPT ![Arg(t)] = t]
      /\ todo' = [todo EXCEPT ![t] = Tail(todo[t])]
      /\ UNCHANGED <<histories, queues, reg, sent, alarms, exited, recv_cap, curr_seq_number, recordMessages>>
    BY DEF Lock, memory, settings
<1>2. /\ Facts' = Facts
      /\ \A u \in Threads : Local(u)' = Local(u) /\ FactsOf(u)' = FactsOf(u)
    BY <1>1, SameFacts
<1>3. /\ todo[t] # <<>> /\ Head(todo[t])[1] = "lock" /\ Head(todo[t]) \in Instruction
      /\ Place(Head(todo[t]), t)
      /\ \A j \in Range(Tail(todo[t])) : Makes(j) \cap Facts = {}
      /\ Range(todo[t]) = {Head(todo[t])} \cup Range(Tail(todo[t]))
    BY <1>1, DataAt
<1>4. /\ todo \in [Threads -> Seq(Instruction)] /\ owner \in [Mutexes -> Threads \cup {None}]
      /\ LocksInv /\ Lists /\ Underway /\ Queues
    BY DEF Invariant, DataInv, LocksInv
<1>5. Establishes(Head(todo[t])) = {}
    BY <1>3 DEF Establishes
<1>6. Learns(t, Head(todo[t]))
    BY <1>2, <1>5 DEF Learns
<1>7. Sound(Tail(todo[t]), t, FactsOf(t)')
  <2>1. Sound(todo[t], t, FactsOf(t))
      BY <1>4 DEF Lists, Sound
  <2>2. Sound(Tail(todo[t]), t, FactsOf(t) \cup Establishes(Head(todo[t])))
      BY <1>3, <2>1, SoundFirst
  <2> QED
      BY <1>2, <1>5, <2>2
<1> DEFINE td == [todo EXCEPT ![t] = Tail(todo[t])]
<1>8. todo' = td /\ td[t] = Tail(todo[t]) /\ \A u \in Threads : u # t => td[u] = todo[u]
    BY <1>1, <1>4
<1> HIDE DEF td
<1>9. Lists'
  <2>1. \A u \in Threads : Sound(td[u], u, FactsOf(u)')
      BY <1>3, <1>4, <1>6, <1>7, <1>8, OtherLists
  <2>2. \A u \in Threads : \A i \in Range(td[u]) : Makes(i) \cap Facts' = {}
      BY <1>2, <1>3, <1>4, <1>6, <1>8, OtherLists
  <2> QED
      BY <1>8, <2>1, <2>2, ListsNext
<1>10. ASSUME NEW i, Special(i) PROVE ToDo(i)' <=> ToDo(i)
  <2>1. ToDo(i)' <=> i \in Range(td[Receiver])
      BY <1>8 DEF ToDo, Range
  <2>2. i # Head(todo[t])
      BY <1>3, <1>10 DEF Special
  <2>3. Receiver \in Threads
      BY DEF Threads
  <2> QED
      BY <1>3, <1>8, <2>1, <2>2, <2>3 DEF ToDo
<1>11. owner["ackHistory"] = Receiver => owner'["ackHistory"] = Receiver
  <2>1. "ackHistory" \in Mutexes /\ Receiver # None
      BY NoneIsNoThread DEF Mutexes, Threads
  <2> QED
      BY <1>1, <1>4, <2>1
<1>12. Underway'
  <2>1. \A m \in Own : Complete(ackHistory[m])' => Complete(ackHistory[m])
      BY <1>1 DEF Complete, histories
  <2> QED
      BY <1>2, <1>4, <1>10, <1>11, <2>1, UnderwayStays
<1>13. Queues'
  <2>1. \A m : Proposals(m)' = Proposals(m)
      BY <1>1, SameProposals DEF histories
  <2> QED
      BY <1>1, <1>2, <1>4, <2>1, QueuesStay DEF Queues
<1>14. curr_seq_number' \in Nat \ {0} /\ recordMessages' \in BOOLEAN
    BY <1>1 DEF Invariant, DataInv, Types
<1> QED
    BY <1>1, <1>2, <1>9, <1>12, <1>13, <1>14, RestStays

\* A list that becomes empty, or is given to a thread that has none.
LEMMA NewListData ==
    ASSUME Invariant, LocksInv', NEW t \in Threads, NEW s,
           todo' = [todo EXCEPT ![t] = s], Sound(s, t, FactsOf(t)),
           \A i \in Range(s) : Makes(i) \cap Facts = {},
           UNCHANGED <<histories, queues, reg>>,
           t = Receiver => todo[t] = <<>> /\ (\A m \in Own : <<"change", m>> \notin Range(s) /\ <<"addSeq", m>> \notin Range(s))
                           /\ (\A m \in Foreign : <<"push", m>> \in Range(s) => <<"ack", m>> \in Range(s))
    PROVE  Lists' /\ Underway' /\ Queues' /\ Facts' = Facts
<1>1. /\ Facts' = Facts
      /\ \A u \in Threads : Local(u)' = Local(u) /\ FactsOf(u)' = FactsOf(u)
    BY SameFacts
<1>2. /\ todo \in [Threads -> Seq(Instruction)]
      /\ LocksInv /\ Lists /\ Underway /\ Queues
    BY DEF Invariant, DataInv, LocksInv
<1> DEFINE td == [todo EXCEPT ![t] = s]
<1>3. todo' = td /\ td[t] = s /\ \A u \in Threads : u # t => td[u] = todo[u]
    BY <1>2
<1> HIDE DEF td
<1>4. ASSUME NEW u \in Threads, u # t
      PROVE  Sound(todo[u], u, FactsOf(u)) /\ \A i \in Range(todo[u]) : Makes(i) \cap Facts = {}
    BY <1>2 DEF Lists, Sound, Fresh
<1>5. Lists'
  <2>1. \A u \in Threads : Sound(td[u], u, FactsOf(u)')
      BY <1>1, <1>3, <1>4
  <2>2. \A u \in Threads : \A i \in Range(td[u]) : Makes(i) \cap Facts' = {}
      BY <1>1, <1>3, <1>4
  <2> QED
      BY <1>3, <2>1, <2>2, ListsNext
<1>6. \A i : ToDo(i)' <=> i \in Range(td[Receiver])
    BY <1>3 DEF ToDo, Range
<1>7. Receiver \in Threads
    BY DEF Threads
<1>8. ackHistory' = ackHistory /\ \A m : Complete(ackHistory[m])' <=> Complete(ackHistory[m])
    BY DEF Complete, histories
<1>9. Underway'
  <2>1. CASE t # Receiver
    <3>1. \A i : ToDo(i)' <=> ToDo(i)
        BY <1>3, <1>6, <1>7, <2>1 DEF ToDo
    <3>2. owner["ackHistory"] = Receiver => owner'["ackHistory"] = Receiver
      <4>1. todo'[Receiver] = todo[Receiver] /\ "ackHistory" \in Mutexes
          BY <1>3, <1>7, <2>1 DEF Mutexes
      <4> QED
          BY <1>2, <1>7, <4>1, HoldingStays
    <3> QED
        BY <1>1, <1>2, <1>8, <3>1, <3>2, UnderwayStays
  <2>2. CASE t = Receiver
    <3>1. \A i : ~ ToDo(i)
        BY <2>2, ListOfNone DEF ToDo
    <3>2. \A i : ToDo(i)' <=> i \in Range(s)
        BY <1>3, <1>6, <2>2
    <3>3. \A m \in Foreign :
             /\ ToDo(<<"push", m>>)' => ToDo(<<"ack", m>>)'
             /\ <<"held", m>> \in Facts => <<"proposed", m>> \in Facts
        BY <1>2, <2>2, <3>1, <3>2 DEF Underway
    <3>4. \A m \in Own : ~ ToDo(<<"change", m>>)' /\ ~ ToDo(<<"addSeq", m>>)'
        BY <2>2, <3>2
    <3>5. /\ \A m \in Own : Complete(ackHistory[m]) => <<"final", m>> \in Facts
          /\ \A m \in Msg : <<"final", m>> \in Facts => <<"applied", m>> \in Facts
        BY <1>2, <3>1 DEF Underway
    <3> QED
        BY <1>1, <1>8, <3>3, <3>4, <3>5 DEF Underway
  <2> QED
      BY <2>1, <2>2
<1>10. Queues'
  <2>1. \A m : Proposals(m)' = Proposals(m)
      BY SameProposals DEF histories
  <2> QED
      BY <1>1, <1>2, <2>1, QueuesStay DEF Queues
<1> QED
    BY <1>1, <1>5, <1>9, <1>10


LEMMA CheckSeqData ==
    ASSUME Invariant, LocksInv', NEW t \in Threads, CheckSeq(t)
    PROVE  DataInv'
<1>1. /\ At(t, "checkSeq")
      /\ UNCHANGED <<histories, queues, reg, sent, exited, recv_cap, curr_seq_number, recordMessages>>
    BY DEF CheckSeq, memory, settings
<1>2. t \in Watchdogs /\ t # Receiver
  <2>1. t \in Watchdogs
      BY <1>1, DataAt DEF Place
  <2> QED
      BY <2>1 DEF Watchdogs, DataWatchdogs, AckWatchdogs, Receiver
<1>3. alarms \in [Watchdogs -> 0 .. WATCHDOG_RESEND_CAP] /\ 0 \in 0 .. WATCHDOG_RESEND_CAP
    BY CapAssumption DEF Invariant, DataInv, Types
<1>4. CASE Arg(t) \in seqMessageHistory
  <2>1. todo' = [todo EXCEPT ![t] = <<>>] /\ alarms' = [alarms EXCEPT ![t] = 0]
      BY <1>4 DEF CheckSeq
  <2>2. Lists' /\ Underway' /\ Queues' /\ Facts' = Facts
    <3> DEFINE s == <<>>
    <3>1. todo' = [todo EXCEPT ![t] = s] /\ Sound(s, t, FactsOf(t)) /\ \A i \in Range(s) : FALSE
        BY <2>1, ListOfNone DEF Sound
    <3> HIDE DEF s
    <3> QED
        BY <1>1, <1>2, <3>1, NewListData
  <2>3. /\ alarms' \in [Watchdogs -> 0 .. WATCHDOG_RESEND_CAP]
        /\ \A w \in Watchdogs : alarms'[w] > 0 => alarms[w] > 0
      BY <1>2, <1>3, <2>1
  <2>4. Types' /\ exited' = FALSE
      BY <1>1, <2>3 DEF Invariant, DataInv, Types, histories, queues
  <2>5. KnownAbroad'
      BY <1>1, <2>2, <2>3, KnownAbroadStays DEF Invariant, DataInv, histories
  <2> QED
      BY <2>2, <2>4, <2>5 DEF DataInv
<1>5. CASE Arg(t) \notin seqMessageHistory
  <2>1. Go(t, <<>>) /\ UNCHANGED alarms
      BY <1>5 DEF CheckSeq
  <2>2. Lists' /\ Underway' /\ Queues' /\ Facts' = Facts
      BY <1>1, <2>1, NothingToDo, IdleGo
  <2>3. curr_seq_number' \in Nat \ {0} /\ recordMessages' \in BOOLEAN
      BY <1>1 DEF Invariant, DataInv, Types
  <2> QED
      BY <1>1, <2>1, <2>2, <2>3, RestStays
<1> QED
    BY <1>4, <1>5

LEMMA WakeUpData ==
    ASSUME Invariant, LocksInv', NEW w \in Watchdogs, WakeUp(w)
    PROVE  DataInv'
<1>1. PICK s : s = IF w[1] = "data" THEN DatamsgWatchdog(w[2], w[3]) ELSE AckmsgWatchdog(w[2])
    OBVIOUS
<1>2. /\ alarms[w] > 0 /\ alarms' = [alarms EXCEPT ![w] = @ - 1] /\ todo' = [todo EXCEPT ![w] = s]
      /\ UNCHANGED <<histories, queues, reg, sent, exited, recv_cap, curr_seq_number, recordMessages>>
    BY <1>1 DEF WakeUp, memory, settings
<1>3. w \in Threads /\ w # Receiver
    BY DEF Threads, Watchdogs, DataWatchdogs, AckWatchdogs, Receiver
<1>4. Known(w[2]) \subseteq FactsOf(w)
    BY <1>2 DEF Invariant, DataInv, KnownAbroad, FactsOf
<1>5. Sound(s, w, FactsOf(w)) /\ \A i \in Range(s) : Makes(i) = {}
  <2>1. CASE w \in DataWatchdogs
    <3>1. PICK m \in Own, p \in Peers : w = <<"data", m, p>>
        BY <2>1 DEF DataWatchdogs
    <3>2. s = DatamsgWatchdog(m, p) /\ Known(m) \subseteq FactsOf(w)
        BY <1>1, <1>4, <3>1
    <3> QED
        BY <3>1, <3>2, SoundWatchdogs
  <2>2. CASE w \in AckWatchdogs
    <3>1. PICK m \in Foreign : w = <<"ack", m>>
        BY <2>2 DEF AckWatchdogs
    <3>2. s = AckmsgWatchdog(m) /\ Known(m) \subseteq FactsOf(w)
        BY <1>1, <1>4, <3>1
    <3> QED
        BY <3>1, <3>2, SoundWatchdogs
  <2> QED
      BY <2>1, <2>2 DEF Watchdogs
<1>6. Lists' /\ Underway' /\ Queues' /\ Facts' = Facts
  <2>1. \A i \in Range(s) : Makes(i) \cap Facts = {}
      BY <1>5
  <2> QED
      BY <1>2, <1>3, <1>5, <2>1, NewListData
<1>7. /\ alarms' \in [Watchdogs -> 0 .. WATCHDOG_RESEND_CAP]
      /\ \A v \in Watchdogs : alarms'[v] > 0 => alarms[v] > 0
  <2>1. alarms \in [Watchdogs -> 0 .. WATCHDOG_RESEND_CAP] /\ WATCHDOG_RESEND_CAP \in Nat
      BY CapAssumption DEF Invariant, DataInv, Types
  <2>2. alarms[w] - 1 \in 0 .. WATCHDOG_RESEND_CAP
      BY <1>2, <2>1
  <2> QED
      BY <1>2, <2>1, <2>2
<1>8. Types' /\ exited' = FALSE
    BY <1>2, <1>7 DEF Invariant, DataInv, Types, histories, queues
<1>9. KnownAbroad'
    BY <1>2, <1>6, <1>7, KnownAbroadStays DEF Invariant, DataInv, histories
<1> QED
    BY <1>6, <1>8, <1>9 DEF DataInv

LEMMA AcceptMarkerData ==
    ASSUME Invariant, LocksInv', AcceptMarker
    PROVE  DataInv'
<1>1. PICK s : s = HandleMarker(markers')
    OBVIOUS
<1>2. /\ todo' = [todo EXCEPT ![Listener] = s]
      /\ UNCHANGED <<histories, queues, reg, sent, alarms, exited, recv_cap, curr_seq_number, recordMessages>>
    BY <1>1 DEF AcceptMarker
<1>3. Listener \in Threads /\ Listener # Receiver
    BY DEF Threads, Listener, Receiver
<1>4. /\ Idle(s, FactsOf(Listener))
      /\ \A i \in Range(s) : i[1] \in {"lock", "unlock"} \cup Accesses
    BY <1>1, IdleHandleMarker
<1>5. \A i \in Range(s) : Place(i, Listener) /\ Makes(i) = {}
    BY <1>4 DEF Place, Makes, Accesses
<1>6. Sound(s, Listener, FactsOf(Listener))
    BY <1>4, <1>5, IdleSound
<1>7. Lists' /\ Underway' /\ Queues' /\ Facts' = Facts
  <2>1. \A i \in Range(s) : Makes(i) \cap Facts = {}
      BY <1>5
  <2> QED
      BY <1>2, <1>3, <1>6, <2>1, NewListData
<1>8. curr_seq_number' \in Nat \ {0} /\ recordMessages' \in BOOLEAN
    BY <1>2 DEF Invariant, DataInv, Types
<1> QED
    BY <1>2, <1>7, <1>8, RestStays

\* What the receiver does with a packet is in order, whatever arrives: the
\* sender of an ack or of a final number was told of the message before, and
\* a message that is on this host has been acked by the idle receiver.
LEMMA RecvData ==
    ASSUME Invariant, LocksInv', NEW type \in {"DATAMSG", "ACKMSG", "SEQMSG"}, NEW p \in Peers, NEW m \in Msg,
           Recv(type, p, m)
    PROVE  DataInv'
<1> DEFINE a == Section("recordMessages", << <<"testRecord", "inboundMessageBuffer">> >>)
           F == FactsOf(Receiver)
<1>1. PICK b : b = HandlePacket(type, p, m)
    OBVIOUS
<1>2. /\ todo[Receiver] = <<>> /\ recv_cap < RECV_CAP /\ MaySend(type, p, m) /\ recv_cap' = recv_cap + 1
      /\ todo' = [todo EXCEPT ![Receiver] = a \o b]
      /\ UNCHANGED <<histories, queues, reg, sent, alarms, exited, curr_seq_number, recordMessages>>
    BY <1>1 DEF Recv
<1>3. Receiver \in Threads /\ \A i : ~ ToDo(i)
    BY <1>2, ListOfNone DEF Threads, ToDo
<1>4. /\ Sound(a, Receiver, F) /\ \A x : Precedes(a, x)
      /\ \A i \in Range(a) : i[1] \in {"lock", "unlock", "testRecord"}
  <2> DEFINE i == <<"testRecord", "inboundMessageBuffer">>
  <2>1. i \in Instruction /\ "recordMessages" \in Mutexes \ {"ackHistory"} /\ i[1] = "testRecord"
      BY DEF Instruction, Buffers, Mutexes
  <2>2. Quiet(i) /\ Requires(i) \subseteq F
      BY DEF Quiet, Requires
  <2> HIDE DEF i, F
  <2>3. Idle(<<i>>, F) /\ Range(<<i>>) = {i}
      BY <2>1, <2>2, IdleOne, ListOfOne
  <2>4. /\ Idle(a, F)
        /\ Range(a) = {<<"lock", "recordMessages">>, <<"unlock", "recordMessages">>} \cup {i}
      BY <2>1, <2>3, IdleSection DEF i
  <2>5. \A j \in Range(a) : j[1] \in {"lock", "unlock", "testRecord"}
      BY <2>1, <2>4
  <2>6. \A j \in Range(a) : Place(j, Receiver)
      BY <2>5 DEF Place
  <2> HIDE DEF a
  <2> QED
      BY <2>4, <2>5, <2>6, IdleSound
<1>5. /\ Sound(b, Receiver, F) /\ \A i \in Range(b) : Makes(i) \cap Facts = {}
      /\ \A x \in Own : <<"change", x>> \notin Range(b) /\ <<"addSeq", x>> \notin Range(b)
      /\ \A x \in Foreign : <<"push", x>> \in Range(b) => <<"ack", x>> \in Range(b)
  <2>1. CASE type = "DATAMSG"
    <3>1. m \in Foreign /\ m \notin Own
      <4>1. m[1] # Me
          BY <1>2, <2>1 DEF MaySend, Peers
      <4> QED
          BY <4>1, OwnIsNotForeign
    <3>2. b = IF alreadyAcked[m] # 0 THEN SendMsg("ACKMSG", Asker, m) ELSE ProposeFor(m)
        BY <1>1, <2>1 DEF HandlePacket, HandleDatamsg
    <3>3. <<"proposed", m>> \in Facts <=> alreadyAcked[m] # 0
        BY <3>1, FactKinds DEF KindsOfFacts, Proposed
    <3>4. /\ <<"proposed", m>> \in Facts => <<"held", m>> \in Facts
          /\ <<"held", m>> \in Facts => <<"proposed", m>> \in Facts
        BY <1>3, <3>1 DEF Invariant, DataInv, KnownAbroad, Underway
    <3>5. CASE alreadyAcked[m] # 0
      <4>1. Known(m) \subseteq F
          BY <3>3, <3>4, <3>5 DEF Known, FactsOf
      <4>2. Sound(b, Receiver, F) /\ \A i \in Range(b) : i[1] = "toss"
          BY <3>1, <3>2, <3>5, <4>1, SoundHandleDatamsg
      <4>3. \A i \in Range(b) : Makes(i) = {}
          BY <4>2 DEF Makes
      <4> QED
          BY <4>2, <4>3
    <3>6. CASE alreadyAcked[m] = 0
      <4>1. /\ Sound(b, Receiver, F) /\ <<"ack", m>> \in Range(b)
            /\ \A i \in Range(b) :
                \/ i \in {<<"push", m>>, <<"ack", m>>}
                \/ i[1] \in {"load", "store", "lock", "unlock", "toss", "spawn"}
          BY <3>1, <3>2, <3>6, SoundHandleDatamsg
      <4>2. <<"held", m>> \notin Facts /\ <<"proposed", m>> \notin Facts
          BY <3>3, <3>4, <3>6
      <4>3. \A i \in Range(b) : Makes(i) \in {{}, {<<"held", m>>}, {<<"proposed", m>>}}
          BY <4>1 DEF Makes
      <4>4. \A i \in Range(b) : Makes(i) \cap Facts = {}
          BY <4>2, <4>3
      <4>5. \A x \in Foreign : <<"push", x>> \in Range(b) => x = m
          BY <4>1
      <4>6. \A x \in Own : <<"change", x>> \notin Range(b) /\ <<"addSeq", x>> \notin Range(b)
          BY <4>1
      <4> QED
          BY <4>1, <4>4, <4>5, <4>6
    <3> QED
        BY <3>5, <3>6
  <2>2. CASE type = "ACKMSG"
    <3>1. Packet("DATAMSG", p, m) \in sent
        BY <1>2, <2>2 DEF MaySend
    <3>2. m \in Own
      <4>1. Packet("DATAMSG", p, m) \in Packets
          BY <3>1 DEF Invariant, LocksInv, Surroundings
      <4> QED
          BY <4>1 DEF Packets, Packet
    <3>3. Known(m) \subseteq F
        BY <3>1 DEF Invariant, DataInv, KnownAbroad, Packet, FactsOf
    <3>4. b = HandleAckmsg(m, p)
        BY <1>1, <2>2 DEF HandlePacket
    <3>5. Sound(b, Receiver, F) /\ \A i \in Range(b) : i[1] \in {"lock", "unlock", "checkAck"}
        BY <3>2, <3>3, <3>4, SoundHandleAckmsg
    <3>6. \A i \in Range(b) : Makes(i) = {}
        BY <3>5 DEF Makes
    <3> QED
        BY <3>5, <3>6
  <2>3. CASE type = "SEQMSG"
    <3>1. Packet("ACKMSG", p, m) \in sent
        BY <1>2, <2>3 DEF MaySend
    <3>2. m \in Foreign
      <4>1. Packet("ACKMSG", p, m) \in Packets
          BY <3>1 DEF Invariant, LocksInv, Surroundings
      <4> QED
          BY <4>1 DEF Packets, Packet
    <3>3. Known(m) \subseteq F
        BY <3>1 DEF Invariant, DataInv, KnownAbroad, Packet, FactsOf
    <3>4. b = HandleSeqmsg(m)
        BY <1>1, <2>3 DEF HandlePacket
    <3>5. Sound(b, Receiver, F) /\ \A i \in Range(b) :
             i = <<"change", m>> \/ i[1] \in {"lock", "unlock", "checkDelivered", "apply"}
        BY <3>2, <3>3, <3>4, SoundHandleSeqmsg
    <3>6. \A i \in Range(b) : Makes(i) = {}
        BY <3>5 DEF Makes
    <3>7. \A x \in Own : <<"change", x>> \notin Range(b) /\ <<"addSeq", x>> \notin Range(b)
      <4>1. m \notin Own
          BY <3>2, OwnIsNotForeign
      <4> QED
          BY <3>5, <4>1
    <3>8. \A x : <<"push", x>> \notin Range(b)
        BY <3>5
    <3> QED
        BY <3>5, <3>6, <3>7, <3>8
  <2> QED
      BY <2>1, <2>2, <2>3
<1> HIDE DEF a, F
<1>6. Sound(a \o b, Receiver, F)
    BY <1>4, <1>5, SoundBoth
<1>7. Range(a \o b) = Range(a) \cup Range(b)
    BY <1>4, <1>5, RangeBoth
<1>8. \A i \in Range(a \o b) : Makes(i) \cap Facts = {}
  <2>1. \A i \in Range(a) : Makes(i) = {}
      BY <1>4 DEF Makes
  <2> QED
      BY <1>5, <1>7, <2>1
<1>9. /\ \A x \in Own : <<"change", x>> \notin Range(a \o b) /\ <<"addSeq", x>> \notin Range(a \o b)
      /\ \A x \in Foreign : <<"push", x>> \in Range(a \o b) => <<"ack", x>> \in Range(a \o b)
  <2>1. \A x : /\ <<"change", x>> \notin Range(a) /\ <<"addSeq", x>> \notin Range(a)
               /\ <<"push", x>> \notin Range(a)
      BY <1>4
  <2> QED
      BY <1>5, <1>7, <2>1
<1>10. PICK s : s = a \o b
    OBVIOUS
<1>11. Lists' /\ Underway' /\ Queues' /\ Facts' = Facts
    BY <1>2, <1>3, <1>6, <1>8, <1>9, <1>10, NewListData DEF F
<1>12. recv_cap' \in 1 .. RECV_CAP
    BY <1>2, CapAssumption DEF Invariant, DataInv, Types
<1>13. Types' /\ exited' = FALSE
    BY <1>2, <1>12 DEF Invariant, DataInv, Types, histories, queues
<1>14. KnownAbroad'
    BY <1>2, <1>11, KnownAbroadStays DEF Invariant, DataInv, histories
<1> QED
    BY <1>11, <1>13, <1>14 DEF DataInv



-----------------------------------------------------------------------------
(***************************************************************************)
(* Steps on the histories and on the lists of messages.                    *)
(***************************************************************************)

\* The facts after a step, kind by kind.
LEMMA FactsNext ==
    ASSUME NEW G, \A f \in G : f[1] \in {"held", "proposed", "final", "applied"} /\ f[2] \in Msg /\ f = <<f[1], f[2]>>,
           \A m \in Msg : (Queued(m) \/ Delivered(m))' <=> Queued(m) \/ Delivered(m) \/ <<"held", m>> \in G,
           \A m \in Msg : Proposed(m)' <=> Proposed(m) \/ <<"proposed", m>> \in G,
           \A m \in Msg : m \in seqMessageHistory' <=> m \in seqMessageHistory \/ <<"final", m>> \in G,
           \A m \in Msg : Applied(m)' <=> Applied(m) \/ <<"applied", m>> \in G
    PROVE  Facts' = Facts \cup G
<1>1. \A m \in Msg, k \in {"held", "proposed", "final", "applied"} :
         <<k, m>> \in Facts' <=> <<k, m>> \in Facts \/ <<k, m>> \in G
    BY FactKinds DEF KindsOfFacts
<1>2. \A f \in Facts \cup Facts' \cup G :
         f[1] \in {"held", "proposed", "final", "applied"} /\ f[2] \in Msg /\ f = <<f[1], f[2]>>
    BY FactKinds DEF KindsOfFacts
<1>3. ASSUME NEW f PROVE f \in Facts' <=> f \in Facts \cup G
  <2>1. ASSUME f \in Facts \cup Facts' \cup G PROVE f \in Facts' <=> f \in Facts \/ f \in G
    <3>1. f[1] \in {"held", "proposed", "final", "applied"} /\ f[2] \in Msg /\ f = <<f[1], f[2]>>
        BY <1>2, <2>1
    <3>2. <<f[1], f[2]>> \in Facts' <=> <<f[1], f[2]>> \in Facts \/ <<f[1], f[2]>> \in G
        BY <1>1, <3>1
    <3> QED
        BY <3>1, <3>2
  <2> QED
      BY <2>1
<1> QED
    BY <1>3

\* A step of t that only goes on with its list.
LEMMA GoRest ==
    ASSUME Invariant, LocksInv', NEW t \in Threads, todo[t] # <<>>, Go(t, <<>>), Learns(t, Head(todo[t]))
    PROVE  /\ Lists'
           /\ \A i : i[1] # "unlock" /\ (t = Receiver => i # Head(todo[t])) => (ToDo(i)' <=> ToDo(i))
           /\ \A i : i[1] # "unlock" /\ ToDo(i)' => ToDo(i)
           /\ t = Receiver => \A i : i[1] # "unlock" /\ ToDo(i)' => i \in Range(Tail(todo[t]))
           /\ \A m \in Own : ToDo(<<"change", m>>)' /\ owner["ackHistory"] = Receiver =>
                                owner'["ackHistory"] = Receiver
<1> DEFINE s == <<>>
<1>1. /\ s \in Seq(Instruction) /\ \A i : i \notin Range(s)
      /\ Sound(s, t, FactsOf(t)') /\ Precedes(s, Tail(todo[t])) /\ \A i \in Range(s) : Makes(i) \cap Facts' = {}
      /\ Go(t, s)
    BY ListOfNone DEF Sound, Precedes
<1>2. LocksInv /\ Lists /\ todo[t] \in Seq(Instruction) /\ Sound(todo[t], t, FactsOf(t))
    BY DEF Invariant, DataInv, LocksInv, Lists, Sound
<1>3. /\ Range(todo[t]) = {Head(todo[t])} \cup Range(Tail(todo[t])) /\ Tail(todo[t]) \in Seq(Instruction)
      /\ Sound(Tail(todo[t]), t, FactsOf(t) \cup Establishes(Head(todo[t])))
    BY <1>2, SoundFirst
<1>4. s \o Tail(todo[t]) = Tail(todo[t])
    BY <1>3
<1> HIDE DEF s
<1>5. Lists'
    BY <1>1, <1>2, GoLists
<1>6. ASSUME NEW i, i[1] # "unlock"
      PROVE  /\ t = Receiver => (ToDo(i)' <=> i \in Range(Tail(todo[t])))
             /\ t # Receiver => (ToDo(i)' <=> ToDo(i))
    BY <1>1, <1>2, <1>6, GoToDo
<1>7. t = Receiver => \A i : ToDo(i) <=> i = Head(todo[t]) \/ i \in Range(Tail(todo[t]))
    BY <1>3 DEF ToDo
<1>8. ASSUME NEW m \in Own, ToDo(<<"change", m>>)', owner["ackHistory"] = Receiver
      PROVE  owner'["ackHistory"] = Receiver
  <2> DEFINE E == FactsOf(t) \cup Establishes(Head(todo[t]))
  <2>1. Sound(s \o Tail(todo[t]), t, E)
      BY <1>3, <1>4
  <2> HIDE DEF E
  <2> QED
      BY <1>1, <1>2, <1>8, <2>1, GoOwner
<1> QED
    BY <1>5, <1>6, <1>7, <1>8

\* main enters its proposal, the first ack of its message.
LEMMA ProposeOwnData ==
    ASSUME Invariant, LocksInv', NEW t \in Threads, ProposeOwn(t)
    PROVE  DataInv'
<1>1. PICK m : m = Arg(t)
    OBVIOUS
<1>2. /\ At(t, "proposeOwn") /\ Go(t, <<>>) /\ ackHistory' = [ackHistory EXCEPT ![m][Me] = reg[t]]
      /\ UNCHANGED <<reg, alarms, curr_seq_number, alreadyAcked, seqMessageHistory, queues, recordMessages,
                     recv_cap, sent, exited>>
    BY <1>1 DEF ProposeOwn, settings
<1>3. /\ todo[t] # <<>> /\ Head(todo[t]) \in Instruction /\ Head(todo[t])[1] = "proposeOwn"
      /\ Place(Head(todo[t]), t) /\ Requires(Head(todo[t])) \subseteq FactsOf(t)
      /\ Makes(Head(todo[t])) \cap Facts = {}
    BY <1>2, DataAt
<1>4. m \in Own /\ m \in Msg
    BY <1>1, <1>3, Arguments, OwnIsNotForeign DEF Arg
<1>5. t # Receiver /\ <<"proposed", m>> \notin Facts /\ ackHistory[m][Me] = 0
  <2>1. t # Receiver
      BY <1>1, <1>3, <1>4 DEF Place, Arg, Main, Receiver
  <2>2. <<"proposed", m>> \notin Facts
      BY <1>1, <1>3 DEF Makes, Arg
  <2> QED
      BY <1>4, <2>1, <2>2, FactKinds DEF KindsOfFacts, Proposed
<1>6. reg[t] \in Nat /\ reg[t] # 0
  <2>1. <<"positive", None>> \in FactsOf(t)
      BY <1>3 DEF Requires
  <2>2. <<"positive", None>> \notin Facts
      BY FactKinds DEF KindsOfFacts
  <2>3. reg[t] > 0
      BY <2>1, <2>2, LocalKinds DEF KindsOfLocal, FactsOf
  <2> QED
      BY <2>3 DEF Invariant, DataInv, Types
<1>7. /\ ackHistory \in [Own -> [Host -> Nat]] /\ Me \in Host /\ Peers # {} /\ \A p \in Peers : p # Me /\ p \in Host
      /\ LocksInv /\ Lists /\ KnownAbroad /\ Underway /\ Queues
    BY HostAssumption DEF Invariant, DataInv, Types, Peers
<1>8. /\ ackHistory' \in [Own -> [Host -> Nat]] /\ ackHistory'[m][Me] = reg[t]
      /\ \A k \in Own, h \in Host : k # m \/ h # Me => ackHistory'[k][h] = ackHistory[k][h]
    BY <1>2, <1>4, <1>6, <1>7
<1>9. Facts' = Facts \cup {<<"proposed", m>>}
  <2>1. \A k \in Msg : Proposed(k)' <=> Proposed(k) \/ <<"proposed", k>> \in {<<"proposed", m>>}
      BY <1>2, <1>4, <1>6, <1>7, <1>8 DEF Proposed
  <2>2. \A k \in Msg : /\ Queued(k)' <=> Queued(k)
                       /\ Delivered(k)' <=> Delivered(k)
                       /\ Applied(k)' <=> Applied(k)
      BY <1>2 DEF queues, Queued, Delivered, Applied
  <2>3. PICK G : G = {<<"proposed", m>>}
      OBVIOUS
  <2>4. \A f \in G : f[1] \in {"held", "proposed", "final", "applied"} /\ f[2] \in Msg /\ f = <<f[1], f[2]>>
      BY <1>4, <2>3
  <2>5. \A k \in Msg : <<"held", k>> \notin G /\ <<"final", k>> \notin G /\ <<"applied", k>> \notin G
      BY <2>3
  <2> QED
      BY <1>2, <2>1, <2>2, <2>3, <2>4, <2>5, FactsNext
<1>10. Learns(t, Head(todo[t]))
  <2>1. /\ Establishes(Head(todo[t])) = {<<"proposed", m>>} /\ Makes(Head(todo[t])) = {<<"proposed", m>>}
        /\ Destroys(Head(todo[t])) = {}
      BY <1>1, <1>3 DEF Establishes, Makes, Destroys, Arg
  <2>2. \A u \in Threads : Local(u)' = Local(u)
      BY <1>2 DEF queues, Local, Delivered
  <2> QED
      BY <1>9, <2>1, <2>2 DEF Learns, FactsOf
<1>11. \A k \in Own : Complete(ackHistory[k])' => Complete(ackHistory[k])
  <2>1. PICK p \in Peers : p \in Host /\ p # Me
      BY <1>7
  <2>2. ackHistory[m][p] = 0
      BY <1>4, <1>5, <1>7 DEF KnownAbroad
  <2>3. ackHistory'[m][p] = 0
      BY <1>4, <1>8, <2>1, <2>2
  <2> QED
      BY <1>8, <2>1, <2>3 DEF Complete
<1>12. Lists' /\ Underway'
  <2> DEFINE s == <<>>
  <2>1. Sound(s, t, FactsOf(t)') /\ Precedes(s, Tail(todo[t])) /\ \A i \in Range(s) : FALSE
      BY ListOfNone DEF Sound, Precedes
  <2>2. Go(t, s)
      BY <1>2
  <2>3. \A f \in Facts' : f \in Facts \/ (f[1] # "final" /\ (f[1] = "held" => f[2] \in Own))
      BY <1>9
  <2> HIDE DEF s
  <2>4. \A i \in Range(s) : Makes(i) \cap Facts' = {}
      BY <2>1
  <2> QED
      BY <1>3, <1>5, <1>7, <1>10, <1>11, <2>1, <2>2, <2>3, <2>4, GoSteady
<1>13. Queues'
  <2>1. ASSUME NEW e \in deliveryQueue, e.status = DELIVERABLE
        PROVE  <<"proposed", e.msg>> \in Facts' /\ Proposals(e.msg)' = Proposals(e.msg)
    <3>1. <<"proposed", e.msg>> \in Facts
        BY <1>7, <2>1 DEF Queues
    <3>2. e.msg # m
        BY <1>5, <3>1
    <3>3. e.msg \in Own => ackHistory'[e.msg][Me] = ackHistory[e.msg][Me]
        BY <1>7, <1>8, <3>2
    <3> QED
        BY <1>2, <1>9, <3>1, <3>3 DEF Proposals
  <2> QED
      BY <1>2, <1>7, <2>1, QueuesStay
<1>14. KnownAbroad'
  <2>1. \A k \in Own, p \in Peers : ackHistory'[k][p] # 0 => ackHistory[k][p] # 0
      BY <1>7, <1>8
  <2>2. \A k \in Foreign : <<"proposed", k>> \in Facts' => <<"proposed", k>> \in Facts
      BY <1>4, <1>9, OwnIsNotForeign
  <2> QED
      BY <1>2, <1>7, <1>9, <2>1, <2>2, KnownAbroadStays
<1>15. Types' /\ exited' = FALSE
    BY <1>2, <1>8 DEF Invariant, DataInv, Types, queues
<1> QED
    BY <1>12, <1>13, <1>14, <1>15 DEF DataInv


\* The receiver enters the number it sends with its ack.
LEMMA AckData ==
    ASSUME Invariant, LocksInv', NEW t \in Threads, Ack(t)
    PROVE  DataInv'
<1>1. PICK m : m = Arg(t)
    OBVIOUS
<1>2. /\ At(t, "ack") /\ Go(t, <<>>) /\ alreadyAcked' = [alreadyAcked EXCEPT ![m] = reg[t]]
      /\ UNCHANGED <<reg, alarms, curr_seq_number, ackHistory, seqMessageHistory, queues, recordMessages,
                     recv_cap, sent, exited>>
    BY <1>1 DEF Ack, settings
<1>3. /\ todo[t] # <<>> /\ Head(todo[t]) \in Instruction /\ Head(todo[t])[1] = "ack"
      /\ Place(Head(todo[t]), t) /\ Requires(Head(todo[t])) \subseteq FactsOf(t)
      /\ Makes(Head(todo[t])) \cap Facts = {}
      /\ \A j \in Range(Tail(todo[t])) : Makes(j) \cap Facts = {}
    BY <1>2, DataAt
<1>4. m \in Foreign /\ m \in Msg /\ m \notin Own
    BY <1>1, <1>3, Arguments, OwnIsNotForeign DEF Arg
<1>5. t = Receiver /\ <<"proposed", m>> \notin Facts
    BY <1>1, <1>3, <1>4 DEF Place, Arg, Makes
<1>6. reg[t] \in Nat /\ reg[t] # 0 /\ <<"held", m>> \in Facts
  <2>1. <<"positive", None>> \in FactsOf(t) /\ <<"held", m>> \in FactsOf(t)
      BY <1>1, <1>3 DEF Requires, Arg
  <2>2. <<"positive", None>> \notin Facts /\ <<"held", m>> \in Facts
      BY <2>1, FactKinds, FactsNotLocal DEF KindsOfFacts
  <2>3. reg[t] > 0
      BY <2>1, <2>2, LocalKinds DEF KindsOfLocal, FactsOf
  <2> QED
      BY <2>2, <2>3 DEF Invariant, DataInv, Types
<1>7. /\ alreadyAcked \in [Foreign -> Nat]
      /\ LocksInv /\ Lists /\ KnownAbroad /\ Underway /\ Queues
    BY DEF Invariant, DataInv, Types
<1>8. /\ alreadyAcked' \in [Foreign -> Nat] /\ alreadyAcked'[m] = reg[t]
      /\ \A k \in Foreign : k # m => alreadyAcked'[k] = alreadyAcked[k]
    BY <1>2, <1>4, <1>6, <1>7
<1>9. Facts' = Facts \cup {<<"proposed", m>>}
  <2>1. \A k \in Msg : Proposed(k)' <=> Proposed(k) \/ k = m
      BY <1>2, <1>4, <1>6, <1>7, <1>8, OwnIsNotForeign DEF Proposed
  <2>2. \A k \in Msg : /\ Queued(k)' <=> Queued(k)
                       /\ Delivered(k)' <=> Delivered(k)
                       /\ Applied(k)' <=> Applied(k)
      BY <1>2 DEF queues, Queued, Delivered, Applied
  <2>3. PICK G : G = {<<"proposed", m>>}
      OBVIOUS
  <2>4. \A f \in G : f[1] \in {"held", "proposed", "final", "applied"} /\ f[2] \in Msg /\ f = <<f[1], f[2]>>
      BY <1>4, <2>3
  <2>5. \A k \in Msg : <<"held", k>> \notin G /\ <<"final", k>> \notin G /\ <<"applied", k>> \notin G
                       /\ (<<"proposed", k>> \in G <=> k = m)
      BY <2>3
  <2> QED
      BY <1>2, <2>1, <2>2, <2>3, <2>4, <2>5, FactsNext
<1>10. Learns(t, Head(todo[t]))
  <2>1. /\ Establishes(Head(todo[t])) = {<<"proposed", m>>} /\ Makes(Head(todo[t])) = {<<"proposed", m>>}
        /\ Destroys(Head(todo[t])) = {}
      BY <1>1, <1>3 DEF Establishes, Makes, Destroys, Arg
  <2>2. \A u \in Threads : Local(u)' = Local(u)
      BY <1>2 DEF queues, Local, Delivered
  <2> QED
      BY <1>9, <2>1, <2>2 DEF Learns, FactsOf
<1>11. /\ Lists'
       /\ \A i : i[1] # "unlock" /\ i # Head(todo[t]) => (ToDo(i)' <=> ToDo(i))
       /\ \A i : i[1] # "unlock" /\ ToDo(i)' => i \in Range(Tail(todo[t]))
       /\ \A k \in Own : ToDo(<<"change", k>>)' /\ owner["ackHistory"] = Receiver =>
                            owner'["ackHistory"] = Receiver
    BY <1>2, <1>3, <1>5, <1>10, GoRest
<1>12. Underway'
  <2>1. Head(todo[t])[1] = "ack" /\ Head(todo[t])[2] = m
      BY <1>1, <1>3 DEF Arg
  <2>2. ~ ToDo(<<"push", m>>)'
    <3>1. <<"held", m>> \in Makes(<<"push", m>>)
        BY DEF Makes
    <3> QED
        BY <1>3, <1>6, <1>11, <3>1
  <2>3. ASSUME NEW k \in Foreign
        PROVE  /\ ToDo(<<"push", k>>)' => ToDo(<<"ack", k>>)'
               /\ <<"held", k>> \in Facts' => <<"proposed", k>> \in Facts' \/ ToDo(<<"ack", k>>)'
    <3>1. CASE k = m
        BY <1>9, <2>2, <3>1
    <3>2. CASE k # m
      <4>1. <<"ack", k>> # Head(todo[t]) /\ <<"push", k>> # Head(todo[t])
          BY <2>1, <3>2
      <4>2. (ToDo(<<"ack", k>>)' <=> ToDo(<<"ack", k>>)) /\ (ToDo(<<"push", k>>)' <=> ToDo(<<"push", k>>))
          BY <1>11, <4>1
      <4> QED
          BY <1>7, <1>9, <4>2 DEF Underway
    <3> QED
        BY <3>1, <3>2
  <2>4. \A k : /\ ToDo(<<"change", k>>)' <=> ToDo(<<"change", k>>)
               /\ ToDo(<<"addSeq", k>>)' <=> ToDo(<<"addSeq", k>>)
    <3>1. \A k : <<"change", k>> # Head(todo[t]) /\ <<"addSeq", k>> # Head(todo[t])
        BY <2>1
    <3> QED
        BY <1>11, <3>1
  <2>5. \A k \in Own : Complete(ackHistory[k])' <=> Complete(ackHistory[k])
      BY <1>2 DEF Complete
  <2>6. \A k \in Msg : /\ <<"final", k>> \in Facts' <=> <<"final", k>> \in Facts
                       /\ <<"applied", k>> \in Facts' <=> <<"applied", k>> \in Facts
      BY <1>9
  <2>7. \A k \in Own : k \in Msg
      BY OwnIsNotForeign
  <2> QED
      BY <1>7, <1>11, <2>3, <2>4, <2>5, <2>6, <2>7 DEF Underway
<1>13. Queues'
  <2>1. ASSUME NEW e \in deliveryQueue, e.status = DELIVERABLE
        PROVE  <<"proposed", e.msg>> \in Facts' /\ Proposals(e.msg)' = Proposals(e.msg)
    <3>1. <<"proposed", e.msg>> \in Facts
        BY <1>7, <2>1 DEF Queues
    <3>2. e.msg # m /\ e.msg \in Msg
        BY <1>5, <3>1, FactKinds DEF KindsOfFacts
    <3>3. e.msg \notin Own => alreadyAcked'[e.msg] = alreadyAcked[e.msg]
        BY <1>8, <3>2, OwnIsNotForeign
    <3> QED
        BY <1>2, <1>9, <3>1, <3>3 DEF Proposals
  <2> QED
      BY <1>2, <1>7, <2>1, QueuesStay
<1>14. KnownAbroad'
  <2>1. \A k \in Foreign : <<"proposed", k>> \in Facts' => <<"held", k>> \in Facts'
      BY <1>6, <1>7, <1>9 DEF KnownAbroad
  <2>2. Facts \subseteq Facts'
      BY <1>9
  <2>3. /\ \A x \in sent' : Known(x.msg) \subseteq Facts'
        /\ \A w \in Watchdogs : alarms'[w] > 0 => Known(w[2]) \subseteq Facts'
        /\ \A k \in Own, p \in Peers : ackHistory'[k][p] # 0 => <<"proposed", k>> \in Facts'
      BY <1>2, <1>7, <2>2 DEF KnownAbroad
  <2> QED
      BY <2>1, <2>3 DEF KnownAbroad, Known
<1>15. Types' /\ exited' = FALSE
    BY <1>2, <1>8 DEF Invariant, DataInv, Types, queues
<1> QED
    BY <1>11, <1>12, <1>13, <1>14, <1>15 DEF DataInv

\* The final number is entered in the history.
LEMMA AddSeqData ==
    ASSUME Invariant, LocksInv', NEW t \in Threads, AddSeq(t)
    PROVE  DataInv'
<1>1. PICK m : m = Arg(t)
    OBVIOUS
<1>2. /\ At(t, "addSeq") /\ Go(t, <<>>) /\ seqMessageHistory' = seqMessageHistory \cup {m}
      /\ UNCHANGED <<reg, alarms, curr_seq_number, ackHistory, alreadyAcked, queues, recordMessages,
                     recv_cap, sent, exited>>
    BY <1>1 DEF AddSeq, settings
<1>3. /\ todo[t] # <<>> /\ Head(todo[t]) \in Instruction /\ Head(todo[t])[1] = "addSeq"
      /\ Place(Head(todo[t]), t) /\ Requires(Head(todo[t])) \subseteq FactsOf(t)
      /\ Range(todo[t]) = {Head(todo[t])} \cup Range(Tail(todo[t]))
    BY <1>2, DataAt
<1>4. m \in Msg /\ t = Receiver
    BY <1>1, <1>3, Arguments DEF Arg, Place
<1>5. LocksInv /\ Lists /\ KnownAbroad /\ Underway /\ Queues /\ seqMessageHistory \subseteq Msg
    BY DEF Invariant, DataInv, Types
<1>6. Facts' = Facts \cup {<<"final", m>>}
  <2>1. \A k \in Msg : Proposed(k)' <=> Proposed(k)
      BY <1>2 DEF Proposed
  <2>2. \A k \in Msg : /\ Queued(k)' <=> Queued(k)
                       /\ Delivered(k)' <=> Delivered(k)
                       /\ Applied(k)' <=> Applied(k)
      BY <1>2 DEF queues, Queued, Delivered, Applied
  <2>3. PICK G : G = {<<"final", m>>}
      OBVIOUS
  <2>4. \A f \in G : f[1] \in {"held", "proposed", "final", "applied"} /\ f[2] \in Msg /\ f = <<f[1], f[2]>>
      BY <1>4, <2>3
  <2>5. \A k \in Msg : <<"held", k>> \notin G /\ <<"proposed", k>> \notin G /\ <<"applied", k>> \notin G
                       /\ (<<"final", k>> \in G <=> k = m)
      BY <2>3
  <2>6. \A k \in Msg : k \in seqMessageHistory' <=> k \in seqMessageHistory \/ <<"final", k>> \in G
      BY <1>2, <2>5
  <2> QED
      BY <2>1, <2>2, <2>3, <2>4, <2>5, <2>6, FactsNext
<1>7. Learns(t, Head(todo[t]))
  <2>1. /\ Establishes(Head(todo[t])) = {<<"final", m>>} /\ Destroys(Head(todo[t])) = {}
      BY <1>1, <1>3 DEF Establishes, Destroys, Arg
  <2>2. \A u \in Threads : Local(u)' = Local(u)
      BY <1>2 DEF queues, Local, Delivered
  <2> QED
      BY <1>6, <2>1, <2>2 DEF Learns, FactsOf
<1>8. /\ Lists'
      /\ \A i : i[1] # "unlock" /\ i # Head(todo[t]) => (ToDo(i)' <=> ToDo(i))
      /\ \A i : i[1] # "unlock" /\ ToDo(i)' => ToDo(i)
      /\ \A k \in Own : ToDo(<<"change", k>>)' /\ owner["ackHistory"] = Receiver =>
                           owner'["ackHistory"] = Receiver
    BY <1>2, <1>3, <1>4, <1>7, GoRest
<1>9. Underway'
  <2>1. Head(todo[t])[1] = "addSeq" /\ Head(todo[t])[2] = m
      BY <1>1, <1>3 DEF Arg
  <2>2. \A k : /\ ToDo(<<"push", k>>)' <=> ToDo(<<"push", k>>)
               /\ ToDo(<<"ack", k>>)' <=> ToDo(<<"ack", k>>)
               /\ ToDo(<<"change", k>>)' <=> ToDo(<<"change", k>>)
    <3>1. \A k : <<"change", k>> # Head(todo[t]) /\ <<"push", k>> # Head(todo[t]) /\ <<"ack", k>> # Head(todo[t])
        BY <2>1
    <3> QED
        BY <1>8, <3>1
  <2>3. \A k : k # m => (ToDo(<<"addSeq", k>>)' <=> ToDo(<<"addSeq", k>>))
    <3>1. \A k : k # m => <<"addSeq", k>> # Head(todo[t])
        BY <2>1
    <3> QED
        BY <1>8, <3>1
  <2>4. \A k : ToDo(<<"addSeq", k>>)' => ToDo(<<"addSeq", k>>)
      BY <1>8
  <2>5. \A k \in Own : Complete(ackHistory[k])' <=> Complete(ackHistory[k])
      BY <1>2 DEF Complete
  <2>6. \A k \in Foreign :
             /\ ToDo(<<"push", k>>)' => ToDo(<<"ack", k>>)'
             /\ <<"held", k>> \in Facts' => <<"proposed", k>> \in Facts' \/ ToDo(<<"ack", k>>)'
      BY <1>5, <1>6, <2>2 DEF Underway
  <2>7. \A k \in Own : Complete(ackHistory[k])' => <<"final", k>> \in Facts' \/ ToDo(<<"addSeq", k>>)'
      BY <1>5, <1>6, <2>3, <2>5 DEF Underway
  <2>8. <<"applied", m>> \in Facts \/ (m \in Own /\ ToDo(<<"change", m>>))
    <3>1. CASE m \in Own
      <4>1. ToDo(<<"addSeq", m>>)
        <5>1. Head(todo[t]) = <<"addSeq", m>>
            BY <1>3, <2>1 DEF Instruction
        <5> QED
            BY <1>3, <1>4, <5>1 DEF ToDo
      <4> QED
          BY <1>5, <3>1, <4>1 DEF Underway
    <3>2. CASE m \notin Own
      <4>1. <<"applied", m>> \in FactsOf(t)
          BY <1>3, <2>1, <3>2 DEF Requires
      <4> QED
          BY <4>1, FactsNotLocal
    <3> QED
        BY <3>1, <3>2
  <2>9. \A k \in Msg : <<"final", k>> \in Facts' =>
             <<"applied", k>> \in Facts' \/ (k \in Own /\ ToDo(<<"change", k>>)')
      BY <1>5, <1>6, <2>2, <2>8 DEF Underway
  <2>10. \A k \in Own :
             /\ ToDo(<<"addSeq", k>>)' => ToDo(<<"change", k>>)'
             /\ ToDo(<<"change", k>>)' => owner'["ackHistory"] = Receiver
      BY <1>5, <1>8, <2>2, <2>4 DEF Underway
  <2> QED
      BY <2>6, <2>7, <2>9, <2>10 DEF Underway
<1>10. Queues'
  <2>1. \A k : Proposals(k)' = Proposals(k)
      BY <1>2, SameProposals
  <2>2. \A e \in deliveryQueue : e.status = DELIVERABLE => <<"proposed", e.msg>> \in Facts'
      BY <1>5, <1>6 DEF Queues
  <2> QED
      BY <1>2, <1>5, <2>1, <2>2, QueuesStay
<1>11. KnownAbroad'
    BY <1>2, <1>5, <1>6, KnownAbroadStays
<1>12. Types' /\ exited' = FALSE
    BY <1>2, <1>4 DEF Invariant, DataInv, Types, queues
<1> QED
    BY <1>8, <1>9, <1>10, <1>11, <1>12 DEF DataInv


\* A message enters the delivery queue: it is not on this host yet.
LEMMA PushData ==
    ASSUME Invariant, LocksInv', NEW t \in Threads, Push(t)
    PROVE  DataInv'
<1>1. PICK m, x : m = Arg(t) /\ x = [msg |-> m, seq |-> reg[t], proposer |-> Me, status |-> UNDELIVERABLE]
    OBVIOUS
<1>2. /\ At(t, "push") /\ Go(t, <<>>) /\ deliveryQueue' = deliveryQueue \cup {x}
      /\ UNCHANGED <<reg, alarms, curr_seq_number, histories, deliveredMessage, recordMessages,
                     recv_cap, sent, exited>>
    BY <1>1 DEF Push, settings
<1>3. /\ todo[t] # <<>> /\ Head(todo[t]) \in Instruction /\ Head(todo[t])[1] = "push"
      /\ Place(Head(todo[t]), t) /\ Requires(Head(todo[t])) \subseteq FactsOf(t)
      /\ Makes(Head(todo[t])) \cap Facts = {}
      /\ Range(todo[t]) = {Head(todo[t])} \cup Range(Tail(todo[t]))
    BY <1>2, DataAt
<1>4. m \in Msg
    BY <1>1, <1>3, Arguments DEF Arg
<1>5. <<"held", m>> \notin Facts /\ ~ Queued(m) /\ ~ Delivered(m)
  <2>1. <<"held", m>> \notin Facts
      BY <1>1, <1>3 DEF Makes, Arg
  <2> QED
      BY <1>4, <2>1, FactKinds DEF KindsOfFacts
<1>6. reg[t] \in Nat /\ reg[t] # 0
  <2>1. <<"positive", None>> \in FactsOf(t)
      BY <1>3 DEF Requires
  <2>2. <<"positive", None>> \notin Facts
      BY FactKinds DEF KindsOfFacts
  <2>3. reg[t] > 0
      BY <2>1, <2>2, LocalKinds DEF KindsOfLocal, FactsOf
  <2> QED
      BY <2>3 DEF Invariant, DataInv, Types
<1>7. LocksInv /\ Lists /\ KnownAbroad /\ Underway /\ Queues /\ deliveryQueue \subseteq QueueEntry
    BY DEF Invariant, DataInv, Types
<1>8. /\ x \in QueueEntry /\ x.msg = m /\ x.status # DELIVERABLE
      /\ \A e \in deliveryQueue : e.msg # m
  <2>1. x.msg = m /\ x.status = UNDELIVERABLE
      BY <1>1
  <2>2. UNDELIVERABLE # DELIVERABLE
      BY DEF UNDELIVERABLE, DELIVERABLE
  <2>3. x \in QueueEntry
      BY <1>1, <1>4, <1>6, HostAssumption DEF QueueEntry
  <2>4. \A e \in deliveryQueue : e.msg # m
      BY <1>5 DEF Queued
  <2> QED
      BY <2>1, <2>2, <2>3, <2>4
<1>9. /\ \A k : Delivered(k)' <=> Delivered(k)
      /\ \A k : Queued(k)' <=> Queued(k) \/ k = m
      /\ \A k : Applied(k)' <=> Applied(k)
  <2>1. \A k : Delivered(k)' <=> Delivered(k)
      BY <1>2 DEF Delivered
  <2>2. \A k : Queued(k)' <=> Queued(k) \/ k = m
      BY <1>2, <1>8 DEF Queued
  <2>3. ASSUME NEW k PROVE Applied(k)' <=> Applied(k)
    <3>1. CASE k = m
      <4>1. ~ Applied(k)
          BY <1>5, <3>1 DEF Applied
      <4>2. ~ Applied(k)'
          BY <1>2, <1>8, <3>1 DEF Applied
      <4> QED
          BY <4>1, <4>2
    <3>2. CASE k # m
      <4>1. (\A e \in deliveryQueue' : e.msg = k => e.status = DELIVERABLE)
               <=> (\A e \in deliveryQueue : e.msg = k => e.status = DELIVERABLE)
          BY <1>2, <1>8, <3>2
      <4> QED
          BY <2>1, <2>2, <3>2, <4>1 DEF Applied
    <3> QED
        BY <3>1, <3>2
  <2> QED
      BY <2>1, <2>2, <2>3
<1>10. Facts' = Facts \cup {<<"held", m>>}
  <2>1. \A k \in Msg : Proposed(k)' <=> Proposed(k)
      BY <1>2 DEF Proposed, histories
  <2>2. \A k \in Msg : (Queued(k) \/ Delivered(k))' <=> Queued(k) \/ Delivered(k) \/ k = m
      BY <1>9
  <2>3. PICK G : G = {<<"held", m>>}
      OBVIOUS
  <2>4. \A f \in G : f[1] \in {"held", "proposed", "final", "applied"} /\ f[2] \in Msg /\ f = <<f[1], f[2]>>
      BY <1>4, <2>3
  <2>5. \A k \in Msg : <<"final", k>> \notin G /\ <<"proposed", k>> \notin G /\ <<"applied", k>> \notin G
                       /\ (<<"held", k>> \in G <=> k = m)
      BY <2>3
  <2>6. \A k \in Msg : k \in seqMessageHistory' <=> k \in seqMessageHistory
      BY <1>2 DEF histories
  <2> QED
      BY <1>9, <2>1, <2>2, <2>3, <2>4, <2>5, <2>6, FactsNext
<1>11. Learns(t, Head(todo[t]))
  <2>1. /\ Establishes(Head(todo[t])) = {<<"held", m>>} /\ Makes(Head(todo[t])) = {<<"held", m>>}
        /\ Destroys(Head(todo[t])) = {}
      BY <1>1, <1>3 DEF Establishes, Makes, Destroys, Arg
  <2>2. \A u \in Threads : Local(u)' = Local(u)
      BY <1>2, <1>9 DEF Local
  <2> QED
      BY <1>10, <2>1, <2>2 DEF Learns, FactsOf
<1>12. /\ Lists'
       /\ \A i : i[1] # "unlock" /\ (t = Receiver => i # Head(todo[t])) => (ToDo(i)' <=> ToDo(i))
       /\ \A i : i[1] # "unlock" /\ ToDo(i)' => ToDo(i)
       /\ \A k \in Own : ToDo(<<"change", k>>)' /\ owner["ackHistory"] = Receiver =>
                            owner'["ackHistory"] = Receiver
    BY <1>2, <1>3, <1>11, GoRest
<1>13. Underway'
  <2>1. \A k : /\ ToDo(<<"ack", k>>)' <=> ToDo(<<"ack", k>>)
               /\ ToDo(<<"change", k>>)' <=> ToDo(<<"change", k>>)
               /\ ToDo(<<"addSeq", k>>)' <=> ToDo(<<"addSeq", k>>)
    <3>1. \A k : /\ <<"change", k>> # Head(todo[t]) /\ <<"addSeq", k>> # Head(todo[t])
                 /\ <<"ack", k>> # Head(todo[t])
        BY <1>3
    <3> QED
        BY <1>12, <3>1
  <2>2. \A k : ToDo(<<"push", k>>)' => ToDo(<<"push", k>>)
      BY <1>12
  <2>3. m \in Foreign => ToDo(<<"ack", m>>)
    <3>1. SUFFICES ASSUME m \in Foreign PROVE ToDo(<<"ack", m>>)
        OBVIOUS
    <3>2. t = Receiver
        BY <1>1, <1>3, <3>1, OwnIsNotForeign DEF Place, Arg
    <3>3. Head(todo[t]) = <<"push", m>>
        BY <1>1, <1>3 DEF Instruction, Arg
    <3>4. ToDo(<<"push", m>>)
        BY <1>3, <3>2, <3>3 DEF ToDo
    <3> QED
        BY <1>7, <3>1, <3>4 DEF Underway
  <2>4. \A k \in Foreign :
             /\ ToDo(<<"push", k>>)' => ToDo(<<"ack", k>>)'
             /\ <<"held", k>> \in Facts' => <<"proposed", k>> \in Facts' \/ ToDo(<<"ack", k>>)'
      BY <1>7, <1>10, <2>1, <2>2, <2>3 DEF Underway
  <2>5. \A k \in Own : Complete(ackHistory[k])' <=> Complete(ackHistory[k])
      BY <1>2 DEF Complete, histories
  <2>6. \A k \in Msg : /\ <<"final", k>> \in Facts' <=> <<"final", k>> \in Facts
                       /\ <<"applied", k>> \in Facts' <=> <<"applied", k>> \in Facts
      BY <1>10
  <2>7. \A k \in Own : k \in Msg
      BY OwnIsNotForeign
  <2> QED
      BY <1>7, <1>12, <2>1, <2>4, <2>5, <2>6, <2>7 DEF Underway
<1>14. Queues'
  <2>1. \A d, e \in deliveryQueue' : d.msg = e.msg => d = e
      BY <1>2, <1>7, <1>8 DEF Queues
  <2>2. \A e \in deliveryQueue' : ~ Delivered(e.msg)'
      BY <1>2, <1>5, <1>7, <1>8, <1>9 DEF Queues
  <2>3. \A k : FinalSeq(k)' = FinalSeq(k) /\ FinalProposer(k)' = FinalProposer(k)
    <3>1. \A k : Proposals(k)' = Proposals(k)
        BY <1>2, SameProposals DEF histories
    <3> QED
        BY <3>1 DEF FinalSeq, FinalProposer, MaxSequence
  <2>4. \A e \in deliveryQueue' : e.status = DELIVERABLE =>
           /\ <<"proposed", e.msg>> \in Facts'
           /\ e.seq = FinalSeq(e.msg)' /\ e.proposer = FinalProposer(e.msg)'
      BY <1>2, <1>7, <1>8, <1>10, <2>3 DEF Queues
  <2> QED
      BY <2>1, <2>2, <2>4 DEF Queues
<1>15. KnownAbroad'
  <2>1. \A k \in Foreign : <<"proposed", k>> \in Facts' => <<"proposed", k>> \in Facts
      BY <1>10
  <2> QED
      BY <1>2, <1>7, <1>10, <2>1, KnownAbroadStays DEF histories
<1>16. Types' /\ exited' = FALSE
  <2>1. deliveryQueue' \subseteq QueueEntry
      BY <1>2, <1>7, <1>8
  <2> QED
      BY <1>2, <2>1 DEF Invariant, DataInv, Types, histories, QueueEntry
<1> QED
    BY <1>12, <1>13, <1>14, <1>15, <1>16 DEF DataInv

\* The front of the queue is delivered.
LEMMA DeliverFrontData ==
    ASSUME Invariant, LocksInv', NEW t \in Threads, DeliverFront(t)
    PROVE  DataInv'
<1>1. PICK x \in deliveryQueue :
         /\ x.status = DELIVERABLE /\ deliveryQueue' = deliveryQueue \ {x}
         /\ deliveredMessage' = Append(deliveredMessage, x)
    BY DEF DeliverFront, HeapFront
<1>2. /\ At(t, "deliver") /\ reg' = [reg EXCEPT ![t] = 1]
      /\ UNCHANGED <<todo, owner, alarms, curr_seq_number, histories, recordMessages, recv_cap, sent, exited>>
    BY DEF DeliverFront, settings
<1>3. /\ todo[t] # <<>> /\ Head(todo[t])[1] = "deliver"
      /\ \A j \in Range(Tail(todo[t])) : MayPrecede(Head(todo[t]), j)
      /\ Range(todo[t]) = {Head(todo[t])} \cup Range(Tail(todo[t]))
    BY <1>2, DataAt
<1>4. /\ LocksInv /\ Lists /\ KnownAbroad /\ Underway /\ Queues /\ deliveryQueue \subseteq QueueEntry
      /\ deliveredMessage \in Seq(QueueEntry) /\ reg \in [Threads -> Nat] /\ todo \in [Threads -> Seq(Instruction)]
    BY DEF Invariant, DataInv, Types, LocksInv
<1>5. /\ \A d \in deliveryQueue : d.msg = x.msg => d = x
      /\ ~ Delivered(x.msg) /\ x.msg \in Msg /\ x \in QueueEntry
    BY <1>1, <1>4 DEF Queues, QueueEntry
<1>6. \A k : Delivered(k)' <=> Delivered(k) \/ k = x.msg
  <2>1. /\ DOMAIN deliveredMessage' = 1 .. (Len(deliveredMessage) + 1) /\ Len(deliveredMessage) \in Nat
        /\ DOMAIN deliveredMessage = 1 .. Len(deliveredMessage)
        /\ deliveredMessage'[Len(deliveredMessage) + 1] = x
        /\ \A i \in 1 .. Len(deliveredMessage) : deliveredMessage'[i] = deliveredMessage[i]
      BY <1>1, <1>4, <1>5
  <2>2. ASSUME NEW k PROVE (\E i \in DOMAIN deliveredMessage' : deliveredMessage'[i].msg = k)
                              <=> (\E i \in DOMAIN deliveredMessage : deliveredMessage[i].msg = k) \/ k = x.msg
    <3>1. \A i \in DOMAIN deliveredMessage' : i \in DOMAIN deliveredMessage \/ i = Len(deliveredMessage) + 1
        BY <2>1
    <3>2. Len(deliveredMessage) + 1 \in DOMAIN deliveredMessage'
        BY <2>1
    <3>3. \A i \in DOMAIN deliveredMessage : i \in DOMAIN deliveredMessage' /\ deliveredMessage'[i] = deliveredMessage[i]
        BY <2>1
    <3> QED
        BY <2>1, <3>1, <3>2, <3>3
  <2> QED
      BY <2>2 DEF Delivered
<1>7. \A k : Queued(k)' <=> Queued(k) /\ k # x.msg
    BY <1>1, <1>5 DEF Queued
<1>8. \A k : Applied(k)' <=> Applied(k)
  <2>1. ASSUME NEW k PROVE Applied(k)' <=> Applied(k)
    <3>1. CASE k = x.msg
      <4>1. Applied(k)
          BY <1>1, <1>5, <3>1 DEF Applied, Queued
      <4>2. Applied(k)'
          BY <1>1, <1>5, <1>6, <3>1 DEF Applied
      <4> QED
          BY <4>1, <4>2
    <3>2. CASE k # x.msg
      <4>1. (\A e \in deliveryQueue' : e.msg = k => e.status = DELIVERABLE)
               <=> (\A e \in deliveryQueue : e.msg = k => e.status = DELIVERABLE)
          BY <1>1, <3>2
      <4> QED
          BY <1>6, <1>7, <3>2, <4>1 DEF Applied
    <3> QED
        BY <3>1, <3>2
  <2> QED
      BY <2>1
<1>9. Facts' = Facts
  <2>1. \A k \in Msg : Proposed(k)' <=> Proposed(k)
      BY <1>2 DEF Proposed, histories
  <2>2. \A k \in Msg : (Queued(k) \/ Delivered(k))' <=> Queued(k) \/ Delivered(k)
      BY <1>1, <1>6, <1>7 DEF Queued
  <2>3. \A k \in Msg : k \in seqMessageHistory' <=> k \in seqMessageHistory
      BY <1>2 DEF histories
  <2>4. PICK G : G = {}
      OBVIOUS
  <2>5. \A f : f \notin G
      BY <2>4
  <2>6. Facts' = Facts \cup G
      BY <1>8, <2>1, <2>2, <2>3, <2>5, FactsNext
  <2> QED
      BY <2>5, <2>6
<1>10. reg' \in [Threads -> Nat] /\ reg'[t] = 1 /\ \A u \in Threads : u # t => reg'[u] = reg[u]
    BY <1>2, <1>4
<1>11. /\ \A u \in Threads : u # t => FactsOf(u) \subseteq FactsOf(u)'
       /\ FactsOf(t) \ ({"checked"} \X Msg) \subseteq FactsOf(t)'
  <2>1. \A u \in Threads : u # t => Local(u) \subseteq Local(u)'
      BY <1>6, <1>10 DEF Local
  <2>2. Local(t) \ ({"checked"} \X Msg) \subseteq Local(t)'
    <3>1. <<"positive", None>> \in Local(t)'
        BY <1>10, LocalKinds DEF KindsOfLocal
    <3>2. \A f \in Local(t) : f = <<"positive", None>> \/ f \in {"checked"} \X Msg
        BY LocalKinds DEF KindsOfLocal
    <3> QED
        BY <3>1, <3>2
  <2> QED
      BY <1>9, <2>1, <2>2 DEF FactsOf
<1>12. Lists'
  <2>1. \A u \in Threads : /\ Sound(todo[u], u, FactsOf(u))
                           /\ \A i \in Range(todo[u]) : Makes(i) \cap Facts' = {}
      BY <1>4, <1>9 DEF Lists, Sound, Fresh
  <2>2. ASSUME NEW u \in Threads, u # t PROVE Sound(todo[u], u, FactsOf(u)')
    <3>1. Follows(todo[u], FactsOf(u)')
        BY <1>11, <2>1, <2>2, FollowsMore DEF Sound
    <3> QED
        BY <2>1, <3>1 DEF Sound
  <2>3. Sound(todo[t], t, FactsOf(t)')
    <3> DEFINE D == {"checked"} \X Msg
               N == FactsOf(t)'
    <3>1. \A i \in Range(todo[t]) : D \cap Requires(i) = {}
      <4>1. Requires(Head(todo[t])) = {} /\ Destroys(Head(todo[t])) = D
          BY <1>3 DEF Requires, Destroys
      <4> QED
          BY <1>3, <4>1 DEF MayPrecede
    <3>2. FactsOf(t) \ D \subseteq N
        BY <1>11
    <3> HIDE DEF D, N
    <3>3. Sound(todo[t], t, FactsOf(t)) /\ todo[t] \in Seq(Instruction)
        BY <1>4, <2>1
    <3>4. \A k \in 1 .. Len(todo[t]) : D \cap Requires(todo[t][k]) = {}
        BY <3>1, <3>3, RangeAt
    <3>5. Follows(todo[t], FactsOf(t) \ D)
        BY <3>3, <3>4, FollowsLess DEF Sound
    <3>6. Follows(todo[t], N)
        BY <3>2, <3>5, FollowsMore
    <3> QED
        BY <3>3, <3>6 DEF Sound, N
  <2>4. \A u \in Threads : Sound(todo[u], u, FactsOf(u)')
      BY <2>2, <2>3
  <2> QED
      BY <1>2, <2>1, <2>4, ListsNext
<1>13. Underway'
  <2>1. \A i : ToDo(i)' <=> ToDo(i)
      BY <1>2 DEF ToDo, Range
  <2>2. \A k \in Own : Complete(ackHistory[k])' => Complete(ackHistory[k])
      BY <1>2 DEF Complete, histories
  <2> QED
      BY <1>2, <1>4, <1>9, <2>1, <2>2, UnderwayStays
<1>14. Queues'
  <2>1. \A d, e \in deliveryQueue' : d.msg = e.msg => d = e
      BY <1>1, <1>4 DEF Queues
  <2>2. \A e \in deliveryQueue' : ~ Delivered(e.msg)'
      BY <1>1, <1>4, <1>5, <1>6 DEF Queues
  <2>3. \A k : FinalSeq(k)' = FinalSeq(k) /\ FinalProposer(k)' = FinalProposer(k)
    <3>1. \A k : Proposals(k)' = Proposals(k)
        BY <1>2, SameProposals DEF histories
    <3> QED
        BY <3>1 DEF FinalSeq, FinalProposer, MaxSequence
  <2>4. \A e \in deliveryQueue' : e.status = DELIVERABLE =>
           /\ <<"proposed", e.msg>> \in Facts'
           /\ e.seq = FinalSeq(e.msg)' /\ e.proposer = FinalProposer(e.msg)'
      BY <1>1, <1>4, <1>9, <2>3 DEF Queues
  <2> QED
      BY <2>1, <2>2, <2>4 DEF Queues
<1>15. KnownAbroad'
    BY <1>2, <1>4, <1>9, KnownAbroadStays DEF histories
<1>16. Types' /\ exited' = FALSE
  <2>1. deliveryQueue' \subseteq QueueEntry /\ deliveredMessage' \in Seq(QueueEntry)
      BY <1>1, <1>4, <1>5
  <2> QED
      BY <1>2, <1>10, <2>1 DEF Invariant, DataInv, Types, histories, QueueEntry
<1> QED
    BY <1>12, <1>13, <1>14, <1>15, <1>16 DEF DataInv


\* An ack is counted; the last one leads to the rest of handle_ackmsg.
LEMMA CollectData ==
    ASSUME Invariant, LocksInv', NEW t \in Threads, Collect(t)
    PROVE  DataInv'
<1>1. PICK m, p : m = Arg(t) /\ p = Head(todo[t])[3]
    OBVIOUS
<1>2. PICK s : s = IF Complete(ackHistory'[m]) THEN Finalize(m) ELSE <<>>
    OBVIOUS
<1>3. /\ At(t, "collect") /\ Go(t, s) /\ ackHistory' = [ackHistory EXCEPT ![m][p] = PeerProposal[p][m]]
      /\ UNCHANGED <<reg, alarms, curr_seq_number, alreadyAcked, seqMessageHistory, queues, recordMessages,
                     recv_cap, sent, exited>>
    BY <1>1, <1>2 DEF Collect, settings
<1>4. /\ todo[t] # <<>> /\ Head(todo[t]) \in Instruction /\ Head(todo[t])[1] = "collect"
      /\ t = Receiver /\ Requires(Head(todo[t])) \subseteq FactsOf(t)
      /\ \A j \in Range(Tail(todo[t])) : j[1] = "unlock"
      /\ Range(todo[t]) = {Head(todo[t])} \cup Range(Tail(todo[t]))
      /\ Tail(todo[t]) \in Seq(Instruction)
    BY <1>3, DataAt DEF Place, Calls
<1>5. m \in Own /\ m \in Msg /\ p \in Peers /\ Known(m) \subseteq FactsOf(t)
    BY <1>1, <1>4, Arguments, OwnIsNotForeign DEF Arg, Requires
<1>6. /\ ackHistory \in [Own -> [Host -> Nat]] /\ p \in Host /\ p # Me /\ PeerProposal[p][m] \in Nat \ {0}
      /\ LocksInv /\ Lists /\ KnownAbroad /\ Underway /\ Queues
    BY <1>5, MessageAssumption DEF Invariant, DataInv, Types, Peers
<1>7. /\ ackHistory' \in [Own -> [Host -> Nat]]
      /\ \A k \in Own, h \in Host : k # m \/ h # p => ackHistory'[k][h] = ackHistory[k][h]
    BY <1>3, <1>5, <1>6
<1>8. \A k \in Own : ackHistory'[k][Me] = ackHistory[k][Me]
    BY <1>6, <1>7, HostAssumption
<1>9. /\ Facts' = Facts
      /\ \A u \in Threads : Local(u)' = Local(u) /\ FactsOf(u)' = FactsOf(u)
  <2>1. \A k \in Msg : Proposed(k)' <=> Proposed(k)
      BY <1>3, <1>8 DEF Proposed
  <2>2. \A k \in Msg : /\ Queued(k)' <=> Queued(k)
                       /\ Delivered(k)' <=> Delivered(k)
                       /\ Applied(k)' <=> Applied(k)
      BY <1>3 DEF queues, Queued, Delivered, Applied
  <2>3. \A u \in Threads : Local(u)' = Local(u)
      BY <1>3 DEF queues, Local, Delivered
  <2>4. PICK G : G = {}
      OBVIOUS
  <2>5. \A f : f \notin G
      BY <2>4
  <2>6. Facts' = Facts \cup G
      BY <1>3, <2>1, <2>2, <2>5, FactsNext
  <2>7. Facts' = Facts
      BY <2>5, <2>6
  <2> QED
      BY <2>3, <2>7 DEF FactsOf
<1>10. Known(m) \subseteq Facts
    BY <1>5, KnownFacts
<1>11. /\ Sound(s, t, FactsOf(t))
       /\ Complete(ackHistory'[m]) => <<"addSeq", m>> \in Range(s) /\ <<"change", m>> \in Range(s)
       /\ \A i \in Range(s) : \/ i \in {<<"addSeq", m>>, <<"change", m>>}
                              \/ i[1] \in {"lock", "unlock", "broadcast", "deliver", "printDelivered"}
  <2>1. CASE Complete(ackHistory'[m])
    <3>1. s = Finalize(m)
        BY <1>2, <2>1
    <3>2. /\ Sound(Finalize(m), Receiver, FactsOf(t))
          /\ <<"addSeq", m>> \in Range(Finalize(m)) /\ <<"change", m>> \in Range(Finalize(m))
          /\ \A i \in Range(Finalize(m)) :
               \/ i \in {<<"addSeq", m>>, <<"change", m>>}
               \/ i[1] \in {"lock", "unlock", "broadcast", "deliver", "printDelivered"}
        BY <1>5, SoundFinalize
    <3> QED
        BY <1>4, <3>1, <3>2
  <2>2. CASE ~ Complete(ackHistory'[m])
    <3>1. s = <<>>
        BY <1>2, <2>2
    <3> QED
        BY <2>2, <3>1, ListOfNone DEF Sound
  <2> QED
      BY <2>1, <2>2
<1>12. s \in Seq(Instruction) /\ Precedes(s, Tail(todo[t]))
    BY <1>4, <1>11, UnlockFollows DEF Sound, Precedes
<1>13. \A i \in Range(s) : Makes(i) = {}
    BY <1>11 DEF Makes
<1>14. Learns(t, Head(todo[t]))
  <2>1. Establishes(Head(todo[t])) = {}
      BY <1>4 DEF Establishes
  <2> QED
      BY <1>9, <2>1 DEF Learns
<1>15. Lists'
  <2>1. Sound(s, t, FactsOf(t)') /\ \A i \in Range(s) : Makes(i) \cap Facts' = {}
      BY <1>9, <1>11, <1>13
  <2> QED
      BY <1>3, <1>4, <1>6, <1>12, <1>14, <2>1, GoLists
<1>16. \A i : i[1] # "unlock" => (ToDo(i)' <=> i \in Range(s))
  <2>1. \A i : i[1] # "unlock" => (ToDo(i)' <=> i \in Range(s) \/ i \in Range(Tail(todo[t])))
      BY <1>3, <1>4, <1>6, <1>12, GoToDo
  <2> QED
      BY <1>4, <2>1
<1>17. \A i : ToDo(i) => i[1] \in {"collect", "unlock"}
    BY <1>4 DEF ToDo
<1>18. ASSUME NEW k \in Own, ToDo(<<"change", k>>)' PROVE owner'["ackHistory"] = Receiver
  <2> DEFINE F == FactsOf(t)
             E == FactsOf(t) \cup Establishes(Head(todo[t]))
             r == Tail(todo[t])
  <2>1. Sound(todo[t], t, F)
      BY <1>6 DEF Lists, LocksInv, Sound
  <2>2. Sound(r, t, E) /\ Establishes(Head(todo[t])) = {}
      BY <1>4, <2>1, SoundFirst DEF Establishes
  <2>3. E = F
      BY <2>2
  <2>4. Sound(s, t, F) /\ Precedes(s, r)
      BY <1>11, <1>12
  <2> HIDE DEF E, F, r
  <2>5. Sound(s \o r, t, F)
      BY <2>2, <2>3, <2>4, SoundBoth
  <2>6. Sound(s \o Tail(todo[t]), t, F)
      BY <2>5 DEF r
  <2>7. owner["ackHistory"] = Receiver
    <3>1. Needs(Head(todo[t])) \subseteq Holding(t)
        BY <1>3, <1>6, Standing
    <3>2. "ackHistory" \in Needs(Head(todo[t]))
        BY <1>4 DEF Needs, Touches
    <3> QED
        BY <1>4, <3>1, <3>2 DEF Holding
  <2> QED
      BY <1>3, <1>4, <1>6, <1>12, <1>18, <2>6, <2>7, GoOwner
<1>19. Underway'
  <2>1. /\ \A k \in Foreign : <<"held", k>> \in Facts => <<"proposed", k>> \in Facts
        /\ \A k \in Own : Complete(ackHistory[k]) => <<"final", k>> \in Facts
        /\ \A k \in Msg : <<"final", k>> \in Facts => <<"applied", k>> \in Facts
    <3>1. \A k : ~ ToDo(<<"ack", k>>) /\ ~ ToDo(<<"addSeq", k>>) /\ ~ ToDo(<<"change", k>>)
        BY <1>17
    <3> QED
        BY <1>6, <3>1 DEF Underway
  <2>2. \A k : /\ ~ ToDo(<<"push", k>>)'
               /\ ToDo(<<"addSeq", k>>)' <=> <<"addSeq", k>> \in Range(s)
               /\ ToDo(<<"change", k>>)' <=> <<"change", k>> \in Range(s)
      BY <1>11, <1>16
  <2>3. \A k : <<"addSeq", k>> \in Range(s) => <<"change", k>> \in Range(s)
    <3>1. CASE Complete(ackHistory'[m])
        BY <1>11, <3>1
    <3>2. CASE ~ Complete(ackHistory'[m])
      <4>1. s = <<>>
          BY <1>2, <3>2
      <4> QED
          BY <4>1, ListOfNone
    <3> QED
        BY <3>1, <3>2
  <2>4. \A k \in Own : Complete(ackHistory[k])' => <<"final", k>> \in Facts \/ <<"addSeq", k>> \in Range(s)
    <3>1. \A k \in Own : Complete(ackHistory[k])' <=> Complete(ackHistory'[k])
        BY DEF Complete
    <3>2. \A k \in Own : k # m => (Complete(ackHistory'[k]) <=> Complete(ackHistory[k]))
        BY <1>7 DEF Complete
    <3> QED
        BY <1>11, <2>1, <3>1, <3>2
  <2> QED
      BY <1>9, <1>18, <2>1, <2>2, <2>3, <2>4 DEF Underway
<1>20. Queues'
  <2>1. \A k : Proposals(k)' = Proposals(k)
      BY <1>3, <1>8 DEF Proposals
  <2> QED
      BY <1>3, <1>6, <1>9, <2>1, QueuesStay DEF Queues
<1>21. KnownAbroad'
  <2>1. <<"proposed", m>> \in Facts
      BY <1>10 DEF Known
  <2>2. \A k \in Own, q \in Peers : ackHistory'[k][q] # 0 => <<"proposed", k>> \in Facts
    <3>1. \A q \in Peers : q \in Host
        BY DEF Peers
    <3> QED
        BY <1>6, <1>7, <2>1, <3>1 DEF KnownAbroad
  <2> QED
      BY <1>3, <1>6, <1>9, <2>2 DEF KnownAbroad, Known
<1>22. Types' /\ exited' = FALSE
    BY <1>3, <1>7 DEF Invariant, DataInv, Types, queues
<1> QED
    BY <1>15, <1>19, <1>20, <1>21, <1>22 DEF DataInv

\* Of the hosts, one proposed the highest number, and has the least id of those.
LEMMA MaxSequenceIsMax ==
    ASSUME NEW pm \in [Host -> Nat]
    PROVE  /\ MaxSequence(pm) \in Host
           /\ \A q \in Host : pm[q] =< pm[MaxSequence(pm)]
           /\ \A q \in Host : pm[q] = pm[MaxSequence(pm)] => MaxSequence(pm) =< q
<1> DEFINE Beats(h, q) == pm[q] =< pm[h] /\ (pm[q] = pm[h] => h =< q)
           n == Len(hostNames)
           Has(k) == \E j \in 1 .. k : \A i \in 1 .. k : Beats(hostNames[j], hostNames[i])
           T == {k \in 1 .. n : ~ Has(k)}
<1>1. /\ n \in Nat \ {0} /\ \A i \in 1 .. n : hostNames[i] \in Host /\ hostNames[i] \in Nat
      /\ \A h \in Host : \E i \in 1 .. n : h = hostNames[i]
    BY HostAssumption DEF Host, Range
<1>2. \A h \in Host : h \in Nat /\ pm[h] \in Nat
    BY <1>1
<1>3. \A h, q, r \in Host : /\ Beats(h, h)
                            /\ Beats(h, q) \/ Beats(q, h)
                            /\ Beats(h, q) /\ Beats(q, r) => Beats(h, r)
    BY <1>2
<1>4. T = {}
  <2>1. SUFFICES ASSUME T # {} PROVE FALSE
      OBVIOUS
  <2>2. T \in SUBSET Nat
      BY <1>1
  <2> HIDE DEF Beats
  <2>3. PICK k \in T : \A j \in T : k =< j
    <3> HIDE DEF T
    <3> QED
        BY <2>1, <2>2, Least
  <2>4. k \in 1 .. n /\ ~ Has(k)
      OBVIOUS
  <2>5. CASE k = 1
    <3>1. hostNames[1] \in Host /\ 1 .. k = {1}
        BY <1>1, <2>4, <2>5
    <3>2. Beats(hostNames[1], hostNames[1])
        BY <1>3, <3>1
    <3> QED
        BY <2>4, <3>1, <3>2
  <2>6. CASE k # 1
    <3>1. k - 1 \in 1 .. n /\ k - 1 < k
        BY <1>1, <2>4, <2>6
    <3>2. Has(k - 1)
      <4> HIDE DEF Has, n
      <4>1. k - 1 \in Nat /\ k \in Nat /\ ~ (k =< k - 1)
          BY <2>4, <3>1
      <4>2. k - 1 \notin T
          BY <2>3, <4>1
      <4> QED
          BY <3>1, <4>2
    <3>3. PICK j \in 1 .. (k - 1) : \A i \in 1 .. (k - 1) : Beats(hostNames[j], hostNames[i])
        BY <3>2
    <3>4. /\ hostNames[j] \in Host /\ hostNames[k] \in Host /\ j \in 1 .. k /\ k \in 1 .. k
          /\ \A i \in 1 .. k : hostNames[i] \in Host /\ (i \in 1 .. (k - 1) \/ i = k)
      <4> HIDE DEF n
      <4>1. k \in Nat /\ 1 =< k /\ k =< n /\ n \in Nat
          BY <1>1, <2>4
      <4>2. j \in 1 .. k /\ j \in 1 .. n /\ k \in 1 .. k
          BY <4>1
      <4>3. \A i \in 1 .. k : i \in 1 .. n /\ (i \in 1 .. (k - 1) \/ i = k)
          BY <4>1
      <4> QED
          BY <1>1, <2>4, <4>2, <4>3
    <3>5. CASE Beats(hostNames[j], hostNames[k])
      <4>1. \A i \in 1 .. k : Beats(hostNames[j], hostNames[i])
          BY <3>3, <3>4, <3>5
      <4> QED
          BY <2>4, <3>4, <4>1
    <3>6. CASE Beats(hostNames[k], hostNames[j])
      <4>1. \A i \in 1 .. k : Beats(hostNames[k], hostNames[i])
          BY <1>3, <3>3, <3>4, <3>6
      <4> QED
          BY <2>4, <3>4, <4>1
    <3> QED
        BY <1>3, <3>4, <3>5, <3>6
  <2> QED
      BY <2>5, <2>6
<1>5. PICK h \in Host : \A q \in Host : Beats(h, q)
  <2> HIDE DEF Beats
  <2>1. n \in 1 .. n
      BY <1>1
  <2>2. Has(n)
      BY <1>4, <2>1
  <2>3. PICK j \in 1 .. n : \A i \in 1 .. n : Beats(hostNames[j], hostNames[i])
      BY <2>2
  <2>4. \A q \in Host : Beats(hostNames[j], q)
      BY <1>1, <2>3
  <2> QED
      BY <1>1, <2>4
<1>6. \E x \in Host : /\ \A q \in Host : pm[q] =< pm[x]
                      /\ \A q \in Host : pm[q] = pm[x] => x =< q
    BY <1>5
<1> QED
    BY <1>6 DEF MaxSequence


\* The final number of a message this host has proposed for.
LEMMA FinalTypes ==
    ASSUME DataInv, NEW m \in Msg, Proposed(m)
    PROVE  /\ Proposals(m) \in [Host -> Nat \ {0}]
           /\ FinalSeq(m) \in Nat \ {0} /\ FinalProposer(m) \in Host
           /\ \A q \in Host : Proposals(m)[q] =< FinalSeq(m)
<1>1. /\ ackHistory \in [Own -> [Host -> Nat]] /\ alreadyAcked \in [Foreign -> Nat]
      /\ Me \in Host /\ PeerProposal \in [Peers -> [Msg -> Nat \ {0}]]
    BY HostAssumption, MessageAssumption DEF DataInv, Types
<1>2. \A h \in Host : h # Me => PeerProposal[h][m] \in Nat \ {0}
    BY <1>1 DEF Peers
<1>3. IF m \in Own THEN ackHistory[m][Me] \in Nat \ {0} ELSE alreadyAcked[m] \in Nat \ {0}
    BY <1>1, OwnIsNotForeign DEF Proposed
<1>4. Proposals(m) \in [Host -> Nat \ {0}]
    BY <1>2, <1>3 DEF Proposals
<1>5. Proposals(m) \in [Host -> Nat]
    BY <1>4
<1> QED
    BY <1>4, <1>5, MaxSequenceIsMax DEF FinalSeq, FinalProposer

\* The final number of a message is entered in the queue.
LEMMA ChangeData ==
    ASSUME Invariant, LocksInv', NEW t \in Threads, Change(t)
    PROVE  DataInv'
<1>1. PICK m, x : m = Arg(t) /\ x = [msg |-> m, seq |-> FinalSeq(m), proposer |-> FinalProposer(m),
                                     status |-> DELIVERABLE]
    OBVIOUS
<1>2. /\ At(t, "change") /\ Go(t, <<>>)
      /\ deliveryQueue' = {IF e.msg = m THEN x ELSE e : e \in deliveryQueue}
      /\ reg' = [reg EXCEPT ![t] = IF Queued(m) THEN 0 ELSE 1]
      /\ UNCHANGED <<alarms, curr_seq_number, histories, deliveredMessage, recordMessages,
                     recv_cap, sent, exited>>
    BY <1>1 DEF Change, settings
<1>3. /\ todo[t] # <<>> /\ Head(todo[t]) \in Instruction /\ Head(todo[t])[1] = "change"
      /\ Place(Head(todo[t]), t) /\ Requires(Head(todo[t])) \subseteq FactsOf(t)
      /\ \A j \in Range(Tail(todo[t])) : MayPrecede(Head(todo[t]), j)
    BY <1>2, DataAt
<1>4. m \in Msg /\ t = Receiver /\ Known(m) \subseteq Facts
  <2>1. Known(m) \subseteq FactsOf(t)
      BY <1>1, <1>3 DEF Requires, Arg
  <2> QED
      BY <1>1, <1>3, <2>1, Arguments, KnownFacts DEF Arg, Place
<1>5. (Queued(m) \/ Delivered(m)) /\ Proposed(m) /\ <<"proposed", m>> \in Facts
    BY <1>4, FactKinds DEF Known, KindsOfFacts
<1>6. /\ LocksInv /\ Lists /\ KnownAbroad /\ Underway /\ Queues /\ deliveryQueue \subseteq QueueEntry
      /\ reg \in [Threads -> Nat] /\ DataInv
    BY DEF Invariant, DataInv, Types
<1>7. x \in QueueEntry /\ x.msg = m /\ x.status = DELIVERABLE
      /\ x.seq = FinalSeq(m) /\ x.proposer = FinalProposer(m)
  <2>1. FinalSeq(m) \in Nat \ {0} /\ FinalProposer(m) \in Host
      BY <1>4, <1>5, <1>6, FinalTypes
  <2> QED
      BY <1>1, <1>4, <2>1 DEF QueueEntry
<1>8. /\ \A e \in deliveryQueue' : (e = x /\ Queued(m)) \/ (e \in deliveryQueue /\ e.msg # m)
      /\ \A e \in deliveryQueue : e.msg # m => e \in deliveryQueue'
      /\ Queued(m) => x \in deliveryQueue'
    BY <1>2 DEF Queued
<1>9. /\ \A k : Delivered(k)' <=> Delivered(k)
      /\ \A k : Queued(k)' <=> Queued(k)
      /\ \A k : Applied(k)' <=> Applied(k) \/ k = m
  <2>1. \A k : Delivered(k)' <=> Delivered(k)
      BY <1>2 DEF Delivered
  <2>2. \A k : Queued(k)' <=> Queued(k)
      BY <1>7, <1>8 DEF Queued
  <2>3. ASSUME NEW k PROVE Applied(k)' <=> Applied(k) \/ k = m
    <3>1. CASE k = m
      <4>1. \A e \in deliveryQueue' : e.msg = m => e.status = DELIVERABLE
          BY <1>7, <1>8
      <4> QED
          BY <1>5, <2>1, <2>2, <3>1, <4>1 DEF Applied
    <3>2. CASE k # m
      <4>1. (\A e \in deliveryQueue' : e.msg = k => e.status = DELIVERABLE)
               <=> (\A e \in deliveryQueue : e.msg = k => e.status = DELIVERABLE)
          BY <1>7, <1>8, <3>2
      <4> QED
          BY <2>1, <2>2, <3>2, <4>1 DEF Applied
    <3> QED
        BY <3>1, <3>2
  <2> QED
      BY <2>1, <2>2, <2>3
<1>10. Facts' = Facts \cup {<<"applied", m>>}
  <2>1. \A k \in Msg : Proposed(k)' <=> Proposed(k)
      BY <1>2 DEF Proposed, histories
  <2>2. \A k \in Msg : (Queued(k) \/ Delivered(k))' <=> Queued(k) \/ Delivered(k)
      BY <1>9
  <2>3. PICK G : G = {<<"applied", m>>}
      OBVIOUS
  <2>4. \A f \in G : f[1] \in {"held", "proposed", "final", "applied"} /\ f[2] \in Msg /\ f = <<f[1], f[2]>>
      BY <1>4, <2>3
  <2>5. \A k \in Msg : <<"final", k>> \notin G /\ <<"proposed", k>> \notin G /\ <<"held", k>> \notin G
                       /\ (<<"applied", k>> \in G <=> k = m)
      BY <2>3
  <2>6. \A k \in Msg : k \in seqMessageHistory' <=> k \in seqMessageHistory
      BY <1>2 DEF histories
  <2> QED
      BY <1>9, <2>1, <2>2, <2>3, <2>4, <2>5, <2>6, FactsNext
<1>11. /\ reg' \in [Threads -> Nat] /\ \A u \in Threads : u # t => reg'[u] = reg[u]
       /\ reg'[t] = 1 => ~ Queued(m)
    BY <1>2, <1>6
<1>12. Learns(t, Head(todo[t]))
  <2>1. /\ Establishes(Head(todo[t])) = {<<"checked", m>>, <<"applied", m>>}
        /\ Destroys(Head(todo[t])) = ({"checked"} \X (Msg \ {m})) \cup {<<"positive", None>>}
      BY <1>1, <1>3 DEF Establishes, Destroys, Arg
  <2>2. \A u \in Threads \ {t} : Local(u)' = Local(u)
      BY <1>9, <1>11 DEF Local
  <2>3. <<"checked", m>> \in Local(t)'
      BY <1>4, <1>5, <1>9, <1>11, LocalKinds DEF KindsOfLocal
  <2>4. \A f \in Local(t) : f \in {"checked"} \X (Msg \ {m}) \/ f = <<"positive", None>> \/ f = <<"checked", m>>
    <3>1. \A f \in Local(t) : f = <<"positive", None>> \/ \E k \in Msg : f = <<"checked", k>>
        BY LocalKinds DEF KindsOfLocal
    <3> QED
        BY <3>1
  <2>5. (FactsOf(t) \cup Establishes(Head(todo[t]))) \ Destroys(Head(todo[t])) \subseteq FactsOf(t)'
      BY <1>10, <2>1, <2>3, <2>4 DEF FactsOf
  <2> QED
      BY <1>10, <2>2, <2>5 DEF Learns
<1>13. /\ Lists'
       /\ \A i : i[1] # "unlock" /\ i # Head(todo[t]) => (ToDo(i)' <=> ToDo(i))
       /\ \A i : i[1] # "unlock" /\ ToDo(i)' => ToDo(i)
       /\ \A i : i[1] # "unlock" /\ ToDo(i)' => i \in Range(Tail(todo[t]))
       /\ \A k \in Own : ToDo(<<"change", k>>)' /\ owner["ackHistory"] = Receiver =>
                            owner'["ackHistory"] = Receiver
    BY <1>2, <1>3, <1>4, <1>12, GoRest
<1>14. Underway'
  <2>1. Head(todo[t])[1] = "change" /\ Head(todo[t])[2] = m
      BY <1>1, <1>3 DEF Arg
  <2>2. \A k : /\ ToDo(<<"push", k>>)' <=> ToDo(<<"push", k>>)
               /\ ToDo(<<"ack", k>>)' <=> ToDo(<<"ack", k>>)
               /\ ToDo(<<"addSeq", k>>)' <=> ToDo(<<"addSeq", k>>)
    <3>1. \A k : <<"addSeq", k>> # Head(todo[t]) /\ <<"push", k>> # Head(todo[t]) /\ <<"ack", k>> # Head(todo[t])
        BY <2>1
    <3> QED
        BY <1>13, <3>1
  <2>3. \A k : k # m => (ToDo(<<"change", k>>)' <=> ToDo(<<"change", k>>))
    <3>1. \A k : k # m => <<"change", k>> # Head(todo[t])
        BY <2>1
    <3> QED
        BY <1>13, <3>1
  <2>4. \A k : ToDo(<<"change", k>>)' => ToDo(<<"change", k>>)
      BY <1>13
  <2>5. \A k \in Own : ~ ToDo(<<"addSeq", k>>)'
    <3>1. ASSUME NEW k \in Own, ToDo(<<"addSeq", k>>)' PROVE FALSE
      <4>1. <<"addSeq", k>> \in Range(Tail(todo[t]))
          BY <1>13, <3>1
      <4>2. MayPrecede(Head(todo[t]), <<"addSeq", k>>)
          BY <1>3, <4>1
      <4> QED
          BY <2>1, <3>1, <4>2 DEF MayPrecede
    <3> QED
        BY <3>1
  <2>6. \A k \in Foreign :
             /\ ToDo(<<"push", k>>)' => ToDo(<<"ack", k>>)'
             /\ <<"held", k>> \in Facts' => <<"proposed", k>> \in Facts' \/ ToDo(<<"ack", k>>)'
      BY <1>6, <1>10, <2>2 DEF Underway
  <2>7. \A k \in Own : Complete(ackHistory[k])' => <<"final", k>> \in Facts' \/ ToDo(<<"addSeq", k>>)'
    <3>1. \A k \in Own : Complete(ackHistory[k])' <=> Complete(ackHistory[k])
        BY <1>2 DEF Complete, histories
    <3> QED
        BY <1>6, <1>10, <2>2, <3>1 DEF Underway
  <2>8. \A k \in Msg : <<"final", k>> \in Facts' =>
             <<"applied", k>> \in Facts' \/ (k \in Own /\ ToDo(<<"change", k>>)')
      BY <1>6, <1>10, <2>3 DEF Underway
  <2>9. \A k \in Own : ToDo(<<"change", k>>)' => owner'["ackHistory"] = Receiver
      BY <1>6, <1>13, <2>4 DEF Underway
  <2> QED
      BY <2>5, <2>6, <2>7, <2>8, <2>9 DEF Underway
<1>15. Queues'
  <2>1. \A d, e \in deliveryQueue' : d.msg = e.msg => d = e
      BY <1>6, <1>7, <1>8 DEF Queues
  <2>2. \A e \in deliveryQueue' : ~ Delivered(e.msg)'
    <3>1. Queued(m) => ~ Delivered(m)
        BY <1>6 DEF Queues, Queued
    <3> QED
        BY <1>6, <1>7, <1>8, <1>9, <3>1 DEF Queues
  <2>3. \A k : FinalSeq(k)' = FinalSeq(k) /\ FinalProposer(k)' = FinalProposer(k)
    <3>1. \A k : Proposals(k)' = Proposals(k)
        BY <1>2, SameProposals DEF histories
    <3> QED
        BY <3>1 DEF FinalSeq, FinalProposer, MaxSequence
  <2>4. \A e \in deliveryQueue' : e.status = DELIVERABLE =>
           /\ <<"proposed", e.msg>> \in Facts'
           /\ e.seq = FinalSeq(e.msg)' /\ e.proposer = FinalProposer(e.msg)'
      BY <1>5, <1>6, <1>7, <1>8, <1>10, <2>3 DEF Queues
  <2> QED
      BY <2>1, <2>2, <2>4 DEF Queues
<1>16. KnownAbroad'
  <2>1. \A k \in Foreign : <<"proposed", k>> \in Facts' => <<"proposed", k>> \in Facts
      BY <1>10
  <2> QED
      BY <1>2, <1>6, <1>10, <2>1, KnownAbroadStays DEF histories
<1>17. Types' /\ exited' = FALSE
  <2>1. deliveryQueue' \subseteq QueueEntry
      BY <1>6, <1>7, <1>8
  <2> QED
      BY <1>2, <1>11, <2>1 DEF Invariant, DataInv, Types, histories, QueueEntry
<1> QED
    BY <1>13, <1>14, <1>15, <1>16, <1>17 DEF DataInv


-----------------------------------------------------------------------------
(***************************************************************************)
(* The theorems.                                                           *)
(***************************************************************************)
LEMMA InitData ==
    ASSUME Init, LocksInv PROVE DataInv
<1>1. /\ deliveryQueue = {} /\ deliveredMessage = <<>> /\ seqMessageHistory = {}
      /\ ackHistory = [m \in Own |-> [h \in Host |-> 0]] /\ alreadyAcked = [m \in Foreign |-> 0]
      /\ reg = [t \in Threads |-> 0] /\ alarms = [w \in Watchdogs |-> 0] /\ sent = {} /\ exited = FALSE
      /\ todo = [t \in Threads |-> IF t = Main THEN Multicasts(0) ELSE <<>>]
      /\ curr_seq_number = 1 /\ recordMessages = FALSE /\ recv_cap = 1
    BY DEF Init
<1>2. Me \in Host /\ Peers # {} /\ NumMsgToSend \in Nat /\ \A p \in Peers : p \in Host
    BY HostAssumption, MessageAssumption DEF Peers
<1>3. \A m : ~ Queued(m) /\ ~ Delivered(m)
    BY <1>1 DEF Queued, Delivered
<1>4. \A f : f \notin Facts
  <2>1. \A m \in Msg : ~ Proposed(m)
      BY <1>1, <1>2, OwnIsNotForeign DEF Proposed
  <2>2. \A m \in Msg : ~ Applied(m) /\ m \notin seqMessageHistory
      BY <1>1, <1>3 DEF Applied
  <2>3. \A m \in Msg, k \in {"held", "proposed", "final", "applied"} : <<k, m>> \notin Facts
      BY <1>3, <2>1, <2>2, FactKinds DEF KindsOfFacts
  <2>4. \A f \in Facts : f[1] \in {"held", "proposed", "final", "applied"} /\ f[2] \in Msg /\ f = <<f[1], f[2]>>
      BY FactKinds DEF KindsOfFacts
  <2> QED
      BY <2>3, <2>4
<1>5. Types
  <2>1. reg \in [Threads -> Nat] /\ alarms \in [Watchdogs -> 0 .. WATCHDOG_RESEND_CAP]
      BY <1>1, CapAssumption
  <2>2. ackHistory \in [Own -> [Host -> Nat]] /\ alreadyAcked \in [Foreign -> Nat]
      BY <1>1
  <2>3. curr_seq_number \in Nat \ {0} /\ recv_cap \in 1 .. RECV_CAP
      BY <1>1, CapAssumption
  <2>5. recordMessages \in BOOLEAN
      BY <1>1
  <2>4. seqMessageHistory \subseteq Msg /\ deliveryQueue \subseteq QueueEntry /\ deliveredMessage \in Seq(QueueEntry)
      BY <1>1
  <2> QED
      BY <2>1, <2>2, <2>3, <2>4, <2>5 DEF Types
<1>6. \A t \in Threads : t # Main => todo[t] = <<>>
    BY <1>1
<1>7. todo[Main] = Multicasts(0)
    BY <1>1 DEF Threads
<1>8. Sound(todo[Main], Main, FactsOf(Main))
  <2>1. CASE 0 < NumMsgToSend
    <3> DEFINE i == <<"multicast", <<Me, 0>> >>
    <3>1. i \in Instruction /\ Place(i, Main) /\ Requires(i) = {}
      <4>1. <<Me, 0>> \in Own
          BY <1>2, <2>1 DEF Own
      <4> QED
          BY <4>1 DEF Instruction, Place, Requires
    <3>2. todo[Main] = <<i>>
        BY <1>7, <2>1 DEF Multicasts
    <3> HIDE DEF i
    <3> QED
        BY <3>1, <3>2, SoundOne
  <2>2. CASE ~ (0 < NumMsgToSend)
    <3>1. todo[Main] = <<>>
        BY <1>7, <2>2 DEF Multicasts
    <3> QED
        BY <3>1, ListOfNone DEF Sound
  <2> QED
      BY <2>1, <2>2
<1>9. Lists
  <2>1. \A t \in Threads : Sound(todo[t], t, FactsOf(t))
      BY <1>6, <1>8, ListOfNone DEF Sound
  <2>2. \A t \in Threads : Fresh(todo[t])
      BY <1>4 DEF Fresh
  <2> QED
      BY <2>1, <2>2 DEF Lists, Sound
<1>10. KnownAbroad
  <2>1. \A w \in Watchdogs : ~ (alarms[w] > 0)
      BY <1>1
  <2>2. \A m \in Own, p \in Peers : ackHistory[m][p] = 0
      BY <1>1, <1>2
  <2> QED
      BY <1>1, <1>4, <2>1, <2>2 DEF KnownAbroad
<1>11. Underway
  <2>1. \A i : ~ ToDo(i)
    <3>1. Receiver \in Threads /\ Receiver # Main
        BY DEF Threads, Receiver, Main
    <3> QED
        BY <1>6, <3>1, ListOfNone DEF ToDo
  <2>2. \A m \in Own : ~ Complete(ackHistory[m])
      BY <1>1, <1>2 DEF Complete
  <2> QED
      BY <1>4, <2>1, <2>2 DEF Underway
<1>12. Queues
    BY <1>1 DEF Queues
<1> QED
    BY <1>1, <1>5, <1>9, <1>10, <1>11, <1>12 DEF DataInv

\* A step of none of the threads.
LEMMA StutterData ==
    ASSUME Invariant, LocksInv', UNCHANGED vars
    PROVE  DataInv'
<1>1. UNCHANGED <<todo, owner, reg, alarms, curr_seq_number, histories, queues, recordMessages, recv_cap, sent, exited>>
    BY DEF vars, memory, settings
<1>2. Main \in Threads /\ todo \in [Threads -> Seq(Instruction)]
    BY DEF Threads, Invariant, LocksInv
<1>3. /\ Facts' = Facts
      /\ \A u \in Threads : FactsOf(u)' = FactsOf(u)
    BY <1>1, SameFacts
<1>4. LocksInv /\ Lists /\ Underway /\ Queues
    BY DEF Invariant, DataInv
<1>5. Lists'
    BY <1>1, <1>3, <1>4, ListsNext DEF Lists, Sound, Fresh, LocksInv
<1>6. Underway'
  <2>1. \A i : ToDo(i)' <=> ToDo(i)
      BY <1>1 DEF ToDo, Range
  <2>2. \A k \in Own : Complete(ackHistory[k])' => Complete(ackHistory[k])
      BY <1>1 DEF Complete, histories
  <2> QED
      BY <1>1, <1>3, <1>4, <2>1, <2>2, UnderwayStays
<1>7. Queues'
  <2>1. \A m : Proposals(m)' = Proposals(m)
      BY <1>1, SameProposals DEF histories
  <2> QED
      BY <1>1, <1>3, <1>4, <2>1, QueuesStay DEF Queues
<1>8. curr_seq_number' \in Nat \ {0} /\ recordMessages' \in BOOLEAN
    BY <1>1 DEF Invariant, DataInv, Types
<1> QED
    BY <1>1, <1>3, <1>5, <1>6, <1>7, <1>8, RestStays

\* In every reachable state what an instruction relies on is so when a thread
\* comes to it, whatever the others did meanwhile.
THEOREM DataInvariance == Spec => []DataInv
<1>1. Init /\ LocksInv => DataInv
    BY InitData
<1>2. DataInv /\ LocksInv /\ LocksInv' /\ [Next]_vars => DataInv'
  <2> SUFFICES ASSUME DataInv, LocksInv, LocksInv', [Next]_vars PROVE DataInv'
      OBVIOUS
  <2>1. Invariant
      BY DEF Invariant
  <2>2. ASSUME NEW t \in Threads, Step(t) PROVE DataInv'
    <3>1. CASE Lock(t) \/ Load(t) \/ CheckSeq(t) \/ Spawn(t) \/ SendTo(t)
        BY <2>1, <3>1, LockData, LoadData, CheckSeqData, SpawnData, SendToData
    <3>2. CASE Store(t) \/ DeliverNoMore(t) \/ Access(t) \/ Record(t)
        BY <2>1, <3>2, PlainData
    <3>3. CASE Toss(t) \/ Broadcast(t) \/ TestRecord(t) \/ PrintDelivered(t)
        BY <2>1, <3>3, SendingData
    <3>4. CASE Multicast(t) \/ CheckAck(t) \/ Apply(t) \/ Collect(t)
        BY <2>1, <3>4, MulticastData, CheckAckData, ApplyData, CollectData
    <3>5. CASE CheckDelivered(t) \/ Resend(t) \/ CheckAcked(t)
        BY <2>1, <3>5, CheckDeliveredData, ResendData, CheckAckedData
    <3>6. CASE ProposeOwn(t) \/ Ack(t) \/ AddSeq(t)
        BY <2>1, <3>6, ProposeOwnData, AckData, AddSeqData
    <3>7. CASE Push(t) \/ Change(t) \/ DeliverFront(t)
        BY <2>1, <3>7, PushData, ChangeData, DeliverFrontData
    <3> QED
        BY <2>2, <3>1, <3>2, <3>3, <3>4, <3>5, <3>6, <3>7 DEF Step
  <2>3. CASE Next
    <3>1. ASSUME NEW type \in {"DATAMSG", "ACKMSG", "SEQMSG"}, NEW p \in Peers, NEW m \in Msg, Recv(type, p, m)
          PROVE  DataInv'
        BY <2>1, <3>1, RecvData
    <3>2. ASSUME NEW w \in Watchdogs, WakeUp(w) PROVE DataInv'
        BY <2>1, <3>2, WakeUpData
    <3>3. CASE AcceptMarker
        BY <2>1, <3>3, AcceptMarkerData
    <3> QED
        BY <2>2, <2>3, <3>1, <3>2, <3>3 DEF Next
  <2>4. CASE UNCHANGED vars
      BY <2>1, <2>4, StutterData
  <2> QED
      BY <2>3, <2>4
<1> QED
    BY <1>1, <1>2, LocksInvariance, PTL DEF Spec


\* Types, and two things more: no message is in the lists twice, and who holds
\* a mutex is going to unlock it.
THEOREM TypeCorrect == Spec => []TypeOK
<1>1. LocksInv /\ DataInv => TypeOK
  <2> SUFFICES ASSUME LocksInv, DataInv PROVE TypeOK
      OBVIOUS
  <2>1. \A l \in Mutexes : owner[l] # None => <<"unlock", l>> \in Range(todo[owner[l]])
    <3> SUFFICES ASSUME NEW l \in Mutexes, owner[l] # None
                 PROVE  <<"unlock", l>> \in Range(todo[owner[l]])
        OBVIOUS
    <3>1. PICK t \in Threads : t = owner[l]
        BY DEF LocksInv
    <3>2. l \in Holding(t) /\ Runs(todo[t], Holding(t), {}) /\ todo[t] \in Seq(Instruction)
        BY <3>1 DEF LocksInv, Holding
    <3>3. Len(todo[t]) \in Nat /\ (Len(todo[t]) + 1) - 1 = Len(todo[t])
        BY <3>2
    <3>4. l \notin HeldBefore(todo[t], Holding(t), Len(todo[t]) + 1)
        BY <3>2 DEF Runs
    <3>5. ~ Keeps(todo[t], l, 1, Len(todo[t]))
        BY <3>2, <3>3, <3>4 DEF HeldBefore
    <3> QED
        BY <3>1, <3>2, <3>5, RangeAt DEF Keeps
  <2>2. Types /\ Queues /\ Surroundings /\ exited = FALSE
      BY DEF LocksInv, DataInv
  <2>3. /\ todo \in [Threads -> Seq(Instruction)] /\ owner \in [Mutexes -> Threads \cup {None}]
      BY DEF LocksInv
  <2>4. exited \in BOOLEAN
      BY <2>2
  <2>5. /\ \A d, e \in deliveryQueue : d.msg = e.msg => d = e
        /\ \A e \in deliveryQueue : ~ Delivered(e.msg)
      BY <2>2 DEF Queues
  <2>6. sent \subseteq Packets /\ their_addr \in Peers \cup {Asker} /\ markers \in 0 .. (Len(hostNames) - 1)
      BY <2>2 DEF Surroundings
  <2> QED
      BY <2>1, <2>2, <2>3, <2>4, <2>5, <2>6 DEF TypeOK, Types
<1> QED
    BY <1>1, LocksInvariance, DataInvariance, PTL

\* The exits of datamsg_watchdog, handle_ackmsg and handle_seqmsg are never
\* reached, in whatever order the threads get on.
THEOREM NeverExits == Spec => []NoExit
<1>1. DataInv => NoExit
    BY DEF DataInv, NoExit
<1> QED
    BY <1>1, DataInvariance, PTL

\* A packet about a message leaves the host only once the message is queued or
\* delivered there.
THEOREM AnswersAreHeld == Spec => []AnsweredIsHeld
<1>1. LocksInv /\ DataInv => AnsweredIsHeld
  <2> SUFFICES ASSUME LocksInv, DataInv, NEW x \in sent PROVE Queued(x.msg) \/ Delivered(x.msg)
      BY DEF AnsweredIsHeld
  <2>1. x \in Packets
      BY DEF LocksInv, Surroundings
  <2>2. x.msg \in Msg
      BY <2>1, OwnIsNotForeign DEF Packets
  <2>3. <<"held", x.msg>> \in Facts
      BY DEF DataInv, KnownAbroad, Known
  <2> QED
      BY <2>2, <2>3, FactKinds DEF KindsOfFacts
<1> QED
    BY <1>1, LocksInvariance, DataInvariance, PTL

\* A message in the history is deliverable or delivered, but for one of this
\* host that the receiver has still to change, under ackHistory.
THEOREM FinalsAreApplied == Spec => []FinalIsApplied
<1>1. DataInv => FinalIsApplied
  <2> SUFFICES ASSUME DataInv, NEW m \in seqMessageHistory, NEW e \in deliveryQueue,
                      e.msg = m, e.status = UNDELIVERABLE
               PROVE  m \in Own /\ owner["ackHistory"] = Receiver
      BY DEF FinalIsApplied
  <2>1. m \in Msg
      BY DEF DataInv, Types
  <2>2. <<"final", m>> \in Facts
      BY <2>1, FactKinds DEF KindsOfFacts
  <2>3. ~ Applied(m)
      BY DEF Applied, UNDELIVERABLE, DELIVERABLE
  <2>4. <<"applied", m>> \notin Facts
      BY <2>1, <2>3, FactKinds DEF KindsOfFacts
  <2>5. m \in Own /\ ToDo(<<"change", m>>)
      BY <2>1, <2>2, <2>4 DEF DataInv, Underway
  <2> QED
      BY <2>5 DEF DataInv, Underway
<1> QED
    BY <1>1, DataInvariance, PTL

\* A step that takes an entry out of the queue delivers the front of the heap:
\* what it overtakes is queued above the number this host proposed for it.
THEOREM OvertakesByRace == Spec => OvertakenOnlyByRace
<1> DEFINE Raced == \A e, w \in deliveryQueue : Overtakes(e, w) => Proposals(w.msg)[Me] < w.seq
<1>1. DataInv /\ [Next]_vars => [Raced]_vars
  <2> SUFFICES ASSUME DataInv, [Next]_vars, vars' # vars,
                      NEW e \in deliveryQueue, NEW w \in deliveryQueue, Overtakes(e, w)
               PROVE  Proposals(w.msg)[Me] < w.seq
      OBVIOUS
  <2>1. /\ e.status = DELIVERABLE /\ e \notin deliveryQueue'
        /\ w \in deliveryQueue' /\ \A h \in Host : Proposals(w.msg)[h] < e.seq
      BY DEF Overtakes
  <2>2. /\ e \in QueueEntry /\ w \in QueueEntry /\ Me \in Host
        /\ e.seq = FinalSeq(e.msg) /\ e.proposer = FinalProposer(e.msg)
      BY <2>1, HostAssumption DEF DataInv, Types, Queues
  <2>3. PICK t \in Threads : Change(t) \/ DeliverFront(t)
    <3>1. deliveryQueue' # deliveryQueue
        BY <2>1
    <3>2. ASSUME NEW t \in Threads, Step(t) PROVE Change(t) \/ DeliverFront(t)
      <4>1. ~ Push(t)
          BY <2>1 DEF Push
      <4>2. CASE Lock(t) \/ Load(t) \/ Store(t) \/ Multicast(t) \/ Toss(t) \/ Broadcast(t) \/ TestRecord(t)
                 \/ SendTo(t) \/ Spawn(t)
          BY <3>1, <4>2 DEF Lock, Load, Store, Multicast, Toss, Broadcast, TestRecord, SendTo, Spawn, memory, queues
      <4>3. CASE ProposeOwn(t) \/ Ack(t) \/ CheckAck(t) \/ Collect(t) \/ AddSeq(t) \/ Resend(t)
                 \/ CheckAcked(t) \/ CheckSeq(t)
          BY <3>1, <4>3 DEF ProposeOwn, Ack, CheckAck, Collect, AddSeq, Resend, CheckAcked, CheckSeq, memory, queues
      <4>4. CASE CheckDelivered(t) \/ Apply(t) \/ DeliverNoMore(t) \/ PrintDelivered(t) \/ Access(t) \/ Record(t)
          BY <3>1, <4>4 DEF CheckDelivered, Apply, DeliverNoMore, PrintDelivered, Access, Record, memory, queues
      <4> QED
          BY <3>2, <4>1, <4>2, <4>3, <4>4 DEF Step
    <3>3. \A type, p, m : ~ Recv(type, p, m)
        BY <3>1 DEF Recv, queues
    <3>4. ~ AcceptMarker /\ \A v : ~ WakeUp(v)
        BY <3>1 DEF AcceptMarker, WakeUp, memory, queues
    <3>5. Next
        OBVIOUS
    <3> QED
        BY <3>2, <3>3, <3>4, <3>5 DEF Next
  <2>4. CASE Change(t)
    <3>1. PICK m : m = Arg(t)
        OBVIOUS
    <3>2. deliveryQueue' = {IF d.msg = m
                            THEN [msg |-> m, seq |-> FinalSeq(m), proposer |-> FinalProposer(m), status |-> DELIVERABLE]
                            ELSE d : d \in deliveryQueue}
        BY <2>4, <3>1 DEF Change
    <3>3. e = [msg |-> e.msg, seq |-> FinalSeq(e.msg), proposer |-> FinalProposer(e.msg), status |-> DELIVERABLE]
        BY <2>1, <2>2 DEF QueueEntry
    <3>4. e \in deliveryQueue'
        BY <3>2, <3>3
    <3> QED
        BY <2>1, <3>4
  <2>5. CASE DeliverFront(t)
    <3>1. e \in HeapFront
        BY <2>1, <2>5 DEF DeliverFront
    <3>2. ~ (w.seq < e.seq)
        BY <3>1 DEF HeapFront, cmp
    <3>3. w.seq \in Nat /\ e.seq \in Nat /\ w.msg \in Msg
        BY <2>2 DEF QueueEntry
    <3>4. Proposals(w.msg)[Me] \in Nat
      <4>1. Proposals(w.msg)[Me] = IF w.msg \in Own THEN ackHistory[w.msg][Me] ELSE alreadyAcked[w.msg]
          BY <2>2 DEF Proposals
      <4> QED
          BY <2>2, <3>3, <4>1, OwnIsNotForeign DEF DataInv, Types
    <3>5. Proposals(w.msg)[Me] < e.seq
        BY <2>1, <2>2
    <3> QED
        BY <3>2, <3>3, <3>4, <3>5
  <2> QED
      BY <2>3, <2>4, <2>5
<1>2. Spec => [][Raced]_vars
    BY <1>1, DataInvariance, PTL DEF Spec
<1> QED
    BY <1>2 DEF OvertakenOnlyByRace

=============================================================================
