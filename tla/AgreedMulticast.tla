--------------------------- MODULE AgreedMulticast ---------------------------
(***************************************************************************)
(* What the totally ordered multicast promises, without packets, acks,     *)
(* counters, resends or losses.  Every host proposes one number for a      *)
(* message, its sender first, and never a smaller one than it proposed     *)
(* before.  When all have proposed, the largest proposal becomes the final *)
(* number, once and for all.  A host that learns a final number delivers   *)
(* the messages that wait there in the order of their keys: the final      *)
(* number of a message if the host has learnt it, else its own proposal,   *)
(* which bounds the final number from below.  It stops at a message whose  *)
(* final number it has not learnt.                                         *)
(***************************************************************************)
EXTENDS Naturals, Sequences, Functions

CONSTANTS
    Host,  \* the ids of the hosts
    Msg    \* the messages, each a pair of its sender and its id

VARIABLES
    proposal,  \* per host: the number it proposed for a message, 0 if none
    final,     \* the final key of a message, with number 0 if there is none
    learnt,    \* per host: the messages whose final key it has learnt
    delivered  \* per host: the messages delivered, in order

vars == <<proposal, final, learnt, delivered>>

Sender(m) == m[1]
Key(seq, proposer) == [seq |-> seq, proposer |-> proposer]

\* Keys are ordered by number and then by proposer.  Two messages may get the
\* same key: then neither is before the other.
Before(j, k) ==
    \/ j.seq < k.seq
    \/ j.seq = k.seq /\ j.proposer < k.proposer

\* The key under which message m waits at host h, when the host knows the final
\* keys of some messages.
KeyAt(h, m, known, keys) == IF m \in known THEN keys[m] ELSE Key(proposal[h][m], h)

\* No message that waits at h is before m.
InFront(h, m, waiting, known, keys) ==
    /\ m \in waiting
    /\ \A w \in waiting : ~ Before(KeyAt(h, w, known, keys), KeyAt(h, m, known, keys))

Waiting(h) == {m \in Msg : proposal[h][m] # 0 /\ m \notin Range(delivered[h])}

Init ==
    /\ proposal = [h \in Host |-> [m \in Msg |-> 0]]
    /\ final = [m \in Msg |-> Key(0, Sender(m))]
    /\ learnt = [h \in Host |-> {}]
    /\ delivered = [h \in Host |-> <<>>]

-----------------------------------------------------------------------------
\* Host h proposes a number for m, not below any that it proposed before.
Propose(h, m) ==
    /\ h = Sender(m) \/ proposal[Sender(m)][m] # 0
    /\ proposal[h][m] = 0
    /\ proposal'[h][m] \in Nat \ {0}
    /\ \A k \in Msg : proposal[h][k] =< proposal'[h][m]
    /\ proposal' = [proposal EXCEPT ![h][m] = proposal'[h][m]]
    /\ UNCHANGED <<final, learnt, delivered>>

\* Host h learns the final key of m, one of keys, and delivers: a message that
\* it delivers has its final key and is in front of those left; and it stops
\* only with nothing left, or with a message in front that lacks its final key.
Deliver(h, m, keys) ==
    LET old     == delivered[h]
        new     == delivered'[h]
        known   == learnt[h] \cup {m}
        left(n) == Waiting(h) \ {new[i] : i \in 1 .. n}
    IN  /\ learnt' = [learnt EXCEPT ![h] = known]
        /\ delivered' = [delivered EXCEPT ![h] = new]
        /\ new \in Seq(Msg)
        /\ Len(old) =< Len(new) /\ \A i \in 1 .. Len(old) : new[i] = old[i]
        /\ \A n \in Len(old) .. (Len(new) - 1) :
             new[n + 1] \in known /\ InFront(h, new[n + 1], left(n), known, keys)
        /\ \/ left(Len(new)) = {}
           \/ \E k \in left(Len(new)) \ known : InFront(h, k, left(Len(new)), known, keys)

\* All hosts have proposed for m: its final key is the largest proposal, that
\* of the first host among equals, and its sender learns it.
Decide(h, m) ==
    /\ h = Sender(m)
    /\ final[m].seq = 0
    /\ \A p \in Host : proposal[p][m] # 0
    /\ \E top \in Host :
         /\ \A p \in Host :
              /\ proposal[p][m] =< proposal[top][m]
              /\ proposal[p][m] = proposal[top][m] => top =< p
         /\ final' = [final EXCEPT ![m] = Key(proposal[top][m], top)]
    /\ Deliver(h, m, final')
    /\ UNCHANGED proposal

\* Host h is told the final key of m, for the first time or again.
Learn(h, m) ==
    /\ final[m].seq # 0
    /\ Deliver(h, m, final)
    /\ UNCHANGED <<proposal, final>>

Next == \E h \in Host, m \in Msg : Propose(h, m) \/ Decide(h, m) \/ Learn(h, m)

Spec == Init /\ [][Next]_vars

-----------------------------------------------------------------------------
\* A host delivers a message against an earlier final number only if it came
\* to propose for that message no sooner than for the one delivered before it:
\* a number is overtaken by late arrivals only.
OvertakenByLateArrivals ==
    \A h \in Host : \A j \in DOMAIN delivered[h] : \A i \in 1 .. (j - 1) :
        LET first == delivered[h][i]
            second == delivered[h][j]
        IN  final[second].seq < final[first].seq =>
              proposal[h][first] =< proposal[h][second]

=============================================================================
