------------------------------- MODULE Barrier -------------------------------
(***************************************************************************)
(* What README.md:36 promises of waittosync: hosts start one by one, hear  *)
(* of each other, and none goes on before it has heard from every other    *)
(* host and been heard by every other host.  A host that has gone on never *)
(* waits again, and nothing that was heard is forgotten.  How the hosts    *)
(* find out is left to WaitToSync.                                         *)
(***************************************************************************)
CONSTANT Host

VARIABLES
    arrived,  \* the hosts that have started
    heard,    \* per host: the hosts it has heard from
    passed    \* the hosts that have gone on

vars == <<arrived, heard, passed>>

Init == arrived = {} /\ heard = [h \in Host |-> {}] /\ passed = {}

\* Given what has been heard, nothing keeps h any longer.
MayPass(h, from) == \A p \in Host \ {h} : p \in from[h] /\ h \in from[p]

Arrive(h) ==
    /\ h \notin arrived
    /\ arrived' = arrived \cup {h}
    /\ UNCHANGED <<heard, passed>>

Pass(h) ==
    /\ MayPass(h, heard')
    /\ passed' = passed \cup {h}

\* h hears from p, and goes on at once if that is all it waited for.
Hear(h, p) ==
    /\ p \in arrived \ {h}
    /\ heard' = [heard EXCEPT ![h] = @ \cup {p}]
    /\ Pass(h) \/ UNCHANGED passed
    /\ UNCHANGED arrived

GoOn(h) ==
    /\ Pass(h)
    /\ UNCHANGED <<arrived, heard>>

Next == \E h \in Host : Arrive(h) \/ GoOn(h) \/ \E p \in Host : Hear(h, p)

Spec == Init /\ [][Next]_vars

=============================================================================
