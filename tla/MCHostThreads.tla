--------------------------- MODULE MCHostThreads ---------------------------
(***************************************************************************)
(* Instances of HostThreads for TLC: the Hostfile, the messages of the     *)
(* other hosts, and what the other hosts propose.                          *)
(***************************************************************************)
EXTENDS HostThreadsInv, TLC

TwoHosts == <<1, 2>>
FromOne  == {<<1, 0>>}

\* The peer numbers its own message above that of this host: they stay in
\* order only if this host never queues its own above its proposal.
PeerAhead == 1 :> (<<1, 0>> :> 3 @@ <<2, 0>> :> 2)

ThreeHosts == <<1, 2, 3>>

\* Host 1 multicasts and then proposes the number it has reached; host 2 has
\* multicast before, and gets the message of host 3 first.
CrossedProposals ==
    1 :> (<<1, 0>> :> 2 @@ <<3, 0>> :> 2) @@ 2 :> (<<1, 0>> :> 3 @@ <<3, 0>> :> 2)

=============================================================================
