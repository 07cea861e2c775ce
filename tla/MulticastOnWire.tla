--------------------------- MODULE MulticastOnWire ---------------------------
(***************************************************************************)
(* The packets of ReliableMulticast as the bytes that travel.              *)
(***************************************************************************)
EXTENDS MulticastRefinement, Wire

\* The loop of main multicasts semi-arbitrary data with its i-th message.
Data(m) == (m[2] * 198) % 27

\* The struct that a packet carries.
Struct(x) ==
    IF x.type = "DATAMSG" THEN make_data_msg(Sender(x.msg), x.msg[2], Data(x.msg))
    ELSE IF x.type = "ACKMSG" THEN make_ack_msg(Sender(x.msg), x.msg[2], x.seq, x.proposer)
    ELSE make_seq_msg(Sender(x.msg), x.msg[2], x.seq, x.proposer)

\* A buffer of the stack, with every byte the same.
Filled(byte) == [cell \in 1 .. 5 |-> [i \in 1 .. 4 |-> byte]]

\* Whatever its buffer held before, a packet is taken by its receiver for the
\* message that its sender meant: the type, and every field in its place.
PacketsSurviveTheWire ==
    \A x \in network : \A byte \in {0, 255} :
        LET buf == Serialized(Struct(x), Filled(byte))
        IN  ~ WrongType(buf) /\ Deserialized(buf) = Struct(x)

=============================================================================
