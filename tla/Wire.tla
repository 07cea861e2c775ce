-------------------------------- MODULE Wire --------------------------------
(***************************************************************************)
(* How messages travel.  A message is written into the MAX_STRUCT_SIZE     *)
(* bytes of serialized_packet, field by field, in network byte order.  A   *)
(* data message has four fields and leaves the last four bytes as they     *)
(* were on the stack of its sender; they travel too, and the snapshot      *)
(* records them.  Every offset is a multiple of four, so the buffer is a   *)
(* sequence of five cells of four bytes.                                   *)
(***************************************************************************)
EXTENDS Integers

DATAMSG_TYPE == 1
ACKMSG_TYPE  == 2
SEQMSG_TYPE  == 3

Byte   == 0 .. 255
Cell   == [1 .. 4 -> Byte]
Buffer == [1 .. 5 -> Cell]

\* The values of a uint32_t.
Word == {i \in Nat : ((i \div 256) \div 256) \div 256 < 256}

make_data_msg(sender, msg_id, data) ==
    [type |-> DATAMSG_TYPE, sender |-> sender, msg_id |-> msg_id, data |-> data]

make_ack_msg(sender, msg_id, proposed_seq, proposer) ==
    [type |-> ACKMSG_TYPE, sender |-> sender, msg_id |-> msg_id,
     proposed_seq |-> proposed_seq, proposer |-> proposer]

make_seq_msg(sender, msg_id, final_seq, final_seq_proposer) ==
    [type |-> SEQMSG_TYPE, sender |-> sender, msg_id |-> msg_id,
     final_seq |-> final_seq, final_seq_proposer |-> final_seq_proposer]

-----------------------------------------------------------------------------
\* i >> 8
shr8(i) == i \div 256

\* i >> 24, i >> 16, i >> 8 and i, of which an unsigned char keeps the low byte.
packi32(i) == << shr8(shr8(shr8(i))) % 256, shr8(shr8(i)) % 256, shr8(i) % 256, i % 256 >>

unpacku32(c) == ((c[1] * 256 + c[2]) * 256 + c[3]) * 256 + c[4]

serialize_data_message(m, buf) ==
    << packi32(m.type), packi32(m.sender), packi32(m.msg_id), packi32(m.data), buf[5] >>

\* Mutant of serialize_ack_message: the last two fields are swapped.
serialize_ack_proposer_first(m, buf) ==
    << packi32(m.type), packi32(m.sender), packi32(m.msg_id),
       packi32(m.proposer), packi32(m.proposed_seq) >>

serialize_ack_message(m, buf) ==
    << packi32(m.type), packi32(m.sender), packi32(m.msg_id),
       packi32(m.proposed_seq), packi32(m.proposer) >>

serialize_seq_message(m, buf) ==
    << packi32(m.type), packi32(m.sender), packi32(m.msg_id),
       packi32(m.final_seq), packi32(m.final_seq_proposer) >>

deserialize_data_message(buf) ==
    make_data_msg(unpacku32(buf[2]), unpacku32(buf[3]), unpacku32(buf[4]))

deserialize_ack_message(buf) ==
    make_ack_msg(unpacku32(buf[2]), unpacku32(buf[3]), unpacku32(buf[4]), unpacku32(buf[5]))

deserialize_seq_message(buf) ==
    make_seq_msg(unpacku32(buf[2]), unpacku32(buf[3]), unpacku32(buf[4]), unpacku32(buf[5]))

-----------------------------------------------------------------------------
\* What a thread has in its buffer, which held buf, when it has serialized m.
Serialized(m, buf) ==
    IF m.type = DATAMSG_TYPE THEN serialize_data_message(m, buf)
    ELSE IF m.type = ACKMSG_TYPE THEN serialize_ack_message(m, buf)
    ELSE serialize_seq_message(m, buf)

\* What msg_receiver and handle_message exit on.
WrongType(buf) == unpacku32(buf[1]) \notin {DATAMSG_TYPE, ACKMSG_TYPE, SEQMSG_TYPE}

\* What they take the bytes of buf for, when the type is one of the three.
Deserialized(buf) ==
    IF unpacku32(buf[1]) = DATAMSG_TYPE THEN deserialize_data_message(buf)
    ELSE IF unpacku32(buf[1]) = ACKMSG_TYPE THEN deserialize_ack_message(buf)
    ELSE deserialize_seq_message(buf)

=============================================================================
