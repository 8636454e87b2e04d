---------------------------- MODULE MCOutbound ------------------------------
(* Instances of Outbound for TLC.                                           *)
EXTENDS Delivery

Post(first, bytes) == [first |-> first, bytes |-> bytes]

\* A ping's answer, an empty packet, a packet with a name that its buffer
\* outgrows twice (at the size where the header takes a second byte), and one
\* with room to spare.
MixedPosted == << Post(2, write_varint(1) \o write_varlong(5)),
                  Post(1, << >>),
                  Post(1, write_varint(2) \o write_string(<<3, 1, 2, 7, 0>>)),
                  Post(16, write_varint(0)) >>
=============================================================================
