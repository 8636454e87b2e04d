------------------------------ MODULE MCCodec -------------------------------
(* The varints of Netbuf, read while they arrive byte by byte: every byte   *)
(* sequence two bytes longer than the longest varint, at a narrow width.    *)
EXTENDS Netbuf

VARIABLE bytes   \* what has arrived

Init == bytes = << >>

Arrive ==
  /\ Len(bytes) <= VARINT_BYTES + 1
  /\ \E x \in Byte : bytes' = Append(bytes, x)

Spec == Init /\ [][Arrive]_bytes
-----------------------------------------------------------------------------
Holding(data) == [netbuf_new(0) EXCEPT !.data = data]
Reading(data) == read_varint[Holding(data)]

\* The read has an outcome that is not "wait for more": a value, or a varint
\* of too many bytes.
Decided(data) == ~Reading(data).buf.error \/ Len(data) > VARINT_BYTES

\* The frame loop parses the same prefix again after each arrival: once a
\* varint has been read it is never read differently, and consumes the same
\* bytes, whatever arrives behind it (read_varint, varint.c).
PrefixStable ==
  [][Decided(bytes) =>
       /\ Reading(bytes').val = Reading(bytes).val
       /\ Reading(bytes').buf.offset = Reading(bytes).buf.offset]_bytes

\* Reader and writer agree: a value that can be read is written in at most as
\* many bytes, and those bytes are read as the same value, to their end.
Canonical ==
  LET r       == Reading(bytes)
      written == write_varint(r.val)
  IN  ~r.buf.error =>
        /\ Len(written) <= r.buf.offset
        /\ Reading(written) = [buf |-> [Holding(written) EXCEPT !.offset = Len(written)],
                               val |-> r.val]
=============================================================================
