--------------------------- MODULE MCConnection -----------------------------
(* Instances of Connection for TLC: what clients send that leave, or that    *)
(* do not keep to the protocol.                                              *)
EXTENDS Connection, Requests

\* Two pipelined dialogues that do not fit in a small in_buf.
LongStreams ==
  {StreamOf(<< <<"handshake", "status">>, <<"ping", 5>>, <<"status">> >>),
   StreamOf(<< <<"handshake", "login">>, <<"login", <<1, 2, 3>> >> >>)}

\* A client that logs in twice.
SecondLogin ==
  StreamOf(<< <<"handshake", "login">>, <<"login", <<1, 2>> >>, <<"login", <<3>> >> >>)

\* A handshake that reads on into the packet behind it.
ReadsOn == Frame(<<0>>) \o StreamOf(<< <<"handshake", "status">>, <<"status">> >>)

\* For the ways of leaving, a client in each phase that is answered, two that
\* pipeline more than fits in a small in_buf, and two that break the protocol.
LeavingStreams ==
  LongStreams \cup
  {StreamOf(<< <<"handshake", "login">>, <<"login", <<1, 2>> >>, <<"other">> >>),
   StreamOf(<< <<"handshake", "status">>, <<"status">>, <<"ping", 5>> >>),
   SecondLogin, ReadsOn}

\* A handshake followed by every sequence of up to three bytes of a small set:
\* frames that are empty, cut short, too long for their packet, announced but
\* never complete, or whose length is negative or takes too many bytes.
Tails == UNION {[1 .. n -> {0, 1, 2, 5, 7}] : n \in 0 .. 3}
StrayStreams ==
  { SecondLogin, ReadsOn,
    \* a name and two addresses with a negative length, of which one leads back
    \* in front of the buffer
    StreamOf(<< <<"handshake", "login">> >>) \o Frame(<<0, 7, 7, 1>>) \o Frame(<<2>>),
    Frame(<<0, 1, 7, 7, 1, 1, 2, 1>>) \o Frame(<<0>>),
    Frame(<<0, 1, 4, 4, 1>>) \o StreamOf(<< <<"handshake", "status">>, <<"status">> >>),
    \* a login with more in its frame than the handler reads
    StreamOf(<< <<"handshake", "login">> >>) \o Frame(<<0, 1, 3, 6, 7>>) \o Frame(<<2>>),
    \* a ping without payload, and one with a payload that is too long
    StreamOf(<< <<"handshake", "status">> >>) \o Frame(<<1>>) \o Frame(<<1, 7, 7, 7, 7, 1>>),
    \* an empty frame between two requests, and a length that is negative
    StreamOf(<< <<"handshake", "status">> >>) \o Frame(<< >>) \o Frame(<<0>>) \o <<7, 7, 1>> }
RaggedStreams ==
  {StreamOf(<< <<"handshake", next>> >>) \o tail : next \in {"status", "login"}, tail \in Tails}
    \cup StrayStreams
=============================================================================
