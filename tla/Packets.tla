------------------------------ MODULE Packets -------------------------------
(***************************************************************************)
(* What the server does with one packet: handle_packet of network/packet.c *)
(* and every handler below it (network/handshake.c, network/login.c).      *)
(*                                                                         *)
(* A connection is the record [buf, state, player_name, uuid].  A handler  *)
(* returns the connection it leaves, the packets it passes to netbuf_send  *)
(* in order, whether it announced that it disconnects, and whether it      *)
(* faulted (a memcpy from NULL or of a negative, hence huge, length: the   *)
(* process ends there).  Packets are <<kind, ...>> with the fields that    *)
(* depend on the connection.                                               *)
(***************************************************************************)
EXTENDS Netbuf

CONSTANTS NULL,        \* the C null pointer
          UUID_BYTES   \* name bytes an offline UUID is made of: 16

ASSUME PacketsAssumption == /\ UUID_BYTES \in Nat \ {0}
                            /\ NULL \notin Seq(Byte)

STATE_HANDSHAKING == 0
STATE_STATUS      == 1
STATE_LOGIN       == 2
STATE_PLAY        == 3
States == STATE_HANDSHAKING .. STATE_PLAY

Conns == [buf : Netbufs, state : States,
          player_name : Seq(Byte) \cup {NULL}, uuid : Seq(Byte) \cup {NULL}]

Handled(c, replies) ==
  [conn |-> c, replies |-> replies, refused |-> FALSE, fault |-> FALSE]
Faulted(c) == [Handled(c, << >>) EXCEPT !.fault = TRUE]

\* What strlen sees of a stored name.
CString(str) ==
  LET Zeros == {i \in 1 .. Len(str) : str[i] = 0}
  IN  IF Zeros = {} THEN str ELSE SubSeq(str, 1, Min(Zeros) - 1)

\* The bytes of the name an offline UUID is filled with.  The constants that
\* then replace two of its nibbles (version and variant) are left out.
OfflineUuid(name) ==
  SubSeq(CString(name), 1, Min({Len(CString(name)), UUID_BYTES}))
-----------------------------------------------------------------------------
\* Mutant: any next_state is accepted.
handle_handshake_Unchecked(c) ==
  LET next == read_varint[read_ushort[read_string[read_varint[c.buf].buf].buf].buf]
  IN  Handled([c EXCEPT !.buf = next.buf, !.state = next.val], << >>)

\* The address is only logged; it matters when its length is negative, since
\* the length then passes the test below 256 and becomes a huge memcpy.
handle_handshake(c) ==
  LET version == read_varint[c.buf]
      addr    == read_string[version.buf]
      port    == read_ushort[addr.buf]
      next    == read_varint[port.buf]
  IN  IF addr.ptr /\ addr.len < 0 THEN Faulted(c)
      ELSE IF next.val \in {STATE_STATUS, STATE_LOGIN}
      THEN Handled([c EXCEPT !.buf = next.buf, !.state = next.val], << >>)
      ELSE [Handled([c EXCEPT !.buf = [next.buf EXCEPT !.error = TRUE]], << >>)
              EXCEPT !.refused = TRUE]

handle_status_request(c) == Handled(c, << <<"status_response">> >>)

handle_ping(c) ==
  LET payload == read_varlong[c.buf]
  IN  Handled([c EXCEPT !.buf = payload.buf], << <<"pong", payload.val>> >>)

send_login_success(c) == << <<"login_success", c.uuid, CString(c.player_name)>> >>
send_login_play       == << <<"login_play">> >>

\* The nine chunks in the order of the two nested loops over -1 .. 1.
SpawnChunks == [i \in 1 .. 9 |-> <<"chunk", ((i - 1) \div 3) - 1, ((i - 1) % 3) - 1>>]

\* Mutant: the client is told to wait for its chunks before they are sent.
send_world_loading_EventFirst(c) ==
  << <<"keep_alive">>,
     <<"player_info", OfflineUuid(c.player_name), CString(c.player_name)>>,
     <<"game_event", 13>> >>
  \o SpawnChunks \o << <<"chunk_center", 0, 0>>, <<"player_position">> >>

send_world_loading(c) ==
  << <<"keep_alive">>,
     <<"player_info", OfflineUuid(c.player_name), CString(c.player_name)>> >>
  \o SpawnChunks
  \o << <<"chunk_center", 0, 0>>, <<"game_event", 13>>, <<"player_position">> >>

\* Mutants: the state stays login; the UUID is not stored.
handle_login_start_NoState(c) ==
  LET name   == read_string[c.buf]
      joined == [c EXCEPT !.buf = name.buf, !.player_name = name.str,
                          !.uuid = OfflineUuid(name.str)]
  IN  Handled(joined, send_login_success(joined) \o send_login_play
                        \o send_world_loading(joined))
handle_login_start_NoUuid(c) ==
  LET name   == read_string[c.buf]
      joined == [c EXCEPT !.buf = name.buf, !.state = STATE_PLAY, !.player_name = name.str]
  IN  Handled(joined, send_world_loading(joined))

\* malloc(name_len + 1) and memcpy of name_len bytes: nothing is copied when
\* the length could not be read (it is then 0), and the copy of an unreadable
\* or negative length faults.
handle_login_start(c) ==
  LET name   == read_string[c.buf]
      joined == [buf |-> name.buf, state |-> STATE_PLAY, player_name |-> name.str,
                 uuid |-> OfflineUuid(name.str)]
  IN  IF name.len < 0 \/ (~name.ptr /\ name.len # 0) THEN Faulted(c)
      ELSE Handled(joined, send_login_success(joined) \o send_login_play
                             \o send_world_loading(joined))

\* The packets that the handlers send.
Outgoing ==
  {<<"status_response">>, <<"login_play">>, <<"keep_alive">>, <<"chunk_center", 0, 0>>,
   <<"game_event", 13>>, <<"player_position">>}
    \cup ({"pong"} \X Varlongs) \cup ({"chunk"} \X (-1 .. 1) \X (-1 .. 1))
    \cup ({"login_success", "player_info"} \X Seq(Byte) \X Seq(Byte))

\* Packets with an id the state does not know are ignored.
handle_packet[c \in Conns] ==
  LET id == read_varint[c.buf]
      d  == [c EXCEPT !.buf = id.buf]
  IN  CASE c.state = STATE_HANDSHAKING /\ id.val = 0 -> handle_handshake(d)
        [] c.state = STATE_STATUS /\ id.val = 0      -> handle_status_request(d)
        [] c.state = STATE_STATUS /\ id.val = 1      -> handle_ping(d)
        [] c.state = STATE_LOGIN /\ id.val = 0       -> handle_login_start(d)
        [] OTHER -> Handled(d, << >>)
=============================================================================
