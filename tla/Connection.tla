----------------------------- MODULE Connection -----------------------------
(***************************************************************************)
(* One client connection, byte by byte: the client and its TCP stream, the *)
(* edge-triggered event of epoll, the recv loop and the frame loop of      *)
(* process_client_packets (main.c), the handlers of Packets and the sends  *)
(* they make.  The behaviours start where accept has added the socket to   *)
(* epoll.  Each send succeeds while the peer's socket lives (the client    *)
(* reads what it is sent).                                                 *)
(***************************************************************************)
EXTENDS Packets, SequencesExt

CONSTANTS Streams,        \* the byte streams a client may send
          Departures,     \* how a client may leave: a subset of {"shut", "reset"}
          INIT_CAPACITY,  \* first capacity of in_buf: 4096
          MIN_SPACE,      \* room the recv loop asks for: 128
          ALLOC_FAILS     \* whether realloc may fail

ASSUME ConnectionAssumption ==
  /\ Streams \subseteq Seq(Byte)
  /\ Departures \subseteq {"shut", "reset"}
  /\ INIT_CAPACITY \in Nat /\ MIN_SPACE \in Nat
  /\ 0 < MIN_SPACE /\ MIN_SPACE <= INIT_CAPACITY
  /\ ALLOC_FAILS \in BOOLEAN

VARIABLES
  stream,   \* history: everything this client has to send
  unsent,   \* the part it has not sent yet
  net,      \* bytes in the kernel's receive queue of the socket
  peer,     \* "open", "shut" (FIN), "reset" (RST, error pending), "broken"
  edge,     \* whether epoll has an event to report for the socket
  pc,       \* where the server is with this connection
  conn,     \* the client_connection
  sendq,    \* packets the running handler has still to send
  sent,     \* history: packets handed to the client's socket
  done,     \* history: bytes of the stream the frame loop has passed
  refused   \* history: a handler logged "disconnecting"

clientVars == <<unsent, net, peer, edge>>
serverVars == <<pc, conn, sendq>>
history    == <<sent, done, refused>>
vars == <<stream, clientVars, serverVars, history>>

Live == pc \notin {"closed", "fault", "killed"}

Init ==
  /\ stream \in Streams
  /\ unsent = stream /\ net = << >> /\ peer = "open" /\ edge = FALSE
  /\ pc = "wait" /\ sendq = << >>
  /\ conn = [buf |-> netbuf_new(INIT_CAPACITY), state |-> STATE_HANDSHAKING,
             player_name |-> NULL, uuid |-> NULL]
  /\ sent = << >> /\ done = 0 /\ refused = FALSE
-----------------------------------------------------------------------------
(* The client and the network *)

\* Some of the stream arrives; TCP decides how much at a time.
Deliver ==
  /\ Live /\ peer = "open"
  /\ \E k \in 1 .. Len(unsent) :
       /\ net' = net \o SubSeq(unsent, 1, k)
       /\ unsent' = SubSeq(unsent, k + 1, Len(unsent))
  /\ edge' = TRUE
  /\ UNCHANGED <<stream, peer, serverVars, history>>

Shut ==
  /\ Live /\ peer = "open" /\ "shut" \in Departures
  /\ peer' = "shut" /\ edge' = TRUE
  /\ UNCHANGED <<stream, unsent, net, serverVars, history>>

\* A reset after the FIN leaves EPIPE as the socket's error instead of
\* ECONNRESET, which is what a reset socket has once its error is consumed.
Reset ==
  /\ Live /\ peer \in {"open", "shut"} /\ "reset" \in Departures
  /\ peer' = IF peer = "open" THEN "reset" ELSE "broken"
  /\ edge' = TRUE
  /\ UNCHANGED <<stream, unsent, net, serverVars, history>>
-----------------------------------------------------------------------------
(* The event loop's part *)

\* Mutant: the disconnect event is taken for an empty one.
PollDisconnect_Ignored ==
  /\ pc = "wait" /\ edge /\ peer # "open"
  /\ edge' = FALSE
  /\ UNCHANGED <<stream, unsent, net, peer, pc, conn, sendq, history>>

\* epoll_wait reports the socket.  A client that has left is freed at once,
\* whatever it sent before it left.
PollDisconnect ==
  /\ pc = "wait" /\ edge /\ peer # "open"
  /\ pc' = "closed" /\ edge' = FALSE
  /\ UNCHANGED <<stream, unsent, net, peer, conn, sendq, history>>

PollReadable ==
  /\ pc = "wait" /\ edge /\ peer = "open" /\ net # << >>
  /\ pc' = "recv" /\ edge' = FALSE
  /\ UNCHANGED <<stream, unsent, net, peer, conn, sendq, history>>

\* The bytes that raised the event have been received since: epoll_wait looks
\* at the socket again and drops the event.
PollNothing ==
  /\ pc = "wait" /\ edge /\ peer = "open" /\ net = << >>
  /\ edge' = FALSE
  /\ UNCHANGED <<stream, unsent, net, peer, pc, conn, sendq, history>>
-----------------------------------------------------------------------------
(* The recv loop *)

NeedsRoom == conn.buf.capacity - Size(conn.buf) < MIN_SPACE

\* Mutant: the room is never made.
MakeRoom_Never == {conn.buf}

\* The buffers the top of an iteration may leave, and whether it breaks out.
MakeRoom == IF NeedsRoom THEN netbuf_expand(conn.buf, MIN_SPACE, ALLOC_FAILS)
            ELSE {conn.buf}
BreaksOut(b) == NeedsRoom /\ b.error
Room(b) == b.capacity - Size(b)

RecvBytes ==
  /\ pc = "recv" /\ net # << >>
  /\ \E b \in MakeRoom :
       LET n == Min({Room(b), Len(net)})
       IN  /\ ~BreaksOut(b) /\ Room(b) > 0
           /\ conn' = [conn EXCEPT !.buf = [b EXCEPT !.data = @ \o SubSeq(net, 1, n)]]
           /\ net' = SubSeq(net, n + 1, Len(net))
  /\ UNCHANGED <<stream, unsent, peer, edge, pc, sendq, history>>

\* EAGAIN: the socket has been read out.
RecvAgain ==
  /\ pc = "recv" /\ net = << >> /\ peer = "open"
  /\ \E b \in MakeRoom : /\ ~BreaksOut(b) /\ Room(b) > 0
                         /\ conn' = [conn EXCEPT !.buf = b]
  /\ pc' = "parse"
  /\ UNCHANGED <<stream, clientVars, sendq, history>>

\* The error flag is set after the expansion: the loop ends without a recv.
RecvBreak ==
  /\ pc = "recv"
  /\ \E b \in MakeRoom : BreaksOut(b) /\ conn' = [conn EXCEPT !.buf = b]
  /\ pc' = "parse"
  /\ UNCHANGED <<stream, clientVars, sendq, history>>

\* recv returns 0 (end of stream, or no room to receive into) or an error:
\* the connection is freed, and nothing that was received is parsed.
RecvEnd ==
  /\ pc = "recv"
  /\ \E b \in MakeRoom : ~BreaksOut(b) /\ (Room(b) = 0 \/ (net = << >> /\ peer # "open"))
  /\ pc' = "closed"
  /\ UNCHANGED <<stream, clientVars, conn, sendq, history>>
-----------------------------------------------------------------------------
(* The frame loop.  The error flag is cleared before every length prefix. *)

Prefix == read_varint[[conn.buf EXCEPT !.error = FALSE]]

\* Mutant: a frame is handled as soon as its length can be read.
FrameComplete_Early == ~Prefix.buf.error /\ Prefix.val >= 0

\* The prefix is readable and its frame has arrived.  The code compares with
\* (size_t)packet_len, so a negative length is one that never arrives.
FrameComplete ==
  ~Prefix.buf.error /\ Prefix.val \in 0 .. Size(conn.buf) - Prefix.buf.offset

FrameEnd == Prefix.buf.offset + Prefix.val
Reply    == handle_packet[[conn EXCEPT !.buf = Prefix.buf]]

\* Mutant: the next frame starts where the handler stopped reading.
Align_Forgotten(b, end) == b

\* "Force align": wherever the handler stopped reading.
Align(b, end) == [b EXCEPT !.offset = end]

\* Mutant: the offset is not put back in front of the length.
FrameIncomplete_Unrestored ==
  /\ pc = "parse" /\ ~FrameComplete
  /\ conn' = [conn EXCEPT !.buf = netbuf_compact(Prefix.buf)]
  /\ pc' = "wait"
  /\ UNCHANGED <<stream, clientVars, sendq, history>>

\* The offset goes back in front of the length.
FrameIncomplete ==
  /\ pc = "parse" /\ ~FrameComplete
  /\ conn' = [conn EXCEPT !.buf =
                netbuf_compact([Prefix.buf EXCEPT !.offset = conn.buf.offset])]
  /\ pc' = "wait"
  /\ UNCHANGED <<stream, clientVars, sendq, history>>

HandleFrame ==
  /\ pc = "parse" /\ FrameComplete
  /\ \E r \in {Reply} :
       /\ ~r.fault
       /\ conn' = [r.conn EXCEPT !.buf = Align(@, FrameEnd)]
       /\ sendq' = r.replies
       /\ refused' = (refused \/ r.refused)
  /\ done' = done + (conn'.buf.offset - conn.buf.offset)
  /\ pc' = "send"
  /\ UNCHANGED <<stream, clientVars, sent>>

HandlerFaults ==
  /\ pc = "parse" /\ FrameComplete /\ Reply.fault
  /\ pc' = "fault"
  /\ UNCHANGED <<stream, clientVars, conn, sendq, history>>

\* netbuf_send of the handler's next packet.  The first send after a reset
\* fails and consumes the socket's error; one on a broken socket raises
\* SIGPIPE, whose default action ends the process.
Send ==
  /\ pc = "send" /\ sendq # << >>
  /\ sendq' = Tail(sendq)
  /\ sent' = IF peer \in {"open", "shut"} THEN Append(sent, Head(sendq)) ELSE sent
  /\ peer' = IF peer = "reset" THEN "broken" ELSE peer
  /\ pc' = IF peer = "broken" THEN "killed" ELSE pc
  /\ UNCHANGED <<stream, unsent, net, edge, conn, done, refused>>

\* Mutant: one frame is handled for each wake-up.
NextFrame_OnePerWakeup ==
  /\ pc = "send" /\ sendq = << >>
  /\ pc' = "wait" /\ conn' = [conn EXCEPT !.buf = netbuf_compact(@)]
  /\ UNCHANGED <<stream, clientVars, sendq, history>>

\* The handler has returned: on to the next frame, or compact and wait.
NextFrame ==
  /\ pc = "send" /\ sendq = << >>
  /\ IF conn.buf.offset >= Size(conn.buf)
     THEN pc' = "wait" /\ conn' = [conn EXCEPT !.buf = netbuf_compact(@)]
     ELSE pc' = "parse" /\ UNCHANGED conn
  /\ UNCHANGED <<stream, clientVars, sendq, history>>
-----------------------------------------------------------------------------
Client == Deliver \/ Shut \/ Reset
Server == \/ PollDisconnect \/ PollReadable \/ PollNothing
          \/ RecvBytes \/ RecvAgain \/ RecvBreak \/ RecvEnd
          \/ FrameIncomplete \/ HandleFrame \/ HandlerFaults \/ Send \/ NextFrame

Next == Client \/ Server
Spec == Init /\ [][Next]_vars

\* The process is scheduled, and TCP delivers what a client that stays sends.
FairSpec == Spec /\ WF_vars(Server) /\ WF_vars(Deliver)
-----------------------------------------------------------------------------
(* Properties *)

\* Type correctness of every variable.
TypeOK ==
  /\ stream \in Seq(Byte) /\ unsent \in Seq(Byte) /\ net \in Seq(Byte)
  /\ peer \in {"open", "shut", "reset", "broken"} /\ edge \in BOOLEAN
  /\ pc \in {"wait", "recv", "parse", "send", "closed", "fault", "killed"}
  /\ conn \in Conns /\ sendq \in Seq(Outgoing) /\ sent \in Seq(Outgoing)
  /\ done \in Nat /\ refused \in BOOLEAN

\* The offset, size and capacity that netbuf.c, the recv loop and the frame
\* loop maintain together never cross: no read below and no write above the
\* bytes the buffer owns, however the stream is cut and wherever a handler
\* stops reading.
BufferSound == conn.buf.offset <= Size(conn.buf) /\ Size(conn.buf) <= conn.buf.capacity

\* No byte is lost, repeated or reordered between the client and the frame
\* loop: what the loop has not passed, what the kernel holds and what is
\* unsent are, in this order, exactly the rest of the stream (recv at the end
\* of the data, alignment, compaction and growth of in_buf).
NoByteLost ==
  SubSeq(conn.buf.data, conn.buf.offset + 1, Size(conn.buf)) \o net \o unsent
    = SubSeq(stream, done + 1, Len(stream))

\* Reference framing of a whole stream: s[i+1 .. j] is one frame.
IsFrame(s, i, j) ==
  \E k \in i + 1 .. j :
    /\ k - i <= VARINT_BYTES
    /\ \A m \in i + 1 .. k : s[m] >= More <=> m < k
    /\ Decode(SubSeq(s, i + 1, k), VARINT_BITS) = j - k

\* The positions of s where a frame ends when it is cut from its start.
FrameEnds(s) ==
  LET ends[j \in 0 .. Len(s)] == j = 0 \/ \E i \in 0 .. j - 1 : IsFrame(s, i, j) /\ ends[i]
  IN  {j \in 0 .. Len(s) : ends[j]}

Ends == [s \in Streams |-> FrameEnds(s)]

\* The frame loop only ever stops between frames of the client's stream:
\* neither the way TCP cuts the stream nor a handler that reads too little or
\* beyond its own packet makes it lose the framing.
FramesAligned == done \in Ends[stream]

\* The server hangs up only on a client that has left: a recv into a full
\* buffer, which returns 0 like a disconnect, never happens.
HangsUpOnlyOnDeparture == pc = "closed" => peer # "open"

\* A session only moves forward (handshake to status or login, login to
\* play), has a name and a UUID exactly in play, and both are then fixed.
SessionForward ==
  [][ /\ conn'.state # conn.state =>
           <<conn.state, conn'.state>> \in {<<STATE_HANDSHAKING, STATE_STATUS>>,
             <<STATE_HANDSHAKING, STATE_LOGIN>>, <<STATE_LOGIN, STATE_PLAY>>}
      /\ conn.player_name # NULL =>
           <<conn'.player_name, conn'.uuid>> = <<conn.player_name, conn.uuid>>
      /\ (conn'.state = STATE_PLAY) = (conn'.player_name # NULL /\ conn'.uuid # NULL)
    ]_vars

\* Reference: the kinds of the packets of one login, in order.
LoginKinds ==
  <<"login_success", "login_play", "keep_alive", "player_info">>
    \o [i \in 1 .. 9 |-> "chunk"] \o <<"chunk_center", "game_event", "player_position">>

\* A client gets answers to status requests and pings, or the packets of one
\* login, as far as its socket takes them: in their order, none twice, whatever
\* else the client sends, and with the name and the UUID that the connection
\* stores, also where the tab list's are worked out anew (packet.c:65-88,
\* login.c:141-166, 286-310, 412-436).
LoginOnce ==
  \/ \A i \in DOMAIN sent : sent[i][1] \in {"status_response", "pong"}
  \/ /\ Len(sent) <= Len(LoginKinds)
     /\ \A i \in DOMAIN sent :
          /\ sent[i][1] = LoginKinds[i]
          /\ LoginKinds[i] \in {"login_success", "player_info"} =>
               sent[i] = <<LoginKinds[i], conn.uuid, CString(conn.player_name)>>

\* "must be after the chunks" (login.c:429): a client that is told to wait for
\* its chunks has been sent all nine, also when its socket fails on the way.
ChunksBeforeEvent ==
  \A i \in DOMAIN sent : sent[i][1] = "game_event" =>
    {<<"chunk", x, z>> : x, z \in -1 .. 1} \subseteq {sent[j] : j \in 1 .. i - 1}

\* No handler faults.
NoFault == pc # "fault"

\* The frame at the head of in_buf as the client has sent it: its stream, cut
\* at the frame's end, behind the length.
AsSent ==
  [data |-> SubSeq(stream, 1, Min({Len(stream), done + FrameEnd - conn.buf.offset})),
   capacity |-> 0, offset |-> done + Prefix.buf.offset - conn.buf.offset, error |-> FALSE]

\* The string that a handshake or a login has behind its other fields.
StringOf(frame) ==
  LET id == read_varint[frame]
  IN  read_string[IF conn.state = STATE_HANDSHAKING THEN read_varint[id.buf].buf ELSE id.buf]

\* A handler faults only on a frame whose string the client has announced with
\* a negative length or has not put into it: never on a sound frame that is
\* still arriving, that follows one a handler read beyond, or that was moved
\* in in_buf (packet.c:65-73, varint.c:62-72).
FaultsOnBadString == pc = "fault" => ~StringOf(AsSent).ptr \/ StringOf(AsSent).len < 0

\* Every frame that is complete in the stream of a client that stays is
\* handled at last: no wake-up of the edge-triggered socket is lost.
FramesHandled == <>[](Live => done = Max(Ends[stream]))

\* A client that leaves has its connection freed, unless its departure hits
\* a send that ends the process.
DepartureNoticed == (peer # "open") ~> ~Live

\* "Invalid next_state: %d, disconnecting" (handshake.c:38).
RefusedIsClosed == refused ~> pc = "closed"

\* "Read out" (main.c:88): the recv loop ends when the socket is empty.
ReadOut == [][pc = "recv" /\ pc' = "parse" => net = << >>]_vars
=============================================================================
