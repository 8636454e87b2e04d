# A TLA+ verification project for cmcs

cmcs is a small Minecraft server in C: one thread, one `epoll` loop, an input
buffer for each client and handlers that answer its packets.  This directory
holds TLA+ modules that model it, TLC configurations that check them, and
theorems about them that TLAPS proves.  Line numbers are those of the files in
the repository (`main.c`, `network/`, `misc/`, `include/`).

## 1. The system

| Component | State | Operations | Talks to |
| --- | --- | --- | --- |
| Event loop, `main.c` | epoll set, `client_connection` of each client | accept, disconnect and free, `process_client_packets` | kernel sockets, everything below |
| Connection input, `main.c:71-135` | `in_buf` | recv loop, frame loop, "force align", compaction | netbuf, packet handlers |
| Byte buffer and codec, `netbuf.c`, `varint.c` | `data`, `size`, `capacity`, `offset`, `error` | expand, compact, readers, writers, `netbuf_send` | used by everything |
| Packet handlers, `packet.c`, `handshake.c` | `state`, `player_name`, `uuid` of the connection | `handle_packet` and four handlers | codec, login, `netbuf_send` |
| Login and world, `login.c` | none of its own | the sixteen packets of a login (success, play, fourteen of world loading) | codec, NBT writer, `netbuf_send` |
| NBT, `nbt.c` | none | tag writers, a debug dump | codec |
| Startup and shutdown, `main.c`, `logger.c` | log file, `g_server_fd` | signal handler, `plog_init`, `plog`, `plog_close` | all |
| UUID helpers, `uuid.c` | none | parse, unparse, print (not called by the program) | none |
| Registry data, `codec_data.h` | a constant byte array | none | login |

What makes it hard:

* **The byte stream.**  TCP cuts the client's stream anywhere.  The frame loop
  parses an incomplete frame again at each arrival, after moving what is left
  to the front of the buffer.
* **Edge-triggered events** (`EPOLLET`, `main.c:167`).  A wake-up that leaves
  bytes in the socket, or complete frames in `in_buf`, is not repeated.
* **One error flag** (`netbuf.error`) for a failed read, an incomplete prefix,
  a refused handshake and a failed `realloc`, read by the recv loop and by the
  frame loop, which interpret it differently.
* **Handlers read up to the end of the buffer**, not of their packet, and do
  not report failure: the loop re-aligns after each one.
* **Signed lengths** from the wire, cast to or added to `size_t`.
* **Departures at any time**: a FIN or an RST between two of the sixteen sends
  of a login, or with requests unread.
* **Sends on the thread of the loop**: `netbuf_send` spins on `EAGAIN`, and
  `SIGPIPE` is not ignored.
* **One thread for all**: a batch of events is worked off with pointers taken
  before; whoever disconnects is freed in the middle of it, and `accept` may
  allocate at the same address.
* **Signals** at any instruction, whose handler logs, closes the log and exits.
* **Cut-off and foreign data** in the NBT dump and the UUID parser.

What makes each part correct: the frames handled are the frames the client sent,
each once and in order; the buffer's three numbers never cross; every complete
frame is handled at last; a session only moves forward; what a client is sent
agrees with its session; a client is hung up on only when it has left, and then
is freed; every client is served as if it had the server alone; sockets and
structures correspond; packets arrive whole and in order; finished log lines
survive; what is written as NBT or as a UUID's text is read back.
`PROJECT.json` lists each hazard at its line with the properties that are about
it.

## 2. Modules

```
Netbuf ─┬─ Packets ─┬─ Connection ─┬─ MCConnection
        │           └─ Requests ───┤
        │                          └─ Serving ─┬─ MCServing ─ ─> Session
        │                                      │   (INSTANCE, refinement)
        ├─ NetbufLemmas ───────────────────────┴─ ConnectionProofs
        │        ├───────────── CodecProofs
        │        └───────────── OutboundProofs
        ├─ MCCodec ──────────── CodecProofs
        └─ Outbound ── Delivery ─┬─ OutboundProofs
                                 └─ MCOutbound ─ ─ ─ ─ ─ ─ ─ ─> Mailbox
EventLoop ── Service ─┬─ EventLoopProofs
                      └─ MCEventLoop ─ ─ ─ ─ ─ ─ ─ ─ ─ ─ ─ ─ ─> Hub
Shutdown ──── ShutdownProofs
Nbt ─┬─ Registry ── MCNbt         Uuid ─┬─ MCUuid
     └─ NbtProofs                       └─ UuidProofs
```

* **Netbuf**: `netbuf.c` and `varint.c`.  A netbuf is the record `[data,
  capacity, offset, error]`; the C field `size` is `Len(data)`.  A reader is a
  function from a netbuf to the netbuf it leaves and its value.  `netbuf_expand`
  and `write_byte` yield the set of possible results (`realloc` may fail).  The
  other writers are the bytes they append.
* **Packets**: `handle_packet` and everything below it.  A handler maps a
  connection to the connection it leaves, the packets it passes to
  `netbuf_send` in order, whether it logged that it disconnects, and whether it
  faults.
* **Connection**: one client from its accept on, as a state machine, byte by
  byte.
* **Session**: the abstract specification.  There are no bytes, buffers,
  segments or wake-ups, only requests served one at a time, in order, each in
  the phase its predecessors led to.
* **Requests**: what a client sends that speaks the protocol, as a client of any
  make would: its requests, the frame of each, the stream of a dialogue, and
  which request belongs in which state (`Speaks`).
* **Serving** is the refinement mapping from Connection to Session, for clients
  that stay and whose streams are dialogues (`Stays`).
* **EventLoop**: all clients together, at the grain of whole requests.
* **Hub**: its abstract specification, every client with a server of its own.
  **Service** is the refinement mapping; its constant `Owed` is the answers to
  each client's first requests, one after the other, which spares the proofs a
  recursive definition (`OwedAssumption`).
* **Outbound**: one packet after the other on its way out, byte by byte.
* **Mailbox**: its abstract specification, packets delivered in order.
  **Delivery** is the refinement mapping: the packets a client finds in the bytes
  it has read (`Frames`).
* **Shutdown**: `main`, the signal handlers and the logger.
* **Nbt**, **Registry**: the NBT writers, the debug dump, and the calls of
  `write_minimal_registry`.  **Uuid**: generation, text and parsing of UUIDs.
* **MC...**: the instances TLC checks.
* **NetbufLemmas** (the codec and the buffer), **CodecProofs**,
  **ConnectionProofs** (buffer, byte stream, session, refinement), **OutboundProofs**,
  **EventLoopProofs** (with the refinement of Hub), **ShutdownProofs**,
  **NbtProofs**, **UuidProofs**: the lemmas and theorems.

How they compose.  Connection is the inside of one connection and leaves out
that the thread serves others; EventLoop is the outside of all of them and
leaves out the bytes; Outbound is the inside of one `netbuf_send` of either.
EventLoop takes from Connection that a wake-up reads the socket to its end and
handles every complete request (`FramesHandled` there, `RecvAgain` and `Serve`
here), from Packets how many packets a request is answered with (`Script`), and
from Outbound that a packet a client is told of is a whole frame.  Shutdown's
event loop is a thread that logs; the `SIGPIPE` of EventLoop is its `Killed`.

An operator whose name is a definition's with a suffix (`FrameComplete_Early`,
`ReadGroups_Partial`, ...) and whose comment begins with "Mutant" is a
deliberately wrong variant of that definition.  No specification uses it; put in
the place of the definition, it makes TLC report the property that guards it.

### Connection and the code

| Variable or action | Code |
| --- | --- |
| `conn` | `client_connection` (`protocol.h`), with `in_buf` |
| `net`, `edge`, `peer` | the kernel's receive queue, epoll's pending report, the state of the peer's socket (external) |
| `pc` | where the thread is with this connection: in `epoll_wait`, the recv loop, the frame loop, or a handler's sends |
| `sendq` | the packets the running handler has still to send |
| `stream`, `sent`, `done`, `refused` | history only: no guard reads them |
| `PollDisconnect`, `PollReadable`, `PollNothing` | `run_epoll_loop`, `main.c:173-195`, and `epoll_wait` dropping an event with nothing behind it |
| `RecvBytes`, `RecvAgain`, `RecvBreak`, `RecvEnd` | one iteration of the recv loop, `main.c:75-98`, each with the expansion at its top |
| `FrameIncomplete`, `HandleFrame`, `HandlerFaults` | one iteration of the frame loop, `main.c:100-125` |
| `Send` | one `netbuf_send` (its bytes are abstracted), `netbuf.c:92-116` |
| `NextFrame` | the loop's condition and the final `netbuf_compact`, `main.c:127-132` |
| `Deliver`, `Shut`, `Reset` | the client and TCP (external) |

Modelling choices that a reader should know:

* A handler's state changes take place in one step (`HandleFrame`), and its
  sends then go out one by one (`Send`).  Between two sends the client may leave
  or send more; the handlers read no state that this changes.
* A send succeeds while the peer's socket lives: the client reads what it is
  sent, so `netbuf_send` does not spin.  The first send after a reset fails and
  consumes the socket's error; a send on a broken socket raises `SIGPIPE`,
  which ends the process (`pc = "killed"`).
* Where the code runs a `memcpy` from `NULL` or of a negative length, the
  handler faults (`pc = "fault"`): the process ends.  This is the outcome on the
  platforms the server is built for; nothing after it is modelled.
* A stored name is its bytes, and the UUID is the first `UUID_BYTES` bytes of
  the C string; the constants the code then writes into the high nibbles of
  bytes 6 and 8 are left out.
* The contents of the packets sent are abstracted to their kind and to the
  fields that depend on the connection.

### EventLoop and the code

| Variable or action | Code |
| --- | --- |
| `sock`, `peer`, `net`, `backlog` | the kernel's side of each connection (external) |
| `limit` | how many client sockets the process may have open (its `RLIMIT_NOFILE`); any of `Limits`, and fixed |
| `ready` | epoll's ready list: a wake-up puts a socket on it once; the level-triggered listening socket goes back on it when it is reported, the edge-triggered clients do not |
| `batch` | what is left of the array `events`, with the pointer and the mask each had when it was collected |
| `watch`, `heap` | `ev.data.ptr` of `EPOLL_CTL_ADD`; the `client_connection` at each address `malloc` may return |
| `Collect`, `Discard`, `PollReturns`, `PollAgain` | `epoll_wait`, and the loop around it |
| `Accept`, `AcceptFails` | `main.c:149-171`: one accept for a report, allocation, `EPOLL_CTL_ADD` (which looks at once for what has arrived); `EMFILE` |
| `DisconnectEvent`, `Close` | `main.c:177-193`: `EPOLL_CTL_DEL`, `close`, `free` |
| `Process`, `Recv`, `RecvAgain`, `RecvEnd`, `Serve`, `EventDone` | `process_client_packets` |
| `SendTaken`, `SendFails`, `SendKills`, `HandlerReturns` | one `netbuf_send` each; while the client's window is full no step of the thread is enabled, which is the spin of `netbuf.c:109` |

`malloc` may reuse an address at once, and `Collect` may run while clients act, so
that a batch can be old when it is used.  A client's connect, requests, reads
and departure interleave with every step of the thread.  The names, the state
and the UUID of a connection are Connection's matter.

### Outbound and the code

`NewPacket` is a sender's `netbuf_new` with its first size, `WriteByte` one
`write_byte`, whose failure no writer looks at; `Wrap`, `WriteHeader`, `Copy`,
`SendSome`, `SendFails`, `SendKills` and `Sent` are `netbuf_send`.  `wire` is the
kernel's send buffer.  `SendSome` takes any part of the rest that fits; with no
room it is disabled, which is the `EAGAIN` loop (`netbuf.c:109`).

Any other error of `send` makes the code print it and leave the loop, perhaps
in the middle of a frame (`netbuf.c:110-111`); its caller frees the packet and
goes on with the next one, as `SendFails` does.  What must not happen is that the
next frame reaches the client behind the piece of this one.  TCP reports
such errors only of a connection that is lost (`Reset`: the client has reset it,
or retransmission has timed out): `send` takes nothing any more, the first one
returns the error and consumes it, the next raises `SIGPIPE` (`SendKills`).  What
had reached the client before may still be read.  `SendFails_OnEagain` is the bug
this is about: an error branch taken while the connection lives.

A `malloc` that fails (`netbuf_new` returns what it cannot use) is not modelled.

### Shutdown and the code

`frames` is the call stack: `main` at the bottom, on it the handlers that have
interrupted it, of which only the top one runs.  A handler never returns (it
calls `exit`), so frames are only added.  `plog` is split at its library calls:
`localtime` (two steps, because glibc holds a lock in between that is not
recursive), the test of `log_file`, three writes, the `fflush`.  `plog_close` is
split at its test, `fclose` and the reset of the pointer.  A call of `fprintf` or
`fflush` is one step: stdio's own lock is recursive for the one thread, and what
a handler finds inside such a call is left out.  The stream may write out its
buffer at any write.  Writing to, flushing or closing a closed `FILE` is
undefined: the process crashes, or nothing comes of it.  The copy of each line on
standard output is left out.  `Killed` is a `SIGKILL` or `SIGPIPE`: what the
stream held is lost, and what the file has stays.

### Nbt, Registry, Uuid and the code

`Write` is one writer call; the bytes it appends are those of `nbt.c:10-94`,
header, name, big-endian payload.  The recursion of `dbg_parse_tag` is the
variable `stack`, one entry for each call that is inside a compound or list, and
an action for each way round one of its loops.  What it prints is `lines`: depth,
type, name and value, without their wording.  A float or double is its bits.
`open` and `outline` are the reference, computed from the calls alone.  Registry
is the sequence of calls of `write_minimal_registry`, with one name and one value
of each type; the program sends a stored copy of the bytes instead
(`codec_data.h`) and does not call it.

`Unparse` and `ParseDash`, `ParseByte` are one iteration each of `uuid_unparse`
and `uuid_parse`, with their indices.  A character is a digit's value, the dash,
the NUL or another character.  `rand()` is any of the values given.

## 3. Runs

The instances of Netbuf's modules use narrow bytes: `GROUP = 2` payload bits and a continuation bit
(7 and `0x80` in the code), a varint of 5 bits in at most 3 bytes, a varlong of
7 bits in at most 4.  As in the code, the last group is cut by the width, the
longest varint has bits to spare, and negative values exist.

| Run | Instance | What it shows |
| --- | --- | --- |
| `dialogues` | five dialogues (status, login, unknown packets between, an empty name, a name with a NUL, a negative ping, a refused handshake), every segmentation | the connection implements `Session`, serves every request, does not fault, keeps its types |
| `ragged` | a handshake and every tail of up to three bytes from {0, 1, 2, 5, 7}, and nine streams whose handlers read too little, too far or a negative length, or that hold a second login, an empty frame or a frame that never ends | the loop stays on the client's frame boundaries (`FramesAligned`), `SessionForward`; `FaultsOnBadString`: only a frame whose own string is not whole, or has a negative length, makes a handler fault; `FramesHandled`: no complete frame is left lying |
| `departures` | two pipelined streams, a login, a status dialogue, two logins in one stream and a handshake that reads on into the next frame, whose client half-closes or resets at any point; `INIT_CAPACITY = 4`, `MIN_SPACE = 2`, `realloc` may fail each time | `BufferSound`, `NoByteLost` and `HangsUpOnlyOnDeparture` while `in_buf` grows; `LoginOnce`, `ChunksBeforeEvent` (`login.c:429`), `DepartureNoticed` |
| `codec` | every byte sequence of up to five bytes, arriving one by one | `PrefixStable`, `Canonical` |
| `refused` | the dialogues | violated: see finding 1 |
| `stale_error` | two pipelined dialogues, `INIT_CAPACITY = 12`, `MIN_SPACE = 3` | violated: see finding 2 |
| `loop_pair` | two clients, one with a two-packet answer that need not read it, one with an unanswered request and a one-packet one; FIN and RST at any point; batches of two; one descriptor or two | the loop implements `Hub`, types; `LoopReturns`: a client that stops reading, or `SIGPIPE`, is all that can halt the thread; `StayersAnswered`, `DepartureFreed`, `AcceptedAtLast`, also for the client that finds no descriptor left, while it does not |
| `loop_trio` | three clients, two descriptors, batches of three, half-closes | `BatchSound`, `OneStructureEach`: no event leads to a freed or reused structure, none leaks |
| `outbound` | four packets in first buffers of one to sixteen bytes, through a send buffer of four; `realloc` may fail each time, the connection may be lost at any point | implements `Mailbox`; `WrapperFits`, `PacketSound`, types; `AllDelivered` while the connection is not lost |
| `shutdown` | two signals, two lines of the event loop, a kill at any point | `LinesWhole`, `ClosedUnused`, `ShutdownLogged`, types; `StopsOrDeadlocks`: only `localtime` keeps a handler from its exit |
| `nbt` | `write_minimal_registry` with its 46 damage types, and 4710 well-nested call sequences up to two levels deep; every sequence of up to five of the seven bytes that matter most | `RoundTrip`; `PosInside`, `DumpEnds` |
| `uuid` | 337 UUIDs of 16 bytes, 81 of them generated; 19683 texts | `ParsesBack`; `Filled` |

Bounds, and why they are enough:

* The streams are the bound on everything else: `net`, `in_buf`, `sent` and
  `done` cannot exceed what the stream allows, so no counter needs a cap.  They
  hold up to three pipelined frames after the first, which is one frame behind
  another in the same buffer, one split by the end of the data, and one that
  starts after a compaction.
* The tails of `ragged` contain a byte with each role: a zero length, lengths
  that are met and not met, a continuation byte with and without bits, a
  negative varint and one of too many bytes (`7, 7, 1` and `7, 7, 7`).
* `INIT_CAPACITY = 24` holds each stream of `dialogues` and `ragged` with
  `MIN_SPACE` to spare, so that the recv loop does not expand there.  This is
  deliberate: with growth, finding 2 may delay frames until the client sends
  again, and `EventuallyServed` and `FramesHandled` do not hold.  In the code the
  same limit is 4096 - 128 buffered bytes.  `departures` and `stale_error` cover
  the other side.
* `codec` goes two bytes beyond the longest varint.
* In EventLoop each client sends one or two requests, of zero, one or two
  packets, which is what its steps distinguish.  `WINDOW = 1` makes a second
  packet wait for the reader.  `MAX_EVENTS` of two and three give batches that
  hold some events, and an event of every open socket with the listening
  socket's; a `limit` below the number of clients makes accept fail (one of the two
  of `loop_pair`, and `loop_trio`), and `Addresses` as many as clients lets `malloc` choose, a freed address
  included.  `loop_trio` leaves resets and liveness out to stay within minutes;
  `loop_pair` has them.
* In Outbound the packets are shorter than, equal to and longer than their first
  buffers; one outgrows its buffer twice and takes a header of two bytes, one is empty;
  the send buffer is smaller than most frames, so that sends are partial.
* Shutdown's signals are raised once each (`raised`), which lets either interrupt
  the other's handler at every step.
* Nbt's bytes have 16 values, a short one byte, an int two, so that lengths
  reach beyond the end and below zero; names and strings are kept below half of
  a short's range (see section 6).  Two levels reach each pair of an outer and
  an inner container, and lists of zero, one and two elements.
* The UUIDs have their real size.  A text has a digit, a dash or another character
  at each of its first eight places, and one of the three at all others: that
  reaches both ends of the parser's loop, at an even and at an odd place.

`CHECK_DEADLOCK FALSE` is given in each run because the modelled system really
may stop: a connection or a server whose clients have sent everything waits for
ever, a killed or ended process does nothing, and a dump, a parse or a list of
packets ends.

**Fairness.**  Connection's `FairSpec` assumes weak fairness of `Server`: the
process has one thread, every one of its steps stays enabled until it is taken,
and nothing blocks it, given the choice about sends above.  It assumes weak
fairness of `Deliver`: TCP delivers what a client that stays has written.
`Shut` and `Reset` are not fair, a client need never leave.  `Session` is
instantiated as a safety specification; `EventuallyServed` is its liveness
condition, checked under `FairSpec`.  EventLoop's assumes the thread (`Server`),
the requests each client has to send (`Ask`), and that `Readers` read; connects
and departures are not fair.  Outbound's assumes the thread and a client that
reads; losing the connection is not fair.  Shutdown's assumes the process; signals are not fair.  The dump and the
UUID loops are sequential: their step is fair.

## 4. Findings

1. **A refused handshake is not disconnected.**  `handshake.c:38` logs "Invalid
   next_state: %d, disconnecting".  Line 39 raises `in_buf->error` and returns
   1; the frame loop clears the flag before the next prefix (`main.c:102`) and
   nothing closes the socket.  The connection stays, and takes a further
   handshake.  Run `refused`.
2. **A stale error flag ends the recv loop.**  `main.c:79` breaks out when
   `in_buf.error` is set after an expansion.  The flag is also what an incomplete
   or absent prefix leaves behind, or a handler's failed read, because it is
   cleared only in the frame loop.  With fewer than 128 bytes of room, the next
   wake-up then expands successfully and breaks before `recv`, with bytes in an
   edge-triggered socket.  They are read when the client sends more.  Run
   `stale_error`.
Two more behaviours that may surprise are part of what passing runs say, as the
exceptions in their properties:

* **A client that resets ends the server.**  `netbuf.c:110` reports a failed send
  and goes on, but `SIGPIPE` is neither ignored nor handled and `send` is called
  without `MSG_NOSIGNAL`: a send on a socket whose error has been consumed, or
  whose peer reset after a half-close, ends the process for everyone.  `Halts` in
  EventLoop names this case (`pc = "killed"`) next to that of a client that stops
  reading (`netbuf.c:109`); `LoopReturns` says that there is no third.
* **A signal can hang the server.**  The handler logs first (`main.c:203`), and
  `plog` calls `localtime` (`logger.c:26`).  If the signal has interrupted
  `plog` inside `localtime`, the handler waits for a lock that the code under it
  holds.  `StopsOrDeadlocks` says that this is the only way, and `ClosedUnused`
  that the closed log file is used only in the window between `fclose` and the
  reset of the pointer (`logger.c:19-20`), which a second signal can hit.

Behaviours met while reading that no run is about: a half-close discards
requests that have arrived (`main.c:178`, modelled by `PollDisconnect`); a packet
without an id is taken for packet 0 because a failed read returns 0 (modelled); a
length prefix that is negative or too long is a frame that never arrives, and
the connection buffers behind it (modelled); an address of 256 bytes or more
leaves `server_address` unset, and it is only logged (not modelled).

## 5. Proofs

TLC checks the instances above.  TLAPS proves the following for every value of
the constants that satisfies the modules' named assumptions: in the codec,
Connection and Outbound every width (the code's 7, 32, 5, 64, 10 among them),
every stream or list of packets, every capacity, with `realloc` failing or not;
in EventLoop any number of clients, every script, batch size, window and limit
of descriptors; in Shutdown any number of logged lines; in Nbt every sequence of
bytes and every list of writer calls; in Uuid every length, dash position and
UUID.

Three assumptions are arithmetic, not conditions on the code:
`PowerAssumption` (`2^(n + 1) = 2 * 2^n` for the exponents of the codec),
`ShiftAssumption` and `WeightAssumption` (powers of Uuid's and Nbt's byte base
are positive).  The provers take a power with a variable exponent as an unknown
function; TLC evaluates the three for every instance.  `LengthAssumption`
(Delivery) is one about the packets: the length of each fits a positive varint,
below 2^31 bytes for the code's 32 bits.  `netbuf_send` casts a `size_t` to that
width (`netbuf.c:95`), and the longest packet of any sender is a few kilobytes.
`RequestsAssumption` is that the refused `next_state` used as an example is a
varint.  `DialoguesAssumption` says what a dialogue is: requests of the protocol,
each in a state in which the server answers or ignores it, in a frame whose
length is a positive varint.  There may be any number of dialogues, of any
length, with any names and payloads.

Two theorems have a hypothesis, `Stays` (Serving): clients do not leave, and each
stream is a dialogue.  They are false without it: a login whose name is cut short
or has a negative length, or a handshake whose address has one, faults
(`packet.c:72`, `handshake.c:20`), and a client that has left is sent nothing.
`MCServing` evaluates it for the streams of its runs (`ClientsStay`).

| Theorem | States |
| --- | --- |
| `ConnectionProofs!TypeCorrect` | `Spec => []TypeOK`: all variables, with the packets that wait and that are sent |
| `ConnectionProofs!BufferSafe` | `Spec => []BufferSound`: `offset <= size <= capacity` |
| `ConnectionProofs!HangsUpRightly` | `Spec => []HangsUpOnlyOnDeparture`: `recv` is never called without room |
| `ConnectionProofs!SessionMovesForward` | `Spec => SessionForward` |
| `ConnectionProofs!LoginIsOnce` | `Spec => []LoginOnce`: answers of the status phase, or the packets of one login in their order, with the name and UUID of the connection |
| `ConnectionProofs!ChunksComeFirst` | `Spec => []ChunksBeforeEvent` |
| `ConnectionProofs!StreamKept` | `Spec => []NoByteLost`: pending, kernel and unsent bytes are exactly the rest of the stream |
| `ConnectionProofs!FramesKept` | `Spec => []FramesAligned`: the frame loop stands at a boundary of the client's frames |
| `ConnectionProofs!NeverFaults` | `Stays` implies `Spec => []NoFault` |
| `ConnectionProofs!ServesInOrder` | `Stays` implies `Spec => ImplementsSession`: every step of Connection is a step of `Session` or a stutter |
| `CodecProofs!ReadOnce` | `Spec => PrefixStable`: a varint that has been read is never read differently |
| `CodecProofs!ReaderWriterAgree` | `Spec => []Canonical` |
| `CodecProofs!WrittenIsRead` | what `write_varint` writes, `read_varint` reads back to its end, for every value of the width |
| `EventLoopProofs!TypeCorrect` | `Spec => []TypeOK` |
| `EventLoopProofs!BatchIsSound` | `Spec => []BatchSound` |
| `EventLoopProofs!StructuresMatchSockets` | `Spec => []OneStructureEach` |
| `EventLoopProofs!EachAsIfAlone` | `Spec => ImplementsHub`: every step of EventLoop is a step of `Hub` or a stutter |
| `OutboundProofs!Delivers` | `Spec => ImplementsMailbox`: what the client finds in its bytes changes only by a step of `Mailbox`, wherever a frame is given up |
| `OutboundProofs!TypeCorrect` | `Spec => []TypeOK` |
| `OutboundProofs!FrameFits` | `Spec => []WrapperFits` |
| `OutboundProofs!PacketIsSound` | `Spec => []PacketSound` |
| `ShutdownProofs!TypeCorrect` | `Spec => []TypeOK` |
| `ShutdownProofs!ClosedIsUnused` | `Spec => []ClosedUnused` |
| `ShutdownProofs!LinesAreWhole` | `Spec => []LinesWhole` |
| `ShutdownProofs!ShutdownIsLogged` | `Spec => []ShutdownLogged` |
| `NbtProofs!StaysInside` | `Spec => []PosInside`: the dump stays in its bytes and its recursion is not deeper than what it has read |
| `UuidProofs!PrintedIsParsed` | `Spec => []ParsesBack` |

**First argument** (`ConnectionProofs`).  The inductive invariant is
`IInv == StateTyped /\ BufferSound /\ CapacityKept`, where `StateTyped` is `TypeOK`
without `sendq` and `sent`: what is in these is a matter of the sixth argument.

* `BufferSound` is not inductive without types (a recv appends at most
  `capacity - size` bytes only if that difference is a natural number).
* `CapacityKept` (`capacity >= INIT_CAPACITY > 0`) is needed because
  `netbuf_expand` doubles the capacity: the loop reaches what is needed only from
  a positive one.
* Every reader moves the offset forward, within the data, and changes no byte
  (`ReadGroupsInside`, `ReadStringInside`, ...), so the handlers do too
  (`HandlerLeaves`).  For `read_string` this is where the signed length matters:
  a negative length may move the offset back, but never below zero.
* `FrameInside`: the end of a complete frame is in the buffer and not before its
  start, so "force align" is sound.
* `RoomEnsured`: whenever the recv loop does not break out, there is room for
  `MIN_SPACE` bytes; hence `recv` returns 0 only for the end of the stream.

**Second argument** (`ConnectionProofs`, the stream).  `SInv == NoByteLost /\ done <=
Len(stream)` is inductive relative to `IInv`.  The lemmas on remainders
(`RestOfRest`, `RestOfConcat`) turn each step into a regrouping of the same
sequence: a delivery moves bytes from `unsent` to `net`, a recv from `net` to
`in_buf`, a handled frame from `in_buf` to the part already passed.
`FInv` adds that `done` is one of `FrameEnds(stream)`.  `HandledIsFrame` is its
step: what is pending is a stretch of the stream (`PendingInStream`), so a
prefix read from the buffer is what a read of the whole stream at that place
gives (`ReadSucceeds`), and the end of the frame there is the next element of
`FrameEnds` (`FrameEndsAre`), whatever the handler has read.

**Third argument** (`EventLoopProofs`).  Neither `BatchSound` nor
`OneStructureEach` is inductive: they do not say where an event's pointer comes
from.  The invariant adds that an open socket is watched with the address of a
structure of its own (`Watched`), that each structure belongs to an open socket
watched with its address (`Owned`), that the events of a batch are about open
sockets and carry the watched pointer (`BatchOpen`), each about another one
(`BatchDistinct`).  `BatchDistinct` is what makes `disconnect` safe: the socket
closed is that of the current event, so that no later one is about it (`CloseInv`).
`AtEvent`, `Waiting` and `Due` say that the thread is inside
`process_client_packets` only for a client's event, and that an event of the
listening socket finds a client in the backlog, once.  `AcceptInv` uses that
`malloc` returns an address without a structure, which by `Watched` no open
socket is watched with.

**Fourth argument** (`OutboundProofs`).  The invariant gives both buffers in full:
the packet's data is the prefix of its bytes of the length `offset`
(`PacketIs`), the wrapper's is the prefix of the header written so far, in a
capacity of the packet's size and `VARINT_BYTES` (`WrapperIs`).  `WriteAtEnd`
(`NetbufLemmas`) says what one `write_byte` at the end of a buffer may leave;
`EncodeLength` that a varint takes at most `VARINT_BYTES`, so that the wrapper
never grows, and no `realloc` can fail in it.  `Ended` and the last parts of
`PacketIs` say when a packet that is framed may be cut off: only where memory
fails, and behind its first buffer.

**Fifth argument** (`ShutdownProofs`).  None of the three is inductive.

* `StackShape`: `main` is the bottom frame, handlers are on it, and their line
  is their own.
* `PointerSound`: an open file has its pointer; a frame about to reset the
  pointer means the file is closed; pointer and closed file together mean that
  there is such a frame; and who is at a use of the closed file is above one.
  `ClosedUnused` is its last part; a handler that gets past the test of
  `log_file` (`MoveKeeps`) is where the third part is needed.
* `LoggedSound`: a closed file, and a frame past its plog, mean that a handler's
  line is written, unless `main` has failed to start.  The step of `Exit` makes
  `ShutdownLogged` of it.
* `Written`: up to three pieces at the end of disk and stream are the running
  plog's.  A handler pushed on top starts its own line and never returns, so
  what it interrupted has no claim any more; that is why lines stay unbroken.
  `FlushKeeps` makes `LinesWhole` of it for the new line, `WholeStays` for the
  old ones.

**Sixth argument** (`ConnectionProofs`, the session), relative to the first's `IInv`.
`HandlerAdvances` says what any handler may do to a session, whatever bytes it
reads: leave it, and answer only in the status state; end the handshake; or log
in, with the sixteen packets of `LoginPackets`.  `SessionMovesForward` follows from
it and `Named` (name and UUID are `NULL` except in play).  The others are not
inductive: they speak of `sent` only.

* `Silent`, `Answering`, `LoggingIn`: what a client has been told, by the phase it
  is in: nothing, answers of the status phase, or the packets of one login as far
  as they have gone out.  That a second login sends nothing is that a session in
  play only leaves its state.
* `Behindhand`: what waits in `sendq` is the rest of the login.  It is claimed
  only while sends succeed (`peer` is open or shut): the moment one is lost,
  nothing more is sent, and `sent` keeps what it had.
* `Idle`: nothing waits outside a handler's sends, so that a login starts with an
  empty `sendq`; `Queues` and the first argument give `TypeCorrect`.
* `LoginSequence` computes where the login packet, the nine chunks and the game
  event are among the sixteen packets of `login.c`.

**Seventh argument** (`EventLoopProofs`, the refinement), relative to the third's
`IInv`.

* `InStep` ties the two ends of a request together.  Of the `a` requests of a
  client the last ones are in the kernel, the ones before them in the buffer, and
  the first `d` went to a handler; what these are owed is what the client was
  told, and after it what the running handler has still to send.  It is claimed of
  clients that can still be sent something.  `AskStands`, `RecvStands`,
  `ServeStands` and `SendStands` are the four ways it goes on.
* `Grown`: what is owed for fewer requests is a prefix of what is owed for more.
  That this is so for all numbers would need induction; that it is so up to
  `asked` is an invariant, each `Ask` adding one.
* `GoneLeft`: an event's report of a departure is still true when it is used,
  which is `Hub`'s guard of `Drop`.

`Connect`, `Ask`, `Leave`, `Accept`, `SendTaken` and `Close` are the steps a client
sees; all others are stutters (`Stutter`).

**Eighth argument** (`NetbufLemmas`, `CodecProofs`).  A varint's value is a sum
over its groups, defined by recursion; its facts are proved for each place up to
the last by `Induction`, which takes a set of numbers and rests on the least
element of its complement.

* `SumBounded`, `SumOfGroups`: the sum of the first `k` groups is below
  `2^(GROUP * k)`, and the groups of `u` sum to `u`'s remainder by it.
* `EncodeIs` gives the bytes of a value, `DecodeOfEncode` reads them back:
  the last group is cut by the width, and the value is signed again.
* `Takes` names the bytes a read takes.  They stay the same when more arrive
  behind them (`TakesLess`), and the outcome depends on them alone
  (`ReadingIs`): together `ReadOnce`.

**Ninth argument** (`NbtProofs`).  `IInv == Typed /\ Len(stack) <= pos /\
ListsPaid`.  That a call is no deeper than what has been read is not inductive:
a compound inside a list costs no byte of its own.  `ListsPaid` says that a list
that may still read an element has a byte to spare, because its type and its
count took more than the one byte that its own call accounts for; when the data
have ended no element is entered.  `StringRead` is where a length counts as signed: a negative
one fails the comparison with the rest and is not followed.

**Tenth argument** (`UuidProofs`).  `Start` and `Digits` give the place of each
byte in the text in closed form, from the number of dashes before it
(`DashesBefore`).  `Unparsing` says that the text up to there is written and that
its digits are those of the bytes, `Parsing` that the bytes up to there are read
back; the loops walk these places one by one.  `DigitsInside` is why the parser's
loop, which may also end at the end of the text, ends only at the last byte of a
printed UUID.  Texts that end before 36 characters are outside the model.

**Eleventh argument** (`OutboundProofs`, the refinement), relative to the fourth's
`IInv`.  `Frames` is a recursion over the client's bytes, and a byte more could
change all of it.  The invariant `DInv` therefore speaks of a whole stream: `Out`,
what the client has read, what the kernel holds and what it has not yet
taken of the current frame, as long as the connection lives; once it is lost, the
stream as it was then, of which the bytes sent are a beginning (`Stands`).  Nothing
is sent any more then, so that a frame given up never has another behind it.

* `Told`: the stream is the frames of some packets `ps`, each a packet of `Posted` in
  full or cut where memory failed (`Cut`), and the client has the first `k` of them
  whole (`WholeIn`).  Only `Copy` on a living
  connection makes it longer (`CopyTells`, `ToldGrows`);
  `SendSome` and `ClientReads` move bytes inside it; with a byte more the client
  has `k` or `k + 1` (`ToldRead`).
* `FrameRead`: where the bytes go on with a frame, it is found if all of it is
  there, and no other is found before, whichever byte is the last.  Here
  `WrittenIsRead`'s lemmas meet the reader's.
* `FramesArePackets`: hence `Frames` of the first bytes of a stream is the first
  `k` packets, by induction over the frames from the last to the first.
* `DeliversNext` makes the step from `k` to `k + 1` a `Deliver`; all other steps
  are stutters.

**Twelfth argument** (`NetbufLemmas`, `ConnectionProofs`, the refinement of
`Session`), relative to the first's `IInv` and the second's `SInv`.  `NoFault` and
`ImplementsSession` both need to know that each frame handled is a request of the
dialogue, handled in the state it belongs in.  `TInv` says so: `done` is the place
where the first `k` frames end (`Places`), and `state` is where the first `k`
requests lead (`Course`).  No recursion over the dialogue is needed, as a step
takes `k` to `k + 1`.

* `Ahead(b, s)`: the bytes `s` are next in the buffer `b`.  A reader then returns
  what the writer was given, and what was behind is next (`VarintAhead`,
  `VarlongAhead`, `UshortAhead`, `StringAhead`, by the eighth argument's lemmas).
* `FrameHere`: at a complete frame the bytes announced are those of the next
  request's frame, because pending bytes are a stretch of the stream; so its body
  is next in what the handler gets, and `done` will be at the next place.
* `HandlerServes`: with a request's body next and the state it belongs in, the
  handler leaves the state it leads to and replies with what `Session` says.  The
  handshake, the ping and the login each have a lemma of their own.
* `StepStands` makes `TInv` inductive: what faults needs another body or another
  state.
* `SessionStep`: the frame handled takes the head of `Session`'s inbox, and
  `Answers` of the packets sent and waiting grows by the answer due, and no more:
  of the sixteen packets of a login only `login_success` answers
  (`LoginSequence`).  All other steps are stutters; `Send` moves a packet from one
  half of `sent \o sendq` to the other (`SentOne`).

The buffer may grow and its `realloc` fail here, and a stale error flag may delay
the reading (finding 2): none of it changes what is served, only when, which is
why `EventuallyServed` is a matter of the run's capacity and this theorem is not.

**Only model-checked:** liveness and everything under fairness
(`EventuallyServed`, `FramesHandled`, `DepartureNoticed` and their like), which
the provers do not reach; `FaultsOnBadString` of Connection; `RoundTrip` of Nbt,
whose reference is computed from the calls by recursion over an outline, and the
proof would be an induction over it; `Filled` of Uuid, a statement that the loops
end.

## 6. Not modelled, and why

* The socket calls of `start_server` one by one: straight-line code whose
  failure of any ends the process; Shutdown has it as one step that succeeds or
  fails.
* `codec_data.h`: constant bytes that `login.c:195` writes one by one.  Their
  structure is that of `write_minimal_registry`, which Registry models.
* The fields of the packets sent, beyond their kind and what depends on the
  connection: constants in straight-line writers of `login.c`.
* `nbt_write_short` and `nbt_write_long`, which `nbt.h` declares and no file
  defines; `uuid_copy`, an assignment of 16 bytes.
* NBT strings of 32768 characters or more: the writer stores the length as
  `uint16_t`, the reader takes it as `int16_t`, so `RoundTrip` does not hold there.
  No caller writes such a string.
* `malloc` that returns `NULL`: the code uses the result unasked.
* A signal inside a single stdio call, where the stream's own state is
  undefined to a handler.
* Log texts and levels.

## 7. Plan

Built so far: everything in section 2.  What a next step would add:

* The fields of the world packets (`login.c:160-420`), with `Outbound` as their
  carrier.
* A proof of NBT's `RoundTrip`, with an invariant that relates the bytes read so
  far to the calls that wrote them.
