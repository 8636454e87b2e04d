----------------------------- MODULE EventLoop ------------------------------
(***************************************************************************)
(* run_epoll_loop (main.c) with several clients: one thread, the ready     *)
(* list of epoll, the batch of events one epoll_wait returns, the          *)
(* client_connection structures its pointers lead to, accept, and sends    *)
(* that wait for the client.                                               *)
(*                                                                         *)
(* What Connection says of one client byte by byte is taken at the grain   *)
(* of whole requests here: Script[c][i] is the number of packets that the  *)
(* handler of the i-th request of client c sends.                          *)
(***************************************************************************)
EXTENDS Integers, Sequences, FiniteSets

CONSTANTS Clients,
          Script,       \* for each client the packets each of its requests is answered with
          Departures,   \* how a client may leave: a subset of {"shut", "reset"}
          Readers,      \* the clients that read what they are sent
          Addresses,    \* where malloc may put a client_connection
          WINDOW,       \* packets the kernel takes for a client that does not read
          MAX_EVENTS,   \* events epoll_wait returns at most: 64
          Limits,       \* how many client sockets the process may get to open
          LISTENER,     \* server_fd
          NULL          \* the C null pointer, and a freed structure

\* A request is known by its client and its number, a packet by its request
\* and its number too.
Requests == {r \in Clients \X Nat : r[2] \in DOMAIN Script[r[1]]}
Answers  == Clients \X Nat \X Nat

\* What client_connection keeps here, and an element of the array events.
Structures == [socket : Clients, in_buf : Seq(Requests)]
Events == [for : Clients \cup {LISTENER}, ptr : Addresses \cup {NULL}, gone : BOOLEAN]

ASSUME EventLoopAssumption ==
  /\ Script \in [Clients -> Seq(Nat)]
  /\ Departures \subseteq {"shut", "reset"} /\ Readers \subseteq Clients
  /\ {WINDOW, MAX_EVENTS} \subseteq Nat \ {0} /\ Limits \subseteq Nat \ {0}
  /\ IsFiniteSet(Clients) /\ IsFiniteSet(Addresses)
  /\ LISTENER \notin Clients /\ NULL \notin Addresses \cup Clients /\ NULL \notin Structures

VARIABLES
  limit,    \* client sockets the process may have open: its RLIMIT_NOFILE
  sock,     \* "none", "backlog" (not accepted), "open", "closed" by the server
  peer,     \* "open", "shut" (FIN), "reset" (RST, error pending), "broken"
  asked,    \* requests the client has sent
  net,      \* those in the kernel's receive queue
  told,     \* history: packets the socket has taken for the client
  read,     \* how many of them the client has read
  backlog,  \* clients waiting for accept
  ready,    \* epoll's ready list, LISTENER among it
  batch,    \* what is left of `events`, the current one first
  watch,    \* data.ptr that EPOLL_CTL_ADD gave epoll for the client
  heap,     \* the client_connection at each address
  pc,       \* where the thread is
  sendq     \* packets the running handler has still to send

clientVars == <<limit, sock, peer, asked, net, told, read, backlog>>
vars == <<clientVars, ready, batch, watch, heap, pc, sendq>>

Elements(s) == {s[i] : i \in DOMAIN s}
Open == {c \in Clients : sock[c] = "open"}

Init ==
  /\ limit \in Limits
  /\ sock = [c \in Clients |-> "none"] /\ peer = [c \in Clients |-> "open"]
  /\ asked = [c \in Clients |-> 0] /\ net = [c \in Clients |-> << >>]
  /\ told = [c \in Clients |-> << >>] /\ read = [c \in Clients |-> 0]
  /\ backlog = << >> /\ ready = << >> /\ batch = << >>
  /\ watch = [c \in Clients |-> NULL] /\ heap = [a \in Addresses |-> NULL]
  /\ pc = "poll" /\ sendq = << >>

\* A wake-up puts a watched socket on the ready list, once.
Woken(x) == IF x \in Elements(ready) THEN ready ELSE Append(ready, x)
Wake(c)  == ready' = IF sock[c] = "open" THEN Woken(c) ELSE ready
-----------------------------------------------------------------------------
(* The clients and the kernel *)

Connect(c) ==
  /\ pc # "killed" /\ sock[c] = "none"
  /\ sock' = [sock EXCEPT ![c] = "backlog"]
  /\ backlog' = Append(backlog, c) /\ ready' = Woken(LISTENER)
  /\ UNCHANGED <<limit, peer, asked, net, told, read, batch, watch, heap, pc, sendq>>

Connected(c) == pc # "killed" /\ sock[c] \in {"backlog", "open"}

Ask(c) ==
  /\ Connected(c) /\ peer[c] = "open" /\ asked[c] < Len(Script[c])
  /\ asked' = [asked EXCEPT ![c] = @ + 1]
  /\ net' = [net EXCEPT ![c] = Append(@, <<c, asked[c] + 1>>)]
  /\ Wake(c)
  /\ UNCHANGED <<limit, sock, peer, told, read, backlog, batch, watch, heap, pc, sendq>>

Read(c) ==
  /\ Connected(c) /\ read[c] < Len(told[c])
  /\ read' = [read EXCEPT ![c] = @ + 1]
  /\ UNCHANGED <<limit, sock, peer, asked, net, told, backlog, ready, batch, watch, heap, pc,
                 sendq>>

\* A reset after the FIN leaves EPIPE as the socket's error at once.
Leave(c) ==
  /\ Connected(c)
  /\ \/ peer[c] = "open" /\ \E d \in Departures : peer' = [peer EXCEPT ![c] = d]
     \/ peer[c] = "shut" /\ "reset" \in Departures /\ peer' = [peer EXCEPT ![c] = "broken"]
  /\ Wake(c)
  /\ UNCHANGED <<limit, sock, asked, net, told, read, backlog, batch, watch, heap, pc, sendq>>
-----------------------------------------------------------------------------
(* epoll_wait *)

\* Whether epoll_wait finds an event when it looks at the socket.
Reportable(x) == IF x = LISTENER THEN backlog # << >>
                 ELSE sock[x] = "open" /\ (net[x] # << >> \/ peer[x] # "open")

Event(x) == [for |-> x, ptr |-> IF x = LISTENER THEN NULL ELSE watch[x],
             gone |-> x # LISTENER /\ peer[x] # "open"]

Collecting == /\ pc = "poll" /\ ready # << >> /\ Len(batch) < MAX_EVENTS
              /\ \A i \in DOMAIN batch : batch[i].for # Head(ready)

\* Mutant: the listening socket is edge-triggered too.
Collect_EdgeListener ==
  /\ Collecting /\ Reportable(Head(ready))
  /\ batch' = Append(batch, Event(Head(ready))) /\ ready' = Tail(ready)
  /\ UNCHANGED <<clientVars, watch, heap, pc, sendq>>

\* The listening socket is level-triggered and goes back on the ready list;
\* the client sockets are edge-triggered.
Collect ==
  /\ Collecting /\ Reportable(Head(ready))
  /\ batch' = Append(batch, Event(Head(ready)))
  /\ ready' = IF Head(ready) = LISTENER THEN Append(Tail(ready), LISTENER) ELSE Tail(ready)
  /\ UNCHANGED <<clientVars, watch, heap, pc, sendq>>

Discard ==
  /\ Collecting /\ ~Reportable(Head(ready))
  /\ ready' = Tail(ready)
  /\ UNCHANGED <<clientVars, batch, watch, heap, pc, sendq>>

PollReturns ==
  /\ pc = "poll" /\ batch # << >> /\ ~Collecting
  /\ pc' = "batch"
  /\ UNCHANGED <<clientVars, ready, batch, watch, heap, sendq>>

\* The for loop is through: back to epoll_wait.
PollAgain ==
  /\ pc = "batch" /\ batch = << >>
  /\ pc' = "poll"
  /\ UNCHANGED <<clientVars, ready, batch, watch, heap, sendq>>
-----------------------------------------------------------------------------
(* One event *)

AtListener == pc = "batch" /\ batch # << >> /\ Head(batch).for = LISTENER
AtClient   == pc = "batch" /\ batch # << >> /\ Head(batch).for # LISTENER

\* Mutant: the connection has no buffer.
Accept_NoBuffer ==
  /\ AtListener /\ Cardinality(Open) < limit
  /\ LET c == Head(backlog)
     IN  /\ \E a \in {x \in Addresses : heap[x] = NULL} :
              /\ heap' = [heap EXCEPT ![a] = [socket |-> c]]
              /\ watch' = [watch EXCEPT ![c] = a]
         /\ sock' = [sock EXCEPT ![c] = "open"] /\ ready' = Woken(c)
  /\ backlog' = Tail(backlog) /\ batch' = Tail(batch)
  /\ UNCHANGED <<limit, peer, asked, net, told, read, pc, sendq>>

\* The connection is initialised and added to epoll, which looks at once
\* whether the socket has something to report.
Accept ==
  /\ AtListener /\ Cardinality(Open) < limit
  /\ LET c == Head(backlog)
     IN  /\ \E a \in {x \in Addresses : heap[x] = NULL} :
              /\ heap' = [heap EXCEPT ![a] = [socket |-> c, in_buf |-> << >>]]
              /\ watch' = [watch EXCEPT ![c] = a]
         /\ sock' = [sock EXCEPT ![c] = "open"]
         /\ ready' = IF net[c] # << >> \/ peer[c] # "open" THEN Woken(c) ELSE ready
  /\ backlog' = Tail(backlog) /\ batch' = Tail(batch)
  /\ UNCHANGED <<limit, peer, asked, net, told, read, pc, sendq>>

\* Mutant: the structure is allocated before accept is known to succeed.
AcceptFails_Leaks ==
  /\ AtListener /\ Cardinality(Open) >= limit
  /\ batch' = Tail(batch)
  /\ \E a \in {x \in Addresses : heap[x] = NULL} :
       heap' = [heap EXCEPT ![a] = [socket |-> Head(backlog), in_buf |-> << >>]]
  /\ UNCHANGED <<clientVars, ready, watch, pc, sendq>>

\* No descriptor is left (EMFILE): the loop continues.
AcceptFails ==
  /\ AtListener /\ Cardinality(Open) >= limit
  /\ batch' = Tail(batch)
  /\ UNCHANGED <<clientVars, ready, watch, heap, pc, sendq>>

\* The connection of the current event, through the pointer it carries.
Ptr  == Head(batch).ptr
conn == heap[Ptr]

\* Mutant: the structure is freed, the socket stays open and watched.
Close_Unwatched ==
  /\ heap' = [heap EXCEPT ![Ptr] = NULL]
  /\ batch' = Tail(batch) /\ pc' = "batch"
  /\ UNCHANGED <<limit, sock, peer, asked, net, told, read, backlog, ready, watch, sendq>>

\* disconnect: EPOLL_CTL_DEL, close, free.  epoll forgets the socket: what the
\* ready list still holds of it is never reported.
Close ==
  /\ sock' = [sock EXCEPT ![conn.socket] = "closed"]
  /\ heap' = [heap EXCEPT ![Ptr] = NULL]
  /\ batch' = Tail(batch) /\ pc' = "batch"
  /\ UNCHANGED <<limit, peer, asked, net, told, read, backlog, ready, watch, sendq>>

\* Mutant: an event that reports a departure is passed over.
DisconnectEvent_Skipped ==
  /\ AtClient /\ Head(batch).gone /\ batch' = Tail(batch)
  /\ UNCHANGED <<clientVars, ready, watch, heap, pc, sendq>>

DisconnectEvent == AtClient /\ Head(batch).gone /\ Close

Process ==
  /\ AtClient /\ ~Head(batch).gone
  /\ pc' = "recv"
  /\ UNCHANGED <<clientVars, ready, batch, watch, heap, sendq>>

Recv ==
  /\ pc = "recv" /\ net[conn.socket] # << >>
  /\ heap' = [heap EXCEPT ![Ptr].in_buf = @ \o net[conn.socket]]
  /\ net' = [net EXCEPT ![conn.socket] = << >>]
  /\ UNCHANGED <<limit, sock, peer, asked, told, read, backlog, ready, batch, watch, pc, sendq>>

\* recv returns 0 or an error: the requests it has received are dropped.
RecvEnd ==
  /\ pc = "recv" /\ net[conn.socket] = << >> /\ peer[conn.socket] # "open"
  /\ Close

\* Mutant: the recv loop may end before the socket is empty.
RecvAgain_Undrained ==
  /\ pc = "recv" /\ peer[conn.socket] = "open"
  /\ pc' = "serve"
  /\ UNCHANGED <<clientVars, ready, batch, watch, heap, sendq>>

RecvAgain ==
  /\ pc = "recv" /\ net[conn.socket] = << >> /\ peer[conn.socket] = "open"
  /\ pc' = "serve"
  /\ UNCHANGED <<clientVars, ready, batch, watch, heap, sendq>>

\* The packets that answer the request <<c, i>>.
Packets(r) == [j \in 1 .. Script[r[1]][r[2]] |-> <<r[1], r[2], j>>]

\* Mutant: the frame is handled again.
Serve_Again ==
  /\ pc = "serve" /\ conn.in_buf # << >>
  /\ sendq' = Packets(Head(conn.in_buf))
  /\ pc' = "send"
  /\ UNCHANGED <<clientVars, ready, batch, watch, heap>>

Serve ==
  /\ pc = "serve" /\ conn.in_buf # << >>
  /\ sendq' = Packets(Head(conn.in_buf))
  /\ heap' = [heap EXCEPT ![Ptr].in_buf = Tail(@)]
  /\ pc' = "send"
  /\ UNCHANGED <<clientVars, ready, batch, watch>>

\* Every frame is handled: on to the next event.
EventDone ==
  /\ pc = "serve" /\ conn.in_buf = << >>
  /\ batch' = Tail(batch) /\ pc' = "batch"
  /\ UNCHANGED <<clientVars, ready, watch, heap, sendq>>

\* netbuf_send.  While the socket takes no more, the send loop runs on
\* (EAGAIN, continue) and nothing else does.
Sending(how) == pc = "send" /\ sendq # << >> /\ peer[conn.socket] \in how

SendTaken ==
  /\ Sending({"open", "shut"})
  /\ Len(told[conn.socket]) - read[conn.socket] < WINDOW
  /\ told' = [told EXCEPT ![conn.socket] = Append(@, Head(sendq))]
  /\ sendq' = Tail(sendq)
  /\ UNCHANGED <<limit, sock, peer, asked, net, read, backlog, ready, batch, watch, heap, pc>>

\* Mutant: a failed send is tried again.
SendFails_Retried ==
  /\ Sending({"reset"})
  /\ UNCHANGED vars

\* "send error": the rest of the packet is given up, and the error consumed.
SendFails ==
  /\ Sending({"reset"})
  /\ peer' = [peer EXCEPT ![conn.socket] = "broken"]
  /\ sendq' = Tail(sendq)
  /\ UNCHANGED <<limit, sock, asked, net, told, read, backlog, ready, batch, watch, heap, pc>>

\* A send on a broken socket raises SIGPIPE, which the process does not handle.
SendKills ==
  /\ Sending({"broken"})
  /\ pc' = "killed"
  /\ UNCHANGED <<clientVars, ready, batch, watch, heap, sendq>>

HandlerReturns ==
  /\ pc = "send" /\ sendq = << >>
  /\ pc' = "serve"
  /\ UNCHANGED <<clientVars, ready, batch, watch, heap, sendq>>
-----------------------------------------------------------------------------
Client(c) == Connect(c) \/ Ask(c) \/ Read(c) \/ Leave(c)
Server == \/ Collect \/ Discard \/ PollReturns \/ PollAgain
          \/ Accept \/ AcceptFails \/ DisconnectEvent \/ Process
          \/ Recv \/ RecvEnd \/ RecvAgain \/ Serve \/ EventDone
          \/ SendTaken \/ SendFails \/ SendKills \/ HandlerReturns

Next == Server \/ \E c \in Clients : Client(c)
Spec == Init /\ [][Next]_vars

\* The process is scheduled; what a client sends arrives; readers read.
FairSpec == /\ Spec /\ WF_vars(Server)
            /\ \A c \in Clients : WF_vars(Ask(c))
            /\ \A c \in Readers : WF_vars(Read(c))
-----------------------------------------------------------------------------
(* Properties *)

\* Type correctness of every variable.
TypeOK ==
  /\ limit \in Limits
  /\ sock \in [Clients -> {"none", "backlog", "open", "closed"}]
  /\ peer \in [Clients -> {"open", "shut", "reset", "broken"}]
  /\ asked \in [Clients -> Nat] /\ read \in [Clients -> Nat]
  /\ net \in [Clients -> Seq(Requests)] /\ told \in [Clients -> Seq(Answers)]
  /\ backlog \in Seq(Clients) /\ ready \in Seq(Clients \cup {LISTENER})
  /\ batch \in Seq(Events)
  /\ watch \in [Clients -> Addresses \cup {NULL}]
  /\ heap \in [Addresses -> Structures \cup {NULL}]
  /\ pc \in {"poll", "batch", "recv", "serve", "send", "killed"}
  /\ sendq \in Seq(Answers)

\* Every event that is still to be handled leads to a live connection, the one
\* of the client it is about: an earlier event of the batch never frees it,
\* nor lets accept put another client at its address (main.c:148-193).
BatchSound ==
  \A i \in DOMAIN batch : batch[i].for # LISTENER =>
    /\ batch[i].ptr # NULL /\ heap[batch[i].ptr] # NULL
    /\ heap[batch[i].ptr].socket = batch[i].for

\* Every open socket has one client_connection and every client_connection one
\* open socket: no disconnect leaks a structure or frees one twice
\* (main.c:160-165, 186-192).
OneStructureEach ==
  LET used == {a \in Addresses : heap[a] # NULL}
  IN  /\ \A a, b \in used : heap[a].socket = heap[b].socket => a = b
      /\ {heap[a].socket : a \in used} = Open

\* The only ways for the thread to stop: SIGPIPE has ended the process, or the
\* one client it is sending to has stopped reading for good.
Halts ==
  \/ <>[](pc = "killed")
  \/ \E c \in Clients \ Readers :
       <>[](pc = "send" /\ conn.socket = c /\ Len(told[c]) - read[c] = WINDOW)

\* The loop comes back to epoll_wait for ever unless it halts
\* (netbuf.c:106-114).
LoopReturns == Halts \/ []<>(pc = "poll")

\* A client that leaves has its connection closed and freed, whatever the
\* other clients do (main.c:178-192).
DepartureFreed ==
  Halts \/ \A c \in Clients : (sock[c] = "open" /\ peer[c] # "open") ~> sock[c] = "closed"

\* A client that waits for accept is accepted, as long as a descriptor is free
\* again and again: a report is for one accept only, and an accept that finds
\* no descriptor uses it up, but the listening socket is reported again
\* (main.c:141-155).
AcceptedAtLast ==
  Halts \/ \A c \in Clients :
    (sock[c] = "backlog" /\ []<>(Cardinality(Open) < limit)) ~> sock[c] # "backlog"
=============================================================================
