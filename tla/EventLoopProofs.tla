-------------------------- MODULE EventLoopProofs ---------------------------
(***************************************************************************)
(* Theorems about EventLoop for every set of clients, every script, every  *)
(* size of a batch and every number of descriptors: the pointers of a      *)
(* batch, the ownership of the client_connection structures, and that      *)
(* EventLoop implements Hub: the one thread answers each client what it    *)
(* asked, all of it, in order and nothing else.                            *)
(***************************************************************************)
EXTENDS Service, SequenceTheorems, TLAPS

-----------------------------------------------------------------------------
(* The inductive invariant *)

\* An open socket is watched with a pointer to a structure of its own.
Watched == \A c \in Clients : sock[c] = "open" =>
             /\ watch[c] \in Addresses /\ heap[watch[c]] \in Structures
             /\ heap[watch[c]].socket = c

\* A structure belongs to an open socket that is watched with its address.
Owned == \A a \in Addresses : heap[a] # NULL =>
           /\ sock[heap[a].socket] = "open" /\ watch[heap[a].socket] = a

\* The events of a batch are about open sockets, each about another one.
BatchOpen == \A i \in DOMAIN batch : batch[i].for # LISTENER =>
               sock[batch[i].for] = "open" /\ batch[i].ptr = watch[batch[i].for]
BatchDistinct == \A i, j \in DOMAIN batch : batch[i].for = batch[j].for => i = j

\* Between two events the thread is not inside process_client_packets.
AtEvent == pc \in {"recv", "serve", "send"} => batch # << >> /\ Head(batch).for # LISTENER

\* The backlog holds each waiting client once, and is not empty when the
\* batch has an event of the listening socket.
Waiting == /\ \A i \in DOMAIN backlog : sock[backlog[i]] = "backlog"
           /\ \A i, j \in DOMAIN backlog : backlog[i] = backlog[j] => i = j
Due == (\E i \in DOMAIN batch : batch[i].for = LISTENER) => backlog # << >>

IInv == /\ TypeOK /\ Watched /\ Owned /\ BatchOpen /\ BatchDistinct /\ AtEvent
        /\ Waiting /\ Due
-----------------------------------------------------------------------------
(* Sequences *)

\* The first element and the rest of a sequence.
LEMMA HeadTail ==
  ASSUME NEW S, NEW s \in Seq(S), s # << >>
  PROVE  /\ 1 \in DOMAIN s /\ Head(s) = s[1] /\ s[1] \in S
         /\ Tail(s) \in Seq(S) /\ Len(Tail(s)) = Len(s) - 1
         /\ \A i \in DOMAIN Tail(s) : i + 1 \in DOMAIN s /\ i \in Nat /\ Tail(s)[i] = s[i + 1]
OBVIOUS

\* An element of a sequence.
LEMMA Element == ASSUME NEW S, NEW s \in Seq(S), NEW i \in DOMAIN s PROVE s[i] \in S
OBVIOUS

\* What an append adds, and what it leaves.
LEMMA Appended ==
  ASSUME NEW S, NEW s \in Seq(S), NEW x \in S
  PROVE  /\ Append(s, x) \in Seq(S) /\ Append(s, x) # << >>
         /\ DOMAIN Append(s, x) = DOMAIN s \cup {Len(s) + 1}
         /\ Append(s, x)[Len(s) + 1] = x
         /\ \A i \in DOMAIN s : Append(s, x)[i] = s[i]
OBVIOUS

\* The fields of a structure and of an event.
LEMMA Fields ==
  /\ \A x \in Structures : x.socket \in Clients /\ x.in_buf \in Seq(Requests)
  /\ \A e \in Events : e.for \in Clients \cup {LISTENER}
BY DEF Structures, Events

\* A wake-up keeps the type of the ready list.
LEMMA WokenType ==
  ASSUME TypeOK, NEW x \in Clients \cup {LISTENER}
  PROVE  Woken(x) \in Seq(Clients \cup {LISTENER})
BY DEF Woken, TypeOK

\* The initial states.
LEMMA InitInv == Init => IInv
<1> SUFFICES ASSUME Init PROVE IInv
  OBVIOUS
<1> USE EventLoopAssumption DEF Init
<1>1. TypeOK
  BY DEF TypeOK
<1>2. Watched /\ Owned /\ BatchOpen /\ BatchDistinct /\ AtEvent /\ Waiting /\ Due
  BY DEF Watched, Owned, BatchOpen, BatchDistinct, AtEvent, Waiting, Due
<1> QED BY <1>1, <1>2 DEF IInv
-----------------------------------------------------------------------------
(* The steps *)

\* What ties the events to the connections, and what it is about.
Ties == Watched /\ Owned /\ BatchOpen /\ BatchDistinct /\ AtEvent /\ Waiting /\ Due
tied == <<sock, watch, heap, batch, backlog>>

\* A step that leaves sockets, pointers, batch and backlog alone.
LEMMA TiesKept ==
  ASSUME Ties, UNCHANGED tied,
         pc' \in {"recv", "serve", "send"} => batch # << >> /\ Head(batch).for # LISTENER
  PROVE  Ties'
BY DEF Ties, tied, Watched, Owned, BatchOpen, BatchDistinct, AtEvent, Waiting, Due

\* The clients' steps.
LEMMA ClientInv == IInv /\ (\E c \in Clients : Client(c)) => IInv'
<1> SUFFICES ASSUME IInv, NEW c \in Clients, Client(c) PROVE IInv'
  OBVIOUS
<1> USE EventLoopAssumption
<1>a. TypeOK /\ Ties
  BY DEF IInv, Ties
<1>1. CASE Connect(c)
  <2>1. TypeOK'
    <3>1. ready' \in Seq(Clients \cup {LISTENER})
      BY <1>1, <1>a, WokenType DEF Connect
    <3>2. /\ sock' = [sock EXCEPT ![c] = "backlog"] /\ backlog' = Append(backlog, c)
          /\ UNCHANGED <<limit, peer, asked, net, told, read, batch, watch, heap, pc, sendq>>
      BY <1>1 DEF Connect
    <3>3. /\ sock' \in [Clients -> {"none", "backlog", "open", "closed"}]
          /\ backlog' \in Seq(Clients)
      BY <3>2, <1>a DEF TypeOK
    <3> QED BY <3>1, <3>2, <3>3, <1>a DEF TypeOK
  <2>2. /\ backlog \in Seq(Clients) /\ batch \in Seq(Events)
        /\ heap \in [Addresses -> Structures \cup {NULL}]
        /\ \A d \in Clients : sock'[d] = IF d = c THEN "backlog" ELSE sock[d]
    BY <1>1, <1>a DEF TypeOK, Connect
  <2>3. sock[c] = "none" /\ UNCHANGED <<watch, heap, batch, pc>>
    BY <1>1 DEF Connect
  <2>4. Watched'
    BY <2>2, <2>3, <1>a DEF Ties, Watched
  <2>5. Owned'
    <3> SUFFICES ASSUME NEW a \in Addresses, heap[a] # NULL
                 PROVE  sock'[heap[a].socket] = "open" /\ watch[heap[a].socket] = a
      BY <2>3 DEF Owned
    <3>1. heap[a].socket \in Clients
      BY <2>2, Fields
    <3>2. sock[heap[a].socket] = "open" /\ watch[heap[a].socket] = a
      BY <1>a DEF Ties, Owned
    <3> QED BY <3>1, <3>2, <2>2, <2>3
  <2>6. BatchOpen'
    <3> SUFFICES ASSUME NEW i \in DOMAIN batch, batch[i].for # LISTENER
                 PROVE  sock'[batch[i].for] = "open" /\ batch[i].ptr = watch[batch[i].for]
      BY <2>3 DEF BatchOpen
    <3>1. batch[i].for \in Clients
      BY <2>2, Fields
    <3> QED BY <3>1, <2>2, <2>3, <1>a DEF Ties, BatchOpen
  <2>7. BatchDistinct' /\ AtEvent'
    BY <2>3, <1>a DEF Ties, BatchDistinct, AtEvent
  <2>8. /\ \A i \in DOMAIN backlog : backlog[i] \in Clients /\ backlog[i] # c
        /\ backlog' = Append(backlog, c)
    BY <1>1, <1>a, <2>2 DEF Connect, Ties, Waiting
  <2>9. Waiting' /\ Due'
    <3>1. /\ DOMAIN backlog' = DOMAIN backlog \cup {Len(backlog) + 1} /\ backlog' # << >>
          /\ backlog'[Len(backlog) + 1] = c /\ \A i \in DOMAIN backlog : backlog'[i] = backlog[i]
      BY <2>2, <2>8, Appended
    <3>2. Due'
      BY <3>1 DEF Due
    <3>3. \A i \in DOMAIN backlog : sock[backlog[i]] = "backlog" /\ sock'[backlog[i]] = "backlog"
      BY <2>2, <2>8, <1>a DEF Ties, Waiting
    <3>4. \A i \in DOMAIN backlog' : sock'[backlog'[i]] = "backlog"
      BY <2>2, <3>1, <3>3
    <3>5. \A i, j \in DOMAIN backlog : backlog[i] = backlog[j] => i = j
      BY <1>a DEF Ties, Waiting
    <3>6. \A i, j \in DOMAIN backlog' : backlog'[i] = backlog'[j] => i = j
      BY <2>8, <3>1, <3>5
    <3> QED BY <3>2, <3>4, <3>6 DEF Waiting
  <2> QED BY <2>1, <2>4, <2>5, <2>6, <2>7, <2>9 DEF IInv
<1>2. CASE Ask(c)
  <2>1. TypeOK'
    <3>1. ready' \in Seq(Clients \cup {LISTENER})
      BY <1>2, <1>a, WokenType DEF Ask, Wake, TypeOK
    <3>2. asked[c] \in Nat /\ asked[c] < Len(Script[c]) /\ Script[c] \in Seq(Nat)
      BY <1>2, <1>a DEF Ask, TypeOK
    <3>3. <<c, asked[c] + 1>> \in Requests
      BY <3>2 DEF Requests
    <3>4. net[c] \in Seq(Requests) /\ Append(net[c], <<c, asked[c] + 1>>) \in Seq(Requests)
      BY <1>a, <3>3 DEF TypeOK
    <3>5. net' \in [Clients -> Seq(Requests)]
      BY <1>2, <1>a, <3>4 DEF Ask, TypeOK
    <3>6. asked' \in [Clients -> Nat]
      <4>1. asked \in [Clients -> Nat] /\ asked' = [asked EXCEPT ![c] = @ + 1]
        BY <1>2, <1>a DEF Ask, TypeOK
      <4> QED BY <4>1, <3>2
    <3> QED BY <3>1, <3>5, <3>6, <1>2, <1>a DEF Ask, TypeOK
  <2>2. Ties'
    BY <1>2, <1>a, TiesKept DEF Ask, tied, Ties, AtEvent
  <2> QED BY <2>1, <2>2 DEF IInv, Ties
<1>3. CASE Read(c)
  <2>1. TypeOK'
    BY <1>3, <1>a, SMTT(20) DEF Read, TypeOK
  <2>2. Ties'
    BY <1>3, <1>a, TiesKept DEF Read, tied, Ties, AtEvent
  <2> QED BY <2>1, <2>2 DEF IInv, Ties
<1>4. CASE Leave(c)
  <2>1. TypeOK'
    <3>1. ready' \in Seq(Clients \cup {LISTENER})
      BY <1>4, <1>a, WokenType DEF Leave, Wake, TypeOK
    <3>2. peer' \in [Clients -> {"open", "shut", "reset", "broken"}]
      BY <1>4, <1>a DEF Leave, TypeOK
    <3> QED BY <3>1, <3>2, <1>4, <1>a DEF Leave, TypeOK
  <2>2. Ties'
    BY <1>4, <1>a, TiesKept DEF Leave, tied, Ties, AtEvent
  <2> QED BY <2>1, <2>2 DEF IInv, Ties
<1> QED BY <1>1, <1>2, <1>3, <1>4 DEF Client
\* epoll_wait: what is added to a batch is an event of an open socket that has
\* none in it, or the listening socket's while someone waits.
LEMMA CollectInv == IInv /\ Collect => IInv'
<1> SUFFICES ASSUME IInv, Collect PROVE IInv'
  OBVIOUS
<1> USE EventLoopAssumption
<1> DEFINE x == Head(ready)
           e == Event(x)
<1>a. TypeOK /\ Ties
  BY DEF IInv, Ties
<1>1. /\ ready \in Seq(Clients \cup {LISTENER}) /\ ready # << >> /\ batch \in Seq(Events)
      /\ pc = "poll" /\ \A i \in DOMAIN batch : batch[i].for # x
      /\ Reportable(x) /\ batch' = Append(batch, e)
      /\ ready' = IF x = LISTENER THEN Append(Tail(ready), LISTENER) ELSE Tail(ready)
      /\ UNCHANGED <<clientVars, watch, heap, pc, sendq>>
  BY <1>a DEF Collect, Collecting, TypeOK
<1>2. x \in Clients \cup {LISTENER} /\ ready' \in Seq(Clients \cup {LISTENER})
  BY <1>1
<1>3. /\ e \in Events /\ e.for = x
      /\ x # LISTENER => e.ptr = watch[x] /\ sock[x] = "open"
      /\ x = LISTENER => backlog # << >>
  <2>1. watch \in [Clients -> Addresses \cup {NULL}]
    BY <1>a DEF TypeOK
  <2> QED BY <1>1, <1>2, <2>1 DEF Event, Events, Reportable
<1> HIDE DEF x, e
<1>4. /\ batch' \in Seq(Events) /\ batch'[Len(batch) + 1] = e
      /\ DOMAIN batch' = DOMAIN batch \cup {Len(batch) + 1}
      /\ \A i \in DOMAIN batch : batch'[i] = batch[i]
  BY <1>1, <1>3, Appended
<1>5. TypeOK'
  BY <1>1, <1>2, <1>4, <1>a DEF TypeOK, clientVars
<1>6. Watched' /\ Owned' /\ Waiting' /\ AtEvent'
  BY <1>1, <1>a DEF Ties, Watched, Owned, Waiting, AtEvent, clientVars
<1>7. BatchOpen' /\ BatchDistinct' /\ Due'
  BY <1>1, <1>3, <1>4, <1>a DEF Ties, BatchOpen, BatchDistinct, Due, clientVars
<1> QED BY <1>5, <1>6, <1>7 DEF IInv

\* The steps of the thread that move it, and leave sockets and batch alone.
LEMMA MovesInv ==
  IInv /\ (Discard \/ PollReturns \/ PollAgain \/ Process \/ RecvAgain \/ SendTaken
            \/ SendFails \/ SendKills \/ HandlerReturns) => IInv'
<1> SUFFICES ASSUME IInv, Discard \/ PollReturns \/ PollAgain \/ Process \/ RecvAgain
                      \/ SendTaken \/ SendFails \/ SendKills \/ HandlerReturns
             PROVE  IInv'
  OBVIOUS
<1>a. TypeOK /\ Ties /\ AtEvent
  BY DEF IInv, Ties
<1>1. CASE Discard
  <2>1. ready' \in Seq(Clients \cup {LISTENER})
    BY <1>1, <1>a DEF Discard, Collecting, TypeOK
  <2>2. TypeOK'
    BY <1>1, <1>a, <2>1 DEF Discard, TypeOK, clientVars
  <2> QED BY <1>1, <1>a, <2>2, TiesKept DEF Discard, clientVars, tied, AtEvent, IInv, Ties
<1>2. CASE PollReturns \/ PollAgain
  <2>1. TypeOK'
    BY <1>2, <1>a DEF PollReturns, PollAgain, TypeOK, clientVars
  <2> QED BY <1>2, <1>a, <2>1, TiesKept DEF PollReturns, PollAgain, clientVars, tied, IInv, Ties
<1>3. CASE Process \/ RecvAgain \/ SendKills \/ HandlerReturns
  <2>1. TypeOK'
    BY <1>3, <1>a DEF Process, RecvAgain, SendKills, HandlerReturns, TypeOK, clientVars
  <2> QED BY <1>3, <1>a, <2>1, TiesKept
          DEF Process, AtClient, RecvAgain, SendKills, Sending, HandlerReturns, clientVars,
              tied, AtEvent, IInv, Ties
<1>4. CASE SendTaken \/ SendFails
  <2>1. sendq \in Seq(Answers) /\ sendq # << >> /\ sendq' = Tail(sendq)
    BY <1>4, <1>a DEF SendTaken, SendFails, Sending, TypeOK
  <2>2. sendq' \in Seq(Answers) /\ Head(sendq) \in Answers
    BY <2>1
  <2>3. told' \in [Clients -> Seq(Answers)] /\ peer' \in [Clients -> {"open", "shut", "reset", "broken"}]
    <3>1. CASE SendTaken
      <4>1. told \in [Clients -> Seq(Answers)]
        BY <1>a DEF TypeOK
      <4>2. \A c \in Clients : Append(told[c], Head(sendq)) \in Seq(Answers)
        BY <4>1, <2>2
      <4>3. told' = [told EXCEPT ![conn.socket] = Append(@, Head(sendq))] /\ UNCHANGED peer
        BY <3>1 DEF SendTaken
      <4> QED BY <4>1, <4>2, <4>3, <1>a DEF TypeOK
    <3>2. CASE SendFails
      BY <3>2, <1>a DEF SendFails, TypeOK
    <3> QED BY <3>1, <3>2, <1>4
  <2>4. TypeOK'
    BY <1>4, <1>a, <2>2, <2>3 DEF SendTaken, SendFails, TypeOK
  <2> QED BY <1>4, <1>a, <2>4, TiesKept DEF SendTaken, SendFails, tied, AtEvent, IInv, Ties
<1> QED BY <1>1, <1>2, <1>3, <1>4

\* The connection that the current event leads to.
LEMMA Current ==
  ASSUME TypeOK, Ties, batch # << >>, Head(batch).for # LISTENER
  PROVE  /\ Head(batch).for \in Clients /\ Ptr \in Addresses
         /\ sock[Head(batch).for] = "open" /\ watch[Head(batch).for] = Ptr
         /\ conn \in Structures /\ heap[Ptr] = conn /\ conn.socket = Head(batch).for
         /\ conn.in_buf \in Seq(Requests)
<1>1. batch \in Seq(Events) /\ 1 \in DOMAIN batch /\ Head(batch) = batch[1] /\ batch[1] \in Events
  <2>1. batch \in Seq(Events)
    BY DEF TypeOK
  <2> QED BY <2>1, HeadTail
<1>2. batch[1].for \in Clients
  BY <1>1, Fields
<1>3. sock[batch[1].for] = "open" /\ batch[1].ptr = watch[batch[1].for]
  BY <1>1 DEF Ties, BatchOpen
<1>4. /\ watch[batch[1].for] \in Addresses /\ heap[watch[batch[1].for]] \in Structures
      /\ heap[watch[batch[1].for]].socket = batch[1].for
  BY <1>2, <1>3 DEF Ties, Watched
<1> QED BY <1>1, <1>2, <1>3, <1>4, Fields DEF Ptr, conn

\* What the rest of a batch keeps of it.
LEMMA Rest ==
  ASSUME TypeOK, Ties, batch # << >>
  PROVE  /\ Tail(batch) \in Seq(Events)
         /\ \A i \in DOMAIN Tail(batch) :
              /\ i + 1 \in DOMAIN batch /\ Tail(batch)[i] = batch[i + 1]
              /\ Tail(batch)[i].for \in Clients \cup {LISTENER}
              /\ Tail(batch)[i].for # Head(batch).for
         /\ \A i, j \in DOMAIN Tail(batch) : Tail(batch)[i].for = Tail(batch)[j].for => i = j
<1>1. batch \in Seq(Events)
  BY DEF TypeOK
<1>2. /\ Tail(batch) \in Seq(Events) /\ 1 \in DOMAIN batch /\ Head(batch) = batch[1]
      /\ \A i \in DOMAIN Tail(batch) : i + 1 \in DOMAIN batch /\ i \in Nat /\ Tail(batch)[i] = batch[i + 1]
      /\ \A i \in DOMAIN Tail(batch) : i # 0
  <2>1. \A i \in DOMAIN Tail(batch) : i # 0
    BY <1>1
  <2> QED BY <1>1, <2>1, HeadTail
<1>3. \A i \in DOMAIN batch : batch[i].for \in Clients \cup {LISTENER}
  BY <1>1, Fields
<1>4. \A i, j \in DOMAIN batch : batch[i].for = batch[j].for => i = j
  BY DEF Ties, BatchDistinct
<1>5. \A i \in DOMAIN Tail(batch) : Tail(batch)[i].for # Head(batch).for
  <2> SUFFICES ASSUME NEW i \in DOMAIN Tail(batch), Tail(batch)[i].for = Head(batch).for
               PROVE  FALSE
    OBVIOUS
  <2>1. i + 1 \in DOMAIN batch /\ 1 \in DOMAIN batch /\ batch[i + 1].for = batch[1].for
    BY <1>2
  <2>2. i + 1 = 1
    BY <2>1, <1>4
  <2> QED BY <2>2, <1>2
<1>6. \A i, j \in DOMAIN Tail(batch) : Tail(batch)[i].for = Tail(batch)[j].for => i = j
  <2> SUFFICES ASSUME NEW i \in DOMAIN Tail(batch), NEW j \in DOMAIN Tail(batch),
                      Tail(batch)[i].for = Tail(batch)[j].for
               PROVE  i = j
    OBVIOUS
  <2>1. i + 1 = j + 1
    BY <1>2, <1>4
  <2> QED BY <2>1, <1>2
<1> QED BY <1>2, <1>3, <1>5, <1>6

\* The event of the listening socket that finds no descriptor, and the end of
\* a client's event: the batch moves on.
LEMMA EventOverInv == IInv /\ (AcceptFails \/ EventDone) => IInv'
<1> SUFFICES ASSUME IInv, AcceptFails \/ EventDone PROVE IInv'
  OBVIOUS
<1>a. TypeOK /\ Ties /\ AtEvent
  BY DEF IInv, Ties
<1>1. /\ batch # << >> /\ batch' = Tail(batch) /\ pc' = "batch"
      /\ UNCHANGED <<clientVars, ready, watch, heap, sendq>>
  BY <1>a DEF AcceptFails, AtListener, EventDone, AtEvent
<1>2. /\ Tail(batch) \in Seq(Events)
      /\ \A i \in DOMAIN Tail(batch) : i + 1 \in DOMAIN batch /\ Tail(batch)[i] = batch[i + 1]
      /\ \A i, j \in DOMAIN Tail(batch) : Tail(batch)[i].for = Tail(batch)[j].for => i = j
  BY <1>a, <1>1, Rest
<1>3. TypeOK'
  BY <1>1, <1>2, <1>a DEF TypeOK, clientVars
<1>4. Watched' /\ Owned' /\ Waiting' /\ AtEvent'
  BY <1>1, <1>a DEF Ties, Watched, Owned, Waiting, AtEvent, clientVars
<1>5. BatchOpen' /\ BatchDistinct' /\ Due'
  BY <1>1, <1>2, <1>a DEF Ties, BatchOpen, BatchDistinct, Due, clientVars
<1> QED BY <1>3, <1>4, <1>5 DEF IInv

\* disconnect: the socket that is closed and the structure that is freed are
\* the current event's, and no later event of the batch is about them.
LEMMA CloseInv == IInv /\ (DisconnectEvent \/ RecvEnd) => IInv'
<1> SUFFICES ASSUME IInv, DisconnectEvent \/ RecvEnd PROVE IInv'
  OBVIOUS
<1> USE EventLoopAssumption
<1>a. TypeOK /\ Ties /\ AtEvent
  BY DEF IInv, Ties
<1>1. batch # << >> /\ Head(batch).for # LISTENER /\ Close
  BY <1>a DEF DisconnectEvent, AtClient, RecvEnd, AtEvent
<1> DEFINE c == Head(batch).for
<1>2. /\ c \in Clients /\ Ptr \in Addresses /\ watch[c] = Ptr /\ sock[c] = "open"
      /\ conn \in Structures /\ heap[Ptr] = conn /\ conn.socket = c
  BY <1>1, <1>a, Current
<1>3. /\ sock' = [sock EXCEPT ![c] = "closed"] /\ heap' = [heap EXCEPT ![Ptr] = NULL]
      /\ batch' = Tail(batch) /\ pc' = "batch"
      /\ UNCHANGED <<limit, peer, asked, net, told, read, backlog, ready, watch, sendq>>
  BY <1>1, <1>2 DEF Close
<1>4. /\ Tail(batch) \in Seq(Events)
      /\ \A i \in DOMAIN Tail(batch) :
           /\ i + 1 \in DOMAIN batch /\ Tail(batch)[i] = batch[i + 1]
           /\ Tail(batch)[i].for \in Clients \cup {LISTENER} /\ Tail(batch)[i].for # c
      /\ \A i, j \in DOMAIN Tail(batch) : Tail(batch)[i].for = Tail(batch)[j].for => i = j
  BY <1>a, <1>1, Rest
<1> DEFINE p == Ptr
<1> HIDE DEF c, p
<1>5. /\ p \in Addresses /\ watch[c] = p /\ heap' = [heap EXCEPT ![p] = NULL]
      /\ heap[p] \in Structures /\ heap[p].socket = c
  BY <1>2, <1>3 DEF p
<1>6. /\ sock \in [Clients -> {"none", "backlog", "open", "closed"}]
      /\ heap \in [Addresses -> Structures \cup {NULL}] /\ backlog \in Seq(Clients)
  BY <1>a DEF TypeOK
<1>7. TypeOK'
  BY <1>2, <1>3, <1>4, <1>5, <1>6, <1>a DEF TypeOK
<1>8. Watched'
  BY <1>2, <1>3, <1>5, <1>6, <1>a DEF Ties, Watched
<1>9. Owned'
  <2> SUFFICES ASSUME NEW a \in Addresses, heap'[a] # NULL
               PROVE  sock'[heap'[a].socket] = "open" /\ watch[heap'[a].socket] = a
    BY <1>3 DEF Owned
  <2>1. a # p /\ heap'[a] = heap[a]
    BY <1>5, <1>6
  <2>2. heap[a] \in Structures /\ sock[heap[a].socket] = "open" /\ watch[heap[a].socket] = a
    BY <2>1, <1>6, <1>a DEF Ties, Owned
  <2>3. heap[a].socket # c /\ heap[a].socket \in Clients
    BY <2>1, <2>2, <1>5, Fields
  <2> QED BY <2>1, <2>2, <2>3, <1>3, <1>6
<1>10. BatchOpen' /\ BatchDistinct'
  BY <1>2, <1>3, <1>4, <1>6, <1>a DEF Ties, BatchOpen, BatchDistinct
<1>11. Waiting'
  <2>1. \A i \in DOMAIN backlog : backlog[i] \in Clients /\ backlog[i] # c
    BY <1>2, <1>6, <1>a DEF Ties, Waiting
  <2> QED BY <2>1, <1>3, <1>6, <1>a DEF Ties, Waiting
<1>12. AtEvent' /\ Due'
  BY <1>3, <1>4, <1>a DEF Ties, AtEvent, Due
<1> QED BY <1>7, <1>8, <1>9, <1>10, <1>11, <1>12 DEF IInv

\* A step that changes the buffer of the current connection only.
LEMMA BufferTies ==
  ASSUME TypeOK, Ties, batch # << >>, Head(batch).for # LISTENER,
         NEW q \in Seq(Requests), heap' = [heap EXCEPT ![Ptr].in_buf = q],
         pc' = "recv" \/ pc' = "send",
         UNCHANGED <<sock, watch, batch, backlog>>
  PROVE  Ties' /\ heap' \in [Addresses -> Structures \cup {NULL}]
<1> USE EventLoopAssumption
<1> DEFINE p == Ptr
<1>1. p \in Addresses /\ heap[p] \in Structures /\ heap' = [heap EXCEPT ![p].in_buf = q]
  BY Current
<1> HIDE DEF p
<1>2. heap \in [Addresses -> Structures \cup {NULL}]
  BY DEF TypeOK
<1>3. /\ [heap[p] EXCEPT !.in_buf = q] \in Structures
      /\ [heap[p] EXCEPT !.in_buf = q].socket = heap[p].socket
  BY <1>1 DEF Structures
<1>4. /\ heap' \in [Addresses -> Structures \cup {NULL}]
      /\ heap'[p] \in Structures /\ heap'[p].socket = heap[p].socket
      /\ \A a \in Addresses : a # p => heap'[a] = heap[a]
  BY <1>1, <1>2, <1>3
<1>5. Watched' /\ Owned'
  BY <1>1, <1>4 DEF Ties, Watched, Owned
<1>6. BatchOpen' /\ BatchDistinct' /\ AtEvent' /\ Waiting' /\ Due'
  BY DEF Ties, BatchOpen, BatchDistinct, AtEvent, Waiting, Due
<1> QED BY <1>4, <1>5, <1>6 DEF Ties

\* recv, and the next frame.
LEMMA BufferInv == IInv /\ (Recv \/ Serve) => IInv'
<1> SUFFICES ASSUME IInv, Recv \/ Serve PROVE IInv'
  OBVIOUS
<1> USE EventLoopAssumption
<1>a. TypeOK /\ Ties /\ AtEvent
  BY DEF IInv, Ties
<1>1. batch # << >> /\ Head(batch).for # LISTENER
  BY <1>a DEF Recv, Serve, AtEvent
<1>2. conn.in_buf \in Seq(Requests) /\ conn.socket \in Clients
  BY <1>1, <1>a, Current
<1>3. CASE Recv
  <2>1. net \in [Clients -> Seq(Requests)]
    BY <1>a DEF TypeOK
  <2>2. conn.in_buf \o net[conn.socket] \in Seq(Requests)
    BY <1>2, <2>1
  <2>3. heap' = [heap EXCEPT ![Ptr].in_buf = conn.in_buf \o net[conn.socket]]
    BY <1>3 DEF Recv, conn
  <2>4. Ties' /\ heap' \in [Addresses -> Structures \cup {NULL}]
    BY <1>1, <1>3, <1>a, <2>2, <2>3, BufferTies DEF Recv
  <2>5. net' \in [Clients -> Seq(Requests)]
    <3>1. net' = [net EXCEPT ![conn.socket] = << >>]
      BY <1>3 DEF Recv
    <3>2. << >> \in Seq(Requests)
      OBVIOUS
    <3> QED BY <3>1, <3>2, <2>1
  <2>6. TypeOK'
    BY <1>3, <1>a, <2>4, <2>5 DEF Recv, TypeOK
  <2> QED BY <2>4, <2>6 DEF Ties, IInv
<1>4. CASE Serve
  <2>1. conn.in_buf # << >> /\ Head(conn.in_buf) \in Requests /\ Tail(conn.in_buf) \in Seq(Requests)
    BY <1>4, <1>2 DEF Serve
  <2>2. heap' = [heap EXCEPT ![Ptr].in_buf = Tail(conn.in_buf)]
    BY <1>4 DEF Serve, conn
  <2>3. Ties' /\ heap' \in [Addresses -> Structures \cup {NULL}]
    BY <1>1, <1>4, <1>a, <2>1, <2>2, BufferTies DEF Serve, clientVars
  <2>4. sendq' \in Seq(Answers)
    <3> DEFINE r == Head(conn.in_buf)
    <3>1. r[1] \in Clients /\ r[2] \in Nat /\ r[2] \in DOMAIN Script[r[1]]
      BY <2>1 DEF Requests
    <3>a. Script[r[1]] \in Seq(Nat)
      BY <3>1 DEF EventLoopAssumption
    <3> DEFINE n == Script[r[1]][r[2]]
    <3>2. n \in Nat
      BY <3>a, <3>1, Element
    <3>4. Packets(r) = [j \in 1 .. n |-> <<r[1], r[2], j>>]
      BY DEF Packets
    <3>5. sendq' = Packets(r)
      BY <1>4 DEF Serve
    <3> HIDE DEF n, r
    <3>3. ASSUME NEW j \in 1 .. n PROVE <<r[1], r[2], j>> \in Answers
      <4>1. j \in Nat
        BY <3>2
      <4> QED BY <4>1, <3>1 DEF Answers
    <3>6. Packets(r) \in Seq(Answers)
      BY <3>2, <3>3, <3>4
    <3> QED BY <3>5, <3>6
  <2>5. TypeOK'
    BY <1>4, <1>a, <2>3, <2>4 DEF Serve, TypeOK, clientVars
  <2> QED BY <2>3, <2>5 DEF Ties, IInv
<1> QED BY <1>3, <1>4

\* accept: the client leaves the backlog, and malloc puts its structure where
\* none is, so at an address no open socket is watched with.
LEMMA AcceptInv == IInv /\ Accept => IInv'
<1> SUFFICES ASSUME IInv, Accept PROVE IInv'
  OBVIOUS
<1> USE EventLoopAssumption
<1>a. TypeOK /\ Ties
  BY DEF IInv, Ties
<1> DEFINE c == Head(backlog)
           new == [socket |-> c, in_buf |-> << >>]
<1>1. PICK a \in {x \in Addresses : heap[x] = NULL} :
        heap' = [heap EXCEPT ![a] = new] /\ watch' = [watch EXCEPT ![c] = a]
  BY DEF Accept
<1>2. /\ pc = "batch" /\ batch # << >> /\ Head(batch).for = LISTENER
      /\ sock' = [sock EXCEPT ![c] = "open"]
      /\ ready' = IF net[c] # << >> \/ peer[c] # "open" THEN Woken(c) ELSE ready
      /\ backlog' = Tail(backlog) /\ batch' = Tail(batch)
      /\ UNCHANGED <<limit, peer, asked, net, told, read, pc, sendq>>
  BY DEF Accept, AtListener
<1>3. batch \in Seq(Events) /\ backlog \in Seq(Clients)
  BY <1>a DEF TypeOK
<1>4. /\ Tail(batch) \in Seq(Events)
      /\ \A i \in DOMAIN Tail(batch) :
           /\ i + 1 \in DOMAIN batch /\ Tail(batch)[i] = batch[i + 1]
           /\ Tail(batch)[i].for \in Clients \cup {LISTENER} /\ Tail(batch)[i].for # LISTENER
      /\ \A i, j \in DOMAIN Tail(batch) : Tail(batch)[i].for = Tail(batch)[j].for => i = j
  BY <1>a, <1>2, Rest
<1>5. backlog # << >>
  <2>1. 1 \in DOMAIN batch /\ batch[1].for = LISTENER
    BY <1>2, <1>3, HeadTail
  <2> QED BY <2>1, <1>a DEF Ties, Due
<1>6. /\ c \in Clients /\ 1 \in DOMAIN backlog /\ c = backlog[1] /\ Tail(backlog) \in Seq(Clients)
      /\ \A i \in DOMAIN Tail(backlog) :
           i + 1 \in DOMAIN backlog /\ i \in Nat /\ i # 0 /\ Tail(backlog)[i] = backlog[i + 1]
  <2>1. \A i \in DOMAIN Tail(backlog) : i # 0
    BY <1>3, <1>5
  <2> QED BY <1>3, <1>5, <2>1, HeadTail
<1>7. sock[c] = "backlog"
  BY <1>6, <1>a DEF Ties, Waiting
<1>8. new \in Structures /\ new.socket = c
  BY <1>6 DEF Structures
<1>r. ready' \in Seq(Clients \cup {LISTENER})
  BY <1>2, <1>6, <1>a, WokenType DEF TypeOK
<1> HIDE DEF c, new
<1>9. /\ sock \in [Clients -> {"none", "backlog", "open", "closed"}]
      /\ heap \in [Addresses -> Structures \cup {NULL}]
      /\ watch \in [Clients -> Addresses \cup {NULL}]
  BY <1>a DEF TypeOK
<1>10. TypeOK'
  <2>1. /\ sock' \in [Clients -> {"none", "backlog", "open", "closed"}]
        /\ heap' \in [Addresses -> Structures \cup {NULL}]
        /\ watch' \in [Clients -> Addresses \cup {NULL}]
    BY <1>1, <1>2, <1>6, <1>8, <1>9
  <2> QED BY <2>1, <1>r, <1>2, <1>4, <1>6, <1>a DEF TypeOK
<1>11. /\ sock'[c] = "open" /\ watch'[c] = a /\ heap'[a] = new /\ heap[a] = NULL
       /\ a \in Addresses /\ NULL \notin Structures
       /\ \A d \in Clients : d # c => sock'[d] = sock[d] /\ watch'[d] = watch[d]
       /\ \A b \in Addresses : b # a => heap'[b] = heap[b]
  BY <1>1, <1>2, <1>6, <1>9
<1>12. Watched'
  <2> SUFFICES ASSUME NEW d \in Clients, sock'[d] = "open"
               PROVE  /\ watch'[d] \in Addresses /\ heap'[watch'[d]] \in Structures
                      /\ heap'[watch'[d]].socket = d
    BY DEF Watched
  <2>1. CASE d = c
    BY <2>1, <1>8, <1>11
  <2>2. CASE d # c
    <3>1. /\ watch[d] \in Addresses /\ heap[watch[d]] \in Structures
          /\ heap[watch[d]].socket = d
      BY <2>2, <1>11, <1>a DEF Ties, Watched
    <3>2. watch[d] # a
      BY <3>1, <1>11
    <3> QED BY <2>2, <3>1, <3>2, <1>11
  <2> QED BY <2>1, <2>2
<1>13. Owned'
  <2> SUFFICES ASSUME NEW b \in Addresses, heap'[b] # NULL
               PROVE  sock'[heap'[b].socket] = "open" /\ watch'[heap'[b].socket] = b
    BY DEF Owned
  <2>1. CASE b = a
    BY <2>1, <1>8, <1>11
  <2>2. CASE b # a
    <3>1. /\ heap[b] \in Structures /\ sock[heap[b].socket] = "open"
          /\ watch[heap[b].socket] = b /\ heap'[b] = heap[b]
      BY <2>2, <1>9, <1>11, <1>a DEF Ties, Owned
    <3>2. heap[b].socket \in Clients /\ heap[b].socket # c
      BY <3>1, <1>7, Fields
    <3> QED BY <3>1, <3>2, <1>11
  <2> QED BY <2>1, <2>2
<1>14. BatchOpen' /\ BatchDistinct'
  <2>1. BatchOpen'
    <3> SUFFICES ASSUME NEW i \in DOMAIN Tail(batch)
                 PROVE  /\ sock'[Tail(batch)[i].for] = "open"
                        /\ Tail(batch)[i].ptr = watch'[Tail(batch)[i].for]
      BY <1>2 DEF BatchOpen
    <3>1. /\ Tail(batch)[i].for \in Clients /\ sock[Tail(batch)[i].for] = "open"
          /\ Tail(batch)[i].ptr = watch[Tail(batch)[i].for]
      BY <1>4, <1>a DEF Ties, BatchOpen
    <3> QED BY <3>1, <1>7, <1>11
  <2> QED BY <2>1, <1>2, <1>4 DEF BatchDistinct
<1>15. Waiting'
  <2>1. \A i \in DOMAIN Tail(backlog) : Tail(backlog)[i] \in Clients /\ Tail(backlog)[i] # c
    <3> SUFFICES ASSUME NEW i \in DOMAIN Tail(backlog)
                 PROVE  Tail(backlog)[i] \in Clients /\ Tail(backlog)[i] # c
      OBVIOUS
    <3>1. i + 1 # 1
      BY <1>6
    <3> QED BY <3>1, <1>3, <1>6, <1>a DEF Ties, Waiting
  <2>2. \A i \in DOMAIN Tail(backlog) : sock[Tail(backlog)[i]] = "backlog"
    BY <1>6, <1>a DEF Ties, Waiting
  <2>3. \A i, j \in DOMAIN Tail(backlog) : Tail(backlog)[i] = Tail(backlog)[j] => i = j
    <3> SUFFICES ASSUME NEW i \in DOMAIN Tail(backlog), NEW j \in DOMAIN Tail(backlog),
                        Tail(backlog)[i] = Tail(backlog)[j]
                 PROVE  i = j
      OBVIOUS
    <3>1. i + 1 = j + 1
      BY <1>6, <1>a DEF Ties, Waiting
    <3> QED BY <3>1, <1>6
  <2> QED BY <2>1, <2>2, <2>3, <1>2, <1>11 DEF Waiting
<1>16. AtEvent' /\ Due'
  BY <1>2, <1>4 DEF AtEvent, Due
<1> QED BY <1>10, <1>12, <1>13, <1>14, <1>15, <1>16 DEF IInv
-----------------------------------------------------------------------------
(* The theorems *)

\* Every step keeps the invariant.
LEMMA StepInv == IInv /\ [Next]_vars => IInv'
<1> SUFFICES ASSUME IInv, [Next]_vars PROVE IInv'
  OBVIOUS
<1>1. CASE \E c \in Clients : Client(c)
  BY <1>1, ClientInv
<1>2. CASE Server
  BY <1>2, CollectInv, MovesInv, EventOverInv, CloseInv, BufferInv, AcceptInv DEF Server
<1>3. CASE UNCHANGED vars
  <2>1. UNCHANGED <<limit, sock, peer, asked, net, told, read, backlog, ready, batch, watch, heap,
                    pc, sendq>>
    BY <1>3 DEF vars, clientVars
  <2> QED BY <2>1 DEF IInv, TypeOK, Watched, Owned, BatchOpen, BatchDistinct, AtEvent, Waiting, Due
<1> QED BY <1>1, <1>2, <1>3 DEF Next

\* The inductive invariant holds in every reachable state of the event loop.
THEOREM Invariance == Spec => []IInv
<1>1. Init => IInv
  BY InitInv
<1>2. IInv /\ [Next]_vars => IInv'
  BY StepInv
<1> QED BY <1>1, <1>2, PTL DEF Spec

\* Every variable of the event loop keeps its type (main.c:136-197).
THEOREM TypeCorrect == Spec => []TypeOK
<1>1. IInv => TypeOK
  BY DEF IInv
<1> QED BY <1>1, Invariance, PTL

\* No event of a batch ever leads to a freed connection or to another
\* client's, whatever the events before it did (main.c:148-193).
THEOREM BatchIsSound == Spec => []BatchSound
<1>1. IInv => BatchSound
  <2> SUFFICES ASSUME IInv, NEW i \in DOMAIN batch, batch[i].for # LISTENER
               PROVE  /\ batch[i].ptr # NULL /\ heap[batch[i].ptr] # NULL
                      /\ heap[batch[i].ptr].socket = batch[i].for
    BY DEF BatchSound
  <2> USE EventLoopAssumption
  <2>1. batch \in Seq(Events)
    BY DEF IInv, TypeOK
  <2>2. batch[i].for \in Clients
    BY <2>1, Fields
  <2>3. sock[batch[i].for] = "open" /\ batch[i].ptr = watch[batch[i].for]
    BY DEF IInv, BatchOpen
  <2>4. /\ batch[i].ptr \in Addresses /\ heap[batch[i].ptr] \in Structures
        /\ heap[batch[i].ptr].socket = batch[i].for
    BY <2>2, <2>3 DEF IInv, Watched
  <2> QED BY <2>4
<1> QED BY <1>1, Invariance, PTL

\* Structures and open sockets correspond one to one: nothing leaks and
\* nothing is freed twice (main.c:160-165, 186-192).
THEOREM StructuresMatchSockets == Spec => []OneStructureEach
<1>1. IInv => OneStructureEach
  <2> SUFFICES ASSUME IInv PROVE OneStructureEach
    OBVIOUS
  <2> USE EventLoopAssumption
  <2> DEFINE used == {a \in Addresses : heap[a] # NULL}
  <2>1. heap \in [Addresses -> Structures \cup {NULL}]
    BY DEF IInv, TypeOK
  <2>2. \A a \in used : heap[a].socket \in Clients /\ sock[heap[a].socket] = "open"
                        /\ watch[heap[a].socket] = a
    BY <2>1, Fields DEF IInv, Owned
  <2>3. \A a, b \in used : heap[a].socket = heap[b].socket => a = b
    BY <2>2
  <2>4. \A c \in Open : watch[c] \in used /\ heap[watch[c]].socket = c
    BY DEF IInv, Watched, Open
  <2>5. {heap[a].socket : a \in used} = Open
    BY <2>2, <2>4 DEF Open
  <2> QED BY <2>3, <2>5 DEF OneStructureEach
<1> QED BY <1>1, Invariance, PTL

-----------------------------------------------------------------------------
(* The refinement of Hub: the inductive invariant *)

\* Where the answers to c stand.  Of its `a` requests the last Len(n) are in
\* the kernel's queue, those before them are in the buffer b, and the first d
\* went to the handler: what these are owed is what c was told, t, and what
\* the running handler has still to send, q.
Stands(c, d, a, n, b, q, t) ==
  /\ a = d + Len(b) + Len(n)
  /\ \A i \in 1 .. Len(b) : b[i] = <<c, d + i>>
  /\ \A i \in 1 .. Len(n) : n[i] = <<c, d + Len(b) + i>>
  /\ Len(t) + Len(q) = Len(OwedTo(c, d))
  /\ \A i \in 1 .. Len(t) : t[i] = OwedTo(c, d)[i]
  /\ \A i \in 1 .. Len(q) : q[i] = OwedTo(c, d)[Len(t) + i]

Buffer(c) == IF sock[c] = "open" THEN heap[watch[c]].in_buf ELSE << >>
Sends(c)  == IF pc = "send" /\ Head(batch).for = c THEN sendq ELSE << >>

\* So it is with every client that can still be sent something.
Reached(c) == sock[c] # "closed" /\ peer[c] \in {"open", "shut"}
InStep == \A c \in Clients : Reached(c) =>
            \E d \in 0 .. asked[c] :
              Stands(c, d, asked[c], net[c], Buffer(c), Sends(c), told[c])

\* What is owed for fewer requests is the beginning of what is owed for more.
Begins(s, t) == Len(s) <= Len(t) /\ \A i \in 1 .. Len(s) : s[i] = t[i]
Grown == \A c \in Clients :
           /\ asked[c] <= Len(Script[c])
           /\ \A m \in 0 .. asked[c] : Begins(OwedTo(c, m), OwedTo(c, asked[c]))

\* An event that reports a departure is about a client that has left.
GoneLeft == \A i \in DOMAIN batch :
              batch[i].for # LISTENER /\ batch[i].gone => peer[batch[i].for] # "open"

HInv == InStep /\ Grown /\ GoneLeft
-----------------------------------------------------------------------------
(* Sequences and what is owed *)

\* The packets of a request.
LEMMA PacketsType ==
  ASSUME NEW c \in Clients, NEW n \in 1 .. Len(Script[c])
  PROVE  Packets(<<c, n>>) \in Seq(Answers)
<1>1. Script[c] \in Seq(Nat) /\ n \in DOMAIN Script[c]
  BY EventLoopAssumption
<1> DEFINE k == Script[c][n]
<1>2. k \in Nat /\ n \in Nat
  BY <1>1, Element
<1>3. Packets(<<c, n>>) = [j \in 1 .. k |-> <<c, n, j>>]
  BY DEF Packets
<1> HIDE DEF k
<1>4. \A j \in 1 .. k : <<c, n, j>> \in Answers
  BY <1>2 DEF Answers
<1> QED BY <1>2, <1>3, <1>4

\* What is owed is a sequence of packets; one more request adds its own.
LEMMA OwedType ==
  ASSUME NEW c \in Clients, NEW n \in 0 .. Len(Script[c])
  PROVE  OwedTo(c, n) \in Seq(Answers)
<1>1. Script[c] \in Seq(Nat)
  BY EventLoopAssumption
<1>2. n = 0 \/ n \in DOMAIN Script[c]
  BY <1>1
<1> QED BY <1>2, OwedAssumption DEF OwedTo

LEMMA OwedNext ==
  ASSUME NEW c \in Clients, NEW n \in Nat, n + 1 <= Len(Script[c])
  PROVE  /\ OwedTo(c, n + 1) = OwedTo(c, n) \o Packets(<<c, n + 1>>)
         /\ OwedTo(c, n) \in Seq(Answers) /\ Packets(<<c, n + 1>>) \in Seq(Answers)
         /\ Len(OwedTo(c, n + 1)) = Len(OwedTo(c, n)) + Len(Packets(<<c, n + 1>>))
         /\ \A i \in 1 .. Len(OwedTo(c, n)) : OwedTo(c, n + 1)[i] = OwedTo(c, n)[i]
         /\ \A i \in 1 .. Len(Packets(<<c, n + 1>>)) :
              OwedTo(c, n + 1)[Len(OwedTo(c, n)) + i] = Packets(<<c, n + 1>>)[i]
<1>1. Script[c] \in Seq(Nat)
  BY EventLoopAssumption
<1>2. n + 1 \in 1 .. Len(Script[c]) /\ n \in 0 .. Len(Script[c]) /\ n + 1 \in DOMAIN Script[c]
  BY <1>1
<1>3. OwedTo(c, n) \in Seq(Answers) /\ Packets(<<c, n + 1>>) \in Seq(Answers)
  BY <1>2, OwedType, PacketsType
<1>4. OwedTo(c, n + 1) = OwedTo(c, n) \o Packets(<<c, n + 1>>)
  <2>1. Owed[c][n + 1] = OwedTo(c, (n + 1) - 1) \o Packets(<<c, n + 1>>)
    BY <1>2, OwedAssumption
  <2>2. n + 1 # 0 /\ (n + 1) - 1 = n
    OBVIOUS
  <2> QED BY <2>1, <2>2 DEF OwedTo
<1> DEFINE s == OwedTo(c, n)
           p == Packets(<<c, n + 1>>)
<1>5. s \in Seq(Answers) /\ p \in Seq(Answers) /\ OwedTo(c, n + 1) = s \o p
  BY <1>3, <1>4
<1> HIDE DEF s, p
<1>6. /\ Len(s \o p) = Len(s) + Len(p)
      /\ \A i \in 1 .. Len(s) : (s \o p)[i] = s[i]
      /\ \A i \in 1 .. Len(p) : (s \o p)[Len(s) + i] = p[i]
  <2>1. Len(s) \in Nat /\ Len(p) \in Nat
    BY <1>5, LenProperties
  <2> QED BY <1>5, <2>1, ConcatProperties
<1> QED BY <1>5, <1>6 DEF s, p
-----------------------------------------------------------------------------
(* How the answers go on *)

\* A client asks once more.
LEMMA AskStands ==
  ASSUME NEW c, NEW d \in Nat, NEW a \in Nat, NEW n \in Seq(Requests), NEW b \in Seq(Requests),
         NEW q, NEW t, Stands(c, d, a, n, b, q, t), <<c, a + 1>> \in Requests
  PROVE  Stands(c, d, a + 1, Append(n, <<c, a + 1>>), b, q, t)
<1> DEFINE m == Append(n, <<c, a + 1>>)
<1>1. Len(m) = Len(n) + 1 /\ Len(n) \in Nat /\ Len(b) \in Nat
  OBVIOUS
<1>2. /\ \A i \in 1 .. Len(n) : m[i] = n[i]
      /\ m[Len(n) + 1] = <<c, a + 1>>
  OBVIOUS
<1> HIDE DEF m
<1>3. a + 1 = d + Len(b) + Len(m)
  BY <1>1 DEF Stands
<1>4. \A i \in 1 .. Len(m) : m[i] = <<c, d + Len(b) + i>>
  <2> SUFFICES ASSUME NEW i \in 1 .. Len(m) PROVE m[i] = <<c, d + Len(b) + i>>
    OBVIOUS
  <2>1. CASE i \in 1 .. Len(n)
    BY <2>1, <1>2 DEF Stands
  <2>2. CASE i = Len(n) + 1
    <3>1. d + Len(b) + i = a + 1
      BY <2>2, <1>1 DEF Stands
    <3> QED BY <2>2, <3>1, <1>2
  <2> QED BY <2>1, <2>2, <1>1
<1> QED BY <1>3, <1>4 DEF Stands, m

\* recv moves the requests to the buffer.
LEMMA RecvStands ==
  ASSUME NEW c, NEW d \in Nat, NEW a \in Nat, NEW n \in Seq(Requests), NEW b \in Seq(Requests),
         NEW q, NEW t, Stands(c, d, a, n, b, q, t)
  PROVE  Stands(c, d, a, << >>, b \o n, q, t)
<1>1. Len(n) \in Nat /\ Len(b) \in Nat
  OBVIOUS
<1>2. /\ Len(b \o n) = Len(b) + Len(n)
      /\ \A i \in 1 .. Len(b) : (b \o n)[i] = b[i]
      /\ \A i \in 1 .. Len(n) : (b \o n)[Len(b) + i] = n[i]
  BY <1>1, ConcatProperties
<1>3. \A i \in 1 .. Len(b \o n) : (b \o n)[i] = <<c, d + i>>
  <2> SUFFICES ASSUME NEW i \in 1 .. Len(b) + Len(n) PROVE (b \o n)[i] = <<c, d + i>>
    BY <1>2
  <2>1. CASE i \in 1 .. Len(b)
    BY <2>1, <1>2 DEF Stands
  <2>2. CASE i \notin 1 .. Len(b)
    <3> DEFINE j == i - Len(b)
    <3>1. j \in 1 .. Len(n) /\ i = Len(b) + j /\ d + Len(b) + j = d + i
      BY <2>2, <1>1
    <3> HIDE DEF j
    <3>2. (b \o n)[i] = n[j] /\ n[j] = <<c, d + Len(b) + j>>
      BY <3>1, <1>2 DEF Stands
    <3> QED BY <3>1, <3>2
  <2> QED BY <2>1, <2>2
<1>4. a = d + Len(b \o n) + Len(<< >>) /\ 1 .. Len(<< >>) = {}
  BY <1>1, <1>2, EmptySeq DEF Stands
<1> QED BY <1>3, <1>4 DEF Stands

\* The handler takes the next request, when the one before is answered.
LEMMA ServeStands ==
  ASSUME NEW c \in Clients, NEW d \in Nat, NEW a \in Nat, NEW n \in Seq(Requests),
         NEW b \in Seq(Requests), NEW t \in Seq(Answers), Stands(c, d, a, n, b, << >>, t),
         b # << >>, a <= Len(Script[c])
  PROVE  /\ d + 1 <= a /\ Head(b) = <<c, d + 1>>
         /\ Stands(c, d + 1, a, n, Tail(b), Packets(Head(b)), t)
<1>1. /\ Len(n) \in Nat /\ Len(b) \in Nat /\ Len(t) \in Nat /\ Len(b) > 0
      /\ Len(Tail(b)) = Len(b) - 1 /\ Head(b) = b[1]
      /\ \A i \in 1 .. Len(b) - 1 : Tail(b)[i] = b[i + 1]
  OBVIOUS
<1>0. Len(Script[c]) \in Nat
  BY EventLoopAssumption
<1>2. d + 1 <= a /\ Head(b) = <<c, d + 1>> /\ d + 1 <= Len(Script[c])
  BY <1>0, <1>1 DEF Stands
<1>3. a = (d + 1) + Len(Tail(b)) + Len(n)
  BY <1>1 DEF Stands
<1>4. \A i \in 1 .. Len(Tail(b)) : Tail(b)[i] = <<c, (d + 1) + i>>
  <2> SUFFICES ASSUME NEW i \in 1 .. Len(b) - 1 PROVE Tail(b)[i] = <<c, (d + 1) + i>>
    BY <1>1
  <2>1. i + 1 \in 1 .. Len(b) /\ d + (i + 1) = (d + 1) + i
    BY <1>1
  <2>2. Tail(b)[i] = b[i + 1] /\ b[i + 1] = <<c, d + (i + 1)>>
    BY <1>1, <2>1 DEF Stands
  <2> QED BY <2>1, <2>2
<1>5. \A i \in 1 .. Len(n) : n[i] = <<c, (d + 1) + Len(Tail(b)) + i>>
  <2> SUFFICES ASSUME NEW i \in 1 .. Len(n) PROVE n[i] = <<c, (d + 1) + Len(Tail(b)) + i>>
    OBVIOUS
  <2>1. (d + 1) + Len(Tail(b)) + i = d + Len(b) + i
    BY <1>1
  <2> QED BY <2>1 DEF Stands
<1>6. Len(t) = Len(OwedTo(c, d)) /\ \A i \in 1 .. Len(t) : t[i] = OwedTo(c, d)[i]
  <2>1. Len(<< >>) = 0
    OBVIOUS
  <2> QED BY <1>1, <2>1 DEF Stands
<1>7. /\ Len(t) + Len(Packets(<<c, d + 1>>)) = Len(OwedTo(c, d + 1))
      /\ \A i \in 1 .. Len(t) : t[i] = OwedTo(c, d + 1)[i]
      /\ \A i \in 1 .. Len(Packets(<<c, d + 1>>)) :
           Packets(<<c, d + 1>>)[i] = OwedTo(c, d + 1)[Len(t) + i]
  BY <1>2, <1>6, OwedNext
<1>8. Stands(c, d + 1, a, n, Tail(b), Packets(Head(b)), t)
  BY <1>2, <1>3, <1>4, <1>5, <1>7 DEF Stands
<1> QED BY <1>2, <1>8

\* The socket takes the next packet.
LEMMA SendStands ==
  ASSUME NEW c \in Clients, NEW d \in Nat, NEW a \in Nat, NEW n, NEW b,
         NEW q \in Seq(Answers), NEW t \in Seq(Answers), Stands(c, d, a, n, b, q, t), q # << >>
  PROVE  /\ Len(t) < Len(OwedTo(c, d)) /\ Head(q) = OwedTo(c, d)[Len(t) + 1]
         /\ Stands(c, d, a, n, b, Tail(q), Append(t, Head(q)))
<1> DEFINE u == Append(t, Head(q))
           r == Tail(q)
           w == OwedTo(c, d)
<1>1. /\ Len(t) \in Nat /\ Len(q) \in Nat /\ Len(q) > 0 /\ Len(u) = Len(t) + 1
      /\ Len(r) = Len(q) - 1 /\ Head(q) = q[1] /\ u[Len(t) + 1] = Head(q)
      /\ \A i \in 1 .. Len(t) : u[i] = t[i]
      /\ \A i \in 1 .. Len(q) - 1 : r[i] = q[i + 1]
  OBVIOUS
<1>2. /\ Len(t) + Len(q) = Len(w) /\ \A i \in 1 .. Len(t) : t[i] = w[i]
      /\ \A i \in 1 .. Len(q) : q[i] = w[Len(t) + i]
  BY DEF Stands
<1> HIDE DEF u, r, w
<1>3. Len(t) < Len(w) /\ Head(q) = w[Len(t) + 1]
  BY <1>1, <1>2
<1>4. Len(u) + Len(r) = Len(w) /\ \A i \in 1 .. Len(u) : u[i] = w[i]
  <2>1. \A i \in 1 .. Len(u) : i \in 1 .. Len(t) \/ i = Len(t) + 1
    BY <1>1
  <2>2. \A i \in 1 .. Len(t) : u[i] = w[i]
    BY <1>1, <1>2
  <2>3. Len(u) + Len(r) = Len(w)
    <3>1. (Len(t) + 1) + (Len(q) - 1) = Len(t) + Len(q)
      BY <1>1
    <3> QED BY <3>1, <1>1, <1>2
  <2> QED BY <2>1, <2>2, <2>3, <1>1, <1>3
<1>5. \A i \in 1 .. Len(r) : r[i] = w[Len(u) + i]
  <2> SUFFICES ASSUME NEW i \in 1 .. Len(q) - 1 PROVE r[i] = w[Len(u) + i]
    BY <1>1
  <2>1. i + 1 \in 1 .. Len(q) /\ Len(t) + (i + 1) = Len(u) + i
    BY <1>1
  <2>2. r[i] = q[i + 1] /\ q[i + 1] = w[Len(t) + (i + 1)]
    BY <1>1, <1>2, <2>1
  <2> QED BY <2>1, <2>2
<1> QED BY <1>3, <1>4, <1>5 DEF Stands, u, r, w
-----------------------------------------------------------------------------
(* The invariant under the steps *)

\* The initial states.
LEMMA InitHub == Init => HInv
<1> SUFFICES ASSUME Init PROVE HInv
  OBVIOUS
<1>1. \A c \in Clients : asked[c] = 0 /\ net[c] = << >> /\ told[c] = << >>
                          /\ Buffer(c) = << >> /\ Sends(c) = << >>
  BY DEF Init, Buffer, Sends
<1>2. \A c \in Clients : Stands(c, 0, 0, << >>, << >>, << >>, << >>)
  <2>1. Len(<< >>) = 0 /\ 1 .. 0 = {}
    OBVIOUS
  <2> QED BY <2>1 DEF Stands, OwedTo
<1>3. InStep
  <2> SUFFICES ASSUME NEW c \in Clients
               PROVE  \E d \in 0 .. asked[c] :
                        Stands(c, d, asked[c], net[c], Buffer(c), Sends(c), told[c])
    BY DEF InStep
  <2>1. 0 \in 0 .. asked[c]
    BY <1>1
  <2> QED BY <2>1, <1>1, <1>2
<1>4. Grown
  <2> SUFFICES ASSUME NEW c \in Clients
               PROVE  /\ asked[c] <= Len(Script[c])
                      /\ \A m \in 0 .. asked[c] : Begins(OwedTo(c, m), OwedTo(c, asked[c]))
    BY DEF Grown
  <2>1. Len(Script[c]) \in Nat
    BY EventLoopAssumption
  <2>2. Begins(OwedTo(c, 0), OwedTo(c, 0))
    BY DEF Begins, OwedTo
  <2> QED BY <1>1, <2>1, <2>2
<1>5. GoneLeft
  BY DEF Init, GoneLeft
<1> QED BY <1>3, <1>4, <1>5 DEF HInv

\* Nothing about the answers to c changes.
Same(c) == asked'[c] = asked[c] /\ net'[c] = net[c] /\ told'[c] = told[c]
           /\ Buffer(c)' = Buffer(c) /\ Sends(c)' = Sends(c)

\* A step is about one client at most; for it the new standing is to be shown.
LEMMA StandingKept ==
  ASSUME InStep,
         \A c \in Clients : Reached(c)' =>
           \/ Reached(c) /\ Same(c)
           \/ \E d \in 0 .. asked'[c] :
                Stands(c, d, asked'[c], net'[c], Buffer(c)', Sends(c)', told'[c])
  PROVE  InStep'
<1> SUFFICES ASSUME NEW c \in Clients, Reached(c)'
             PROVE  \E d \in 0 .. asked'[c] :
                      Stands(c, d, asked'[c], net'[c], Buffer(c)', Sends(c)', told'[c])
  BY DEF InStep
<1>1. CASE Reached(c) /\ Same(c)
  <2>1. PICK d \in 0 .. asked[c] :
          Stands(c, d, asked[c], net[c], Buffer(c), Sends(c), told[c])
    BY <1>1 DEF InStep
  <2> QED BY <1>1, <2>1 DEF Same
<1> QED BY <1>1

\* Who has left has left for good, and no other event comes into the batch.
LEMMA GoneKept ==
  ASSUME IInv, GoneLeft, \A c \in Clients : peer[c] # "open" => peer'[c] # "open",
         batch' = batch \/ (batch # << >> /\ batch' = Tail(batch))
  PROVE  GoneLeft'
<1> USE EventLoopAssumption
<1>1. batch \in Seq(Events) /\ TypeOK /\ Ties
  BY DEF IInv, TypeOK, Ties
<1>2. \A i \in DOMAIN batch : batch[i].for \in Clients \cup {LISTENER}
  BY <1>1, Fields, Element
<1>3. CASE batch' = batch
  BY <1>2, <1>3 DEF GoneLeft
<1>4. CASE batch # << >> /\ batch' = Tail(batch)
  <2>1. \A i \in DOMAIN Tail(batch) : i + 1 \in DOMAIN batch /\ Tail(batch)[i] = batch[i + 1]
    BY <1>1, <1>4, Rest
  <2> QED BY <1>2, <1>4, <2>1, SMTT(20) DEF GoneLeft
<1> QED BY <1>3, <1>4

\* A step that asks nothing.
LEMMA GrownKept == ASSUME Grown, UNCHANGED asked PROVE Grown'
BY DEF Grown

\* All three at once.
LEMMA HubKept ==
  ASSUME IInv, HInv, UNCHANGED asked,
         \A c \in Clients : Reached(c)' =>
           \/ Reached(c) /\ Same(c)
           \/ \E d \in 0 .. asked'[c] :
                Stands(c, d, asked'[c], net'[c], Buffer(c)', Sends(c)', told'[c]),
         \A c \in Clients : peer[c] # "open" => peer'[c] # "open",
         batch' = batch \/ (batch # << >> /\ batch' = Tail(batch))
  PROVE  HInv'
<1>1. InStep'
  BY StandingKept DEF HInv
<1>2. Grown'
  BY GrownKept DEF HInv
<1>3. GoneLeft'
  BY GoneKept DEF HInv
<1> QED BY <1>1, <1>2, <1>3 DEF HInv

\* An address is that of one open client only.
LEMMA OwnAddress ==
  ASSUME IInv, NEW c \in Clients, NEW d \in Clients, sock[c] = "open", sock[d] = "open", c # d
  PROVE  watch[c] # watch[d]
BY DEF IInv, Watched

\* The client of the current event.
LEMMA CurrentClient ==
  ASSUME IInv, pc \in {"recv", "serve", "send"} \/ AtClient
  PROVE  /\ batch # << >> /\ Head(batch).for \in Clients /\ Ptr \in Addresses
         /\ conn.socket = Head(batch).for /\ watch[Head(batch).for] = Ptr
         /\ sock[Head(batch).for] = "open" /\ heap[Ptr] = conn
         /\ Buffer(Head(batch).for) = conn.in_buf /\ conn.in_buf \in Seq(Requests)
<1>1. TypeOK /\ Ties /\ batch # << >> /\ Head(batch).for # LISTENER
  BY DEF IInv, Ties, AtEvent, AtClient
<1>2. /\ Head(batch).for \in Clients /\ Ptr \in Addresses
      /\ sock[Head(batch).for] = "open" /\ watch[Head(batch).for] = Ptr
      /\ conn \in Structures /\ heap[Ptr] = conn /\ conn.socket = Head(batch).for
      /\ conn.in_buf \in Seq(Requests)
  BY <1>1, Current
<1> QED BY <1>1, <1>2 DEF Buffer
-----------------------------------------------------------------------------
(* The refinement mapping *)

\* The phase of a client moves with its socket.
LEMMA PhaseMoves ==
  ASSUME TypeOK, NEW c \in Clients, NEW x, NEW y, sock[c] = x, sock' = [sock EXCEPT ![c] = y]
  PROVE  Abstract!Moves(c, Phase[x], Phase[y])
<1>1. sock \in [Clients -> {"none", "backlog", "open", "closed"}]
  BY DEF TypeOK
<1>2. \A d \in Clients : sock'[d] = IF d = c THEN y ELSE sock[d]
  BY <1>1
<1> DEFINE f == [d \in Clients |-> Phase[sock[d]]]
           g == [d \in Clients |-> Phase[sock'[d]]]
<1>3. g = [f EXCEPT ![c] = Phase[y]]
  <2>1. \A d \in Clients : g[d] = IF d = c THEN Phase[y] ELSE f[d]
    BY <1>2
  <2> QED BY <2>1
<1>4. f[c] = Phase[x]
  OBVIOUS
<1> QED BY <1>3, <1>4 DEF Abstract!Moves

\* What Phase says.
LEMMA Phases == /\ Phase["none"] = "absent" /\ Phase["backlog"] = "waiting"
                /\ Phase["open"] = "served" /\ Phase["closed"] = "dropped"
BY DEF Phase

\* A client has left, after the step too, exactly when it had before.
SameLeft == \A c \in Clients : (peer'[c] # "open") = (peer[c] # "open")

LEMMA LeftSame ==
  ASSUME SameLeft
  PROVE  [c \in Clients |-> peer'[c] # "open"] = [c \in Clients |-> peer[c] # "open"]
BY DEF SameLeft

\* A step that the clients do not see.
LEMMA Stutter ==
  ASSUME UNCHANGED <<sock, asked, told>>, SameLeft PROVE UNCHANGED Abstract!vars
BY LeftSame DEF Abstract!vars
-----------------------------------------------------------------------------
(* The steps of the refinement *)

\* What is to be shown of a step.
Implements == HInv' /\ (Abstract!Next \/ UNCHANGED Abstract!vars)

\* The state before a step, and the types the steps are about.
LEMMA Before ==
  ASSUME IInv
  PROVE  /\ TypeOK /\ asked \in [Clients -> Nat] /\ net \in [Clients -> Seq(Requests)]
         /\ told \in [Clients -> Seq(Answers)] /\ sendq \in Seq(Answers)
         /\ sock \in [Clients -> {"none", "backlog", "open", "closed"}]
         /\ peer \in [Clients -> {"open", "shut", "reset", "broken"}]
         /\ \A c \in Clients : Buffer(c) \in Seq(Requests) /\ Script[c] \in Seq(Nat)
<1>1. TypeOK
  BY DEF IInv
<1>2. \A c \in Clients : Buffer(c) \in Seq(Requests)
  BY Fields DEF IInv, Watched, Buffer
<1> QED BY <1>1, <1>2, EventLoopAssumption DEF TypeOK

\* A client connects.
LEMMA ConnectSteps == ASSUME IInv, HInv, NEW c \in Clients, Connect(c) PROVE Implements
<1>1. /\ sock[c] = "none" /\ sock' = [sock EXCEPT ![c] = "backlog"]
      /\ UNCHANGED <<limit, peer, asked, net, told, batch, watch, heap, pc, sendq>>
  BY DEF Connect
<1>2. \A d \in Clients : Reached(d)' => Reached(d) /\ Same(d)
  BY <1>1, Before DEF Reached, Same, Buffer, Sends
<1>3. HInv'
  BY <1>1, <1>2, HubKept
<1>4. Abstract!Arrive(c)
  <2>1. Abstract!Moves(c, "absent", "waiting")
    BY <1>1, Before, PhaseMoves, Phases
  <2> QED BY <1>1, <2>1, LeftSame DEF Abstract!Arrive, SameLeft
<1> QED BY <1>3, <1>4 DEF Implements, Abstract!Next

\* A client asks.
LEMMA AskSteps == ASSUME IInv, HInv, NEW c \in Clients, Ask(c) PROVE Implements
<1>1. /\ sock[c] \in {"backlog", "open"} /\ peer[c] = "open" /\ asked[c] < Len(Script[c])
      /\ asked' = [asked EXCEPT ![c] = @ + 1]
      /\ net' = [net EXCEPT ![c] = Append(@, <<c, asked[c] + 1>>)]
      /\ UNCHANGED <<sock, peer, told, batch, watch, heap, pc, sendq>>
  BY DEF Ask, Connected
<1> DEFINE a == asked[c]
<1>2. /\ a \in Nat /\ asked'[c] = a + 1 /\ net'[c] = Append(net[c], <<c, a + 1>>)
      /\ \A d \in Clients : d # c => asked'[d] = asked[d] /\ net'[d] = net[d]
      /\ net[c] \in Seq(Requests) /\ Buffer(c) \in Seq(Requests)
      /\ Len(Script[c]) \in Nat /\ a + 1 <= Len(Script[c]) /\ a + 1 \in DOMAIN Script[c]
  BY <1>1, Before, SMTT(20)
<1> HIDE DEF a
<1>3. \A d \in Clients : Buffer(d)' = Buffer(d) /\ Sends(d)' = Sends(d) /\ Reached(d)' = Reached(d)
  BY <1>1 DEF Buffer, Sends, Reached
<1>4. InStep'
  <2>1. ASSUME Reached(c)
        PROVE  \E d \in 0 .. asked'[c] :
                 Stands(c, d, asked'[c], net'[c], Buffer(c)', Sends(c)', told'[c])
    <3>1. PICK d \in 0 .. a : Stands(c, d, a, net[c], Buffer(c), Sends(c), told[c])
      BY <2>1 DEF HInv, InStep, a
    <3>2. <<c, a + 1>> \in Requests
      BY <1>2 DEF Requests
    <3>3. Stands(c, d, a + 1, Append(net[c], <<c, a + 1>>), Buffer(c), Sends(c), told[c])
      BY <1>2, <3>1, <3>2, AskStands
    <3>4. d \in 0 .. asked'[c]
      BY <1>2
    <3> QED BY <1>1, <1>2, <1>3, <3>3, <3>4
  <2>2. \A d \in Clients : d # c => Same(d)
    BY <1>1, <1>2, <1>3 DEF Same
  <2> QED BY <1>3, <2>1, <2>2, StandingKept DEF HInv
<1>5. Grown'
  <2> SUFFICES ASSUME NEW d \in Clients
               PROVE  /\ asked'[d] <= Len(Script[d])
                      /\ \A m \in 0 .. asked'[d] : Begins(OwedTo(d, m), OwedTo(d, asked'[d]))
    BY DEF Grown
  <2>1. CASE d # c
    BY <2>1, <1>2 DEF HInv, Grown
  <2>2. CASE d = c
    <3>0. \A m \in 0 .. a + 1 : OwedTo(c, m) \in Seq(Answers)
      BY <1>2, OwedType
    <3>1. Begins(OwedTo(c, a), OwedTo(c, a + 1))
      <4>1. /\ Len(OwedTo(c, a + 1)) = Len(OwedTo(c, a)) + Len(Packets(<<c, a + 1>>))
            /\ Packets(<<c, a + 1>>) \in Seq(Answers) /\ OwedTo(c, a) \in Seq(Answers)
            /\ \A i \in 1 .. Len(OwedTo(c, a)) : OwedTo(c, a + 1)[i] = OwedTo(c, a)[i]
        BY <1>2, OwedNext
      <4>2. Len(OwedTo(c, a)) \in Nat /\ Len(Packets(<<c, a + 1>>)) \in Nat
        BY <4>1, LenProperties
      <4> QED BY <4>1, <4>2 DEF Begins
    <3>2. ASSUME NEW m \in 0 .. a + 1 PROVE Begins(OwedTo(c, m), OwedTo(c, a + 1))
      <4>1. CASE m = a + 1
        <5>1. Len(OwedTo(c, a + 1)) \in Nat
          BY <1>2, <3>0, LenProperties
        <5> QED BY <4>1, <5>1 DEF Begins
      <4>2. CASE m \in 0 .. a
        <5>1. Begins(OwedTo(c, m), OwedTo(c, a))
          BY <4>2 DEF HInv, Grown, a
        <5>2. /\ Len(OwedTo(c, m)) \in Nat /\ Len(OwedTo(c, a)) \in Nat
              /\ Len(OwedTo(c, a + 1)) \in Nat
          BY <1>2, <3>0, LenProperties
        <5> QED BY <3>1, <5>1, <5>2 DEF Begins
      <4> QED BY <1>2, <4>1, <4>2
    <3> QED BY <2>2, <1>2, <3>2
  <2> QED BY <2>1, <2>2
<1>6. GoneLeft'
  BY <1>1, GoneKept DEF HInv
<1>7. Abstract!Ask(c)
  <2>1. Abstract!Present(c) /\ [d \in Clients |-> peer[d] # "open"][c] = FALSE
    BY <1>1, Phases DEF Abstract!Present
  <2>2. a + 1 \in DOMAIN Owed[c]
    BY <1>2, OwedAssumption
  <2> QED BY <1>1, <2>1, <2>2, LeftSame DEF Abstract!Ask, SameLeft, a
<1> QED BY <1>4, <1>5, <1>6, <1>7 DEF Implements, HInv, Abstract!Next

\* A client reads, or leaves.
LEMMA ReadSteps == ASSUME IInv, HInv, NEW c \in Clients, Read(c) PROVE Implements
<1>1. UNCHANGED <<sock, peer, asked, net, told, batch, watch, heap, pc, sendq>>
  BY DEF Read
<1>2. \A d \in Clients : Reached(d)' => Reached(d) /\ Same(d)
  BY <1>1 DEF Reached, Same, Buffer, Sends
<1>3. HInv'
  BY <1>1, <1>2, HubKept
<1> QED BY <1>1, <1>3, Stutter DEF Implements, SameLeft

LEMMA LeaveSteps == ASSUME IInv, HInv, NEW c \in Clients, Leave(c) PROVE Implements
<1>1. /\ sock[c] \in {"backlog", "open"}
      /\ UNCHANGED <<sock, asked, net, told, batch, watch, heap, pc, sendq>>
  BY DEF Leave, Connected
<1>2. PICK x \in {"shut", "reset", "broken"} :
        /\ peer' = [peer EXCEPT ![c] = x]
        /\ peer[c] = "open" \/ (peer[c] = "shut" /\ x = "broken")
  <2>1. CASE peer[c] = "shut" /\ peer' = [peer EXCEPT ![c] = "broken"]
    BY <2>1
  <2>2. CASE peer[c] = "open" /\ \E d \in Departures : peer' = [peer EXCEPT ![c] = d]
    BY <2>2, EventLoopAssumption
  <2> QED BY <2>1, <2>2 DEF Leave
<1>3. /\ peer'[c] = x /\ \A d \in Clients : d # c => peer'[d] = peer[d]
  BY <1>2, Before
<1>4. \A d \in Clients : Reached(d)' => Reached(d) /\ Same(d)
  BY <1>1, <1>2, <1>3 DEF Reached, Same, Buffer, Sends
<1>5. HInv'
  BY <1>1, <1>2, <1>3, <1>4, HubKept
<1>6. CASE peer[c] = "open"
  <2> DEFINE f == [d \in Clients |-> peer[d] # "open"]
             g == [d \in Clients |-> peer'[d] # "open"]
  <2>1. f[c] = FALSE /\ g = [f EXCEPT ![c] = TRUE]
    <3>1. \A d \in Clients : g[d] = IF d = c THEN TRUE ELSE f[d]
      BY <1>3
    <3> QED BY <3>1, <1>6
  <2>2. Abstract!Present(c)
    BY <1>1, Phases DEF Abstract!Present
  <2>3. Abstract!Leave(c)
    BY <1>1, <2>1, <2>2 DEF Abstract!Leave
  <2> QED BY <1>5, <2>3 DEF Implements, Abstract!Next
<1>7. CASE peer[c] # "open"
  <2>1. SameLeft
    BY <1>3, <1>7 DEF SameLeft
  <2> QED BY <1>1, <1>5, <2>1, Stutter DEF Implements
<1> QED BY <1>6, <1>7

\* The steps of the thread between two sends and two reads: no client sees them.
LEMMA QuietSteps ==
  ASSUME IInv, HInv, Discard \/ PollReturns \/ PollAgain \/ AcceptFails \/ Process
                       \/ RecvAgain \/ EventDone \/ HandlerReturns
  PROVE  Implements
<1>1. UNCHANGED <<sock, peer, asked, net, told, watch, heap, sendq>>
  BY DEF Discard, PollReturns, PollAgain, AcceptFails, Process, RecvAgain, EventDone,
         HandlerReturns, clientVars
<1>2. batch' = batch \/ (batch # << >> /\ batch' = Tail(batch))
  <2>1. CASE AcceptFails
    BY <2>1 DEF AcceptFails, AtListener
  <2>2. CASE EventDone
    BY <2>2 DEF EventDone, IInv, AtEvent
  <2> QED BY <2>1, <2>2 DEF Discard, PollReturns, PollAgain, Process, RecvAgain, HandlerReturns
<1>3. \A c \in Clients : Sends(c) = << >> /\ Sends(c)' = << >>
  BY DEF Sends, Discard, Collecting, PollReturns, PollAgain, AcceptFails, AtListener, Process,
         AtClient, RecvAgain, EventDone, HandlerReturns, clientVars
<1>4. \A c \in Clients : Reached(c)' => Reached(c) /\ Same(c)
  BY <1>1, <1>3 DEF Reached, Same, Buffer
<1>5. HInv'
  BY <1>1, <1>2, <1>4, HubKept
<1> QED BY <1>1, <1>5, Stutter DEF Implements, SameLeft

\* epoll_wait takes an event: what it reports of a departure is so.
LEMMA CollectSteps == ASSUME IInv, HInv, Collect PROVE Implements
<1> USE EventLoopAssumption
<1> DEFINE x == Head(ready)
           e == Event(x)
<1>1. /\ pc = "poll" /\ batch' = Append(batch, e)
      /\ UNCHANGED <<sock, peer, asked, net, told, watch, heap, pc, sendq>>
  BY DEF Collect, Collecting, clientVars
<1>2. /\ batch \in Seq(Events) /\ x \in Clients \cup {LISTENER}
      /\ e \in Events /\ e.for = x
      /\ x # LISTENER /\ e.gone => peer[x] # "open"
  <2>1. /\ batch \in Seq(Events) /\ ready \in Seq(Clients \cup {LISTENER}) /\ ready # << >>
        /\ watch \in [Clients -> Addresses \cup {NULL}]
    BY DEF IInv, TypeOK, Collect, Collecting
  <2>2. x \in Clients \cup {LISTENER}
    BY <2>1
  <2> QED BY <2>1, <2>2 DEF Event, Events
<1> HIDE DEF x, e
<1>3. /\ DOMAIN batch' = DOMAIN batch \cup {Len(batch) + 1} /\ batch'[Len(batch) + 1] = e
      /\ \A i \in DOMAIN batch : batch'[i] = batch[i]
  BY <1>1, <1>2, Appended
<1>4. GoneLeft'
  BY <1>1, <1>2, <1>3 DEF HInv, GoneLeft
<1>5. \A c \in Clients : Reached(c)' => Reached(c) /\ Same(c)
  BY <1>1 DEF Reached, Same, Buffer, Sends
<1>6. InStep' /\ Grown'
  BY <1>1, <1>5, StandingKept, GrownKept DEF HInv
<1> QED BY <1>1, <1>4, <1>6, Stutter DEF Implements, HInv, SameLeft

\* accept: the client is admitted, with nothing received and nothing sent.
LEMMA AcceptSteps == ASSUME IInv, HInv, Accept PROVE Implements
<1> USE EventLoopAssumption
<1>0. Head(backlog) \in Clients /\ sock[Head(backlog)] = "backlog"
  <2>1. /\ batch \in Seq(Events) /\ batch # << >> /\ backlog \in Seq(Clients)
        /\ 1 \in DOMAIN batch /\ batch[1].for = LISTENER
    BY SMTT(20) DEF IInv, TypeOK, Accept, AtListener
  <2>2. backlog # << >>
    BY <2>1 DEF IInv, Due
  <2>3. 1 \in DOMAIN backlog /\ Head(backlog) = backlog[1] /\ Head(backlog) \in Clients
    BY <2>1, <2>2
  <2> QED BY <2>3 DEF IInv, Waiting
<1>3. PICK c \in Clients : c = Head(backlog) /\ sock[c] = "backlog"
  BY <1>0
<1> DEFINE new == [socket |-> c, in_buf |-> << >>]
<1>1. PICK a \in {x \in Addresses : heap[x] = NULL} :
        heap' = [heap EXCEPT ![a] = new] /\ watch' = [watch EXCEPT ![c] = a]
  BY <1>3 DEF Accept
<1>2. /\ pc = "batch" /\ batch # << >> /\ Head(batch).for = LISTENER
      /\ sock' = [sock EXCEPT ![c] = "open"] /\ batch' = Tail(batch)
      /\ UNCHANGED <<limit, peer, asked, net, told, pc, sendq>>
  BY <1>3 DEF Accept, AtListener
<1>4. /\ new.in_buf = << >> /\ heap \in [Addresses -> Structures \cup {NULL}]
      /\ watch \in [Clients -> Addresses \cup {NULL}]
      /\ sock \in [Clients -> {"none", "backlog", "open", "closed"}]
  BY DEF IInv, TypeOK
<1> HIDE DEF new
<1>5. /\ sock'[c] = "open" /\ watch'[c] = a /\ heap'[a] = new
      /\ \A d \in Clients : d # c => sock'[d] = sock[d] /\ watch'[d] = watch[d]
      /\ \A b \in Addresses : b # a => heap'[b] = heap[b]
  BY <1>1, <1>2, <1>3, <1>4
<1>6. \A d \in Clients : Sends(d) = << >> /\ Sends(d)' = << >>
  BY <1>2 DEF Sends
<1>7. \A d \in Clients : Buffer(d)' = Buffer(d)
  <2> SUFFICES ASSUME NEW d \in Clients PROVE Buffer(d)' = Buffer(d)
    OBVIOUS
  <2>1. CASE d = c
    BY <2>1, <1>3, <1>4, <1>5 DEF Buffer
  <2>2. CASE d # c /\ sock[d] = "open"
    <3>1. watch[d] \in Addresses /\ heap[watch[d]] \in Structures
      BY <2>2 DEF IInv, Watched
    <3>2. watch[d] # a
      BY <1>1, <3>1
    <3> QED BY <2>2, <1>5, <3>1, <3>2 DEF Buffer
  <2>3. CASE d # c /\ sock[d] # "open"
    BY <2>3, <1>5 DEF Buffer
  <2> QED BY <2>1, <2>2, <2>3
<1>8. \A d \in Clients : Reached(d)' => Reached(d) /\ Same(d)
  BY <1>2, <1>3, <1>5, <1>6, <1>7 DEF Reached, Same
<1>9. HInv'
  BY <1>2, <1>8, HubKept
<1>10. Abstract!Admit(c)
  <2>1. Abstract!Moves(c, "waiting", "served")
    <3>1. TypeOK /\ sock[c] = "backlog" /\ sock' = [sock EXCEPT ![c] = "open"]
      BY <1>2, <1>3 DEF IInv
    <3>2. Abstract!Moves(c, Phase["backlog"], Phase["open"])
      BY <3>1, PhaseMoves
    <3> QED BY <3>2, Phases
  <2> QED BY <1>2, <2>1, LeftSame DEF Abstract!Admit, SameLeft
<1> QED BY <1>3, <1>9, <1>10 DEF Implements, Abstract!Next

\* disconnect: the client has left, by what its event said or recv found.
LEMMA CloseSteps == ASSUME IInv, HInv, DisconnectEvent \/ RecvEnd PROVE Implements
<1>1. AtClient \/ pc = "recv"
  BY DEF DisconnectEvent, RecvEnd
<1>0. PICK c \in Clients : c = Head(batch).for
  BY <1>1, CurrentClient
<1>2. /\ batch # << >> /\ c = Head(batch).for /\ Ptr \in Addresses /\ conn.socket = c
      /\ watch[c] = Ptr /\ sock[c] = "open"
  BY <1>0, <1>1, CurrentClient
<1>3. /\ sock' = [sock EXCEPT ![c] = "closed"] /\ heap' = [heap EXCEPT ![Ptr] = NULL]
      /\ batch' = Tail(batch) /\ pc' = "batch"
      /\ UNCHANGED <<limit, peer, asked, net, told, watch, sendq>>
  BY <1>2 DEF DisconnectEvent, RecvEnd, Close
<1>4. peer[c] # "open"
  <2>1. CASE RecvEnd
    BY <2>1, <1>2 DEF RecvEnd
  <2>2. CASE DisconnectEvent
    <3>1. /\ Head(batch).gone /\ Head(batch).for # LISTENER /\ batch \in Seq(Events)
      BY <2>2 DEF DisconnectEvent, AtClient, IInv, TypeOK
    <3>2. 1 \in DOMAIN batch /\ Head(batch) = batch[1]
      BY <1>2, <3>1
    <3> QED BY <1>2, <3>1, <3>2 DEF HInv, GoneLeft
  <2> QED BY <2>1, <2>2
<1> DEFINE p == Ptr
<1>5. p \in Addresses /\ watch[c] = p /\ heap' = [heap EXCEPT ![p] = NULL]
  BY <1>2, <1>3
<1> HIDE DEF p
<1>6. /\ sock \in [Clients -> {"none", "backlog", "open", "closed"}]
      /\ heap \in [Addresses -> Structures \cup {NULL}]
  BY DEF IInv, TypeOK
<1>7. /\ sock'[c] = "closed" /\ \A d \in Clients : d # c => sock'[d] = sock[d]
      /\ \A a \in Addresses : a # p => heap'[a] = heap[a]
  BY <1>2, <1>3, <1>5, <1>6
<1>8. \A d \in Clients : Sends(d) = << >> /\ Sends(d)' = << >>
  BY <1>1, <1>3 DEF Sends, AtClient
<1>9. \A d \in Clients : d # c => Buffer(d)' = Buffer(d)
  <2> SUFFICES ASSUME NEW d \in Clients, d # c PROVE Buffer(d)' = Buffer(d)
    OBVIOUS
  <2>1. CASE sock[d] = "open"
    <3>1. watch[d] \in Addresses /\ watch[d] # p
      BY <2>1, <1>2, <1>5, OwnAddress DEF IInv, Watched
    <3> QED BY <2>1, <1>3, <1>7, <3>1 DEF Buffer
  <2>2. CASE sock[d] # "open"
    BY <2>2, <1>7 DEF Buffer
  <2> QED BY <2>1, <2>2
<1>10. \A d \in Clients : Reached(d)' => Reached(d) /\ Same(d)
  BY <1>3, <1>7, <1>8, <1>9 DEF Reached, Same
<1>11. HInv'
  BY <1>2, <1>3, <1>10, HubKept
<1>12. Abstract!Drop(c)
  <2>1. Abstract!Moves(c, "served", "dropped")
    <3>1. TypeOK /\ sock[c] = "open" /\ sock' = [sock EXCEPT ![c] = "closed"]
      BY <1>2, <1>3 DEF IInv
    <3>2. Abstract!Moves(c, Phase["open"], Phase["closed"])
      BY <3>1, PhaseMoves
    <3> QED BY <3>2, Phases
  <2>2. [d \in Clients |-> peer[d] # "open"][c] = TRUE
    BY <1>2, <1>4
  <2> QED BY <1>3, <2>1, <2>2, LeftSame DEF Abstract!Drop, SameLeft
<1> QED BY <1>2, <1>11, <1>12 DEF Implements, Abstract!Next

\* A step that changes the buffer of the current connection to x.
LEMMA BufferSteps ==
  ASSUME IInv, NEW c \in Clients, c = Head(batch).for, pc \in {"recv", "serve"}, NEW x,
         heap' = [heap EXCEPT ![Ptr].in_buf = x], UNCHANGED <<sock, watch>>
  PROVE  /\ Buffer(c)' = x /\ Buffer(c) = conn.in_buf /\ conn.socket = c
         /\ \A d \in Clients : d # c => Buffer(d)' = Buffer(d)
<1>1. /\ Ptr \in Addresses /\ watch[c] = Ptr /\ sock[c] = "open" /\ heap[Ptr] = conn
      /\ conn.socket = c /\ Buffer(c) = conn.in_buf
  BY CurrentClient
<1>2. conn \in Structures
  BY <1>1 DEF IInv, Watched
<1> DEFINE p == Ptr
<1>3. /\ p \in Addresses /\ watch[c] = p /\ heap' = [heap EXCEPT ![p].in_buf = x]
      /\ heap[p] \in Structures
  BY <1>1, <1>2
<1> HIDE DEF p
<1>4. heap \in [Addresses -> Structures \cup {NULL}]
  BY DEF IInv, TypeOK
<1>5. heap'[p].in_buf = x /\ \A a \in Addresses : a # p => heap'[a] = heap[a]
  BY <1>3, <1>4 DEF Structures
<1>6. Buffer(c)' = x
  BY <1>1, <1>3, <1>5 DEF Buffer
<1>7. ASSUME NEW d \in Clients, d # c PROVE Buffer(d)' = Buffer(d)
  <2>1. CASE sock[d] = "open"
    <3>1. watch[d] \in Addresses /\ watch[d] # p
      BY <2>1, <1>1, <1>3, <1>7, OwnAddress DEF IInv, Watched
    <3>2. heap'[watch[d]] = heap[watch[d]] /\ sock' = sock /\ watch' = watch
      BY <1>5, <3>1
    <3>3. Buffer(d) = heap[watch[d]].in_buf
      BY <2>1 DEF Buffer
    <3>4. Buffer(d)' = heap'[watch[d]].in_buf
      BY <2>1, <3>2 DEF Buffer
    <3> QED BY <3>2, <3>3, <3>4
  <2>2. CASE sock[d] # "open"
    BY <2>2 DEF Buffer
  <2> QED BY <2>1, <2>2
<1> QED BY <1>1, <1>6, <1>7

\* recv: no client sees it.
LEMMA RecvSteps == ASSUME IInv, HInv, Recv PROVE Implements
<1>0. pc = "recv" /\ pc' = "recv"
  BY DEF Recv
<1>1. PICK c \in Clients : c = Head(batch).for
  BY <1>0, CurrentClient
<1>2. /\ heap' = [heap EXCEPT ![Ptr].in_buf = conn.in_buf \o net[conn.socket]]
      /\ net' = [net EXCEPT ![conn.socket] = << >>]
      /\ UNCHANGED <<sock, peer, asked, told, batch, watch, sendq>>
  BY DEF Recv, conn
<1>3. /\ Buffer(c)' = Buffer(c) \o net[c] /\ conn.socket = c
      /\ \A d \in Clients : d # c => Buffer(d)' = Buffer(d)
  <2>1. conn.socket = c /\ conn.in_buf = Buffer(c)
    BY <1>0, <1>1, CurrentClient
  <2> DEFINE x == conn.in_buf \o net[conn.socket]
  <2>2. heap' = [heap EXCEPT ![Ptr].in_buf = x] /\ UNCHANGED <<sock, watch>>
    BY <1>2
  <2>3. x = Buffer(c) \o net[c]
    BY <2>1
  <2> HIDE DEF x
  <2>4. Buffer(c)' = x /\ \A d \in Clients : d # c => Buffer(d)' = Buffer(d)
    BY <1>0, <1>1, <2>2, BufferSteps
  <2> QED BY <2>1, <2>3, <2>4
<1>4. /\ net \in [Clients -> Seq(Requests)] /\ Buffer(c) \in Seq(Requests) /\ asked[c] \in Nat
      /\ net'[c] = << >> /\ \A d \in Clients : d # c => net'[d] = net[d]
  BY <1>2, <1>3, Before
<1>5. \A d \in Clients : Sends(d)' = Sends(d) /\ Reached(d)' = Reached(d)
  BY <1>0, <1>2 DEF Sends, Reached
<1>6. ASSUME Reached(c)
      PROVE  \E d \in 0 .. asked'[c] :
               Stands(c, d, asked'[c], net'[c], Buffer(c)', Sends(c)', told'[c])
  <2>1. PICK d \in 0 .. asked[c] :
          Stands(c, d, asked[c], net[c], Buffer(c), Sends(c), told[c])
    BY <1>6 DEF HInv, InStep
  <2>2. Stands(c, d, asked[c], << >>, Buffer(c) \o net[c], Sends(c), told[c])
    BY <1>4, <2>1, RecvStands
  <2> QED BY <1>2, <1>3, <1>4, <1>5, <2>2
<1>7. \A d \in Clients : d # c => Same(d)
  BY <1>2, <1>3, <1>4, <1>5 DEF Same
<1>8. HInv'
  BY <1>2, <1>5, <1>6, <1>7, HubKept
<1> QED BY <1>2, <1>8, Stutter DEF Implements, SameLeft

\* The next request goes to its handler: its packets are what is owed next.
LEMMA ServeSteps == ASSUME IInv, HInv, Serve PROVE Implements
<1>0. pc = "serve" /\ pc' = "send"
  BY DEF Serve
<1>1. PICK c \in Clients : c = Head(batch).for
  BY <1>0, CurrentClient
<1>2. /\ conn.in_buf # << >> /\ sendq' = Packets(Head(conn.in_buf))
      /\ heap' = [heap EXCEPT ![Ptr].in_buf = Tail(conn.in_buf)]
      /\ UNCHANGED <<sock, peer, asked, net, told, batch, watch>>
  BY DEF Serve, conn, clientVars
<1>3. /\ Buffer(c)' = Tail(Buffer(c)) /\ conn.in_buf = Buffer(c)
      /\ \A d \in Clients : d # c => Buffer(d)' = Buffer(d)
  <2> DEFINE x == Tail(conn.in_buf)
  <2>1. heap' = [heap EXCEPT ![Ptr].in_buf = x] /\ UNCHANGED <<sock, watch>>
    BY <1>2
  <2> HIDE DEF x
  <2>2. /\ Buffer(c)' = x /\ conn.in_buf = Buffer(c)
        /\ \A d \in Clients : d # c => Buffer(d)' = Buffer(d)
    BY <1>0, <1>1, <2>1, BufferSteps
  <2> QED BY <2>2 DEF x
<1>4. /\ net[c] \in Seq(Requests) /\ Buffer(c) \in Seq(Requests) /\ told[c] \in Seq(Answers)
      /\ asked[c] \in Nat /\ asked[c] <= Len(Script[c])
  BY Before DEF HInv, Grown
<1>5. /\ \A d \in Clients : Sends(d) = << >> /\ Reached(d)' = Reached(d)
      /\ Sends(c)' = Packets(Head(Buffer(c)))
      /\ \A d \in Clients : d # c => Sends(d)' = << >>
  BY <1>0, <1>1, <1>2, <1>3 DEF Sends, Reached
<1>6. ASSUME Reached(c)
      PROVE  \E d \in 0 .. asked'[c] :
               Stands(c, d, asked'[c], net'[c], Buffer(c)', Sends(c)', told'[c])
  <2>1. PICK d \in 0 .. asked[c] :
          Stands(c, d, asked[c], net[c], Buffer(c), << >>, told[c])
    BY <1>5, <1>6 DEF HInv, InStep
  <2>2. /\ d + 1 <= asked[c]
        /\ Stands(c, d + 1, asked[c], net[c], Tail(Buffer(c)), Packets(Head(Buffer(c))), told[c])
    BY <1>2, <1>3, <1>4, <2>1, ServeStands
  <2>3. d + 1 \in 0 .. asked[c]
    BY <1>4, <2>2
  <2> QED BY <1>2, <1>3, <1>5, <2>2, <2>3
<1>7. \A d \in Clients : d # c => Same(d)
  BY <1>2, <1>3, <1>5 DEF Same
<1>8. HInv'
  BY <1>2, <1>5, <1>6, <1>7, HubKept
<1> QED BY <1>2, <1>8, Stutter DEF Implements, SameLeft

\* The socket takes a packet: it is the next one the client is owed.
LEMMA TakenSteps == ASSUME IInv, HInv, SendTaken PROVE Implements
<1>0. pc = "send" /\ pc' = "send" /\ sendq # << >>
  BY DEF SendTaken, Sending
<1>1. PICK c \in Clients : c = Head(batch).for
  BY <1>0, CurrentClient
<1>2. conn.socket = c /\ sock[c] = "open"
  BY <1>0, <1>1, CurrentClient
<1>3. /\ peer[c] \in {"open", "shut"} /\ sendq' = Tail(sendq)
      /\ told' = [told EXCEPT ![c] = Append(@, Head(sendq))]
      /\ UNCHANGED <<sock, peer, asked, net, batch, watch, heap>>
  BY <1>2 DEF SendTaken, Sending
<1>4. /\ told \in [Clients -> Seq(Answers)] /\ sendq \in Seq(Answers) /\ asked[c] \in Nat
      /\ told'[c] = Append(told[c], Head(sendq))
      /\ \A d \in Clients : d # c => told'[d] = told[d]
  BY <1>3, Before
<1>5. /\ Sends(c) = sendq /\ Sends(c)' = Tail(sendq)
      /\ \A d \in Clients : d # c => Sends(d) = << >> /\ Sends(d)' = << >>
      /\ \A d \in Clients : Buffer(d)' = Buffer(d) /\ Reached(d)' = Reached(d)
  BY <1>0, <1>1, <1>3 DEF Sends, Buffer, Reached
<1>6. PICK d \in 0 .. asked[c] : Stands(c, d, asked[c], net[c], Buffer(c), sendq, told[c])
  BY <1>2, <1>3, <1>5 DEF HInv, InStep, Reached
<1>7. /\ Len(told[c]) < Len(OwedTo(c, d)) /\ Head(sendq) = OwedTo(c, d)[Len(told[c]) + 1]
      /\ Stands(c, d, asked[c], net[c], Buffer(c), Tail(sendq), Append(told[c], Head(sendq)))
  <2>1. d \in Nat /\ told[c] \in Seq(Answers)
    BY <1>4
  <2> QED BY <1>0, <1>4, <1>6, <2>1, SendStands
<1>8. HInv'
  <2>1. \E e \in 0 .. asked'[c] :
          Stands(c, e, asked'[c], net'[c], Buffer(c)', Sends(c)', told'[c])
    BY <1>3, <1>4, <1>5, <1>7
  <2>2. \A e \in Clients : e # c => Same(e)
    BY <1>3, <1>4, <1>5 DEF Same
  <2> QED BY <1>3, <1>5, <2>1, <2>2, HubKept
<1>9. Abstract!Tell(c)
  <2>1. /\ Len(OwedTo(c, d)) <= Len(OwedTo(c, asked[c]))
        /\ \A i \in 1 .. Len(OwedTo(c, d)) : OwedTo(c, d)[i] = OwedTo(c, asked[c])[i]
        /\ asked[c] <= Len(Script[c])
    BY DEF HInv, Grown, Begins
  <2>2. /\ Len(told[c]) \in Nat /\ Len(OwedTo(c, d)) \in Nat /\ Len(OwedTo(c, asked[c])) \in Nat
    <3>1. Len(Script[c]) \in Nat
      BY Before
    <3>2. d \in 0 .. Len(Script[c]) /\ asked[c] \in 0 .. Len(Script[c])
      BY <1>4, <2>1, <3>1
    <3> QED BY <1>4, <3>2, OwedType, LenProperties
  <2>3. /\ Len(told[c]) < Len(OwedTo(c, asked[c]))
        /\ Head(sendq) = OwedTo(c, asked[c])[Len(told[c]) + 1]
    BY <1>7, <2>1, <2>2, SMTT(20)
  <2>4. Abstract!Due(c) = OwedTo(c, asked[c])
    BY DEF Abstract!Due, OwedTo
  <2>5. [e \in Clients |-> Phase[sock[e]]][c] = "served"
    BY <1>2, Phases
  <2> QED BY <1>3, <2>3, <2>4, <2>5, LeftSame DEF Abstract!Tell, SameLeft
<1> QED BY <1>8, <1>9 DEF Implements, Abstract!Next

\* A send fails: the client has left, and is told nothing any more.
LEMMA FailSteps == ASSUME IInv, HInv, SendFails \/ SendKills PROVE Implements
<1>0. pc = "send"
  BY DEF SendFails, SendKills, Sending
<1>1. PICK c \in Clients : c = Head(batch).for
  BY <1>0, CurrentClient
<1>2. conn.socket = c
  BY <1>0, <1>1, CurrentClient
<1>3. /\ peer[c] \in {"reset", "broken"} /\ peer'[c] = "broken"
      /\ \A d \in Clients : d # c => peer'[d] = peer[d]
      /\ UNCHANGED <<sock, asked, net, told, batch, watch, heap>>
  BY <1>2, Before DEF SendFails, SendKills, Sending, clientVars
<1>4. \A d \in Clients : d # c => Sends(d) = << >> /\ Sends(d)' = << >>
  BY <1>1, <1>3 DEF Sends
<1>5. \A d \in Clients : Reached(d)' => Reached(d) /\ Same(d)
  BY <1>3, <1>4 DEF Reached, Same, Buffer
<1>6. HInv'
  BY <1>3, <1>5, HubKept
<1> QED BY <1>3, <1>6, Stutter DEF Implements, SameLeft
-----------------------------------------------------------------------------
(* The theorem *)

\* The initial states of the loop are those of Hub.
LEMMA InitImplements == Init => Abstract!Init
<1> SUFFICES ASSUME Init PROVE Abstract!Init
  OBVIOUS
<1>1. \A c \in Clients : Phase[sock[c]] = "absent" /\ (peer[c] # "open") = FALSE
  BY Phases DEF Init
<1>2. /\ [c \in Clients |-> Phase[sock[c]]] = [c \in Clients |-> "absent"]
      /\ [c \in Clients |-> peer[c] # "open"] = [c \in Clients |-> FALSE]
  BY <1>1
<1> QED BY <1>2 DEF Init, Abstract!Init

\* Every step of the loop is one of Hub, or none of its clients sees it.
LEMMA StepImplements == IInv /\ HInv /\ [Next]_vars => Implements
<1> SUFFICES ASSUME IInv, HInv, [Next]_vars PROVE Implements
  OBVIOUS
<1>1. CASE \E c \in Clients : Client(c)
  BY <1>1, ConnectSteps, AskSteps, ReadSteps, LeaveSteps DEF Client
<1>2. CASE Server
  BY <1>2, QuietSteps, CollectSteps, AcceptSteps, CloseSteps, RecvSteps, ServeSteps,
     TakenSteps, FailSteps DEF Server
<1>3. CASE UNCHANGED vars
  <2>1. UNCHANGED <<limit, sock, peer, asked, net, told, read, backlog, ready, batch, watch, heap,
                    pc, sendq>>
    BY <1>3 DEF vars, clientVars
  <2>2. \A c \in Clients : Reached(c)' => Reached(c) /\ Same(c)
    BY <2>1 DEF Reached, Same, Buffer, Sends
  <2>3. HInv'
    BY <2>1, <2>2, HubKept
  <2> QED BY <2>1, <2>3, Stutter DEF Implements, SameLeft
<1> QED BY <1>1, <1>2, <1>3 DEF Next

\* The one thread serves its clients as if each had a server of its own: every
\* answer goes to who asked, once and in order, whatever else the batch holds,
\* and nobody is dropped who has not left (main.c:136-197).
THEOREM EachAsIfAlone == Spec => ImplementsHub
<1>1. Init => HInv /\ Abstract!Init
  BY InitHub, InitImplements
<1>2. IInv /\ HInv /\ [Next]_vars => HInv' /\ [Abstract!Next]_(Abstract!vars)
  BY StepImplements DEF Implements
<1> QED BY <1>1, <1>2, Invariance, PTL DEF Spec, ImplementsHub, Abstract!Spec
=============================================================================
