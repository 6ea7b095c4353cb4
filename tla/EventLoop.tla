----------------------------- MODULE EventLoop ------------------------------
(***************************************************************************)
(* The single-threaded server of Day 35: async.c, and the Reactor of       *)
(* async.cpp, which dispatches in the same way through a map from          *)
(* descriptors to handlers.  Connections are edge-triggered: the kernel    *)
(* puts a descriptor on its ready list when something happens to it, or    *)
(* when epoll_ctl finds it ready, and epoll_wait takes it off and reports  *)
(* what is ready then.  A handler drains until EAGAIN in one step.         *)
(* Clients connect, send their request in one or more segments, read,      *)
(* shut down or reset at any time.                                         *)
(***************************************************************************)
EXTENDS Naturals, Sequences, FiniteSets, FiniteSetsExt, SequencesExt, Functions

CONSTANTS Clients, Fds,
          RESPONSE,        \* length of the response, in what the client reads at once
          SNDBUF,          \* what the kernel buffers of it
          MAX_SEGMENTS,    \* segments a client may send
          Listen           \* the listening descriptor

ServerAssumption ==
  /\ Fds \subseteq Nat /\ IsFiniteSet(Fds) /\ Listen \notin Fds
  /\ RESPONSE \in Nat /\ SNDBUF \in Nat

VARIABLES peer,       \* client and kernel: socket of each client
          handlers,   \* registered descriptors: the client and what epoll watches for
          buf,        \* conn_state of each client: write_len, write_pos
          ready,      \* epoll's ready list
          events      \* of the last epoll_wait, those not handled yet

vars == <<peer, handlers, buf, ready, events>>

Init ==
  /\ peer = [c \in Clients |-> [state |-> "new", in |-> 0, sent |-> 0,
                                end |-> "open", out |-> <<>>, got |-> <<>>]]
  /\ handlers = <<>>
  /\ buf = [c \in Clients |-> [write_len |-> 0, write_pos |-> 0]]
  /\ ready = {}
  /\ events = <<>>

Registered == DOMAIN handlers
FdOf(c)    == {f \in Registered : handlers[f].conn = c}
Queued     == {c \in Clients : peer[c].state = "queued"}

\* What is ready on the socket p, of what is watched for.
Mask(p, watched) ==
  (IF p.in > 0 \/ p.end # "open" THEN {"IN"} ELSE {})
    \cup (IF "OUT" \in watched /\ Len(p.out) < SNDBUF THEN {"OUT"} ELSE {})
    \cup (IF p.end # "open" THEN {"RDHUP"} ELSE {})

-----------------------------------------------------------------------------
(* The clients and the kernel *)

Connect(c) ==
  /\ peer[c].state = "new"
  /\ peer' = [peer EXCEPT ![c].state = "queued"]
  /\ ready' = ready \cup {Listen}
  /\ UNCHANGED <<handlers, buf, events>>

Alive(c) == peer[c].state \in {"queued", "accepted"} /\ peer[c].end = "open"

Send(c) ==
  /\ Alive(c) /\ peer[c].sent < MAX_SEGMENTS
  /\ peer' = [peer EXCEPT ![c].in = @ + 1, ![c].sent = @ + 1]
  /\ ready' = ready \cup FdOf(c)
  /\ UNCHANGED <<handlers, buf, events>>

\* shutdown(SHUT_WR), or a reset, which drops what is in the buffers
HangUp(c) ==
  /\ Alive(c)
  /\ \/ peer' = [peer EXCEPT ![c].end = "shut"]
     \/ peer' = [peer EXCEPT ![c].end = "reset", ![c].in = 0, ![c].out = <<>>]
  /\ ready' = ready \cup FdOf(c)
  /\ UNCHANGED <<handlers, buf, events>>

\* Room in a full buffer is an edge for who watches for it.
Receive(c) ==
  /\ peer[c].out # <<>>
  /\ peer' = [peer EXCEPT ![c].got = Append(@, Head(peer[c].out)), ![c].out = Tail(@)]
  /\ ready' = IF Len(peer[c].out) = SNDBUF
              THEN ready \cup {f \in FdOf(c) : "OUT" \in handlers[f].watched} ELSE ready
  /\ UNCHANGED <<handlers, buf, events>>

\* The sockets epoll reports: those on the list with something watched for ready.
Reported == {f \in ready : IF f = Listen THEN Queued # {}
                           ELSE Mask(peer[handlers[f].conn], handlers[f].watched) # {}}

epoll_wait ==
  /\ events = <<>> /\ ready # {}
  /\ \E order \in SetToSeqs(Reported) :
       events' = [k \in 1 .. Len(order) |->
         IF order[k] = Listen THEN [fd |-> Listen, conn |-> Listen, events |-> {"IN"}]
         ELSE LET h == handlers[order[k]]
              IN  [fd |-> order[k], conn |-> h.conn, events |-> Mask(peer[h.conn], h.watched)]]
  /\ ready' = {}
  /\ UNCHANGED <<peer, handlers, buf>>

-----------------------------------------------------------------------------
(* Handlers *)

Event == Head(events)
Conn  == handlers[Event.fd].conn

\* EPOLL_CTL_ADD and EPOLL_CTL_MOD: ready at once if something watched for is.
Watch(fd, c, socket, watched) ==
  /\ handlers' = [f \in Registered \cup {fd} |->
                   IF f = fd THEN [conn |-> c, watched |-> watched] ELSE handlers[f]]
  /\ ready' = IF Mask(socket, watched) # {} THEN ready \cup {fd} ELSE ready

register_handler(fd, c) ==
  /\ Watch(fd, c, peer[c], {"IN"})
  /\ peer' = [peer EXCEPT ![c].state = "accepted"]

\* set_nonblocking or epoll_ctl fails
drop_client(c) ==
  /\ peer' = [peer EXCEPT ![c].state = "closed"]
  /\ UNCHANGED <<handlers, ready>>

\* The accept loop, one connection at a time; without a free descriptor accept fails
\* and the loop ends as it does when the queue is empty.
AcceptLoop ==
  /\ events # <<>> /\ Event.fd = Listen
  /\ IF Queued = {} \/ Fds \subseteq Registered
     THEN events' = Tail(events) /\ UNCHANGED <<peer, handlers, ready>>
     ELSE /\ \E c \in Queued : \/ register_handler(Min(Fds \ Registered), c)
                               \/ drop_client(c)
          /\ UNCHANGED events
  /\ UNCHANGED buf

\* close_conn, remove_handler and the end of the ClientHandler
close_conn ==
  /\ handlers' = Restrict(handlers, Registered \ {Event.fd})
  /\ ready' = ready \ {Event.fd}
  /\ peer' = [peer EXCEPT ![Conn].state = "closed"]
  /\ events' = Tail(events)
  /\ UNCHANGED buf

Dispatch(kind) == events # <<>> /\ Event.fd \in Registered /\ kind

\* The first tests of the dispatch: async.cpp skips an event whose descriptor it does
\* not find in its map; an error or a hangup closes.
handle_error ==
  /\ events # <<>> /\ Event.fd # Listen
  /\ IF Event.fd \in Registered THEN "RDHUP" \in Event.events /\ close_conn
     ELSE events' = Tail(events) /\ UNCHANGED <<peer, handlers, buf, ready>>

\* read until EAGAIN; the end of the stream or an error closes.  Then the response is
\* put into the buffer from its start and EPOLLOUT is watched for.
handle_read ==
  /\ Dispatch("RDHUP" \notin Event.events /\ "IN" \in Event.events)
  /\ IF peer[Conn].end # "open" THEN close_conn
     ELSE LET drained == [peer[Conn] EXCEPT !.in = 0]
          IN  /\ peer' = [peer EXCEPT ![Conn] = drained]
              /\ buf' = [buf EXCEPT ![Conn] = [write_len |-> RESPONSE, write_pos |-> 0]]
              /\ Watch(Event.fd, Conn, drained, {"IN", "OUT"})
              /\ events' = IF "OUT" \in Event.events
                           THEN [events EXCEPT ![1].events = {"OUT"}] ELSE Tail(events)

\* Slip: a faulty form of Complete; not part of Next.
SomeWritten(b, n) == n > 0

\* Whether n more of the buffer is all of it
Complete(b, n) == b.write_pos + n = b.write_len

\* How much of the buffer b the kernel takes for the socket p, and what that is
Taken(b, p)   == Min({b.write_len - b.write_pos, SNDBUF - Len(p.out)})
Written(b, n) == [k \in 1 .. n |-> b.write_pos + k]

\* write until EAGAIN; closed when all is written, or on an error
handle_write ==
  /\ Dispatch(Event.events = {"OUT"})
  /\ LET b == buf[Conn]
         n == Taken(b, peer[Conn])
     IN  IF peer[Conn].end = "reset" THEN close_conn
         ELSE /\ buf' = [buf EXCEPT ![Conn].write_pos = @ + n]
              /\ peer' = [peer EXCEPT ![Conn].out = @ \o Written(b, n),
                                      ![Conn].state = IF Complete(b, n) THEN "closed" ELSE @]
              /\ IF Complete(b, n)
                 THEN /\ handlers' = Restrict(handlers, Registered \ {Event.fd})
                      /\ ready' = ready \ {Event.fd}
                 ELSE UNCHANGED <<handlers, ready>>
              /\ events' = Tail(events)

Server == epoll_wait \/ AcceptLoop \/ handle_error \/ handle_read \/ handle_write

Next == Server \/ \E c \in Clients : Connect(c) \/ Send(c) \/ HangUp(c) \/ Receive(c)

Spec == Init /\ [][Next]_vars
-----------------------------------------------------------------------------
\* An event still to be handled is about the connection its descriptor stands for: none
\* was closed, or closed and reused for a client accepted since, behind its back (in
\* async.c the event points to the freed conn_state).
NoStaleEvent ==
  \A k \in DOMAIN events :
    events[k].fd # Listen => /\ events[k].fd \in Registered
                             /\ handlers[events[k].fd].conn = events[k].conn

Stream(c) == peer[c].got \o peer[c].out
IsResponsePrefix(s) == Len(s) <= RESPONSE /\ \A k \in DOMAIN s : s[k] = k

\* Through partial writes and full buffers, a client whose request came in one piece
\* reads the response from its start, nothing twice and nothing left out; and a closed
\* connection whose client is still there has been written all of it.
WholeRequestsAnswered ==
  \A c \in Clients : peer[c].sent <= 1 =>
    /\ IsResponsePrefix(Stream(c))
    /\ buf[c].write_len > 0 /\ peer[c].state = "closed" /\ peer[c].end = "open"
         => Len(Stream(c)) = RESPONSE

\* No edge is missed: whoever was accepted and sends a request, hangs up or both is
\* closed in the end.
AcceptedIsClosed ==
  \A c \in Clients :
    (peer[c].state = "accepted" /\ (peer[c].sent > 0 \/ peer[c].end # "open"))
       ~> (peer[c].state = "closed")
=============================================================================
