----------------------------- MODULE ActorModel -----------------------------
(***************************************************************************)
(* The actor system of Day 37 (ActorModel.cpp): producers send orders to a *)
(* router, the router forwards each order to the worker its symbol selects *)
(* and a poison pill to every worker.  A mailbox is a bounded queue under  *)
(* one mutex and one condition variable, on which senders wait while it is *)
(* full and the actor waits while it is empty; push and pop each wake one  *)
(* waiter, whichever it is.  A push or pop is one step, or one step that   *)
(* goes to sleep and a later one that succeeds.  A mailbox has at least as *)
(* many slots as senders (1024 and 5 in the code): with fewer, a wakeup    *)
(* meant for the actor can be spent on a sender that finds it full.        *)
(*                                                                         *)
(* main joins the producers, sends the pill, joins the router and returns, *)
(* which destroys the workers one after the other.  The destructor of a    *)
(* worker first turns the object into a plain Actor, whose process_message *)
(* is pure, and only then joins the worker's thread: a message the thread  *)
(* handles in between is a call of a pure virtual function (crashed).      *)
(***************************************************************************)
EXTENDS Naturals, Sequences, FiniteSets

CONSTANTS Producers,
          NUM_WORKERS,
          ORDERS_PER_PRODUCER,
          CAPACITY,              \* of every mailbox: 1024, for 5 senders
          Router, Main, Pill     \* the two other threads, the PoisonPillPayload

Workers == 0 .. NUM_WORKERS - 1
Actors  == {Router} \cup Workers
Threads == Producers \cup {Main} \cup Actors

VARIABLES queue,      \* the messages in each mailbox
          waiting,    \* the threads asleep on each mailbox's condition variable
          pc,         \* where each thread is
          sent,       \* a producer's loop counter i
          msg,        \* the message an actor is handling
          fanout,     \* how many workers the router has sent the pill to
          processed,  \* the orders each worker has handled, in order
          destroyed,  \* the workers whose destructor has started
          crashed

vars == <<queue, waiting, pc, sent, msg, fanout, processed, destroyed, crashed>>

Orders    == Producers \X (0 .. ORDERS_PER_PRODUCER - 1)
Messages  == Orders \cup {Pill}
Target(o) == o[2] % NUM_WORKERS              \* order.symbol % workers.size()
Order(p)  == <<p, sent[p]>>

\* There is a worker, and no thread is two threads.
ActorAssumption ==
  /\ NUM_WORKERS \in Nat \ {0} /\ ORDERS_PER_PRODUCER \in Nat /\ CAPACITY \in Nat
  /\ Router \notin Workers /\ Main \notin Actors
  /\ Producers \cap (Actors \cup {Main}) = {}
  /\ Pill \notin Orders

Init ==
  /\ queue = [a \in Actors |-> <<>>]
  /\ waiting = [a \in Actors |-> {}]
  /\ pc = [t \in Threads |->
             IF t \in Producers THEN "send" ELSE IF t = Main THEN "join" ELSE "pop"]
  /\ sent = [p \in Producers |-> 0]
  /\ msg = [a \in Actors |-> Pill]
  /\ fanout = 0
  /\ processed = [w \in Workers |-> <<>>]
  /\ destroyed = {}
  /\ crashed = FALSE

Goto(t, label) == pc' = [pc EXCEPT ![t] = label]
-----------------------------------------------------------------------------
(* Slips: faulty forms of definitions below; none is part of Next.          *)

PopSilently(a, m) ==                         \* pop does not notify
  /\ a \notin waiting[a]
  /\ queue[a] # <<>>
  /\ m = Head(queue[a])
  /\ queue' = [queue EXCEPT ![a] = Tail(@)]
  /\ UNCHANGED waiting

SendPillUnjoined ==                          \* the producers are not joined
  /\ pc[Main] = "join"
  /\ Goto(Main, "pill")
  /\ UNCHANGED <<queue, waiting, sent, msg, fanout, processed, destroyed, crashed>>

-----------------------------------------------------------------------------
(* Mailbox *)

Enqueue(q, m) == Append(q, m)
HasRoom(a)    == Len(queue[a]) < CAPACITY

NotifyOne(a) ==
  \/ waiting[a] = {} /\ UNCHANGED waiting
  \/ \E t \in waiting[a] : waiting' = [waiting EXCEPT ![a] = @ \ {t}]

Push(t, a, m) ==
  /\ t \notin waiting[a]
  /\ HasRoom(a)
  /\ queue' = [queue EXCEPT ![a] = Enqueue(@, m)]
  /\ NotifyOne(a)

PushWaits(t, a) ==                      \* cv.wait: the mailbox is full
  /\ t \notin waiting[a]
  /\ ~HasRoom(a)
  /\ waiting' = [waiting EXCEPT ![a] = @ \cup {t}]
  /\ UNCHANGED <<queue, pc, sent, msg, fanout, processed, destroyed, crashed>>

Pop(a, m) ==
  /\ a \notin waiting[a]
  /\ queue[a] # <<>>
  /\ m = Head(queue[a])
  /\ queue' = [queue EXCEPT ![a] = Tail(@)]
  /\ NotifyOne(a)

PopWaits(a) ==                          \* cv.wait: the mailbox is empty
  /\ pc[a] = "pop"
  /\ a \notin waiting[a]
  /\ queue[a] = <<>>
  /\ waiting' = [waiting EXCEPT ![a] = @ \cup {a}]
  /\ UNCHANGED <<queue, pc, sent, msg, fanout, processed, destroyed, crashed>>

SpuriousWakeup(a) ==
  /\ \E t \in waiting[a] : waiting' = [waiting EXCEPT ![a] = @ \ {t}]
  /\ UNCHANGED <<queue, pc, sent, msg, fanout, processed, destroyed, crashed>>

-----------------------------------------------------------------------------
(* producer_task *)

SendOrder(p) ==
  /\ pc[p] = "send"
  /\ sent[p] < ORDERS_PER_PRODUCER
  /\ \/ /\ Push(p, Router, Order(p))
        /\ sent' = [sent EXCEPT ![p] = @ + 1]
        /\ UNCHANGED <<pc, msg, fanout, processed, destroyed, crashed>>
     \/ PushWaits(p, Router)

ProducerDone(p) ==
  /\ pc[p] = "send"
  /\ sent[p] = ORDERS_PER_PRODUCER
  /\ Goto(p, "done")
  /\ UNCHANGED <<queue, waiting, sent, msg, fanout, processed, destroyed, crashed>>

-----------------------------------------------------------------------------
(* Actor::run and process_message *)

Take(a) ==                              \* msg = mailbox.pop()
  /\ pc[a] = "pop"
  /\ \E m \in Messages : Pop(a, m) /\ msg' = [msg EXCEPT ![a] = m]
  /\ Goto(a, "process")
  /\ UNCHANGED <<sent, fanout, processed, destroyed, crashed>>

RouteOrder ==                           \* the router forwards an order
  /\ pc[Router] = "process" /\ msg[Router] # Pill
  /\ LET w == Target(msg[Router])
     IN  \/ /\ Push(Router, w, msg[Router])
            /\ Goto(Router, "pop")
            /\ UNCHANGED <<sent, msg, fanout, processed, destroyed, crashed>>
         \/ PushWaits(Router, w)

RoutePill ==                            \* ... a pill to each worker in turn
  /\ pc[Router] = "process" /\ msg[Router] = Pill
  /\ fanout < NUM_WORKERS
  /\ \/ /\ Push(Router, fanout, Pill)
        /\ fanout' = fanout + 1
        /\ UNCHANGED <<pc, sent, msg, processed, destroyed, crashed>>
     \/ PushWaits(Router, fanout)

RouterDone ==
  /\ pc[Router] = "process" /\ msg[Router] = Pill
  /\ fanout = NUM_WORKERS
  /\ Goto(Router, "done")
  /\ UNCHANGED <<queue, waiting, sent, msg, fanout, processed, destroyed, crashed>>

Process(w) ==                           \* processed_count++, or the last printout
  /\ pc[w] = "process"
  /\ w \notin destroyed
  /\ processed' = (IF msg[w] = Pill THEN processed
                   ELSE [processed EXCEPT ![w] = Append(@, msg[w])])
  /\ Goto(w, IF msg[w] = Pill THEN "done" ELSE "pop")
  /\ UNCHANGED <<queue, waiting, sent, msg, fanout, destroyed, crashed>>

ProcessDestroyed(w) ==                  \* a pure virtual call
  /\ pc[w] = "process"
  /\ w \in destroyed
  /\ crashed' = TRUE
  /\ UNCHANGED <<queue, waiting, pc, sent, msg, fanout, processed, destroyed>>

-----------------------------------------------------------------------------
(* main *)

JoinProducers ==
  /\ pc[Main] = "join"
  /\ \A p \in Producers : pc[p] = "done"
  /\ Goto(Main, "pill")
  /\ UNCHANGED <<queue, waiting, sent, msg, fanout, processed, destroyed, crashed>>

SendPill ==
  /\ pc[Main] = "pill"
  /\ \/ /\ Push(Main, Router, Pill)
        /\ Goto(Main, "join_router")
        /\ UNCHANGED <<sent, msg, fanout, processed, destroyed, crashed>>
     \/ PushWaits(Main, Router)

JoinRouter ==
  /\ pc[Main] = "join_router"
  /\ pc[Router] = "done"
  /\ Goto(Main, "destroy")
  /\ UNCHANGED <<queue, waiting, sent, msg, fanout, processed, destroyed, crashed>>

\* The destructor of the vector of workers: the first worker at once, the next
\* one when the thread of the one before has been joined.
DestroyWorker(w) ==
  /\ pc[Main] = "destroy"
  /\ destroyed = 0 .. w - 1
  /\ \A v \in destroyed : pc[v] = "done"
  /\ destroyed' = destroyed \cup {w}
  /\ UNCHANGED <<queue, waiting, pc, sent, msg, fanout, processed, crashed>>

MainDone ==
  /\ pc[Main] = "destroy"
  /\ destroyed = Workers
  /\ \A v \in destroyed : pc[v] = "done"
  /\ Goto(Main, "done")
  /\ UNCHANGED <<queue, waiting, sent, msg, fanout, processed, destroyed, crashed>>

-----------------------------------------------------------------------------
Producer(p)  == SendOrder(p) \/ ProducerDone(p)
RouterThread == Take(Router) \/ PopWaits(Router) \/ RouteOrder \/ RoutePill \/ RouterDone
Worker(w)    == Take(w) \/ PopWaits(w) \/ Process(w) \/ ProcessDestroyed(w)
MainThread   ==
  JoinProducers \/ SendPill \/ JoinRouter \/ MainDone \/ \E w \in Workers : DestroyWorker(w)

Next ==
  /\ ~crashed
  /\ \/ \E p \in Producers : Producer(p)
     \/ RouterThread
     \/ \E w \in Workers : Worker(w)
     \/ MainThread
     \/ \E a \in Actors : SpuriousWakeup(a)

Spec == Init /\ [][Next]_vars

\* Threads that are not asleep run; nothing wakes a sleeper but a notification
\* (spurious wakeups are possible, never guaranteed).
FairSpec ==
  /\ Spec
  /\ \A p \in Producers : WF_vars(~crashed /\ Producer(p))
  /\ WF_vars(~crashed /\ RouterThread)
  /\ \A w \in Workers : WF_vars(~crashed /\ Worker(w))
  /\ WF_vars(~crashed /\ MainThread)
-----------------------------------------------------------------------------
(* Properties *)

TypeOK ==
  /\ queue \in [Actors -> Seq(Messages)]
  /\ \A a \in Actors : Len(queue[a]) <= CAPACITY
  /\ waiting \in [Actors -> SUBSET Threads]
  /\ pc \in [Threads -> {"send", "pop", "process", "join", "pill", "join_router",
                         "destroy", "done"}]
  /\ sent \in [Producers -> 0 .. ORDERS_PER_PRODUCER]
  /\ msg \in [Actors -> Messages]
  /\ fanout \in 0 .. NUM_WORKERS
  /\ processed \in [Workers -> Seq(Orders)]
  /\ destroyed \subseteq Workers
  /\ crashed \in BOOLEAN

\* The orders of one producer for one worker are handled in the order they were
\* sent, through two mailboxes and with any number of other senders.
OrderedPerProducer ==
  \A w \in Workers : \A i, j \in DOMAIN processed[w] :
    i < j /\ processed[w][i][1] = processed[w][j][1]
      => processed[w][i][2] < processed[w][j][2]

\* "No order ever silently vanishes": when a worker takes its pill, it has handled
\* every order meant for it, and nothing is behind the pill.
DrainedBeforePill ==
  \A w \in Workers :
    pc[w] = "done" \/ (pc[w] = "process" /\ msg[w] = Pill) =>
      /\ queue[w] = <<>>
      /\ {processed[w][i] : i \in DOMAIN processed[w]} = {o \in Orders : Target(o) = w}

\* Every thread has ended, or the program has crashed in its teardown (see
\* HandlesOnlyWhileAlive).
Ended == crashed \/ \A t \in Threads : pc[t] = "done"

\* Day 37's Readme on the destructor order: "Fixed by adding explicit
\* Actor::join()": no worker handles a message once its destruction has begun.
HandlesOnlyWhileAlive == ~crashed
=============================================================================
