---------------------------- MODULE SingleActor -----------------------------
(***************************************************************************)
(* The actor of Day 37 in C (ActorModel.c): a thread that owns a lock-free *)
(* mailbox (the queue of Day 11, here with one thread at each end) and     *)
(* spins on it; main allocates each message and its payload, pushes it,    *)
(* and the actor frees both.  The last message is the pill.  main ignores  *)
(* the result of queue_push: a message refused by a full mailbox is lost.  *)
(***************************************************************************)
EXTENDS Integers, Sequences

CONSTANTS CAPACITY, NUM_MESSAGES

\* A mailbox of one slot could not tell a full slot from a free one.
MailboxAssumption == CAPACITY \in Nat /\ CAPACITY >= 2 /\ NUM_MESSAGES \in Nat \ {0}

Messages  == 1 .. NUM_MESSAGES
Slots     == 0 .. CAPACITY - 1
IsPill(m) == m = NUM_MESSAGES

VARIABLES data, sequence, head, tail,   \* the mailbox
          main, msg,                    \* main: where it is, the message it has at hand
          actor, got,                   \* the actor, and raw_msg
          heap,                         \* blocks allocated: <<"msg", m>>, <<"payload", m>>
          handled,                      \* history: what the switch was reached with
          refused                       \* history: what the mailbox had no room for

mailbox == <<data, sequence, head, tail>>
vars    == <<mailbox, main, msg, actor, got, heap, handled, refused>>

\* initialize, and the actor's thread
Init ==
  /\ data = [s \in Slots |-> 0] /\ sequence = [s \in Slots |-> s]
  /\ head = 0 /\ tail = 0
  /\ main = "make" /\ msg = 0
  /\ actor = "pop" /\ got = 0
  /\ heap = {} /\ handled = <<>> /\ refused = {}

-----------------------------------------------------------------------------
(* main and queue_push *)

Make ==
  /\ main = "make" /\ msg < NUM_MESSAGES
  /\ msg' = msg + 1
  /\ heap' = heap \cup {<<"msg", msg + 1>>}
                  \cup (IF IsPill(msg + 1) THEN {} ELSE {<<"payload", msg + 1>>})
  /\ main' = "push"
  /\ UNCHANGED <<mailbox, actor, got, handled, refused>>

\* diff == 0: the CAS succeeds, since no other thread pushes
PushClaim ==
  /\ main = "push" /\ sequence[tail % CAPACITY] = tail
  /\ tail' = tail + 1
  /\ main' = "write"
  /\ UNCHANGED <<data, sequence, head, msg, actor, got, heap, handled, refused>>

PushFull ==                             \* false, and main does not look
  /\ main = "push" /\ sequence[tail % CAPACITY] < tail
  /\ refused' = refused \cup {msg}
  /\ main' = "make"
  /\ UNCHANGED <<mailbox, msg, actor, got, heap, handled>>

PushWrite ==
  /\ main = "write"
  /\ data' = [data EXCEPT ![(tail - 1) % CAPACITY] = msg]
  /\ main' = "publish"
  /\ UNCHANGED <<sequence, head, tail, msg, actor, got, heap, handled, refused>>

PushPublish ==
  /\ main = "publish"
  /\ sequence' = [sequence EXCEPT ![(tail - 1) % CAPACITY] = tail]
  /\ main' = "make"
  /\ UNCHANGED <<data, head, tail, msg, actor, got, heap, handled, refused>>

Join ==
  /\ main = "make" /\ msg = NUM_MESSAGES /\ actor = "returned"
  /\ main' = "returned"
  /\ UNCHANGED <<mailbox, msg, actor, got, heap, handled, refused>>

MainStep == Make \/ PushClaim \/ PushFull \/ PushWrite \/ PushPublish \/ Join

-----------------------------------------------------------------------------
(* actor_worker and queue_pop; an empty mailbox is tried again *)

PopClaim ==
  /\ actor = "pop" /\ sequence[head % CAPACITY] = head + 1
  /\ head' = head + 1
  /\ actor' = "read"
  /\ UNCHANGED <<data, sequence, tail, main, msg, got, heap, handled, refused>>

PopRead ==
  /\ actor = "read"
  /\ got' = data[(head - 1) % CAPACITY]
  /\ actor' = "release"
  /\ UNCHANGED <<mailbox, main, msg, heap, handled, refused>>

PopRelease ==
  /\ actor = "release"
  /\ sequence' = [sequence EXCEPT ![(head - 1) % CAPACITY] = head - 1 + CAPACITY]
  /\ actor' = "handle"
  /\ UNCHANGED <<data, head, tail, main, msg, got, heap, handled, refused>>

Handle ==
  /\ actor = "handle"
  /\ handled' = Append(handled, got)
  /\ heap' = heap \ {<<"msg", got>>, <<"payload", got>>}
  /\ actor' = IF IsPill(got) THEN "returned" ELSE "pop"
  /\ UNCHANGED <<mailbox, main, msg, got, refused>>

ActorStep == PopClaim \/ PopRead \/ PopRelease \/ Handle

Next == MainStep \/ ActorStep

-----------------------------------------------------------------------------
Unhandled == {m \in 1 .. msg : \A k \in 1 .. Len(handled) : handled[k] # m}

\* Messages are handled in the order made, while they are allocated, and none is passed
\* over but those refused; what is still allocated is exactly what has not been handled.
MessagesOwned ==
  /\ \A j, k \in 1 .. Len(handled) : j < k => handled[j] < handled[k]
  /\ \A k \in 1 .. Len(handled) :
       handled[k] \in 1 .. msg \ refused /\ 1 .. handled[k] \cap Unhandled \subseteq refused
  /\ actor = "handle" => got \in Unhandled
  /\ heap = {<<"msg", m>> : m \in Unhandled}
               \cup {<<"payload", m>> : m \in {k \in Unhandled : ~IsPill(k)}}

\* The actor takes its pill and main joins it, or the mailbox had no room for the pill.
Ended == main = "returned" \/ NUM_MESSAGES \in refused
=============================================================================
