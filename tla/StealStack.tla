----------------------------- MODULE StealStack -----------------------------
(***************************************************************************)
(* The C++ stack of Day 33 (TrieberStack.h) with the producers and         *)
(* consumers of TrieberStack.cpp.  push links one node with a              *)
(* compare-and-swap on a plain, untagged pointer; instead of a pop,        *)
(* steal() takes the whole chain with one exchange, and the thief deletes  *)
(* it node by node.  Nodes are addresses that new may hand out again.      *)
(***************************************************************************)
EXTENDS Naturals, Sequences, FiniteSets

CONSTANTS Producers, Consumers,
          Nodes,               \* the addresses new can return
          MSGS_PER_PRODUCER,
          NULL

VARIABLES head,      \* the atomic head pointer
          next,      \* node->next
          live,      \* the nodes allocated and not deleted
          active,    \* active_producers
          pc, node,  \* each thread's place, and its local node / head
          made,      \* a producer's loop counter j
          count,     \* a consumer's local_count
          final,     \* the consumer is in the steal after "no producer left"
          stack,     \* history: the nodes on the stack, top first
          stolen     \* history: the nodes each consumer took and has not deleted

vars == <<head, next, live, active, pc, node, made, count, final, stack, stolen>>

Threads == Producers \cup Consumers

Init ==
  /\ head = NULL
  /\ next = [n \in Nodes |-> NULL]
  /\ live = {}
  /\ active = Cardinality(Producers)
  /\ pc = [t \in Threads |-> IF t \in Producers THEN "new" ELSE "steal"]
  /\ node = [t \in Threads |-> NULL]
  /\ made = [p \in Producers |-> 0]
  /\ count = [c \in Consumers |-> 0]
  /\ final = [c \in Consumers |-> FALSE]
  /\ stack = <<>>
  /\ stolen = [c \in Consumers |-> <<>>]

Goto(t, label) == pc' = [pc EXCEPT ![t] = label]
SetNode(t, n)  == node' = [node EXCEPT ![t] = n]
-----------------------------------------------------------------------------
(* Slips: faulty forms of definitions below; none is part of Next.          *)

PushStore(p) ==                         \* head stored without a compare
  /\ pc[p] = "push_cas"
  /\ head' = node[p]
  /\ stack' = <<node[p]>> \o stack
  /\ made' = [made EXCEPT ![p] = @ + 1]
  /\ SetNode(p, NULL)
  /\ Goto(p, "new")
  /\ UNCHANGED <<next, live, active, count, final, stolen>>

-----------------------------------------------------------------------------
(* push, and the producer thread *)

New(p) ==
  /\ pc[p] = "new"
  /\ made[p] < MSGS_PER_PRODUCER
  /\ \E n \in Nodes \ live : live' = live \cup {n} /\ SetNode(p, n)
  /\ Goto(p, "link")
  /\ UNCHANGED <<head, next, active, made, count, final, stack, stolen>>

\* chain_tail->next = head.load(); a failed CAS stores the head there likewise.
PushLink(p) ==
  /\ pc[p] = "link"
  /\ next' = [next EXCEPT ![node[p]] = head]
  /\ Goto(p, "push_cas")
  /\ UNCHANGED <<head, live, active, node, made, count, final, stack, stolen>>

PushCasOk(p) ==
  /\ pc[p] = "push_cas"
  /\ head = next[node[p]]
  /\ head' = node[p]
  /\ stack' = <<node[p]>> \o stack
  /\ made' = [made EXCEPT ![p] = @ + 1]
  /\ SetNode(p, NULL)
  /\ Goto(p, "new")
  /\ UNCHANGED <<next, live, active, count, final, stolen>>

PushCasFail(p) ==
  /\ pc[p] = "push_cas"
  /\ next' = [next EXCEPT ![node[p]] = head]
  /\ UNCHANGED <<head, live, active, pc, node, made, count, final, stack, stolen>>

ProducerDone(p) ==                      \* active_producers.fetch_sub
  /\ pc[p] = "new"
  /\ made[p] = MSGS_PER_PRODUCER
  /\ active' = active - 1
  /\ Goto(p, "done")
  /\ UNCHANGED <<head, next, live, node, made, count, final, stack, stolen>>

-----------------------------------------------------------------------------
(* steal, and the consumer thread *)

Steal(c) ==                             \* head.exchange(nullptr)
  /\ pc[c] = "steal"
  /\ head # NULL
  /\ head' = NULL
  /\ SetNode(c, head)
  /\ stolen' = [stolen EXCEPT ![c] = stack]
  /\ stack' = <<>>
  /\ final' = [final EXCEPT ![c] = FALSE]
  /\ Goto(c, "read")
  /\ UNCHANGED <<next, live, active, made, count>>

StealNothing(c) ==
  /\ pc[c] = "steal"
  /\ head = NULL
  /\ Goto(c, "empty")
  /\ UNCHANGED <<head, next, live, active, node, made, count, final, stack, stolen>>

DeleteNode(c) ==                        \* next = head->next; delete head
  /\ pc[c] = "read"
  /\ live' = live \ {node[c]}
  /\ stolen' = [stolen EXCEPT ![c] = Tail(@)]
  /\ count' = [count EXCEPT ![c] = @ + 1]
  /\ SetNode(c, next[node[c]])
  /\ Goto(c, IF next[node[c]] = NULL THEN "steal" ELSE "read")
  /\ UNCHANGED <<head, next, active, made, final, stack>>

EmptyRetry(c) ==                        \* producers still active: yield
  /\ pc[c] = "empty" /\ ~final[c]
  /\ active > 0
  /\ Goto(c, "steal")
  /\ UNCHANGED <<head, next, live, active, node, made, count, final, stack, stolen>>

EmptyFinal(c) ==                        \* no producer left: steal once more
  /\ pc[c] = "empty" /\ ~final[c]
  /\ active = 0
  /\ final' = [final EXCEPT ![c] = TRUE]
  /\ Goto(c, "steal")
  /\ UNCHANGED <<head, next, live, active, node, made, count, stack, stolen>>

Finish(c) ==                            \* that steal was empty too
  /\ pc[c] = "empty" /\ final[c]
  /\ Goto(c, "done")
  /\ UNCHANGED <<head, next, live, active, node, made, count, final, stack, stolen>>

-----------------------------------------------------------------------------
Produce(p) == New(p) \/ PushLink(p) \/ PushCasOk(p) \/ PushCasFail(p) \/ ProducerDone(p)

Consume(c) ==
  \/ Steal(c) \/ StealNothing(c) \/ DeleteNode(c)
  \/ EmptyRetry(c) \/ EmptyFinal(c) \/ Finish(c)

Next == (\E p \in Producers : Produce(p)) \/ (\E c \in Consumers : Consume(c))

Spec == Init /\ [][Next]_vars

FairSpec ==
  /\ Spec
  /\ \A p \in Producers : WF_vars(Produce(p)) /\ SF_vars(PushCasOk(p))
  /\ \A c \in Consumers : WF_vars(Consume(c))
-----------------------------------------------------------------------------
(* Properties *)

InSeq(n, s) == \E i \in DOMAIN s : s[i] = n

TypeOK ==
  /\ head \in Nodes \cup {NULL}
  /\ next \in [Nodes -> Nodes \cup {NULL}]
  /\ live \subseteq Nodes
  /\ active \in 0 .. Cardinality(Producers)
  /\ pc \in [Threads -> {"new", "link", "push_cas", "steal", "read", "empty", "done"}]
  /\ node \in [Threads -> Nodes \cup {NULL}]
  /\ made \in [Producers -> 0 .. MSGS_PER_PRODUCER]
  /\ count \in [Consumers -> Nat]
  /\ final \in [Consumers -> BOOLEAN]
  /\ stack \in Seq(Nodes)
  /\ stolen \in [Consumers -> Seq(Nodes)]

\* A chain of next pointers that starts at first runs through exactly s.
Chain(first, s) ==
  /\ first = (IF s = <<>> THEN NULL ELSE s[1])
  /\ \A i \in 1 .. Len(s) : next[s[i]] = (IF i = Len(s) THEN NULL ELSE s[i + 1])

\* The Readme's "stale-then-reused address is still structurally correct to link
\* against": although the CAS of push compares bare addresses, which are
\* reused, the stack and every stolen chain hold exactly the nodes pushed.
ChainsIntact ==
  /\ Chain(head, stack)
  /\ \A c \in Consumers : Chain(node[c], stolen[c])

\* Every allocated node has exactly one owner: the producer about to push it, the
\* stack, or the thief that has still to delete it.
Owners(n) ==
  {p \in Producers : node[p] = n}
    \cup {c \in Consumers : InSeq(n, stolen[c])}
    \cup {s \in {"stack"} : InSeq(n, stack)}

OneOwner ==
  \A n \in Nodes : Cardinality(Owners(n)) = (IF n \in live THEN 1 ELSE 0)

\* The program has ended, with every node counted and deleted: "Total nodes consumed"
\* is the target.
Total[S \in SUBSET Consumers] ==
  IF S = {} THEN 0 ELSE LET c == CHOOSE x \in S : TRUE IN count[c] + Total[S \ {c}]

Complete ==
  /\ \A t \in Threads : pc[t] = "done"
  /\ live = {}
  /\ Total[Consumers] = Cardinality(Producers) * MSGS_PER_PRODUCER
=============================================================================
