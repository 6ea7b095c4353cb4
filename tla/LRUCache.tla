------------------------------ MODULE LRUCache ------------------------------
(***************************************************************************)
(* The LRU cache of Day 30 (lru.c; lru.cpp keeps the same list between two *)
(* sentinels): nodes on a doubly linked list, the most recently used       *)
(* first, and in the chains of a hash table.  A chain is modelled as the   *)
(* sequence of its nodes, the list by its links.  malloc succeeds.         *)
(***************************************************************************)
EXTENDS Integers, Sequences

CONSTANTS Keys, Values, Capacity, TABLE_SIZE,
          Nodes        \* bound: the addresses malloc returns

NULL == 0

VARIABLES c,           \* the LRUCache: head, tail, size, table, and the nodes
          answer       \* what the last get returned

\* 2654435761 % TABLE_SIZE = 1 for every power of 2 up to 16.
hash(k) == k % TABLE_SIZE
Freed   == [key |-> -1, value |-> -1, prev |-> NULL, next |-> NULL]

Init ==
  /\ c = [head |-> NULL, tail |-> NULL, size |-> 0,
          table |-> [h \in 0 .. TABLE_SIZE - 1 |-> <<>>], node |-> [n \in Nodes |-> Freed]]
  /\ answer = -1

-----------------------------------------------------------------------------
\* The node of k in its chain, or NULL.
tableFind(s, k) ==
  LET chain == s.table[hash(k)]
      hits  == {i \in DOMAIN chain : s.node[chain[i]].key = k}
  IN  IF hits = {} THEN NULL ELSE chain[CHOOSE i \in hits : \A j \in hits : i <= j]

tableInsert(s, n) == [s EXCEPT !.table[hash(s.node[n].key)] = <<n>> \o @]

tableRemove(s, k) ==
  LET found == tableFind(s, k)
  IN  [s EXCEPT !.table[hash(k)] = SelectSeq(@, LAMBDA n : n # found)]

listAddFront(s, n) ==
  [s EXCEPT
     !.node = [m \in Nodes |->
                 IF m = n THEN [s.node[n] EXCEPT !.prev = NULL, !.next = s.head]
                 ELSE IF m = s.head THEN [s.node[m] EXCEPT !.prev = n] ELSE s.node[m]],
     !.head = n,
     !.tail = IF @ = NULL THEN n ELSE @]

\* Slips: faulty forms of the definitions that follow them; not part of Next.
TailKept(s, n) ==                       \* the tail stays when the last node leaves
  LET p == s.node[n].prev
      q == s.node[n].next
  IN  [s EXCEPT
         !.node = [m \in Nodes |->
                     [s.node[m] EXCEPT !.next = IF m = p THEN q ELSE @,
                                       !.prev = IF m = q THEN p ELSE @]],
         !.head = IF p = NULL THEN q ELSE @]

listUnlink(s, n) ==
  LET p == s.node[n].prev
      q == s.node[n].next
  IN  [s EXCEPT
         !.node = [m \in Nodes |->
                     [s.node[m] EXCEPT !.next = IF m = p THEN q ELSE @,
                                       !.prev = IF m = q THEN p ELSE @]],
         !.head = IF p = NULL THEN q ELSE @,
         !.tail = IF q = NULL THEN p ELSE @]

moveToFront(s, n) == IF s.head = n THEN s ELSE listAddFront(listUnlink(s, n), n)

evictLRU(s) ==
  LET victim == s.tail
      gone   == tableRemove(listUnlink(s, victim), s.node[victim].key)
  IN  [gone EXCEPT !.node[victim] = Freed, !.size = @ - 1]

-----------------------------------------------------------------------------
Update(k, v) ==
  LET n == tableFind(c, k)
  IN  /\ n # NULL
      /\ c' = moveToFront([c EXCEPT !.node[n].value = v], n)
      /\ UNCHANGED answer

Insert(k, v) ==
  LET room == IF c.size = Capacity THEN evictLRU(c) ELSE c
  IN  /\ tableFind(c, k) = NULL
      /\ LET n    == CHOOSE m \in Nodes : room.node[m] = Freed      \* malloc
             made == [room EXCEPT !.node[n].key = k, !.node[n].value = v, !.size = @ + 1]
         IN  c' = tableInsert(listAddFront(made, n), n)
      /\ UNCHANGED answer

get(k) ==
  LET n == tableFind(c, k)
  IN  IF n = NULL THEN answer' = -1 /\ UNCHANGED c
      ELSE c' = moveToFront(c, n) /\ answer' = c.node[n].value

Next == \E k \in Keys : get(k) \/ \E v \in Values : Update(k, v) \/ Insert(k, v)
Spec == Init /\ [][Next]_<<c, answer>>
-----------------------------------------------------------------------------
\* The list read from the head; a cycle would show as a longer list.
Order ==
  LET at[i \in 1 .. Capacity + 1] ==
        IF i = 1 THEN c.head
        ELSE LET n == at[i - 1] IN IF n = NULL THEN NULL ELSE c.node[n].next
      nodes == SelectSeq(at, LAMBDA n : n # NULL)
  IN  [i \in DOMAIN nodes |-> <<c.node[nodes[i]].key, c.node[nodes[i]].value>>]

-----------------------------------------------------------------------------
(* What the cache promises of this order: the last Capacity keys used, the  *)
(* latest first, each with the value last put; a miss changes nothing.      *)

Without(k) == SelectSeq(Order, LAMBDA e : e[1] # k)
UpTo(s, n) == IF Len(s) > n THEN SubSeq(s, 1, n) ELSE s

Put(k, v) == Order' = UpTo(<<<<k, v>>>> \o Without(k), Capacity) /\ UNCHANGED answer

Hit(k) == \E i \in DOMAIN Order :
  /\ Order[i][1] = k
  /\ answer' = Order[i][2]
  /\ Order' = <<Order[i]>> \o Without(k)

Miss(k) ==
  /\ answer' = -1
  /\ \A i \in DOMAIN Order : Order[i][1] # k
  /\ UNCHANGED Order

Promised     == Order = <<>> /\ answer = -1
PromisedNext == \E k \in Keys : Hit(k) \/ Miss(k) \/ \E v \in Values : Put(k, v)
=============================================================================
