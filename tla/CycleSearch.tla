---------------------------- MODULE CycleSearch -----------------------------
(***************************************************************************)
(* detect_cycle and dfs of Day 40 (DeadlockDetection.c; LockGraph has the  *)
(* same search) on an adjacency matrix: depth-first from every node not    *)
(* yet visited, with the nodes of the current path marked in stack[].      *)
(* The search runs under the graph's lock, alone; a step here is one round *)
(* of a loop, so that its recursion is a stack of calls.  It is compared   *)
(* with the definition of a cycle that module DeadlockDetection uses.      *)
(***************************************************************************)
EXTENDS Naturals, Sequences

CONSTANT Size          \* node_count

SearchAssumption == Size \in Nat

VARIABLES adj,         \* the set of pairs (i, j) with adj[i][j] = 1
          root,        \* the i of detect_cycle
          visited, stack,
          calls,       \* the calls of dfs not returned from: [curr, next], the last one runs
          answer       \* what detect_cycle returned: "none" before it does

vars == <<adj, root, visited, stack, calls, answer>>

Nodes == 0 .. Size - 1

Init ==
  /\ adj \in SUBSET (Nodes \X Nodes)
  /\ root = 0 /\ visited = {} /\ stack = {} /\ calls = <<>>
  /\ answer = "none"

\* dfs(n) begins.
Call(n, callers) ==
  /\ visited' = visited \cup {n}
  /\ stack' = stack \cup {n}
  /\ calls' = Append(callers, [curr |-> n, next |-> 0])

-----------------------------------------------------------------------------
(* The loop of detect_cycle *)

SearchFrom ==
  /\ calls = <<>> /\ root < Size /\ root \notin visited
  /\ Call(root, calls)
  /\ UNCHANGED <<adj, root, answer>>

SkipRoot ==
  /\ calls = <<>> /\ root < Size /\ root \in visited
  /\ root' = root + 1
  /\ UNCHANGED <<adj, visited, stack, calls, answer>>

NoneFound ==
  /\ calls = <<>> /\ root = Size
  /\ answer' = "acyclic"
  /\ UNCHANGED <<adj, root, visited, stack, calls>>

-----------------------------------------------------------------------------
(* The loop of the innermost dfs *)

Depth == Len(calls)
Curr  == calls[Depth].curr
Succ  == calls[Depth].next
Step  == [calls EXCEPT ![Depth].next = @ + 1]       \* next++

Searching == calls # <<>> /\ Succ < Size

Skip ==
  /\ Searching
  /\ <<Curr, Succ>> \in adj => Succ \in visited \ stack
  /\ calls' = Step
  /\ UNCHANGED <<adj, root, visited, stack, answer>>

Dfs ==
  /\ Searching /\ <<Curr, Succ>> \in adj /\ Succ \notin visited
  /\ Call(Succ, Step)
  /\ UNCHANGED <<adj, root, answer>>

\* Every dfs on the way out returns true.
Found ==
  /\ Searching /\ <<Curr, Succ>> \in adj /\ Succ \in stack
  /\ answer' = "cycle"
  /\ UNCHANGED <<adj, root, visited, stack, calls>>

\* A slip: the mark of the path is not removed when a node is left.
LeaveKeepsMark ==
  /\ calls # <<>> /\ Succ = Size
  /\ calls' = SubSeq(calls, 1, Depth - 1)
  /\ UNCHANGED <<adj, root, visited, stack, answer>>

Leave ==
  /\ calls # <<>> /\ Succ = Size
  /\ stack' = stack \ {Curr}
  /\ calls' = SubSeq(calls, 1, Depth - 1)
  /\ UNCHANGED <<adj, root, visited, answer>>

detect_cycle ==
  /\ answer = "none"
  /\ SearchFrom \/ SkipRoot \/ NoneFound \/ Skip \/ Dfs \/ Found \/ Leave

Spec == Init /\ [][detect_cycle]_vars
-----------------------------------------------------------------------------
(* Properties *)

HasCycle == \E S \in SUBSET Nodes : S # {} /\ \A a \in S : \E b \in S : <<a, b>> \in adj

\* The search returns true exactly for the graphs that have a cycle: it misses
\* none behind a node visited from another root, and a node reached twice on
\* different paths is not taken for one.
FindsExactlyCycles == answer # "none" => (answer = "cycle" <=> HasCycle)
=============================================================================
