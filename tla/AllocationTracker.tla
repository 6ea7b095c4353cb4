------------------------- MODULE AllocationTracker --------------------------
(***************************************************************************)
(* The leak trackers of Day 17.  Tracker.cpp replaces new and delete:      *)
(* malloc and then a record in a table under a mutex; the record out and   *)
(* then free.  Between the two calls another thread may run, and may be    *)
(* given an address just freed.  Tracker.c has the same table and order in *)
(* a single thread, where one call ends before the next begins.  A record  *)
(* that does not fit the table is dropped.  The program may also delete an *)
(* address that is not allocated, a second time or out of the blue.        *)
(***************************************************************************)
EXTENDS Naturals, Sequences, SequencesExt

CONSTANTS TrackedThreads, Addresses, MAX_ALLOCS

VARIABLES source,      \* "c" or "cpp"
          heap,        \* the form each address was allocated in, "free" if it is not
          table,       \* g_alloc_map: records [ptr, is_array]
          call, arg,   \* what each thread is in the middle of, and its record
          held,        \* the addresses the program has and may delete
          dropped,     \* live addresses that did not fit the table
          report,      \* the message of each thread's delete
          ended,       \* "exit", "abort" of free, or "clash", see operator_new
          leaks        \* the pointers printed at exit

vars == <<source, heap, table, call, arg, held, dropped, report, ended, leaks>>

Init ==
  /\ source \in {"c", "cpp"}
  /\ heap = [a \in Addresses |-> "free"]
  /\ table = <<>>
  /\ call = [t \in TrackedThreads |-> "idle"] /\ arg = [t \in TrackedThreads |-> <<>>]
  /\ held = {} /\ dropped = {}
  /\ report = [t \in TrackedThreads |-> "none"]
  /\ ended = "no" /\ leaks = {}

Form(is_array) == IF is_array THEN "array" ELSE "plain"

\* What of the table and of dropped a record that is added becomes.
Add(r) ==
  IF Len(table) < MAX_ALLOCS
  THEN table' = Append(table, r) /\ UNCHANGED dropped
  ELSE dropped' = dropped \cup {r.ptr} /\ UNCHANGED table

Entries(ptr) == {i \in DOMAIN table : table[i].ptr = ptr}
FirstEntry(ptr) == CHOOSE i \in Entries(ptr) : \A j \in Entries(ptr) : i <= j

\* Slip: a faulty form of SwapBack; not part of Next.
ShiftsNone(i) == Front(table)           \* the last record is lost, not moved

\* The last record takes the place of the one removed.
SwapBack(i) == Front([table EXCEPT ![i] = Last(table)])

Enter(t, here, next) ==
  ended = "no" /\ call[t] = here /\ call' = [call EXCEPT ![t] = next]

\* The thread t of Tracker.c, between two calls.
Alone(t) == ended = "no" /\ \A u \in TrackedThreads : call[u] = "idle" /\ t <= u

\* What a program can pass to free or delete: what it has, or what is not allocated.
Deletable(a) == a \in held \/ heap[a] = "free"

-----------------------------------------------------------------------------
(* Tracker.c, in one thread *)

tracked_malloc(t, a) ==
  /\ source = "c" /\ Alone(t)
  /\ heap[a] = "free"
  /\ heap' = [heap EXCEPT ![a] = "plain"]
  /\ held' = held \cup {a}
  /\ Add([ptr |-> a, is_array |-> FALSE])
  /\ UNCHANGED <<source, call, arg, report, ended, leaks>>

\* Up to the call of free, which is made whether or not the address was in the table.
tracked_free(t, a) ==
  /\ source = "c" /\ Alone(t) /\ Enter(t, "idle", "free")
  /\ Deletable(a)
  /\ IF Entries(a) # {}
     THEN table' = SwapBack(FirstEntry(a)) /\ report' = [report EXCEPT ![t] = "none"]
     ELSE report' = [report EXCEPT ![t] = "invalid"] /\ UNCHANGED table
  /\ held' = held \ {a}
  /\ arg' = [arg EXCEPT ![t] = [ptr |-> a, is_array |-> FALSE]]
  /\ UNCHANGED <<source, heap, dropped, ended, leaks>>

-----------------------------------------------------------------------------
(* Tracker.cpp *)

\* malloc has returned a.  If a wrong delete of a has begun, it is about to remove the
\* record and free the memory of this thread: the program is undefined, the model ends.
operator_new(t, a, is_array) ==
  /\ source = "cpp" /\ Enter(t, "idle", "add_record")
  /\ heap[a] = "free"
  /\ ended' = IF \E u \in TrackedThreads : call[u] # "idle" /\ arg[u].ptr = a
              THEN "clash" ELSE ended
  /\ heap' = [heap EXCEPT ![a] = Form(is_array)]
  /\ arg' = [arg EXCEPT ![t] = [ptr |-> a, is_array |-> is_array]]
  /\ UNCHANGED <<source, table, held, dropped, report, leaks>>

add_record(t) ==                        \* and new returns the address
  /\ Enter(t, "add_record", "idle")
  /\ Add(arg[t])
  /\ held' = held \cup {arg[t].ptr}
  /\ arg' = [arg EXCEPT ![t] = <<>>]
  /\ UNCHANGED <<source, heap, report, ended, leaks>>

\* The program deletes, perhaps in the wrong form, perhaps what is not allocated.
Delete(t, a, is_array) ==
  /\ source = "cpp" /\ Enter(t, "idle", "remove_record")
  /\ Deletable(a)
  /\ held' = held \ {a}
  /\ arg' = [arg EXCEPT ![t] = [ptr |-> a, is_array |-> is_array]]
  /\ UNCHANGED <<source, heap, table, dropped, report, ended, leaks>>

remove_record(t) ==
  /\ Enter(t, "remove_record", "free")
  /\ LET found == Entries(arg[t].ptr)  i == FirstEntry(arg[t].ptr) IN
     /\ report' = [report EXCEPT ![t] =
                     IF found = {} THEN "invalid"
                     ELSE IF table[i].is_array # arg[t].is_array THEN "mismatch" ELSE "none"]
     /\ table' = IF found = {} THEN table ELSE SwapBack(i)
  /\ UNCHANGED <<source, heap, arg, held, dropped, ended, leaks>>

-----------------------------------------------------------------------------
(* Both *)

\* real_free, std::free: the end of tracked_free and of operator delete.  It aborts on
\* an address that is not allocated.
free(t) ==
  /\ Enter(t, "free", "idle")
  /\ ended' = IF heap[arg[t].ptr] = "free" THEN "abort" ELSE ended
  /\ heap' = [heap EXCEPT ![arg[t].ptr] = "free"]
  /\ dropped' = dropped \ {arg[t].ptr}
  /\ arg' = [arg EXCEPT ![t] = <<>>] /\ report' = [report EXCEPT ![t] = "none"]
  /\ UNCHANGED <<source, table, held, leaks>>

dump_leaks == {r.ptr : r \in ToSet(table)}

\* atexit(dump_leaks), ~LeakChecker: when main returns
Exit ==
  /\ ended = "no" /\ \A t \in TrackedThreads : call[t] = "idle"
  /\ ended' = "exit"
  /\ leaks' = dump_leaks
  /\ UNCHANGED <<source, heap, table, call, arg, held, dropped, report>>

Next ==
  \/ \E t \in TrackedThreads :
       \/ \E a \in Addresses : tracked_malloc(t, a) \/ tracked_free(t, a)
       \/ \E a \in Addresses, is_array \in BOOLEAN :
            operator_new(t, a, is_array) \/ Delete(t, a, is_array)
       \/ add_record(t) \/ remove_record(t) \/ free(t)
  \/ Exit

-----------------------------------------------------------------------------
\* The table lists exactly the live addresses whose call is over, each once and in its
\* form, but for those it had no room for, however the calls of two threads fall
\* between each other and whichever address malloc gives again; so what is printed at
\* exit is what the program never freed.
TableIsHeap ==
  LET inside(here) == {arg[t].ptr : t \in {u \in TrackedThreads : call[u] = here}}
      recorded == {a \in Addresses : heap[a] # "free"}
                    \ (dropped \cup inside("add_record") \cup inside("free"))
  IN  /\ dump_leaks = recorded
      /\ \A i, j \in DOMAIN table : table[i].ptr = table[j].ptr => i = j
      /\ \A r \in ToSet(table) : heap[r.ptr] = Form(r.is_array)
      /\ ended = "exit" => leaks = held \ dropped

\* A free or delete is reported exactly when it is wrong, or when its record did not fit
\* the table: "mismatch" for the other form, "invalid" (BAD FREE) for an address that is
\* not allocated, on which free then aborts, or whose record was dropped.
ReportsJustified ==
  \A t \in TrackedThreads : call[t] = "free" /\ ended # "clash" =>
    LET a == arg[t].ptr
    IN  /\ report[t] = "mismatch" <=> heap[a] \notin {"free", Form(arg[t].is_array)}
                                        /\ a \notin dropped
        /\ report[t] = "invalid" <=> heap[a] = "free" \/ a \in dropped
=============================================================================
