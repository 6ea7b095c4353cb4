----------------------------- MODULE Ownership ------------------------------
(***************************************************************************)
(* The owning handles: the counted box of Day 12 (RefBox in C), its shared *)
(* and unique pointers in C++, and the copy-on-write string of Day 16      *)
(* (CowString).  A handle points at a counted object; the counts say when  *)
(* it is freed.  None of them is atomic, and each call is one step.  The   *)
(* four types are run one at a time.                                       *)
(***************************************************************************)
EXTENDS Naturals, FiniteSets

CONSTANTS Handles, Objects, Contents, Nil

OwnershipAssumption == IsFiniteSet(Handles) /\ Nil \notin Objects

VARIABLES type,        \* the type under test
          ptr,         \* the object of each handle, Nil before and after its life
          allocated,   \* the objects not freed
          refcount, contents,
          meant        \* what the program expects to read through each handle

vars == <<type, ptr, allocated, refcount, contents, meant>>

Init ==
  /\ type \in {"RefBox", "MySharedPtr", "MyUniquePtr", "CowString"}
  /\ ptr = [h \in Handles |-> Nil]
  /\ allocated = {}
  /\ refcount = [o \in Objects |-> 0]
  /\ contents = [o \in Objects |-> Nil]
  /\ meant = [h \in Handles |-> Nil]

Lives(h) == ptr[h] # Nil

\* What the allocated objects are when handle h has let go of its own.
Without(h) == IF refcount[ptr[h]] = 1 THEN allocated \ {ptr[h]} ELSE allocated

\* Slip: a faulty form of detach_if_shared; not part of Next.
SharesAlways(h) == FALSE

-----------------------------------------------------------------------------
(* What the calls have in common *)

Construct(h, o, c) ==
  /\ ~Lives(h) /\ o \notin allocated
  /\ ptr' = [ptr EXCEPT ![h] = o]
  /\ allocated' = allocated \cup {o}
  /\ refcount' = [refcount EXCEPT ![o] = 1]
  /\ contents' = [contents EXCEPT ![o] = c]
  /\ meant' = [meant EXCEPT ![h] = c]
  /\ UNCHANGED type

Share(h, g) ==                          \* g becomes a second handle on h's object
  /\ Lives(h) /\ ~Lives(g)
  /\ ptr' = [ptr EXCEPT ![g] = ptr[h]]
  /\ refcount' = [refcount EXCEPT ![ptr[h]] = @ + 1]
  /\ meant' = [meant EXCEPT ![g] = meant[h]]
  /\ UNCHANGED <<type, allocated, contents>>

Release(h) ==
  /\ Lives(h)
  /\ ptr' = [ptr EXCEPT ![h] = Nil]
  /\ refcount' = [refcount EXCEPT ![ptr[h]] = @ - 1]
  /\ allocated' = Without(h)
  /\ meant' = [meant EXCEPT ![h] = Nil]
  /\ UNCHANGED <<type, contents>>

Assign(g, h) ==                         \* g = h: lets go of its own first
  /\ Lives(g) /\ Lives(h) /\ g # h
  /\ ptr' = [ptr EXCEPT ![g] = ptr[h]]
  /\ refcount' = [refcount EXCEPT ![ptr[g]] = @ - 1, ![ptr[h]] = @ + 1]
  /\ allocated' = Without(g)
  /\ meant' = [meant EXCEPT ![g] = meant[h]]
  /\ UNCHANGED <<type, contents>>

-----------------------------------------------------------------------------
refbox_create(h, o, c) == type = "RefBox" /\ Construct(h, o, c)
refbox_retain(h, g)    == type = "RefBox" /\ Share(h, g)
refbox_release(h)      == type = "RefBox" /\ Release(h)

shared_ptr_new(h, o, c)  == type = "MySharedPtr" /\ Construct(h, o, c)
shared_ptr_copy(h, g)    == type = "MySharedPtr" /\ Share(h, g)
shared_ptr_assign(g, h)  == type = "MySharedPtr" /\ Assign(g, h)
shared_ptr_release(h)    == type = "MySharedPtr" /\ Release(h)

\* MyUniquePtr keeps no count: its own handle is the only one.
unique_ptr_new(h, o, c) == type = "MyUniquePtr" /\ Construct(h, o, c)
unique_ptr_delete(h)    == type = "MyUniquePtr" /\ Release(h)

unique_ptr_move(h, g) ==
  /\ type = "MyUniquePtr" /\ Lives(h) /\ ~Lives(g)
  /\ ptr' = [ptr EXCEPT ![g] = ptr[h], ![h] = Nil]
  /\ meant' = [meant EXCEPT ![g] = meant[h], ![h] = Nil]
  /\ UNCHANGED <<type, allocated, refcount, contents>>

unique_ptr_move_assign(g, h) ==         \* deletes what g had
  /\ type = "MyUniquePtr" /\ Lives(h) /\ Lives(g) /\ g # h
  /\ ptr' = [ptr EXCEPT ![g] = ptr[h], ![h] = Nil]
  /\ allocated' = Without(g)
  /\ meant' = [meant EXCEPT ![g] = meant[h], ![h] = Nil]
  /\ UNCHANGED <<type, refcount, contents>>

CowString_new(h, o, c)  == type = "CowString" /\ Construct(h, o, c)
CowString_copy(h, g)    == type = "CowString" /\ Share(h, g)
CowString_assign(g, h)  == type = "CowString" /\ Assign(g, h)
CowString_destroy(h)    == type = "CowString" /\ Release(h)

detach_if_shared(h) == refcount[ptr[h]] > 1

\* s[i] = x with the string not const: a shared buffer is copied first, into o.
CowString_write(h, o, c) ==
  /\ type = "CowString" /\ Lives(h)
  /\ meant' = [meant EXCEPT ![h] = c]
  /\ IF detach_if_shared(h)
     THEN /\ o \notin allocated
          /\ ptr' = [ptr EXCEPT ![h] = o]
          /\ allocated' = allocated \cup {o}
          /\ refcount' = [refcount EXCEPT ![ptr[h]] = @ - 1, ![o] = 1]
          /\ contents' = [contents EXCEPT ![o] = c]
     ELSE /\ contents' = [contents EXCEPT ![ptr[h]] = c]
          /\ UNCHANGED <<ptr, allocated, refcount>>
  /\ UNCHANGED type

Next ==
  \/ \E h \in Handles, o \in Objects, c \in Contents :
       \/ refbox_create(h, o, c) \/ shared_ptr_new(h, o, c) \/ unique_ptr_new(h, o, c)
       \/ CowString_new(h, o, c) \/ CowString_write(h, o, c)
  \/ \E h, g \in Handles :
       \/ refbox_retain(h, g) \/ shared_ptr_copy(h, g) \/ CowString_copy(h, g)
       \/ shared_ptr_assign(g, h) \/ CowString_assign(g, h)
       \/ unique_ptr_move(h, g) \/ unique_ptr_move_assign(g, h)
  \/ \E h \in Handles : \/ refbox_release(h) \/ shared_ptr_release(h)
                        \/ unique_ptr_delete(h) \/ CowString_destroy(h)

-----------------------------------------------------------------------------
\* An object is freed with its last handle and not before: the count is the number of
\* handles on it, and nothing is leaked, whatever is assigned, moved or detached.
CountsAreHandles ==
  /\ allocated = {ptr[h] : h \in Handles} \ {Nil}
  /\ \A o \in allocated : refcount[o] = Cardinality({h \in Handles : ptr[h] = o})

\* A handle reads what was put in through it or through a handle it was copied from: a
\* write to one string never shows in another that shared its buffer.
ValuesKept == \A h \in Handles : Lives(h) => contents[ptr[h]] = meant[h]
=============================================================================
