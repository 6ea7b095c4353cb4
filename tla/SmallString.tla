---------------------------- MODULE SmallString -----------------------------
(***************************************************************************)
(* The small-string types of Day 21 (sso_string.c and sso_string.cpp): a   *)
(* text of up to STACK_CAP characters lies in the object itself, a longer  *)
(* one in a heap block, in one union with a flag that tells which.  A      *)
(* behaviour is a client of either one: the C client reuses two zeroed     *)
(* structs, the C++ client constructs and destroys two objects.  malloc    *)
(* may fail: C returns NULL, C++ throws.                                   *)
(***************************************************************************)
EXTENDS Integers, Sequences, SequencesExt

CONSTANTS Strings, STACK_CAP,
          Blocks,       \* what malloc can hand out
          Texts,        \* what a string is made from and what is appended
          MaxLen,       \* bound on the length of a text
          LEFT_AT,      \* inline characters past this one overlap heap.__size
          NoText, None, Dead, Failed, Junk

Chars == {Junk} \cup UNION {ToSet(t) : t \in Texts}

\* The objects; "a text", "no block" and "no object" are told apart.
StringObjects == [long : BOOLEAN, text : Seq(Chars), ptr : Blocks \cup {None},
                  size : Nat, cap : Nat]

SmallStringAssumption ==
  /\ Texts \subseteq Seq(Chars)
  /\ NoText \notin Seq(Chars) /\ Failed \notin Seq(Chars)
  /\ None \notin Blocks /\ Dead \notin StringObjects

VARIABLES lang,         \* "C" or "Cpp"
          str,          \* the objects
          block,        \* the text in every block, or NoText
          meant,        \* history: what each string should read, Failed after a NULL
          crashed       \* a NULL text was read or written

vars == <<lang, str, block, meant, crashed>>

\* The two faces of the union; __is_long tells which one is in use.
Short(t)      == [long |-> FALSE, text |-> t, ptr |-> None, size |-> 0, cap |-> 0]
Long(p, n, c) == [long |-> TRUE, text |-> <<>>, ptr |-> p, size |-> n, cap |-> c]

Init ==
  /\ lang \in {"C", "Cpp"} /\ crashed = FALSE
  /\ str = [s \in Strings |-> IF lang = "C" THEN Short(<<>>) ELSE Dead]
  /\ block = [b \in Blocks |-> NoText]
  /\ meant = [s \in Strings |-> IF lang = "C" THEN <<>> ELSE Dead]

Fits(t)      == Len(t) <= STACK_CAP
LenOf(x)     == IF x.long THEN x.size ELSE Len(x.text)
FreeIn(h)    == {b \in Blocks : h[b] = NoText}
\* What the pointer of a string shows: a NULL one has a length but no text.
TextOf(x, h) == IF ~x.long THEN x.text
                ELSE IF x.ptr = None THEN [i \in 1 .. x.size |-> Junk]
                ELSE SubSeq(h[x.ptr], 1, x.size)
Released(x, h) == IF x.long /\ x.ptr # None THEN [h EXCEPT ![x.ptr] = NoText] ELSE h
Grown(x, n)    == IF 2 * x.cap < n THEN n ELSE 2 * x.cap

Becomes(s, x, h, t) ==
  /\ str' = [str EXCEPT ![s] = x] /\ block' = h
  /\ meant' = [meant EXCEPT ![s] = t]
  /\ UNCHANGED <<lang, crashed>>

\* A long string with text t and capacity c in a block malloc finds in h.
Allocated(s, t, c, h, m) ==
  \E b \in FreeIn(h) : Becomes(s, Long(b, Len(t), c), [h EXCEPT ![b] = t], m)

Nothing(s) == UNCHANGED vars            \* the operation failed and changed nothing
Crash == crashed' = TRUE /\ UNCHANGED <<lang, str, block, meant>>

-----------------------------------------------------------------------------
(* sso_string.c                                                             *)

sso_free(s) == Becomes(s, Short(<<>>), Released(str[s], block), <<>>)

\* A long string is freed first; a NULL block leaves an empty long string.
sso_init(s, t) ==
  LET h == Released(str[s], block)
  IN IF Fits(t) THEN Becomes(s, Short(t), h, t)
     ELSE \/ Allocated(s, t, Len(t), h, t)
          \/ Becomes(s, Long(None, 0, 0), h, Failed)

Appended(s, t) == IF meant[s] = Failed THEN Failed ELSE meant[s] \o t

\* realloc may move the text; a string whose block is NULL gets its first one here,
\* unless nothing makes it grow.
sso_append(s, t) ==
  LET x == str[s]
      n == LenOf(x) + Len(t)
      new == TextOf(x, block) \o t
  IN IF ~x.long
     THEN IF Fits(new) THEN Becomes(s, Short(new), block, Appended(s, t))
          ELSE Allocated(s, new, 2 * n, block, Appended(s, t)) \/ Nothing(s)
     ELSE IF n > x.cap
     THEN \/ Allocated(s, new, Grown(x, n), Released(x, block), Appended(s, t))
          \/ Nothing(s)
     ELSE IF x.ptr = None THEN Crash
     ELSE Becomes(s, [x EXCEPT !.size = n], [block EXCEPT ![x.ptr] = new], Appended(s, t))

\* The sizes a refused copy may leave behind: sso_free zeroes a long string, but of a
\* short one only the count and the first character, and whatever was once written past
\* LEFT_AT overlaps heap.__size.  The object keeps no record of that: any such length.
LeftOver(x) == IF x.long THEN {0} ELSE {n \in 0 .. STACK_CAP : n = 0 \/ n > LEFT_AT}

\* The block is asked for before the source's is read: only a copy that got one
\* meets a source without.
sso_copy(d, s) ==
  LET h == Released(str[d], block)
      x == str[s]
  IN IF ~x.long THEN Becomes(d, x, h, meant[s])
     ELSE \/ \E n \in LeftOver(str[d]) : Becomes(d, Long(None, n, 0), h, Failed)
          \/ x.ptr = None /\ FreeIn(h) # {} /\ Crash
          \/ x.ptr # None /\ Allocated(d, TextOf(x, h), x.size, h, meant[s])

CStep ==
  \E s \in Strings :
    \/ sso_free(s)
    \/ \E t \in Texts : sso_init(s, t) \/ sso_append(s, t)
    \/ \E d \in Strings \ {s} : sso_copy(d, s)

-----------------------------------------------------------------------------
(* sso_string.cpp: a constructor that throws leaves no object behind         *)

Alive(s) == str[s] # Dead

construct(s, t) ==
  /\ ~Alive(s)
  /\ IF Fits(t) THEN Becomes(s, Short(t), block, t)
     ELSE Allocated(s, t, Len(t), block, t) \/ Nothing(s)

destroy(s) == Alive(s) /\ Becomes(s, Dead, Released(str[s], block), Dead)

\* The copy has the capacity of its source.
copy_construct(d, s) ==
  /\ ~Alive(d) /\ Alive(s)
  /\ IF ~str[s].long THEN Becomes(d, str[s], block, meant[s])
     ELSE \/ Allocated(d, TextOf(str[s], block), str[s].cap, block, meant[s])
          \/ Nothing(d)

\* A moved-from long string is left empty and short, a short one as it was.
Move(d, s, h) ==
  /\ str' = [str EXCEPT ![d] = str[s], ![s] = IF @.long THEN Short(<<>>) ELSE @]
  /\ block' = h
  /\ meant' = [meant EXCEPT ![d] = meant[s], ![s] = IF str[s].long THEN <<>> ELSE @]
  /\ UNCHANGED <<lang, crashed>>

move_construct(d, s) == ~Alive(d) /\ Alive(s) /\ Move(d, s, block)
move_assign(d, s)    == Alive(d) /\ Alive(s) /\ Move(d, s, Released(str[d], block))

\* The temporary copies the source, capacity and all, before the old block goes.
copy_assign(d, s) ==
  /\ Alive(d) /\ Alive(s)
  /\ IF ~str[s].long THEN Becomes(d, str[s], Released(str[d], block), meant[s])
     ELSE \/ \E b \in FreeIn(block) :
               Becomes(d, [str[s] EXCEPT !.ptr = b],
                 Released(str[d], [block EXCEPT ![b] = TextOf(str[s], block)]), meant[s])
          \/ Nothing(d)

\* operator+=: a new block is filled before the old one is freed.
append(s, t) ==
  /\ Alive(s)
  /\ LET x == str[s]
         n == LenOf(x) + Len(t)
         new == TextOf(x, block) \o t
     IN IF ~x.long
        THEN IF Fits(new) THEN Becomes(s, Short(new), block, meant[s] \o t)
             ELSE Allocated(s, new, 2 * n, block, meant[s] \o t) \/ Nothing(s)
        ELSE IF n > x.cap
        THEN \/ \E b \in FreeIn(block) :
                  Becomes(s, Long(b, n, Grown(x, n)),
                    Released(x, [block EXCEPT ![b] = new]), meant[s] \o t)
             \/ Nothing(s)
        ELSE Becomes(s, [x EXCEPT !.size = n], [block EXCEPT ![x.ptr] = new], meant[s] \o t)

CppStep ==
  \E s \in Strings :
    \/ destroy(s)
    \/ \E t \in Texts : construct(s, t) \/ append(s, t)
    \/ \E d \in Strings \ {s} :
         copy_construct(d, s) \/ move_construct(d, s) \/ copy_assign(d, s) \/ move_assign(d, s)

-----------------------------------------------------------------------------
\* Bound: texts of at most MaxLen characters.
Next ==
  /\ ~crashed
  /\ IF lang = "C" THEN CStep ELSE CppStep
  /\ \A s \in Strings : str'[s] # Dead => LenOf(str'[s]) <= MaxLen /\ str'[s].cap <= 2 * MaxLen

\* Every string reads what was written to it, and nothing another string's append,
\* copy, move or free did: only a C string whose block was refused is not to be read.
TextsKept ==
  \A s \in Strings : str[s] # Dead /\ meant[s] # Failed => TextOf(str[s], block) = meant[s]

\* Every block in use belongs to exactly one string: none leaks, none is freed twice,
\* none is shared, whichever allocation failed in between; what needs a block has room
\* in it; and only a C string whose block was refused can bring the program down.
BlocksOwned ==
  LET holders == {s \in Strings : str[s] # Dead /\ str[s].long /\ str[s].ptr # None}
  IN /\ \A b \in Blocks : block[b] # NoText => \E s \in holders : str[s].ptr = b
     /\ \A s \in holders :
          /\ block[str[s].ptr] # NoText
          /\ Len(block[str[s].ptr]) <= str[s].cap
          /\ \A o \in holders \ {s} : str[o].ptr # str[s].ptr
     /\ crashed => lang = "C" /\ \E s \in Strings : meant[s] = Failed
=============================================================================
