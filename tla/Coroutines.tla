----------------------------- MODULE Coroutines -----------------------------
(***************************************************************************)
(* The NPC scripts of Day 36, run round after round until all are done.    *)
(* NPCscripting.c keeps a ucontext per NPC and finds the one to suspend    *)
(* through the global current_npc; NPC.cpp keeps the place in a coroutine  *)
(* frame and stops after a round in which nobody yielded.  A context is    *)
(* the number of actions taken.  In C the script yields SCRIPT_LENGTH - 1   *)
(* times and falls off the end behind its last action; in C++ it co_yields *)
(* SCRIPT_LENGTH times.                                                    *)
(***************************************************************************)
EXTENDS Naturals, Sequences

CONSTANTS MAX_NPCS, SCRIPT_LENGTH

ScriptAssumption == MAX_NPCS \in Nat \ {0} /\ SCRIPT_LENGTH \in Nat \ {0}

NPCs == 0 .. MAX_NPCS - 1

VARIABLES script,          \* "ucontext" or "generator"
          ctx,             \* where each NPC goes on
          done,            \* self->done, h.done()
          current_npc, i,  \* the global, and main's loop variable
          running,         \* the NPC on the processor, MAX_NPCS for main
          any_active, tick,
          log              \* history: <<npc, action>> in the order printed

vars == <<script, ctx, done, current_npc, i, running, any_active, tick, log>>

Scheduler == MAX_NPCS

\* npc_init for each
Init ==
  /\ script \in {"ucontext", "generator"}
  /\ ctx = [n \in NPCs |-> 0]
  /\ done = [n \in NPCs |-> FALSE]
  /\ current_npc = 0 /\ i = 0
  /\ running = Scheduler
  /\ any_active = FALSE /\ tick = 0
  /\ log = <<>>

all_done == \A n \in NPCs : done[n]

\* main: the next NPC of this round is resumed if it is not done
Resume ==
  /\ running = Scheduler /\ i < MAX_NPCS
  /\ IF done[i] THEN i' = i + 1 /\ UNCHANGED <<current_npc, running>>
                ELSE current_npc' = i /\ running' = i /\ UNCHANGED i
  /\ UNCHANGED <<script, ctx, done, any_active, tick, log>>

\* The end of a round: while (!all_done()), while (any_active)
Stops == IF script = "ucontext" THEN all_done ELSE ~any_active

NextRound ==
  /\ running = Scheduler /\ i = MAX_NPCS /\ ~Stops
  /\ i' = 0 /\ any_active' = FALSE /\ tick' = tick + 1
  /\ UNCHANGED <<script, ctx, done, current_npc, running, log>>

\* The script up to its next yield: npc_yield saves the place in the context of
\* current_npc; from there main goes on.
Act(n) ==
  /\ running = n /\ script = "ucontext"
  /\ log' = Append(log, <<n, ctx[n] + 1>>)
  /\ ctx' = [ctx EXCEPT ![current_npc] = ctx[n] + 1]
  /\ done' = [done EXCEPT ![n] = (ctx[n] + 1 = SCRIPT_LENGTH)]
  /\ running' = Scheduler /\ i' = i + 1
  /\ UNCHANGED <<script, current_npc, any_active, tick>>

\* Generator::next: a value, or nullopt from the resumption that ends the script
next(n) ==
  /\ running = n /\ script = "generator"
  /\ IF ctx[n] < SCRIPT_LENGTH
     THEN /\ log' = Append(log, <<n, ctx[n] + 1>>)
          /\ ctx' = [ctx EXCEPT ![n] = @ + 1]
          /\ any_active' = TRUE
          /\ UNCHANGED done
     ELSE /\ done' = [done EXCEPT ![n] = TRUE]
          /\ UNCHANGED <<log, ctx, any_active>>
  /\ running' = Scheduler /\ i' = i + 1
  /\ UNCHANGED <<script, current_npc, tick>>

Next == Resume \/ NextRound \/ \E n \in NPCs : Act(n) \/ next(n)

-----------------------------------------------------------------------------
Ended == running = Scheduler /\ i = MAX_NPCS /\ Stops

\* Every script goes on exactly where it stopped, however many ran in between, and
\* they keep step: the actions come in rounds, each NPC's in its turn.  The C++ loop
\* takes one round more than the C loop.
InLockstep ==
  /\ \A k \in 1 .. Len(log) : log[k] = <<(k - 1) % MAX_NPCS, (k - 1) \div MAX_NPCS + 1>>
  /\ Ended => /\ Len(log) = MAX_NPCS * SCRIPT_LENGTH
              /\ tick = IF script = "ucontext" THEN SCRIPT_LENGTH - 1 ELSE SCRIPT_LENGTH
=============================================================================
