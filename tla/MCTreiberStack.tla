--------------------------- MODULE MCTreiberStack ---------------------------
(***************************************************************************)
(* One model of the two stacks of Day 33: the C stack with hazard pointers *)
(* (TreiberStack) and the C++ stack that is only stolen whole              *)
(* (StealStack).  A behaviour runs one of them; the variables of the other *)
(* stay put.                                                               *)
(***************************************************************************)
EXTENDS TreiberStack

CONSTANTS StealProducers, STEAL_MSGS  \* the C++ program's threads and messages

ASSUME StealAssumption ==
  /\ StealProducers \cap Consumers = {} /\ IsFiniteSet(StealProducers)
  /\ STEAL_MSGS \in Nat

VARIABLES program,
          s_head, s_next, s_live, s_active, s_pc, s_node, s_made, s_count,
          final, s_stack, stolen

Steal == INSTANCE StealStack
  WITH Producers <- StealProducers, MSGS_PER_PRODUCER <- STEAL_MSGS,
       head <- s_head, next <- s_next, live <- s_live, active <- s_active,
       pc <- s_pc, node <- s_node, made <- s_made, count <- s_count,
       stack <- s_stack

svars   == <<s_head, s_next, s_live, s_active, s_pc, s_node, s_made, s_count,
             final, s_stack, stolen>>
allvars == <<program, vars, svars>>

Runs(p, A) == program = p /\ A /\ UNCHANGED program

MCInit ==
  /\ program \in {"treiber", "steal"}
  /\ Init
  /\ Steal!Init

MCNext ==
  \/ Runs("treiber", Next) /\ UNCHANGED svars
  \/ Runs("steal", Steal!Next) /\ UNCHANGED vars

Treiber(A)  == Runs("treiber", A) /\ UNCHANGED svars
Stealing(A) == Runs("steal", A) /\ UNCHANGED vars

\* The fairness of both specifications: every thread is scheduled, and a thread
\* whose compare-and-swap can succeed again and again succeeds once.
MCFairness ==
  /\ \A p \in Producers :
       WF_allvars(Treiber(Produce(p))) /\ SF_allvars(Treiber(PushCasOk(p)))
  /\ \A c \in Consumers :
       WF_allvars(Treiber(Consume(c))) /\ SF_allvars(Treiber(PopCasOk(c)))
  /\ \A p \in StealProducers :
       WF_allvars(Stealing(Steal!Produce(p))) /\ SF_allvars(Stealing(Steal!PushCasOk(p)))
  /\ \A c \in Consumers : WF_allvars(Stealing(Steal!Consume(c)))

MCSpec == MCInit /\ [][MCNext]_allvars /\ MCFairness

-----------------------------------------------------------------------------
\* The state of both programs is what their declarations say.  C++: the stack and
\* every stolen chain hold exactly the nodes pushed, although push compares bare
\* addresses that are reused; and every allocated node is a producer's, on the
\* stack, or a thief's, once.
StatesSound ==
  /\ TypeOK
  /\ Steal!TypeOK /\ Steal!ChainsIntact /\ Steal!OneOwner

\* Both programs end with every node counted: no thread waits for ever, no node
\* is lost, counted twice, or left allocated by the last sweeps.
BothEndComplete ==
  <>(IF program = "treiber" THEN Complete ELSE Steal!Complete)
=============================================================================
