---------------------------- MODULE MCSPSCQueue -----------------------------
(***************************************************************************)
(* One model of the programs with one producer and one consumer: the ring  *)
(* of Day 22 (SPSCQueue) and its users, the two players (AudioBuffer), and *)
(* the two queues of Day 11 (SPSCWrapped).  A behaviour runs one of them;  *)
(* the variables of the others stay put.                                   *)
(***************************************************************************)
EXTENDS SPSCQueue

CONSTANTS WRAPPED_CAPACITY, WRAPPED_OPS,              \* CAPACITY and NUM_OPS of Day 11
          AUDIO_CAPACITY, SAMPLES, BLOCK, Silence, Raw \* AudioBuffer

VARIABLES program,      \* the program that runs
          w_head, w_tail, w_data, w_producer, w_consumer, w_val, w_pushed,
          w_received,
          lang, slots, a_head, a_tail, running, a_producer, callback, heard

Wrapped == INSTANCE SPSCWrapped
  WITH CAPACITY <- WRAPPED_CAPACITY, NUM_OPS <- WRAPPED_OPS,
       head <- w_head, tail <- w_tail, data <- w_data,
       producer <- w_producer, consumer <- w_consumer, val <- w_val,
       pushed <- w_pushed, received <- w_received

Audio == INSTANCE AudioBuffer
  WITH CAPACITY <- AUDIO_CAPACITY, head <- a_head, tail <- a_tail, producer <- a_producer

ASSUME WrappedUsable == Wrapped!WrappedAssumption
ASSUME AudioUsable   == Audio!AudioAssumption

wvars   == <<w_head, w_tail, w_data, w_producer, w_consumer, w_val, w_pushed,
             w_received>>
avars   == <<lang, slots, a_head, a_tail, running, a_producer, callback, heard>>
allvars == <<program, vars, wvars, avars>>

Runs(p, A) == program = p /\ A /\ UNCHANGED program
Day22(A)   == Runs("ring", A) /\ UNCHANGED <<wvars, avars>>
Day11(p, A) == Runs(p, A) /\ UNCHANGED <<vars, avars>>
Playing(A) == Runs("audio", A) /\ UNCHANGED <<vars, wvars>>

MCInit ==
  /\ program \in {"ring", "wrapped_cpp", "wrapped_c", "audio"}
  /\ Init /\ Wrapped!Init /\ Audio!Init
  /\ program # "audio" => lang = "C"

MCNext ==
  \/ Day22(Next)
  \/ Day11("wrapped_cpp", Wrapped!NextCpp) \/ Day11("wrapped_c", Wrapped!NextC)
  \/ Playing(Audio!Next)

\* Both threads of the program that runs are scheduled.
MCFairness ==
  /\ WF_allvars(Day22(Push)) /\ WF_allvars(Day22(Pop))
  /\ WF_allvars(Day11("wrapped_cpp", Wrapped!CppPush))
  /\ WF_allvars(Day11("wrapped_cpp", Wrapped!CppPop))
  /\ WF_allvars(Day11("wrapped_c", Wrapped!CPush))
  /\ WF_allvars(Day11("wrapped_c", Wrapped!CPop))
  /\ WF_allvars(Playing(Audio!ProducerStep))
  /\ WF_allvars(Playing(Audio!CallbackStep))

MCSpec == MCInit /\ [][MCNext]_allvars /\ MCFairness

-----------------------------------------------------------------------------
\* The indices stay within a size_t or reduced, and the harnesses within their loop
\* bounds; what is popped is what was pushed, in order (but for SPSC.c); and the driver
\* of the players hears the sound from its start, with silence where the producer is
\* late but nothing lost or repeated, the C++ objects alive being those in the ring.
ArrivesInOrder ==
  /\ TypeOK /\ ReceivesInOrder
  /\ Wrapped!TypeOK
  /\ program = "wrapped_cpp" => Wrapped!ReceivesInOrder
  /\ Audio!HeardInOrder /\ Audio!ObjectsLive

\* Day 11, SPSC.cpp: the queue is a bounded FIFO of CAPACITY - 1 items: it starts
\* empty, and every step of the program is a step of the FIFO or leaves it alone.
WrappedImplementsBoundedQueue ==
  /\ Wrapped!Abstract!Init
  /\ [][program = "wrapped_cpp" =>
          Wrapped!Abstract!Next \/ UNCHANGED Wrapped!Abstract!vars]_allvars

\* Each program ends: neither the wrap of the free-running indices nor the reduced ones
\* make a thread see a full or an empty queue for ever, and no player's thread waits
\* for the other but for the one case that AudioBuffer names.
EveryProgramReceives ==
  <>(CASE program = "ring"  -> Len(received) = NUM_OPS
       [] program = "audio" -> Audio!Ended
       [] OTHER             -> Len(w_received) = WRAPPED_OPS)
=============================================================================
