---------------------------- MODULE MCThreadPool ----------------------------
(***************************************************************************)
(* One model of the programs that hand work from one party to another: the *)
(* pools of Day 34 in C (ThreadPool) and in C++ (JobSystem) and of Day 31  *)
(* (MarketPool), the actors of Day 37 in C++ (ActorModel) and in C         *)
(* (SingleActor), the pipeline of Day 38 (AudioPipeline), the event loop   *)
(* of Day 35 (EventLoop) and the scripts of Day 36 (Coroutines).  A        *)
(* behaviour runs one of them; the variables of the others stay put.       *)
(***************************************************************************)
EXTENDS ThreadPool

CONSTANTS Producers, NUM_WORKERS, ORDERS_PER_PRODUCER, MAILBOX_CAPACITY,
          Router, Main, Pill,                                       \* ActorModel
          QUEUE_CAP, TOTAL_FRAMES,                                  \* AudioPipeline
          MARKET_WORKERS, TOTAL_TICKS,                              \* MarketPool
          JOB_THREADS, JOBS, SkipGets,                              \* JobSystem
          NUM_MESSAGES,                                             \* SingleActor
          Clients, Fds, RESPONSE, SNDBUF, MAX_SEGMENTS, Listen,     \* EventLoop
          MAX_NPCS, SCRIPT_LENGTH                                   \* Coroutines

VARIABLES program,
          queue, waiting, pc, sent, msg, fanout, processed, destroyed, crashed,
          lang, stage_queue, stage_at, frame, consumed,
          current_tick, tick_of, market_at, spawned, market_main, ret, printed_by,
          job_queue, stop, job_worker, task, job_main, enqueued, got, promised,
          data, sequence, mail_head, mail_tail, sender, message, actor, raw_msg, heap,
          handled, refused,
          peer, handlers, buf, ready, events,
          script, ctx, done, current_npc, i, running, any_active, tick, log

Actor    == INSTANCE ActorModel WITH CAPACITY <- MAILBOX_CAPACITY
Pipeline == INSTANCE AudioPipeline WITH queue <- stage_queue, at <- stage_at
Market   == INSTANCE MarketPool WITH NUM_WORKERS <- MARKET_WORKERS, t <- tick_of,
              at <- market_at, main <- market_main, processed <- printed_by
Jobs     == INSTANCE JobSystem WITH THREADS <- JOB_THREADS, NUM_TASKS <- JOBS,
              tasks <- job_queue, worker <- job_worker, main <- job_main, ready <- promised
Single   == INSTANCE SingleActor WITH CAPACITY <- MAILBOX_CAPACITY, head <- mail_head,
              tail <- mail_tail, main <- sender, msg <- message, got <- raw_msg
Loop     == INSTANCE EventLoop
NPC      == INSTANCE Coroutines

ASSUME ActorsUsable == Actor!ActorAssumption
ASSUME ServerUsable == Loop!ServerAssumption
ASSUME MarketUsable == Market!MarketAssumption
ASSUME NPCsUsable == NPC!ScriptAssumption
ASSUME JobsUsable == Jobs!JobAssumption
ASSUME PipelineUsable == Pipeline!PipelineAssumption
ASSUME MailboxUsable == Single!MailboxAssumption

actor_vars    == <<queue, waiting, pc, sent, msg, fanout, processed, destroyed, crashed>>
pipeline_vars == <<lang, stage_queue, stage_at, frame, consumed>>
market_vars   == <<current_tick, tick_of, market_at, spawned, market_main, ret, printed_by>>
job_vars      == <<job_queue, stop, job_worker, task, job_main, enqueued, got, promised>>
single_vars   == <<data, sequence, mail_head, mail_tail, sender, message, actor, raw_msg,
                   heap, handled, refused>>
loop_vars     == <<peer, handlers, buf, ready, events>>
npc_vars      == <<script, ctx, done, current_npc, i, running, any_active, tick, log>>

\* p runs and takes the step A.
Runs(p, A) ==
  /\ program = p /\ A
  /\ UNCHANGED program
  /\ p # "pool" => UNCHANGED vars
  /\ p # "actors" => UNCHANGED actor_vars
  /\ p # "pipeline" => UNCHANGED pipeline_vars
  /\ p # "market" => UNCHANGED market_vars
  /\ p # "jobs" => UNCHANGED job_vars
  /\ p # "mailbox" => UNCHANGED single_vars
  /\ p # "server" => UNCHANGED loop_vars
  /\ p # "npcs" => UNCHANGED npc_vars

allvars == <<program, vars, actor_vars, pipeline_vars, market_vars, job_vars, single_vars,
             loop_vars, npc_vars>>

MCInit ==
  /\ program \in {"pool", "actors", "pipeline", "market", "jobs", "mailbox", "server", "npcs"}
  /\ Init /\ Actor!Init /\ Market!Init /\ Jobs!Init /\ Single!Init /\ Loop!Init
  /\ Pipeline!Init
  /\ program # "pipeline" => lang = "c"
  /\ NPC!Init
  /\ program # "npcs" => script = "generator"

MCNext ==
  \/ Runs("pool", Next) \/ Runs("actors", Actor!Next) \/ Runs("pipeline", Pipeline!Next)
  \/ Runs("market", Market!Next) \/ Runs("jobs", Jobs!Next) \/ Runs("mailbox", Single!Next)
  \/ Runs("server", Loop!Next) \/ Runs("npcs", NPC!Next)

\* Threads that are not asleep run, the server's loop goes around, and a client reads
\* what has reached it.
MCFairness ==
  /\ WF_vars(Runs("pool", MainStep))
  /\ \A w \in Workers : WF_vars(Runs("pool", Work(w)))
  /\ \A p \in Producers : WF_actor_vars(Runs("actors", ~crashed /\ Actor!Producer(p)))
  /\ WF_actor_vars(Runs("actors", ~crashed /\ Actor!RouterThread))
  /\ \A w \in 0 .. NUM_WORKERS - 1 : WF_actor_vars(Runs("actors", ~crashed /\ Actor!Worker(w)))
  /\ WF_actor_vars(Runs("actors", ~crashed /\ Actor!MainThread))
  /\ WF_pipeline_vars(Runs("pipeline", Pipeline!stage1_producer))
  /\ WF_pipeline_vars(Runs("pipeline", Pipeline!stage2_filter))
  /\ WF_pipeline_vars(Runs("pipeline", Pipeline!stage3_consumer))
  /\ WF_market_vars(Runs("market", Market!MainStep))
  /\ \A w \in Market!Workers : WF_market_vars(Runs("market", Market!worker_loop(w)))
  /\ WF_job_vars(Runs("jobs", Jobs!MainStep))
  /\ \A w \in Jobs!Workers : WF_job_vars(Runs("jobs", Jobs!Loop(w)))
  /\ WF_single_vars(Runs("mailbox", Single!MainStep))
  /\ WF_single_vars(Runs("mailbox", Single!ActorStep))
  /\ WF_loop_vars(Runs("server", Loop!Server))
  /\ \A c \in Clients : WF_loop_vars(Runs("server", Loop!Receive(c)))
  /\ WF_npc_vars(Runs("npcs", NPC!Next))

MCSpec == MCInit /\ [][MCNext]_allvars /\ MCFairness

-----------------------------------------------------------------------------
\* Whatever is handed over arrives once and in order: the orders of one producer for one
\* worker, all of them before its pill, the frames of the pipeline, the ticks of the
\* market, the futures of the job system, the messages of the actor in C with their
\* memory; and the scripts of the NPCs go on where they stopped.
HandedOverOnce ==
  /\ TypeOK
  /\ Actor!TypeOK /\ Actor!OrderedPerProducer /\ Actor!DrainedBeforePill
  /\ Pipeline!FramesInOrder
  /\ Market!TicksOnce
  /\ Jobs!FuturesKept
  /\ Single!MessagesOwned
  /\ NPC!InLockstep

\* The server never handles an event of a connection that is gone, and a client whose
\* request came in one piece reads the whole response, once.
EventsHandled == Loop!NoStaleEvent /\ Loop!WholeRequestsAnswered

\* Every program ends: no thread sleeps on a queue or a pool being shut down, whichever
\* waiter each signal woke and however many threads were created (or the actor program
\* crashes in its teardown, see HandlesOnlyWhileAlive, or the full mailbox in C lost
\* the pill).  The server goes on for ever, but misses no edge: an accepted client that
\* sends, hangs up or both is closed.
EveryProgramEnds ==
  /\ <>(CASE program = "pool"     -> main = "freed"
         [] program = "actors"   -> Actor!Ended
         [] program = "pipeline" -> Pipeline!Ended
         [] program = "market"   -> market_main = "returned"
         [] program = "jobs"     -> Jobs!Ended
         [] program = "mailbox"  -> Single!Ended
         [] program = "npcs"     -> NPC!Ended
         [] program = "server"   -> TRUE)
  /\ Loop!AcceptedIsClosed
=============================================================================
