----------------------------- MODULE ThreadPool -----------------------------
(***************************************************************************)
(* worker_pool.hpp: thread_pool, its constructor, submit, workdone, the    *)
(* worker threads and the destructor, with the thread that owns the pool   *)
(* (the one that runs Session).  A call of the work queue is one step:     *)
(* ThreadsafeQueue implements FifoQueue.                                   *)
(*                                                                         *)
(* The loop of the constructor breaks before its push_back (breakLoop), so *)
(* the program as built has no worker: its behaviours are those without a  *)
(* step of startThread or startFails.  These two are the code behind the   *)
(* break, reached once the break is taken out, and the workers with them.  *)
(***************************************************************************)
EXTENDS Naturals, Sequences, FiniteSets

CONSTANTS
  Workers,  \* worker threads
  Pools,    \* the sets of workers a constructor may set out to start:
            \* hardware_concurrency() of them, which may be 0
  MaxTasks  \* bound on the tasks the owner submits

ASSUME PoolAssumption == Pools \subseteq SUBSET Workers /\ MaxTasks \in Nat

VARIABLES
  threads,     \* workers still to start, while the constructor runs
  done,        \* std::atomic_bool done
  work_queue,  \* Seq(Task)
  owner,       \* construct, use, wait, peek, set done, join or gone
  waited,      \* it has seen workdone() hold since its last submit
  submitted,   \* number of tasks submitted; a task is its number
  worker,      \* [Workers -> none, test, try_pop, run or exit]
  task,        \* [Workers -> the task it runs, 0 for none]
  ran,         \* [Task -> how often it was run to its end]
  dropped      \* tasks popped by the destructor

ownerVars == <<threads, done, owner, waited, submitted, dropped>>
workerVars == <<worker, task, ran>>
vars == <<ownerVars, work_queue, workerVars>>

Task == 1..MaxTasks
Started == {w \in Workers : worker[w] # "none"}

(* The owner goes on from one place to another. *)
Moves(from, to) == owner = from /\ owner' = to

-----------------------------------------------------------------------------
(* thread_pool(): the loop is left in its first pass, with no thread. *)
breakLoop ==
  /\ Moves("construct", "use")
  /\ threads # {} /\ Started = {}
  /\ UNCHANGED <<threads, done, waited, submitted, dropped, work_queue, workerVars>>

(* The push_back behind the break: one jthread after another.  When one    *)
(* cannot be created, done is set and the members built so far are         *)
(* destroyed.                                                              *)
startThread ==
  /\ owner = "construct"
  /\ \E w \in threads :
       /\ threads' = threads \ {w}
       /\ worker' = [worker EXCEPT ![w] = "test"]
  /\ UNCHANGED <<done, owner, waited, submitted, dropped, work_queue, task, ran>>

startFails ==
  /\ Moves("construct", "join")
  /\ threads # {}
  /\ done' = TRUE
  /\ UNCHANGED <<threads, waited, submitted, dropped, work_queue, workerVars>>

(* The loop runs to its end. *)
constructed ==
  /\ Moves("construct", "use")
  /\ threads = {}
  /\ UNCHANGED <<threads, done, waited, submitted, dropped, work_queue, workerVars>>

submit ==
  /\ Moves("use", "use")
  /\ submitted < MaxTasks
  /\ submitted' = submitted + 1
  /\ work_queue' = Append(work_queue, submitted')
  /\ waited' = FALSE
  /\ UNCHANGED <<threads, done, dropped, workerVars>>

(* closedState: while (!session->workersDone()) {}. *)
wait ==
  /\ Moves("use", "wait")
  /\ UNCHANGED <<threads, done, waited, submitted, dropped, work_queue, workerVars>>

(* Mutant: workdone() answers whether there is work. *)
workdoneInverted ==
  /\ Moves("wait", "use")
  /\ work_queue # <<>>
  /\ waited' = TRUE
  /\ UNCHANGED <<threads, done, submitted, dropped, work_queue, workerVars>>

workdone ==
  /\ Moves("wait", "use")
  /\ work_queue = <<>>
  /\ waited' = TRUE
  /\ UNCHANGED <<threads, done, submitted, dropped, work_queue, workerVars>>

destroy ==
  /\ Moves("use", "peek")
  /\ UNCHANGED <<threads, done, waited, submitted, dropped, work_queue, workerVars>>

(* Mutant: peek only looks. *)
peekKeeps ==
  /\ work_queue # <<>>
  /\ Moves("peek", "peek")
  /\ UNCHANGED <<threads, done, waited, submitted, dropped, work_queue, workerVars>>

(* while (work_queue.peek()) sleep: peek pops, so the destructor discards  *)
(* the task it was to wait for.                                            *)
peek ==
  /\ work_queue # <<>>
  /\ Moves("peek", "peek")
  /\ work_queue' = Tail(work_queue)
  /\ dropped' = dropped \cup {Head(work_queue)}
  /\ UNCHANGED <<threads, done, waited, submitted, workerVars>>

peekEmpty ==
  /\ work_queue = <<>>
  /\ Moves("peek", "set done")
  /\ UNCHANGED <<threads, done, waited, submitted, dropped, work_queue, workerVars>>

setDone ==
  /\ Moves("set done", "join")
  /\ done' = TRUE
  /\ UNCHANGED <<threads, waited, submitted, dropped, work_queue, workerVars>>

(* The members are destroyed in reverse order: the jthreads join, then     *)
(* work_queue goes.                                                        *)
join ==
  /\ Moves("join", "gone")
  /\ \A w \in Started : worker[w] = "exit"
  /\ UNCHANGED <<threads, done, waited, submitted, dropped, work_queue, workerVars>>

-----------------------------------------------------------------------------
(* worker_thread(): while (!done). *)
testDone(w) ==
  /\ worker[w] = "test"
  /\ worker' = [worker EXCEPT ![w] = IF done THEN "exit" ELSE "try_pop"]
  /\ UNCHANGED <<ownerVars, work_queue, task, ran>>

(* Mutant: the front task is read and not taken off. *)
popTaskKeeps(w) ==
  /\ worker[w] = "try_pop" /\ work_queue # <<>>
  /\ worker' = [worker EXCEPT ![w] = "run"]
  /\ task' = [task EXCEPT ![w] = Head(work_queue)]
  /\ UNCHANGED <<ownerVars, work_queue, ran>>

popTask(w) ==
  /\ worker[w] = "try_pop" /\ work_queue # <<>>
  /\ worker' = [worker EXCEPT ![w] = "run"]
  /\ task' = [task EXCEPT ![w] = Head(work_queue)]
  /\ work_queue' = Tail(work_queue)
  /\ UNCHANGED <<ownerVars, ran>>

yield(w) ==
  /\ worker[w] = "try_pop" /\ work_queue = <<>>
  /\ worker' = [worker EXCEPT ![w] = "test"]
  /\ UNCHANGED <<ownerVars, work_queue, task, ran>>

(* task() returns. *)
runTask(w) ==
  /\ worker[w] = "run"
  /\ worker' = [worker EXCEPT ![w] = "test"]
  /\ task' = [task EXCEPT ![w] = 0]
  /\ ran' = [ran EXCEPT ![task[w]] = @ + 1]
  /\ UNCHANGED <<ownerVars, work_queue>>

-----------------------------------------------------------------------------
Init ==
  /\ threads \in Pools
  /\ done = FALSE
  /\ owner = "construct" /\ waited = TRUE
  /\ submitted = 0 /\ dropped = {}
  /\ work_queue = <<>>
  /\ worker = [w \in Workers |-> "none"]
  /\ task = [w \in Workers |-> 0]
  /\ ran = [k \in Task |-> 0]

Owner ==
  \/ breakLoop \/ startThread \/ startFails \/ constructed
  \/ workdone \/ peek \/ peekEmpty \/ setDone \/ join

Worker(w) == testDone(w) \/ popTask(w) \/ yield(w) \/ runTask(w)

Next == Owner \/ submit \/ wait \/ destroy \/ \E w \in Workers : Worker(w)

(* What the owner has begun it goes on with, every worker is run, and a    *)
(* task returns.  Whether the owner submits, waits or destroys is its own  *)
(* choice.                                                                 *)
FairSpec ==
  Init /\ [][Next]_vars /\ WF_vars(Owner) /\ \A w \in Workers : WF_vars(Worker(w))

-----------------------------------------------------------------------------
(* A submitted task is in one place at any time: in the queue, with one    *)
(* worker, run once, or thrown away by the destructor; none is lost and    *)
(* none is run twice, whatever the workers and the destructor pop.         *)
TaskOnce ==
  \A k \in 1..submitted :
    Cardinality({i \in DOMAIN work_queue : work_queue[i] = k})
      + Cardinality({w \in Workers : task[w] = k})
      + ran[k] + (IF k \in dropped THEN 1 ELSE 0) = 1

(* An owner that waits for workdone() before it lets the pool go, as       *)
(* closedState does, loses no task to the destructor's peek().             *)
NothingDroppedAfterWait == waited => dropped = {}

(* The destructor ends, with workers and without: only because peek() pops *)
(* does it end when there is no worker to empty the queue.                 *)
DestructorEnds == owner = "peek" ~> owner = "gone"
=============================================================================
