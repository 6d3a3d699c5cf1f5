-------------------------- MODULE ThreadPoolProofs --------------------------
(***************************************************************************)
(* The safety properties of ThreadPool, for any set of workers, finite or  *)
(* not, any choice of pools and any number of tasks.                       *)
(***************************************************************************)
EXTENDS ThreadPool, FiniteSetTheorems, TLAPS

Owners == {"construct", "use", "wait", "peek", "set done", "join", "gone"}
Places == {"none", "test", "try_pop", "run", "exit"}

TypeOK ==
  /\ threads \subseteq Workers
  /\ done \in BOOLEAN /\ waited \in BOOLEAN
  /\ work_queue \in Seq(Task)
  /\ owner \in Owners
  /\ submitted \in 0..MaxTasks
  /\ worker \in [Workers -> Places]
  /\ task \in [Workers -> 0..MaxTasks]
  /\ ran \in [Task -> Nat]
  /\ dropped \subseteq Task

(* Only a worker that runs a task holds one, and one still to be started   *)
(* does nothing.                                                           *)
Holding ==
  /\ \A w \in Workers : task[w] # 0 <=> worker[w] = "run"
  /\ \A w \in threads : worker[w] = "none"

(* The queue holds the youngest tasks, in the order of their submission.   *)
Popped == submitted - Len(work_queue)

InOrder ==
  /\ Len(work_queue) <= submitted
  /\ \A i \in 1..Len(work_queue) : work_queue[i] = Popped + i

(* An older task has been popped and has one fate. *)
Holders(k) == {w \in Workers : task[w] = k}

Running(k) == (\E w \in Workers : Holders(k) = {w}) /\ ran[k] = 0 /\ k \notin dropped
HasRun(k)  == Holders(k) = {} /\ ran[k] = 1 /\ k \notin dropped
Dropped(k) == Holders(k) = {} /\ ran[k] = 0 /\ k \in dropped
Waiting(k) == Holders(k) = {} /\ ran[k] = 0 /\ k \notin dropped

OneFate ==
  \A k \in Task : IF k <= Popped THEN Running(k) \/ HasRun(k) \/ Dropped(k) ELSE Waiting(k)

PoolInv == TypeOK /\ Holding /\ InOrder /\ OneFate

LEMMA PoolInit == Init => PoolInv
<1> SUFFICES ASSUME Init
             PROVE  PoolInv
  OBVIOUS
<1>1. TypeOK
  <2>1. threads \subseteq Workers /\ work_queue \in Seq(Task)
    BY PoolAssumption DEF Init
  <2>2. done \in BOOLEAN /\ waited \in BOOLEAN
    BY DEF Init
  <2>3. /\ owner \in Owners /\ submitted \in 0..MaxTasks
        /\ worker \in [Workers -> Places] /\ task \in [Workers -> 0..MaxTasks]
        /\ ran \in [Task -> Nat] /\ dropped \subseteq Task
    BY PoolAssumption DEF Init, Owners, Places
  <2> QED
    BY <2>1, <2>2, <2>3 DEF TypeOK
<1>2. Holding /\ InOrder
  <2>1. Len(work_queue) = 0 /\ submitted = 0
    BY DEF Init
  <2> QED
    BY <1>1, <2>1 DEF Init, TypeOK, Holding, InOrder
<1>3. OneFate
  BY PoolAssumption DEF Init, OneFate, Popped, Waiting, Holders, Task
<1> QED
  BY <1>1, <1>2, <1>3 DEF PoolInv

(* Nothing happens to the tasks. *)
LEMMA TasksUnchanged ==
  ASSUME PoolInv, TypeOK', Holding', UNCHANGED <<work_queue, submitted, task, ran, dropped>>
  PROVE  PoolInv'
<1>1. InOrder'
  BY DEF PoolInv, InOrder, Popped
<1>2. OneFate'
  BY DEF PoolInv, OneFate, Popped, Running, HasRun, Dropped, Waiting, Holders
<1> QED
  BY <1>1, <1>2 DEF PoolInv

(* The task at the front of the queue is the oldest one not yet popped. *)
LEMMA FrontTask ==
  ASSUME PoolInv, work_queue # <<>>, work_queue' = Tail(work_queue), submitted' = submitted
  PROVE  /\ Head(work_queue) = Popped + 1 /\ Head(work_queue) \in Task
         /\ Waiting(Head(work_queue))
         /\ work_queue' \in Seq(Task) /\ InOrder'
         /\ Popped \in Int /\ Popped' = Popped + 1
<1> USE DEF PoolInv, TypeOK
<1>1. Len(work_queue) \in Nat \ {0} /\ submitted \in Nat /\ Popped \in Int
  BY PoolAssumption DEF Popped
<1>2. Head(work_queue) = Popped + 1 /\ Head(work_queue) \in Task /\ work_queue' \in Seq(Task)
  BY <1>1 DEF InOrder
<1>3. Waiting(Head(work_queue))
  BY <1>1, <1>2 DEF OneFate
<1>4. Len(work_queue') = Len(work_queue) - 1
  BY <1>1
<1>5. \A i \in 1..Len(work_queue') : work_queue'[i] = work_queue[i + 1]
  BY <1>1, <1>4
<1>6. Popped' = Popped + 1
  BY <1>1, <1>4 DEF Popped
<1>7. InOrder'
  BY <1>1, <1>4, <1>5, <1>6 DEF InOrder
<1> QED
  BY <1>1, <1>2, <1>3, <1>6, <1>7

(* A task keeps its fate when neither its holders nor its count nor its    *)
(* being dropped change.                                                   *)
LEMMA FateKept ==
  ASSUME NEW k \in Task, Holders(k)' = Holders(k), ran'[k] = ran[k],
         k \in dropped' <=> k \in dropped
  PROVE  /\ Running(k)' <=> Running(k)
         /\ HasRun(k)' <=> HasRun(k)
         /\ Dropped(k)' <=> Dropped(k)
         /\ Waiting(k)' <=> Waiting(k)
BY DEF Running, HasRun, Dropped, Waiting

LEMMA PoolOwner ==
  ASSUME PoolInv, Owner \/ wait \/ destroy
  PROVE  PoolInv'
<1> USE DEF Moves, workerVars
<1>1. CASE startThread
  <2>1. PICK w \in threads : /\ threads' = threads \ {w}
                             /\ worker' = [worker EXCEPT ![w] = "test"]
    BY <1>1 DEF startThread
  <2>2. TypeOK'
    BY <1>1, <2>1 DEF startThread, PoolInv, TypeOK, Places
  <2>3. Holding'
    BY <1>1, <2>1 DEF startThread, PoolInv, TypeOK, Holding
  <2> QED
    BY <1>1, <2>2, <2>3, TasksUnchanged DEF startThread
<1>2. CASE \/ breakLoop \/ startFails \/ constructed \/ wait \/ workdone
           \/ destroy \/ peekEmpty \/ setDone \/ join
  <2>1. TypeOK' /\ Holding'
    BY <1>2 DEF breakLoop, startFails, constructed, wait, workdone, destroy, peekEmpty,
                setDone, join,
                PoolInv, TypeOK, Holding, Owners
  <2>2. UNCHANGED <<work_queue, submitted, task, ran, dropped>>
    BY <1>2 DEF breakLoop, startFails, constructed, wait, workdone, destroy, peekEmpty,
                setDone, join
  <2> QED
    BY <2>1, <2>2, TasksUnchanged
<1>3. CASE peek
  <2> PICK h : h = Head(work_queue)
    OBVIOUS
  <2>1. /\ work_queue # <<>> /\ work_queue' = Tail(work_queue) /\ dropped' = dropped \cup {h}
        /\ owner' = owner
        /\ UNCHANGED <<threads, done, waited, submitted, worker, task, ran>>
    BY <1>3 DEF peek
  <2>2. /\ h = Popped + 1 /\ h \in Task /\ Waiting(h) /\ work_queue' \in Seq(Task)
        /\ InOrder' /\ Popped \in Int /\ Popped' = Popped + 1
    BY <2>1, FrontTask
  <2>3. TypeOK' /\ Holding'
    BY <2>1, <2>2 DEF PoolInv, TypeOK, Holding
  <2>4. Dropped(h)'
    BY <2>1, <2>2 DEF Waiting, Dropped, Holders
  <2>5. ASSUME NEW k \in Task, k # h
        PROVE  /\ Running(k)' <=> Running(k)
               /\ HasRun(k)' <=> HasRun(k)
               /\ Dropped(k)' <=> Dropped(k)
               /\ Waiting(k)' <=> Waiting(k)
    BY <2>1, <2>5, FateKept DEF Holders
  <2>6. OneFate'
    BY <2>2, <2>4, <2>5 DEF OneFate, PoolInv, Task
  <2> QED
    BY <2>2, <2>3, <2>6 DEF PoolInv
<1> QED
  BY <1>1, <1>2, <1>3 DEF Owner

LEMMA PoolSubmit ==
  ASSUME PoolInv, submit
  PROVE  PoolInv'
<1> DEFINE n == submitted + 1
<1>1. /\ submitted < MaxTasks /\ submitted' = n /\ work_queue' = Append(work_queue, n)
      /\ waited' = FALSE /\ owner' = owner
      /\ UNCHANGED <<threads, done, dropped, worker, task, ran>>
  BY DEF submit, Moves, workerVars
<1>2. n \in Task /\ submitted \in Nat /\ Len(work_queue) \in Nat /\ Popped \in Int
  BY <1>1, PoolAssumption DEF PoolInv, TypeOK, Task, Popped
<1>3. TypeOK' /\ Holding'
  <2>1. Holding'
    BY <1>1 DEF PoolInv, Holding
  <2>2. waited' \in BOOLEAN
    BY <1>1
  <2>3. submitted' \in 0..MaxTasks /\ work_queue' \in Seq(Task)
    BY <1>1, <1>2 DEF PoolInv, TypeOK, Task
  <2> QED
    BY <1>1, <2>1, <2>2, <2>3 DEF PoolInv, TypeOK
<1>4. Len(work_queue') = Len(work_queue) + 1 /\ Popped' = Popped
  BY <1>1, <1>2 DEF PoolInv, TypeOK, Popped
<1>5. InOrder'
  <2>1. \A i \in 1..Len(work_queue) : work_queue'[i] = work_queue[i]
    BY <1>1, <1>2 DEF PoolInv, TypeOK
  <2>2. work_queue'[Len(work_queue) + 1] = n /\ n = Popped + Len(work_queue) + 1
    BY <1>1, <1>2 DEF PoolInv, TypeOK, Popped
  <2>3. Len(work_queue') <= submitted'
    BY <1>1, <1>2, <1>4 DEF PoolInv, InOrder
  <2> QED
    BY <1>2, <1>4, <2>1, <2>2, <2>3 DEF PoolInv, InOrder
<1>6. OneFate'
  BY <1>1, <1>4 DEF PoolInv, OneFate, Running, HasRun, Dropped, Waiting, Holders
<1> QED
  BY <1>3, <1>5, <1>6 DEF PoolInv

LEMMA PoolWorker ==
  ASSUME PoolInv, NEW w \in Workers, Worker(w)
  PROVE  PoolInv'
<1> USE DEF ownerVars
<1>1. CASE testDone(w) \/ yield(w)
  <2>1. TypeOK' /\ Holding'
    BY <1>1 DEF testDone, yield, PoolInv, TypeOK, Holding, Places
  <2> QED
    BY <1>1, <2>1, TasksUnchanged DEF testDone, yield
<1>2. CASE popTask(w)
  <2> PICK h : h = Head(work_queue)
    OBVIOUS
  <2>1. /\ worker[w] = "try_pop" /\ work_queue # <<>>
        /\ worker' = [worker EXCEPT ![w] = "run"] /\ task' = [task EXCEPT ![w] = h]
        /\ work_queue' = Tail(work_queue)
        /\ UNCHANGED <<threads, done, owner, waited, submitted, dropped, ran>>
    BY <1>2 DEF popTask
  <2>2. /\ h = Popped + 1 /\ h \in Task /\ Waiting(h) /\ work_queue' \in Seq(Task)
        /\ InOrder' /\ Popped \in Int /\ Popped' = Popped + 1
    BY <2>1, FrontTask
  <2>3. TypeOK' /\ Holding'
    BY <2>1, <2>2, PoolAssumption DEF PoolInv, TypeOK, Holding, Places, Task
  <2>4. task[w] = 0
    BY <2>1 DEF PoolInv, Holding
  <2>5. Holders(h)' = {w}
    BY <2>1, <2>2 DEF PoolInv, TypeOK, Waiting, Holders
  <2>6. Running(h)'
    BY <2>1, <2>2, <2>5 DEF Waiting, Running
  <2>7. ASSUME NEW k \in Task, k # h
        PROVE  /\ Running(k)' <=> Running(k)
               /\ HasRun(k)' <=> HasRun(k)
               /\ Dropped(k)' <=> Dropped(k)
               /\ Waiting(k)' <=> Waiting(k)
    <3>1. k # 0
      BY DEF Task
    <3>2. Holders(k)' = Holders(k)
      BY <2>1, <2>4, <2>7, <3>1 DEF Holders, PoolInv, TypeOK
    <3> QED
      BY <2>1, <3>2, FateKept
  <2>8. OneFate'
    BY <2>2, <2>6, <2>7 DEF OneFate, PoolInv, Task
  <2> QED
    BY <2>2, <2>3, <2>8 DEF PoolInv
<1>3. CASE runTask(w)
  <2> PICK r : r = task[w]
    OBVIOUS
  <2>1. /\ worker[w] = "run" /\ worker' = [worker EXCEPT ![w] = "test"]
        /\ task' = [task EXCEPT ![w] = 0] /\ ran' = [ran EXCEPT ![r] = ran[r] + 1]
        /\ UNCHANGED <<threads, done, owner, waited, submitted, dropped, work_queue>>
    BY <1>3 DEF runTask
  <2>2. r \in Task /\ r # 0
    BY <2>1, PoolAssumption DEF PoolInv, TypeOK, Holding, Task
  <2>3. w \in Holders(r)
    BY DEF Holders
  <2>4. TypeOK'
    BY <2>1, <2>2, PoolAssumption DEF PoolInv, TypeOK, Places
  <2>5. Holding'
    BY <2>1 DEF PoolInv, TypeOK, Holding
  <2>6. InOrder' /\ Popped' = Popped
    BY <2>1 DEF PoolInv, InOrder, Popped
  <2>7. r <= Popped /\ Running(r)
    BY <2>2, <2>3 DEF PoolInv, OneFate, HasRun, Dropped, Waiting
  <2>8. Holders(r) = {w}
    BY <2>3, <2>7 DEF Running
  <2>9. Holders(r)' = {}
    BY <2>1, <2>2, <2>8 DEF Holders, PoolInv, TypeOK
  <2>10. HasRun(r)'
    BY <2>1, <2>2, <2>7, <2>9 DEF HasRun, Running, PoolInv, TypeOK
  <2>11. ASSUME NEW k \in Task, k # r
         PROVE  /\ Running(k)' <=> Running(k)
                /\ HasRun(k)' <=> HasRun(k)
                /\ Dropped(k)' <=> Dropped(k)
                /\ Waiting(k)' <=> Waiting(k)
    <3>1. k # 0 /\ w \notin Holders(k)
      BY <2>3, <2>11 DEF Task, Holders
    <3>2. Holders(k)' = Holders(k)
      BY <2>1, <3>1 DEF Holders, PoolInv, TypeOK
    <3>3. ran'[k] = ran[k]
      BY <2>1, <2>11 DEF PoolInv, TypeOK
    <3> QED
      BY <2>1, <3>2, <3>3, FateKept
  <2>12. OneFate'
    BY <2>6, <2>7, <2>10, <2>11 DEF OneFate, PoolInv
  <2> QED
    BY <2>4, <2>5, <2>6, <2>12 DEF PoolInv
<1> QED
  BY <1>1, <1>2, <1>3 DEF Worker

LEMMA PoolStep ==
  ASSUME PoolInv, [Next]_vars
  PROVE  PoolInv'
<1>1. CASE UNCHANGED vars
  <2>1. TypeOK' /\ Holding'
    BY <1>1 DEF vars, ownerVars, workerVars, PoolInv, TypeOK, Holding
  <2> QED
    BY <1>1, <2>1, TasksUnchanged DEF vars, ownerVars, workerVars
<1> QED
  BY <1>1, PoolOwner, PoolSubmit, PoolWorker DEF Next

(* Every submitted task is in the queue, with one worker, run once, or     *)
(* dropped by the destructor, and in only one of these (worker_pool.hpp,   *)
(* submit, worker_thread and ~thread_pool).                                *)
THEOREM TasksRunOnce == FairSpec => []TaskOnce
<1>1. ASSUME PoolInv, NEW k \in 1..submitted
      PROVE  Cardinality({i \in DOMAIN work_queue : work_queue[i] = k})
               + Cardinality({w \in Workers : task[w] = k})
               + ran[k] + (IF k \in dropped THEN 1 ELSE 0) = 1
  <2> DEFINE Q == {i \in DOMAIN work_queue : work_queue[i] = k}
  <2>1. k \in Task /\ Len(work_queue) \in Nat /\ Popped \in Nat /\ submitted \in Nat
        /\ DOMAIN work_queue = 1..Len(work_queue)
    BY <1>1, PoolAssumption DEF PoolInv, TypeOK, InOrder, Popped, Task
  <2>2. Cardinality({}) = 0 /\ \A x : Cardinality({x}) = 1
    BY FS_EmptySet, FS_Singleton
  <2>3. CASE k <= Popped
    <3>1. Q = {}
      BY <1>1, <2>1, <2>3 DEF PoolInv, InOrder
    <3>2. \/ Cardinality(Holders(k)) = 1 /\ ran[k] = 0 /\ k \notin dropped
          \/ Cardinality(Holders(k)) = 0 /\ ran[k] = 1 /\ k \notin dropped
          \/ Cardinality(Holders(k)) = 0 /\ ran[k] = 0 /\ k \in dropped
      BY <1>1, <2>1, <2>2, <2>3 DEF PoolInv, OneFate, Running, HasRun, Dropped
    <3>3. Cardinality(Q) = 0 /\ Cardinality(Holders(k)) \in Nat /\ ran[k] \in Nat
      BY <2>2, <3>1, <3>2
    <3> QED
      BY <3>2, <3>3 DEF Holders
  <2>4. CASE k > Popped
    <3>1. k - Popped \in 1..Len(work_queue)
      BY <2>1, <2>4 DEF Popped
    <3>2. Q = {k - Popped}
      BY <1>1, <2>1, <3>1 DEF PoolInv, InOrder
    <3>3. Waiting(k)
      BY <1>1, <2>1, <2>4 DEF PoolInv, OneFate
    <3>4. Cardinality(Holders(k)) = 0 /\ ran[k] = 0 /\ k \notin dropped
      BY <2>2, <3>3 DEF Waiting
    <3>5. Cardinality(Q) = 1
      BY <2>2, <3>2
    <3> QED
      BY <3>4, <3>5 DEF Holders
  <2> QED
    BY <2>1, <2>3, <2>4
<1>2. PoolInv => TaskOnce
  BY <1>1 DEF TaskOnce
<1> QED
  BY <1>2, PoolInit, PoolStep, PTL DEF FairSpec

-----------------------------------------------------------------------------
(* An owner that has waited holds an empty queue; only the destructor      *)
(* drops.                                                                  *)
WaitedEmpty ==
  /\ owner \in {"construct", "use", "wait"} => dropped = {}
  /\ waited => work_queue = <<>> /\ dropped = {}

(* The destructor's peek discards nothing for an owner that saw workdone() *)
(* hold after its last submit (worker_pool.hpp, workdone; session.h,       *)
(* closedState).                                                           *)
THEOREM WaitSavesTasks == FairSpec => []NothingDroppedAfterWait
<1> USE DEF WaitedEmpty
<1>1. Init => WaitedEmpty
  BY DEF Init
<1>2. PoolInv /\ WaitedEmpty /\ [Next]_vars => WaitedEmpty'
  <2> SUFFICES ASSUME PoolInv, WaitedEmpty, [Next]_vars
               PROVE  WaitedEmpty'
    OBVIOUS
  <2>1. CASE startThread
    BY <2>1 DEF startThread
  <2>2. CASE breakLoop \/ startFails \/ constructed \/ submit \/ wait \/ workdone \/ destroy
    BY <2>2 DEF breakLoop, startFails, constructed, submit, wait, workdone, destroy, Moves
  <2>3. CASE peek
    <3>1. work_queue # <<>> /\ waited' = waited /\ owner' = "peek"
      BY <2>3 DEF peek, Moves
    <3> QED
      BY <3>1
  <2>4. CASE peekEmpty \/ setDone \/ join
    <3>1. UNCHANGED <<waited, dropped, work_queue>> /\ owner' \in {"set done", "join", "gone"}
      BY <2>4 DEF peekEmpty, setDone, join, Moves
    <3> QED
      BY <3>1
  <2>5. ASSUME NEW w \in Workers, Worker(w)
        PROVE  WaitedEmpty'
    <3>1. UNCHANGED <<owner, waited, dropped>>
      BY <2>5 DEF Worker, testDone, popTask, yield, runTask, ownerVars
    <3>2. work_queue = <<>> => work_queue' = <<>>
      BY <2>5 DEF Worker, testDone, popTask, yield, runTask
    <3> QED
      BY <3>1, <3>2
  <2>6. CASE UNCHANGED vars
    BY <2>6 DEF vars, ownerVars
  <2> QED
    BY <2>1, <2>2, <2>3, <2>4, <2>5, <2>6 DEF Next, Owner
<1>3. WaitedEmpty => NothingDroppedAfterWait
  BY DEF NothingDroppedAfterWait
<1> QED
  BY <1>1, <1>2, <1>3, PoolInit, PoolStep, PTL DEF FairSpec
=============================================================================
