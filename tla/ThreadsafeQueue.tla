-------------------------- MODULE ThreadsafeQueue --------------------------
(***************************************************************************)
(* circular_pipeline.hpp: threadsafe_queue, a linked list with a dummy     *)
(* node at its tail, a lock for either end and a plain int that both ends  *)
(* change.  A step is one access to memory another thread may reach, the   *)
(* two writes of a push to the last node taken together: nobody reads that *)
(* node before tail is moved past it.  A lock is released in the step that *)
(* makes the last access under it.                                         *)
(*                                                                         *)
(* count is changed under tail_mutex by a push and under head_mutex by a   *)
(* pop: its load and its store are steps of their own.  head_dataref and   *)
(* getCount are called nowhere and left out.                               *)
(***************************************************************************)
EXTENDS Integers, Sequences, FiniteSets

CONSTANTS
  Threads,  \* the threads that use the queue
  NULL,     \* no value, no thread, the null shared_ptr
  MaxCalls  \* bound on the calls of all threads

PushOps == {"push", "pushWithRef"}
PopOps == {"try_pop", "peek"}
Ops == PushOps \cup PopOps \cup {"isEmpty"}

ASSUME QueueAssumption ==
  MaxCalls \in Nat /\ NULL \notin Threads \cup Ops

(* A thread pushes its own name: the values of two threads differ. *)
Values == Threads

VARIABLES
  node,        \* Seq(Node): every node ever allocated; a pointer is an index
  head,        \* the owned head node
  tail,        \* the dummy node at the end
  head_mutex,  \* the thread that holds it, or NULL
  tail_mutex,
  count,
  th,          \* [Threads -> Local]: program counter and locals of a thread
  made         \* calls begun so far

shared == <<node, head, tail, head_mutex, tail_mutex, count>>
vars == <<shared, th, made>>

Node == [data : Values \cup {NULL}, next : Nat, live : BOOLEAN]
NewNode == [data |-> NULL, next |-> 0, live |-> TRUE]

PC == {"idle", "lock tail", "link", "load", "store", "publish",
       "lock head", "get_tail", "move", "take", "return"}

Local ==
  [pc  : PC,
   op  : Ops \cup {NULL},
   arg : Values \cup {NULL},           \* new_value
   mine : Nat,                         \* new_tail of a push, old_head of a pop
   reg : Int,                          \* the value of count it has loaded
   data : Values \cup {NULL},          \* what try_pop returns
   flag : BOOLEAN]                     \* what peek and isEmpty return

At(t, pc) == th[t].pc = pc

(* The accesses of a call, in order: push counts before it publishes the   *)
(* new tail, pushWithRef after.                                            *)
Route(op) ==
  CASE op = "push"        -> <<"link", "load", "store", "publish", "return">>
    [] op = "pushWithRef" -> <<"link", "publish", "load", "store", "return">>
    [] op \in PopOps      -> <<"move", "load", "store", "take", "return">>

After(op, pc) ==
  LET i == CHOOSE k \in 1..4 : Route(op)[k] = pc
  IN  Route(op)[i + 1]

Goto(t, r) == th' = [th EXCEPT ![t] = r]

-----------------------------------------------------------------------------
Call(t, op) ==
  /\ At(t, "idle")
  /\ made < MaxCalls
  /\ made' = made + 1
  /\ Goto(t, [th[t] EXCEPT !.pc = IF op \in PushOps THEN "lock tail" ELSE "lock head",
                           !.op = op,
                           !.arg = IF op \in PushOps THEN t ELSE NULL])
  /\ UNCHANGED shared

(* Mutant: a push does not take tail_mutex. *)
lockTailNever(t) ==
  /\ At(t, "lock tail")
  /\ Goto(t, [th[t] EXCEPT !.pc = "link"])
  /\ UNCHANGED shared

lockTail(t) ==
  /\ At(t, "lock tail")
  /\ tail_mutex = NULL
  /\ tail_mutex' = t
  /\ Goto(t, [th[t] EXCEPT !.pc = "link"])
  /\ UNCHANGED <<node, head, tail, head_mutex, count>>

(* tail->data = new_data; tail->next = std::move(p), which would free the  *)
(* node that next owned before.                                            *)
link(t) ==
  LET new == Len(node) + 1
  IN  /\ At(t, "link")
      /\ node' = Append([i \in DOMAIN node |->
                           CASE i = tail -> [node[i] EXCEPT !.data = th[t].arg, !.next = new]
                             [] i = node[tail].next -> [node[i] EXCEPT !.live = FALSE]
                             [] OTHER -> node[i]],
                        NewNode)
      /\ Goto(t, [th[t] EXCEPT !.pc = After(th[t].op, "link"), !.mine = new])
      /\ UNCHANGED <<head, tail, head_mutex, tail_mutex, count>>

(* tail = new_tail; the last access of push. *)
publish(t) ==
  /\ At(t, "publish")
  /\ tail' = th[t].mine
  /\ tail_mutex' = IF th[t].op = "push" THEN NULL ELSE tail_mutex
  /\ Goto(t, [th[t] EXCEPT !.pc = After(th[t].op, "publish")])
  /\ UNCHANGED <<node, head, head_mutex, count>>

(* count++ and count--: a load and a store, not atomic together. *)
loadCount(t) ==
  /\ At(t, "load")
  /\ Goto(t, [th[t] EXCEPT !.pc = After(th[t].op, "load"), !.reg = count])
  /\ UNCHANGED shared

storeCount(t) ==
  /\ At(t, "store")
  /\ count' = th[t].reg + (IF th[t].op \in PushOps THEN 1 ELSE -1)
  /\ head_mutex' = IF th[t].op \in PopOps THEN NULL ELSE head_mutex
  /\ tail_mutex' = IF th[t].op = "pushWithRef" THEN NULL ELSE tail_mutex
  /\ Goto(t, [th[t] EXCEPT !.pc = After(th[t].op, "store"), !.reg = 0])
  /\ UNCHANGED <<node, head, tail>>

-----------------------------------------------------------------------------
(* Mutant: pop_head does not take head_mutex. *)
lockHeadNever(t) ==
  /\ At(t, "lock head")
  /\ Goto(t, [th[t] EXCEPT !.pc = "get_tail"])
  /\ UNCHANGED shared

(* pop_head and isEmpty. *)
lockHead(t) ==
  /\ At(t, "lock head")
  /\ head_mutex = NULL
  /\ head_mutex' = t
  /\ Goto(t, [th[t] EXCEPT !.pc = "get_tail"])
  /\ UNCHANGED <<node, head, tail, tail_mutex, count>>

(* What the call returns once it has found the queue empty or not. *)
Found(op, empty) ==
  (op = "isEmpty" /\ empty) \/ (op = "peek" /\ ~empty)

(* Mutant: a pop of an empty queue leaves head_mutex locked. *)
get_tailKeepsLock(t) ==
  LET empty == head = tail
      leaves == empty \/ th[t].op = "isEmpty"
  IN  /\ At(t, "get_tail")
      /\ tail_mutex = NULL
      /\ head_mutex' = IF leaves /\ ~empty THEN NULL ELSE head_mutex
      /\ Goto(t, [th[t] EXCEPT !.pc = IF leaves THEN "return" ELSE "move",
                               !.flag = Found(th[t].op, empty)])
      /\ UNCHANGED <<node, head, tail, tail_mutex, count>>

(* Mutant: a pop of an empty queue counts down too. *)
get_tailCounts(t) ==
  LET empty == head = tail
      leaves == empty \/ th[t].op = "isEmpty"
  IN  /\ At(t, "get_tail")
      /\ tail_mutex = NULL
      /\ head_mutex' = IF leaves THEN NULL ELSE head_mutex
      /\ Goto(t, [th[t] EXCEPT !.pc = IF leaves THEN "return" ELSE "move",
                               !.flag = Found(th[t].op, empty)])
      /\ count' = IF empty /\ th[t].op # "isEmpty" THEN count - 1 ELSE count
      /\ UNCHANGED <<node, head, tail, tail_mutex>>

(* head.get() == get_tail(): tail_mutex is locked, tail read and the lock  *)
(* released, while head_mutex is held.  An empty queue ends the call.      *)
get_tail(t) ==
  LET empty == head = tail
      leaves == empty \/ th[t].op = "isEmpty"
  IN  /\ At(t, "get_tail")
      /\ tail_mutex = NULL
      /\ head_mutex' = IF leaves THEN NULL ELSE head_mutex
      /\ Goto(t, [th[t] EXCEPT !.pc = IF leaves THEN "return" ELSE "move",
                               !.flag = Found(th[t].op, empty)])
      /\ UNCHANGED <<node, head, tail, tail_mutex, count>>

(* old_head = std::move(head); head = std::move(old_head->next). *)
moveHead(t) ==
  /\ At(t, "move")
  /\ head' = node[head].next
  /\ node' = [node EXCEPT ![head].next = 0]
  /\ Goto(t, [th[t] EXCEPT !.pc = After(th[t].op, "move"), !.mine = head])
  /\ UNCHANGED <<tail, head_mutex, tail_mutex, count>>

(* try_pop reads the data of old_head, with no lock held; the unique_ptr   *)
(* frees the node.                                                         *)
takeData(t) ==
  /\ At(t, "take")
  /\ Goto(t, [th[t] EXCEPT !.pc = After(th[t].op, "take"),
                           !.data = IF th[t].op = "try_pop" THEN node[th[t].mine].data ELSE @])
  /\ node' = [node EXCEPT ![th[t].mine].live = FALSE]
  /\ UNCHANGED <<head, tail, head_mutex, tail_mutex, count>>

Return(t) ==
  /\ At(t, "return")
  /\ Goto(t, [th[t] EXCEPT !.pc = "idle", !.op = NULL, !.arg = NULL, !.mine = 0,
                           !.data = NULL, !.flag = FALSE])
  /\ UNCHANGED shared

-----------------------------------------------------------------------------
(* threadsafe_queue(siz); the member size is never used again. *)
Init ==
  /\ node = <<NewNode>>
  /\ head = 1 /\ tail = 1
  /\ head_mutex = NULL /\ tail_mutex = NULL
  /\ count = 0
  /\ th = [t \in Threads |-> [pc |-> "idle", op |-> NULL, arg |-> NULL, mine |-> 0,
                              reg |-> 0, data |-> NULL, flag |-> FALSE]]
  /\ made = 0

(* The steps of a thread inside a call. *)
Step(t) ==
  /\ \/ lockTail(t) \/ link(t) \/ publish(t) \/ loadCount(t) \/ storeCount(t)
     \/ lockHead(t) \/ get_tail(t) \/ moveHead(t) \/ takeData(t) \/ Return(t)
  /\ made' = made

Quiescent == \A t \in Threads : At(t, "idle")

Next ==
  \/ \E t \in Threads, op \in Ops : Call(t, op)
  \/ \E t \in Threads : Step(t)

(* The operating system runs every thread that can take a step. *)
FairSpec == Init /\ [][Next]_vars /\ \A t \in Threads : WF_vars(Step(t))

-----------------------------------------------------------------------------
TypeOK ==
  /\ node \in Seq(Node)
  /\ head \in DOMAIN node /\ tail \in DOMAIN node
  /\ head_mutex \in Threads \cup {NULL} /\ tail_mutex \in Threads \cup {NULL}
  /\ count \in Int
  /\ th \in [Threads -> Local]
  /\ made \in 0..MaxCalls

(* No step dereferences a node that has been freed: a push writes to the   *)
(* tail node, a pop unlinks the head node and reads the one it unlinked    *)
(* after the lock is gone.                                                 *)
NoUseAfterFree ==
  \A t \in Threads :
    /\ At(t, "link") => node[tail].live
    /\ At(t, "move") => head # 0 /\ node[head].live
    /\ At(t, "take") => node[th[t].mine].live

(* The nodes from head to tail, following next. *)
Chain ==
  LET at[i \in 0..Len(node)] ==
        IF i = 0 THEN head ELSE IF at[i - 1] = 0 THEN 0 ELSE node[at[i - 1]].next
      n == CHOOSE k \in 0..Len(node) :
             (at[k] = tail \/ k = Len(node)) /\ \A j \in 0..(k - 1) : at[j] # tail
  IN  [i \in 1..n |-> at[i - 1]]

Contents ==
  LET nodes == Chain
  IN  [i \in DOMAIN nodes |-> IF nodes[i] = 0 THEN NULL ELSE node[nodes[i]].data]

(* The lost updates of count: once no call is under way, count may be too  *)
(* low by one for every push and too high by one for every pop that        *)
(* succeeded, and not more; before the first pop it is exact.              *)
CountDrift ==
  LET pushed == Len(node) - 1
      popped == Cardinality({i \in DOMAIN node : ~node[i].live})
      drift  == count - Len(Contents)
  IN  Quiescent => /\ -pushed <= drift /\ drift <= popped
                   /\ popped = 0 => drift = 0

(* "double locks? is that safe?" (circular_pipeline.hpp:33): get_tail is   *)
(* called with head_mutex held, and every call still returns.              *)
AllReturn == \A t \in Threads : th[t].pc # "idle" ~> At(t, "idle")

-----------------------------------------------------------------------------
(* The instant at which a call takes effect is past: publish for a push,   *)
(* get_tail when it ends the call, moveHead otherwise.                     *)
Effective(t) ==
  \/ At(t, "return")
  \/ th[t].op \in PopOps /\ th[t].pc \in {"load", "store", "take"}
  \/ th[t].op = "pushWithRef" /\ th[t].pc \in {"load", "store"}

(* What the call is going to return. *)
Result(t) ==
  [data |-> IF th[t].op = "try_pop" /\ th[t].pc \in {"load", "store", "take"}
              THEN node[th[t].mine].data ELSE th[t].data,
   flag |-> Effective(t) /\ th[t].flag]

AbstractCall(t) ==
  [status |-> IF At(t, "idle") THEN "idle" ELSE IF Effective(t) THEN "done" ELSE "called",
   op     |-> th[t].op,
   arg    |-> th[t].arg,
   res    |-> Result(t)]

Fifo ==
  INSTANCE FifoQueue WITH
    q <- Contents,
    call <- [t \in Threads |-> AbstractCall(t)]

(* Refinement: with any interleaving of any calls the queue behaves as the *)
(* FIFO queue in which each call is one atomic step.                       *)
Linearizable == Fifo!FifoSpec
=============================================================================
