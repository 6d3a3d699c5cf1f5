----------------------------- MODULE FifoQueue -----------------------------
(***************************************************************************)
(* What circular_pipeline.hpp promises to its callers: a queue whose every *)
(* call takes effect at one instant between its start and its return.  No  *)
(* node, lock or counter shows.                                            *)
(***************************************************************************)
EXTENDS Naturals, Sequences

CONSTANTS
  Threads,   \* the threads that use the queue
  NULL,      \* no value, and the null shared_ptr try_pop may return
  MaxCalls   \* bound on the calls of all threads

(* A thread pushes its own name: the values of two threads differ. *)
Values == Threads

VARIABLES
  q,     \* Seq(Values)
  call,  \* [Threads -> Call]: the call a thread is in
  made   \* 0..MaxCalls: calls begun so far

fifoVars == <<q, call, made>>

PushOps == {"push", "pushWithRef"}
PopOps == {"try_pop", "peek"}
Ops == PushOps \cup PopOps \cup {"isEmpty"}

(* What a call returns when front is the element at the front of the queue *)
(* (NULL: there is none) at the instant it takes effect: try_pop a         *)
(* pointer, peek and isEmpty a flag.                                       *)
Answer(op, front) ==
  [data |-> IF op = "try_pop" THEN front ELSE NULL,
   flag |-> \/ op = "peek" /\ front # NULL
            \/ op = "isEmpty" /\ front = NULL]

NoAnswer == [data |-> NULL, flag |-> FALSE]
Idle == [status |-> "idle", op |-> NULL, arg |-> NULL, res |-> NoAnswer]

FifoInit ==
  /\ q = <<>>
  /\ call = [t \in Threads |-> Idle]
  /\ made = 0

Invoke(t, op) ==
  /\ call[t].status = "idle"
  /\ made < MaxCalls
  /\ call' = [call EXCEPT ![t] =
                [status |-> "called", op |-> op, res |-> NoAnswer,
                 arg |-> IF op \in PushOps THEN t ELSE NULL]]
  /\ made' = made + 1
  /\ q' = q

(* peek pops, as try_pop does. *)
TakeEffect(t) ==
  LET op == call[t].op
      front == IF q = <<>> THEN NULL ELSE Head(q)
  IN  /\ call[t].status = "called"
      /\ call' = [call EXCEPT ![t].status = "done", ![t].res = Answer(op, front)]
      /\ q' = CASE op \in PushOps               -> Append(q, call[t].arg)
                [] op \in PopOps /\ q # <<>>    -> Tail(q)
                [] OTHER                        -> q
      /\ made' = made

Return(t) ==
  /\ call[t].status = "done"
  /\ call' = [call EXCEPT ![t] = Idle]
  /\ UNCHANGED <<q, made>>

FifoNext ==
  \E t \in Threads :
    \/ \E op \in Ops : Invoke(t, op)
    \/ TakeEffect(t)
    \/ Return(t)

FifoSpec == FifoInit /\ [][FifoNext]_fifoVars
=============================================================================
