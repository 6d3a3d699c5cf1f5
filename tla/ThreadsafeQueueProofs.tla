----------------------- MODULE ThreadsafeQueueProofs -----------------------
(***************************************************************************)
(* The safety properties of ThreadsafeQueue and its refinement of          *)
(* FifoQueue, for any set of threads and any number of calls.              *)
(*                                                                         *)
(* A node is linked, published and unlinked in the order in which it was   *)
(* allocated, so the list is always head, head + 1, ..., tail, with at     *)
(* most one node more, linked and not yet published.                       *)
(***************************************************************************)
EXTENDS ThreadsafeQueue, FiniteSetTheorems, WellFoundedInduction, TLAPS

HeadOps == PopOps \cup {"isEmpty"}

(* The stretch of a call under either lock. *)
InTail(t) == th[t].op \in PushOps /\ th[t].pc \in {"link", "load", "store", "publish"}
InHead(t) == th[t].op \in HeadOps /\ th[t].pc \in {"get_tail", "move", "load", "store"}

Locked ==
  \A t \in Threads : (InTail(t) <=> tail_mutex = t) /\ (InHead(t) <=> head_mutex = t)

(* The calls that reach a place, and what their locals hold there. *)
Reached(t) ==
  /\ At(t, "idle") <=> th[t].op = NULL
  /\ th[t].pc \in {"lock tail", "link", "publish"} => th[t].op \in PushOps
  /\ th[t].pc \in {"lock head", "get_tail"} => th[t].op \in HeadOps
  /\ th[t].pc \in {"move", "take"} => th[t].op \in PopOps
  /\ th[t].pc \in {"load", "store"} => th[t].op \in PushOps \cup PopOps

Locals(t) ==
  /\ th[t].arg = IF th[t].op \in PushOps THEN t ELSE NULL
  /\ th[t].data # NULL => At(t, "return") /\ th[t].op = "try_pop"
  /\ At(t, "idle") => th[t].mine = 0
  /\ th[t].flag => th[t].pc \in {"move", "load", "store", "take", "return"}
                   /\ th[t].op \in {"peek", "isEmpty"}
  /\ At(t, "move") => th[t].flag = (th[t].op = "peek") /\ head < tail

(* A push has linked its node and not yet made it the tail. *)
Linking(t) ==
  \/ th[t].op = "push" /\ th[t].pc \in {"load", "store", "publish"}
  \/ th[t].op = "pushWithRef" /\ At(t, "publish")

(* A pop has unlinked its node and not yet freed it. *)
Popping(t) == th[t].op \in PopOps /\ th[t].pc \in {"load", "store", "take"}

Listed ==
  /\ 1 <= head /\ head <= tail
  /\ \A i \in head..(Len(node) - 1) : node[i].next = i + 1 /\ node[i].data \in Values
  /\ node[Len(node)].next = 0
  /\ \A i \in head..Len(node) : node[i].live

Published ==
  \/ Len(node) = tail /\ \A t \in Threads : ~Linking(t)
  \/ /\ Len(node) = tail + 1
     /\ \E t \in Threads :
          /\ \A u \in Threads : Linking(u) <=> u = t
          /\ th[t].mine = tail + 1 /\ node[tail].data = t

Unlinked ==
  /\ \A t \in Threads : Popping(t) =>
       /\ th[t].mine \in 1..(head - 1)
       /\ node[th[t].mine].live /\ node[th[t].mine].data \in Values
  /\ \A t, u \in Threads : Popping(t) /\ Popping(u) /\ th[t].mine = th[u].mine => t = u
  /\ \A i \in 1..(head - 1) : node[i].live => \E t \in Threads : Popping(t) /\ th[t].mine = i

QueueInv ==
  /\ TypeOK
  /\ Locked
  /\ \A t \in Threads : Reached(t) /\ Locals(t)
  /\ Listed
  /\ Published
  /\ Unlinked

-----------------------------------------------------------------------------
(* Where a call goes on. *)
LEMMA AfterPush ==
  /\ After("push", "link") = "load" /\ After("push", "load") = "store"
  /\ After("push", "store") = "publish" /\ After("push", "publish") = "return"
<1> DEFINE R == <<"link", "load", "store", "publish", "return">>
<1>1. Route("push") = R
  BY DEF Route, PopOps
<1>2. /\ (CHOOSE k \in 1..4 : R[k] = "link") = 1
      /\ (CHOOSE k \in 1..4 : R[k] = "load") = 2
      /\ (CHOOSE k \in 1..4 : R[k] = "store") = 3
      /\ (CHOOSE k \in 1..4 : R[k] = "publish") = 4
  OBVIOUS
<1> QED
  BY <1>1, <1>2 DEF After

LEMMA AfterPushWithRef ==
  /\ After("pushWithRef", "link") = "publish" /\ After("pushWithRef", "publish") = "load"
  /\ After("pushWithRef", "load") = "store" /\ After("pushWithRef", "store") = "return"
<1> DEFINE R == <<"link", "publish", "load", "store", "return">>
<1>1. Route("pushWithRef") = R
  BY DEF Route, PopOps
<1>2. /\ (CHOOSE k \in 1..4 : R[k] = "link") = 1
      /\ (CHOOSE k \in 1..4 : R[k] = "publish") = 2
      /\ (CHOOSE k \in 1..4 : R[k] = "load") = 3
      /\ (CHOOSE k \in 1..4 : R[k] = "store") = 4
  OBVIOUS
<1> QED
  BY <1>1, <1>2 DEF After

LEMMA AfterPop ==
  ASSUME NEW op \in PopOps
  PROVE  /\ After(op, "move") = "load" /\ After(op, "load") = "store"
         /\ After(op, "store") = "take" /\ After(op, "take") = "return"
<1> DEFINE R == <<"move", "load", "store", "take", "return">>
<1>1. Route(op) = R
  BY DEF Route, PopOps
<1>2. /\ (CHOOSE k \in 1..4 : R[k] = "move") = 1
      /\ (CHOOSE k \in 1..4 : R[k] = "load") = 2
      /\ (CHOOSE k \in 1..4 : R[k] = "store") = 3
      /\ (CHOOSE k \in 1..4 : R[k] = "take") = 4
  OBVIOUS
<1> QED
  BY <1>1, <1>2 DEF After

(* A step changes the locals of one thread. *)
LEMMA Goes ==
  ASSUME TypeOK, NEW t \in Threads, NEW r, Goto(t, r)
  PROVE  /\ th'[t] = r
         /\ \A u \in Threads : u # t => th'[u] = th[u]
         /\ r \in Local => th' \in [Threads -> Local]
BY DEF Goto, TypeOK

LEMMA OthersKept ==
  ASSUME NEW u, th'[u] = th[u]
  PROVE  /\ InTail(u)' <=> InTail(u)
         /\ InHead(u)' <=> InHead(u)
         /\ Linking(u)' <=> Linking(u)
         /\ Popping(u)' <=> Popping(u)
         /\ Reached(u)' <=> Reached(u)
BY DEF InTail, InHead, Linking, Popping, Reached, At

LEMMA LocalsKept ==
  ASSUME NEW u, Locals(u), th'[u] = th[u], At(u, "move") => head' < tail'
  PROVE  Locals(u)'
BY DEF Locals, At

LEMMA QueueInit == Init => QueueInv
<1> SUFFICES ASSUME Init
             PROVE  QueueInv
  OBVIOUS
<1>1. /\ Len(node) = 1 /\ node[1] = NewNode /\ head = 1 /\ tail = 1
      /\ DOMAIN node = {1} /\ node \in Seq(Node)
  BY DEF Init, NewNode, Node
<1>2. \A t \in Threads : th[t].pc = "idle" /\ th[t].op = NULL
  BY DEF Init
<1>3. TypeOK
  BY <1>1, QueueAssumption DEF Init, TypeOK, Local, PC
<1>4. Locked
  BY <1>2, QueueAssumption DEF Init, Locked, InTail, InHead
<1>5. \A t \in Threads : Reached(t) /\ Locals(t)
  BY <1>2, QueueAssumption DEF Init, Reached, Locals, At, Ops, HeadOps
<1>6. Listed /\ Published
  BY <1>1, <1>2 DEF Listed, Published, Linking, NewNode, At
<1>7. Unlinked
  BY <1>1, <1>2 DEF Unlinked, Popping
<1> QED
  BY <1>3, <1>4, <1>5, <1>6, <1>7 DEF QueueInv

-----------------------------------------------------------------------------
(* A step of t that touches neither the list nor the place of t in it. *)
LEMMA QuietStep ==
  ASSUME QueueInv, NEW t \in Threads,
         UNCHANGED <<node, head, tail>>,
         \A u \in Threads : u # t => th'[u] = th[u],
         TypeOK', Locked', Reached(t)', Locals(t)',
         Linking(t)' <=> Linking(t),
         Popping(t)' <=> Popping(t),
         Linking(t) \/ Popping(t) => th'[t].mine = th[t].mine
  PROVE  QueueInv'
<1>1. \A u \in Threads : Reached(u)' /\ Locals(u)'
  BY OthersKept, LocalsKept DEF QueueInv, Locals
<1>2. \A u \in Threads : /\ Linking(u)' <=> Linking(u)
                         /\ Popping(u)' <=> Popping(u)
                         /\ Linking(u) \/ Popping(u) => th'[u].mine = th[u].mine
  BY OthersKept
<1>3. Listed'
  BY DEF QueueInv, Listed
<1>4. Published'
  BY <1>2 DEF QueueInv, Published
<1>5. Unlinked'
  BY <1>2 DEF QueueInv, Unlinked
<1> QED
  BY <1>1, <1>3, <1>4, <1>5 DEF QueueInv

LEMMA QueueCall ==
  ASSUME QueueInv, NEW t \in Threads, NEW op \in Ops, Call(t, op)
  PROVE  QueueInv'
<1>1. /\ At(t, "idle") /\ th[t].op = NULL /\ th[t] \in Local /\ Locals(t)
      /\ UNCHANGED <<node, head, tail, head_mutex, tail_mutex, count>>
  BY DEF Call, shared, Reached, QueueInv, TypeOK
<1>2. /\ th'[t] = [th[t] EXCEPT !.pc = IF op \in PushOps THEN "lock tail" ELSE "lock head",
                                !.op = op, !.arg = IF op \in PushOps THEN t ELSE NULL]
      /\ \A u \in Threads : u # t => th'[u] = th[u]
  BY Goes DEF Call, QueueInv
<1>3. TypeOK'
  <2>1. th' \in [Threads -> Local]
    BY <1>1, Goes DEF Call, Local, PC, Values, QueueInv
  <2>2. made' \in 0..MaxCalls
    BY QueueAssumption DEF Call, QueueInv, TypeOK
  <2> QED
    BY <1>1, <2>1, <2>2 DEF QueueInv, TypeOK
<1>4. /\ th'[t].pc = IF op \in PushOps THEN "lock tail" ELSE "lock head"
      /\ th'[t].op = op
      /\ th'[t].arg = IF op \in PushOps THEN t ELSE NULL
      /\ th'[t].mine = th[t].mine /\ th'[t].data = th[t].data /\ th'[t].flag = th[t].flag
  BY <1>1, <1>2 DEF Local
<1>5. /\ ~InTail(t) /\ ~InHead(t) /\ ~Linking(t) /\ ~Popping(t)
      /\ ~InTail(t)' /\ ~InHead(t)' /\ ~Linking(t)' /\ ~Popping(t)'
  BY <1>1, <1>4 DEF At, InTail, InHead, Linking, Popping
<1>6. Locked'
  BY <1>1, <1>2, <1>5, OthersKept DEF QueueInv, Locked
<1>7. Reached(t)' /\ Locals(t)'
  BY <1>1, <1>4, QueueAssumption DEF Reached, Locals, At, Ops, HeadOps, PushOps, PopOps
<1> QED
  BY <1>1, <1>2, <1>3, <1>5, <1>6, <1>7, QuietStep

LEMMA QueueLockTail ==
  ASSUME QueueInv, NEW t \in Threads, lockTail(t), made' = made
  PROVE  QueueInv'
<1>1. /\ At(t, "lock tail") /\ th[t] \in Local /\ Reached(t) /\ Locals(t)
      /\ tail_mutex = NULL /\ tail_mutex' = t
      /\ UNCHANGED <<node, head, tail, head_mutex, count>>
  BY DEF lockTail, QueueInv, TypeOK
<1>2. /\ th'[t] = [th[t] EXCEPT !.pc = "link"]
      /\ \A u \in Threads : u # t => th'[u] = th[u]
  BY Goes DEF lockTail, QueueInv
<1>3. TypeOK'
  <2>1. th' \in [Threads -> Local]
    BY <1>1, Goes DEF lockTail, Local, PC, QueueInv
  <2> QED
    BY <1>1, <2>1 DEF QueueInv, TypeOK
<1>4. /\ th'[t].pc = "link"
      /\ th'[t].op = th[t].op /\ th'[t].arg = th[t].arg
      /\ th'[t].mine = th[t].mine /\ th'[t].data = th[t].data /\ th'[t].flag = th[t].flag
  BY <1>1, <1>2 DEF Local
<1>5. /\ ~InHead(t) /\ ~Linking(t) /\ ~Popping(t)
      /\ InTail(t)' /\ ~InHead(t)' /\ ~Linking(t)' /\ ~Popping(t)'
  BY <1>1, <1>4 DEF At, InTail, InHead, Linking, Popping, Reached
<1>6. Locked'
  BY <1>1, <1>2, <1>5, OthersKept, QueueAssumption DEF QueueInv, Locked
<1>7. Reached(t)' /\ Locals(t)'
  BY <1>1, <1>4, QueueAssumption DEF Reached, Locals, At, Ops, HeadOps, PushOps, PopOps
<1> QED
  BY <1>1, <1>2, <1>3, <1>5, <1>6, <1>7, QuietStep

LEMMA QueueLockHead ==
  ASSUME QueueInv, NEW t \in Threads, lockHead(t), made' = made
  PROVE  QueueInv'
<1>1. /\ At(t, "lock head") /\ th[t] \in Local /\ Reached(t) /\ Locals(t)
      /\ head_mutex = NULL /\ head_mutex' = t
      /\ UNCHANGED <<node, head, tail, tail_mutex, count>>
  BY DEF lockHead, QueueInv, TypeOK
<1>2. /\ th'[t] = [th[t] EXCEPT !.pc = "get_tail"]
      /\ \A u \in Threads : u # t => th'[u] = th[u]
  BY Goes DEF lockHead, QueueInv
<1>3. TypeOK'
  <2>1. th' \in [Threads -> Local]
    BY <1>1, Goes DEF lockHead, Local, PC, QueueInv
  <2> QED
    BY <1>1, <2>1 DEF QueueInv, TypeOK
<1>4. /\ th'[t].pc = "get_tail"
      /\ th'[t].op = th[t].op /\ th'[t].arg = th[t].arg
      /\ th'[t].mine = th[t].mine /\ th'[t].data = th[t].data /\ th'[t].flag = th[t].flag
  BY <1>1, <1>2 DEF Local
<1>5. /\ ~InTail(t) /\ ~Linking(t) /\ ~Popping(t)
      /\ ~InTail(t)' /\ InHead(t)' /\ ~Linking(t)' /\ ~Popping(t)'
  BY <1>1, <1>4 DEF At, InTail, InHead, Linking, Popping, Reached
<1>6. Locked'
  BY <1>1, <1>2, <1>5, OthersKept, QueueAssumption DEF QueueInv, Locked
<1>7. Reached(t)' /\ Locals(t)'
  BY <1>1, <1>4, QueueAssumption DEF Reached, Locals, At, Ops, HeadOps, PushOps, PopOps
<1> QED
  BY <1>1, <1>2, <1>3, <1>5, <1>6, <1>7, QuietStep

(* The calls that count. *)
LEMMA Counting ==
  ASSUME QueueInv, NEW t \in Threads, th[t].pc \in {"load", "store"}
  PROVE  th[t].op \in {"push", "pushWithRef", "try_pop", "peek"}
BY DEF QueueInv, Reached, PushOps, PopOps

LEMMA QueueLoadCount ==
  ASSUME QueueInv, NEW t \in Threads, loadCount(t), made' = made
  PROVE  QueueInv'
<1>1. /\ At(t, "load") /\ th[t] \in Local /\ Reached(t) /\ Locals(t)
      /\ UNCHANGED <<node, head, tail, head_mutex, tail_mutex, count>>
      /\ th[t].op \in {"push", "pushWithRef", "try_pop", "peek"}
  BY Counting DEF loadCount, QueueInv, TypeOK, shared, At
<1>2. After(th[t].op, "load") = "store"
  BY <1>1, AfterPush, AfterPushWithRef, AfterPop DEF PopOps
<1>3. /\ th'[t] = [th[t] EXCEPT !.pc = "store", !.reg = count]
      /\ \A u \in Threads : u # t => th'[u] = th[u]
  BY <1>2, Goes DEF loadCount, QueueInv
<1>4. TypeOK'
  <2>1. count \in Int
    BY DEF QueueInv, TypeOK
  <2>2. th' \in [Threads -> Local]
    BY <1>1, <1>2, <2>1, Goes DEF loadCount, Local, PC, QueueInv
  <2> QED
    BY <1>1, <2>2 DEF QueueInv, TypeOK
<1>5. /\ th'[t].pc = "store"
      /\ th'[t].op = th[t].op /\ th'[t].arg = th[t].arg
      /\ th'[t].mine = th[t].mine /\ th'[t].data = th[t].data /\ th'[t].flag = th[t].flag
  BY <1>1, <1>3 DEF Local
<1>6. /\ InTail(t)' <=> InTail(t)
      /\ InHead(t)' <=> InHead(t)
      /\ Linking(t)' <=> Linking(t)
      /\ Popping(t)' <=> Popping(t)
  BY <1>1, <1>5 DEF At, InTail, InHead, Linking, Popping
<1>7. Locked'
  BY <1>1, <1>3, <1>6, OthersKept DEF QueueInv, Locked
<1>8. Reached(t)' /\ Locals(t)'
  BY <1>1, <1>5, QueueAssumption DEF Reached, Locals, At, Ops, HeadOps, PushOps, PopOps
<1> QED
  BY <1>1, <1>3, <1>4, <1>5, <1>6, <1>7, <1>8, QuietStep

LEMMA QueueStoreCount ==
  ASSUME QueueInv, NEW t \in Threads, storeCount(t), made' = made
  PROVE  QueueInv'
<1> DEFINE op == th[t].op
<1>1. /\ At(t, "store") /\ th[t] \in Local /\ Reached(t) /\ Locals(t)
      /\ UNCHANGED <<node, head, tail>>
      /\ op \in {"push", "pushWithRef", "try_pop", "peek"}
  BY Counting DEF storeCount, QueueInv, TypeOK, At
<1>2. /\ After(op, "store") = IF op = "push" THEN "publish"
                              ELSE IF op = "pushWithRef" THEN "return" ELSE "take"
  BY <1>1, AfterPush, AfterPushWithRef, AfterPop DEF PopOps
<1>3. /\ th'[t] = [th[t] EXCEPT !.pc = After(op, "store"), !.reg = 0]
      /\ \A u \in Threads : u # t => th'[u] = th[u]
  BY Goes DEF storeCount, QueueInv
<1>4. /\ head_mutex' = (IF op \in PopOps THEN NULL ELSE head_mutex)
      /\ tail_mutex' = (IF op = "pushWithRef" THEN NULL ELSE tail_mutex)
  BY DEF storeCount
<1>5. TypeOK'
  <2>1. PICK to \in PC : to = After(op, "store")
    BY <1>2 DEF PC
  <2>2. th' \in [Threads -> Local]
    <3>1. [th[t] EXCEPT !.pc = to, !.reg = 0] \in Local
      <4>1. th[t] \in Local
        BY <1>1
      <4>2. PICK n \in Int : n = 0
        OBVIOUS
      <4>3. [th[t] EXCEPT !.pc = to, !.reg = n] \in Local
        BY <4>1 DEF Local
      <4> QED
        BY <4>2, <4>3
    <3> QED
      BY <2>1, <3>1, Goes DEF storeCount, QueueInv
  <2>3. count' \in Int
    BY <1>1 DEF storeCount, Local
  <2> QED
    BY <1>1, <1>4, <2>2, <2>3 DEF QueueInv, TypeOK
<1>6. /\ th'[t].pc = After(op, "store")
      /\ th'[t].op = op /\ th'[t].arg = th[t].arg
      /\ th'[t].mine = th[t].mine /\ th'[t].data = th[t].data /\ th'[t].flag = th[t].flag
  BY <1>1, <1>3 DEF Local
<1> HIDE DEF op
<1>7. /\ InTail(t)' <=> op = "push"
      /\ InTail(t) <=> op \in {"push", "pushWithRef"}
      /\ ~InHead(t)'
      /\ InHead(t) <=> op \in {"try_pop", "peek"}
      /\ Linking(t)' <=> Linking(t)
      /\ Popping(t)' <=> Popping(t)
  BY <1>1, <1>2, <1>6 DEF At, InTail, InHead, Linking, Popping, PushOps, PopOps, HeadOps, op
<1>8. Locked'
  BY <1>1, <1>3, <1>4, <1>7, OthersKept, QueueAssumption DEF QueueInv, Locked, PopOps
<1>9. Reached(t)' /\ Locals(t)'
  BY <1>1, <1>2, <1>6, QueueAssumption DEF Reached, Locals, At, Ops, HeadOps, PushOps, PopOps, op
<1> QED
  BY <1>1, <1>3, <1>5, <1>6, <1>7, <1>8, <1>9, QuietStep

LEMMA QueueGetTail ==
  ASSUME QueueInv, NEW t \in Threads, get_tail(t), made' = made
  PROVE  QueueInv'
<1> DEFINE empty == head = tail
           leaves == empty \/ th[t].op = "isEmpty"
<1>1. /\ At(t, "get_tail") /\ th[t] \in Local /\ Reached(t) /\ Locals(t)
      /\ head_mutex' = (IF leaves THEN NULL ELSE head_mutex)
      /\ UNCHANGED <<node, head, tail, tail_mutex, count>>
  BY DEF get_tail, QueueInv, TypeOK
<1>2. /\ th'[t] = [th[t] EXCEPT !.pc = IF leaves THEN "return" ELSE "move",
                                !.flag = Found(th[t].op, empty)]
      /\ \A u \in Threads : u # t => th'[u] = th[u]
  BY Goes DEF get_tail, QueueInv
<1>3. Found(th[t].op, empty) \in BOOLEAN
  BY DEF Found
<1>4. TypeOK'
  <2>1. th' \in [Threads -> Local]
    BY <1>1, <1>3, Goes DEF get_tail, Local, PC, QueueInv
  <2> QED
    BY <1>1, <2>1 DEF QueueInv, TypeOK
<1>5. /\ th'[t].pc = IF leaves THEN "return" ELSE "move"
      /\ th'[t].op = th[t].op /\ th'[t].arg = th[t].arg
      /\ th'[t].mine = th[t].mine /\ th'[t].data = th[t].data
      /\ th'[t].flag = Found(th[t].op, empty)
  BY <1>1, <1>2 DEF Local
<1>6. /\ ~InTail(t) /\ ~Linking(t) /\ ~Popping(t) /\ InHead(t)
      /\ ~InTail(t)' /\ ~Linking(t)' /\ ~Popping(t)'
      /\ InHead(t)' <=> ~leaves
  BY <1>1, <1>5 DEF At, InTail, InHead, Linking, Popping, Reached
<1>7. Locked'
  BY <1>1, <1>2, <1>6, OthersKept, QueueAssumption DEF QueueInv, Locked
<1>8. Reached(t)' /\ Locals(t)'
  <2>1. ~empty => head < tail
    BY DEF QueueInv, Listed, TypeOK
  <2>2. Reached(t)'
    BY <1>1, <1>5, QueueAssumption DEF Reached, At, Ops, HeadOps, PushOps, PopOps
  <2> QED
    BY <1>1, <1>5, <2>1, <2>2, QueueAssumption
    DEF Reached, Locals, At, Ops, HeadOps, PushOps, PopOps, Found
<1> QED
  BY <1>1, <1>2, <1>4, <1>6, <1>7, <1>8, QuietStep

LEMMA QueueReturn ==
  ASSUME QueueInv, NEW t \in Threads, Return(t), made' = made
  PROVE  QueueInv'
<1>1. /\ At(t, "return") /\ th[t] \in Local
      /\ UNCHANGED <<node, head, tail, head_mutex, tail_mutex, count>>
  BY DEF Return, QueueInv, TypeOK, shared
<1>2. /\ th'[t] = [th[t] EXCEPT !.pc = "idle", !.op = NULL, !.arg = NULL, !.mine = 0,
                                !.data = NULL, !.flag = FALSE]
      /\ \A u \in Threads : u # t => th'[u] = th[u]
  BY Goes DEF Return, QueueInv
<1>3. TypeOK'
  <2>1. th' \in [Threads -> Local]
    BY <1>1, Goes DEF Return, Local, PC, QueueInv
  <2> QED
    BY <1>1, <2>1 DEF QueueInv, TypeOK
<1>4. /\ th'[t].pc = "idle" /\ th'[t].op = NULL /\ th'[t].arg = NULL
      /\ th'[t].mine = 0 /\ th'[t].data = NULL /\ th'[t].flag = FALSE
  BY <1>1, <1>2 DEF Local
<1>5. /\ ~InTail(t) /\ ~InHead(t) /\ ~Linking(t) /\ ~Popping(t)
      /\ ~InTail(t)' /\ ~InHead(t)' /\ ~Linking(t)' /\ ~Popping(t)'
  BY <1>1, <1>4 DEF At, InTail, InHead, Linking, Popping
<1>6. Locked'
  BY <1>1, <1>2, <1>5, OthersKept DEF QueueInv, Locked
<1>7. Reached(t)' /\ Locals(t)'
  BY <1>4, QueueAssumption DEF Reached, Locals, At, Ops, HeadOps
<1> QED
  BY <1>1, <1>2, <1>3, <1>5, <1>6, <1>7, QuietStep

-----------------------------------------------------------------------------
(* While no push holds tail_mutex every node is published; the push that   *)
(* holds it and has not linked finds the same.                             *)
LEMMA TailIsLast ==
  ASSUME QueueInv, NEW t \in Threads, InTail(t), ~Linking(t)
  PROVE  Len(node) = tail /\ \A u \in Threads : ~Linking(u)
<1>1. \A u \in Threads : Linking(u) => InTail(u)
  BY DEF Linking, InTail, At, PushOps
<1>2. \A u \in Threads : InTail(u) => u = t
  BY DEF QueueInv, Locked
<1> QED
  BY <1>1, <1>2 DEF QueueInv, Published

(* The nodes after link: a new one, and the tail that leads to it. *)
LEMMA LinkNodes ==
  ASSUME QueueInv, NEW t \in Threads, link(t)
  PROVE  /\ node' \in Seq(Node) /\ Len(node') = tail + 1 /\ DOMAIN node' = 1..(tail + 1)
         /\ \A i \in 1..(tail - 1) : node'[i] = node[i]
         /\ node'[tail] = [node[tail] EXCEPT !.data = t, !.next = tail + 1]
         /\ node'[tail + 1] = NewNode
<1> DEFINE new == Len(node) + 1
           N == [i \in DOMAIN node |->
                   CASE i = tail -> [node[i] EXCEPT !.data = th[t].arg, !.next = new]
                     [] i = node[tail].next -> [node[i] EXCEPT !.live = FALSE]
                     [] OTHER -> node[i]]
<1>1. Len(node) = tail /\ tail \in Nat \ {0} /\ th[t].arg = t
  <2>1. InTail(t) /\ ~Linking(t) /\ th[t].op \in PushOps
    BY DEF link, QueueInv, Reached, InTail, Linking, At
  <2> QED
    BY <2>1, TailIsLast DEF QueueInv, TypeOK, Locals
<1>2. node' = Append(N, NewNode)
  BY DEF link
<1>3. /\ node \in Seq(Node) /\ DOMAIN node = 1..tail /\ node[tail].next = 0
      /\ \A i \in 1..tail : node[i] \in Node
  BY <1>1 DEF QueueInv, TypeOK, Listed
<1>4. DOMAIN N = 1..tail
  BY <1>3
<1>5. ASSUME NEW i \in 1..tail, i # tail
      PROVE  N[i] = node[i]
  <2>1. i # node[tail].next
    BY <1>3
  <2> QED
    BY <1>3, <1>5, <2>1
<1>6. N[tail] = [node[tail] EXCEPT !.data = t, !.next = tail + 1]
  <2>1. tail \in 1..tail /\ new = tail + 1 /\ th[t].arg = t
    BY <1>1
  <2> HIDE DEF new
  <2> QED
    BY <1>3, <2>1
<1>7. [node[tail] EXCEPT !.data = t, !.next = tail + 1] \in Node
  <2>1. node[tail] \in Node /\ tail + 1 \in Nat /\ t \in Values
    BY <1>1, <1>3 DEF Values
  <2> QED
    BY <2>1 DEF Node
<1>8. N \in [1..tail -> Node]
  <2>1. \A i \in 1..tail : N[i] \in Node
    <3> HIDE DEF N
    <3> QED
      BY <1>3, <1>5, <1>6, <1>7
  <2> QED
    BY <1>3, <2>1
<1> HIDE DEF N
<1>9. N \in Seq(Node) /\ Len(N) = tail
  BY <1>1, <1>8
<1>10. NewNode \in Node
  BY DEF NewNode, Node
<1>11. /\ node' \in Seq(Node) /\ Len(node') = tail + 1
       /\ \A i \in 1..tail : node'[i] = N[i]
       /\ node'[tail + 1] = NewNode
  BY <1>1, <1>2, <1>9, <1>10
<1> QED
  BY <1>1, <1>4, <1>5, <1>6, <1>11

LEMMA QueueLink ==
  ASSUME QueueInv, NEW t \in Threads, link(t), made' = made
  PROVE  QueueInv'
<1> DEFINE op == th[t].op
<1>1. /\ At(t, "link") /\ th[t] \in Local /\ Reached(t) /\ Locals(t)
      /\ UNCHANGED <<head, tail, head_mutex, tail_mutex, count>>
      /\ op \in {"push", "pushWithRef"}
  BY DEF link, QueueInv, TypeOK, Reached, At, PushOps
<1>2. After(op, "link") = IF op = "push" THEN "load" ELSE "publish"
  BY <1>1, AfterPush, AfterPushWithRef
<1>3. InTail(t) /\ ~Linking(t) /\ ~InHead(t) /\ ~Popping(t)
  BY <1>1 DEF InTail, InHead, Linking, Popping, At, PushOps
<1>4. Len(node) = tail /\ (\A u \in Threads : ~Linking(u)) /\ tail \in Nat \ {0}
  BY <1>3, TailIsLast DEF QueueInv, TypeOK
<1>5. /\ th'[t] = [th[t] EXCEPT !.pc = After(op, "link"), !.mine = tail + 1]
      /\ \A u \in Threads : u # t => th'[u] = th[u]
  BY <1>4, Goes DEF link, QueueInv
<1>6. th' \in [Threads -> Local]
  <2>1. PICK to \in PC : to = After(op, "link")
    BY <1>2 DEF PC
  <2>2. [th[t] EXCEPT !.pc = to, !.mine = tail + 1] \in Local
    <3>1. th[t] \in Local /\ tail + 1 \in Nat
      BY <1>1, <1>4
    <3> QED
      BY <3>1 DEF Local
  <2> QED
    BY <1>4, <2>1, <2>2, Goes DEF link, QueueInv
<1>7. /\ th'[t].pc = After(op, "link") /\ th'[t].mine = tail + 1
      /\ th'[t].op = op /\ th'[t].arg = t /\ th[t].arg = t
      /\ th'[t].data = th[t].data /\ th'[t].flag = th[t].flag
  BY <1>1, <1>5 DEF Local, Locals, PushOps
<1> HIDE DEF op
<1>8. InTail(t)' /\ Linking(t)' /\ ~InHead(t)' /\ ~Popping(t)'
  BY <1>1, <1>2, <1>7 DEF InTail, InHead, Linking, Popping, At, PushOps, PopOps, HeadOps
<1>9. /\ node' \in Seq(Node) /\ Len(node') = tail + 1 /\ DOMAIN node' = 1..(tail + 1)
      /\ \A i \in 1..(tail - 1) : node'[i] = node[i]
      /\ node'[tail] = [node[tail] EXCEPT !.data = t, !.next = tail + 1]
      /\ node'[tail + 1] = NewNode
  BY LinkNodes
<1>10. TypeOK'
  BY <1>1, <1>4, <1>6, <1>9 DEF QueueInv, TypeOK
<1>11. Locked'
  BY <1>1, <1>3, <1>5, <1>8, OthersKept DEF QueueInv, Locked
<1>12. \A u \in Threads : Reached(u)' /\ Locals(u)'
  <2>1. Reached(t)' /\ Locals(t)'
    BY <1>1, <1>2, <1>7, QueueAssumption
    DEF Reached, Locals, At, Ops, HeadOps, PushOps, PopOps
  <2> QED
    BY <1>1, <1>5, <2>1, OthersKept, LocalsKept DEF QueueInv, Locals
<1>13. /\ node'[tail].data = t /\ node'[tail].next = tail + 1 /\ node'[tail].live
       /\ node'[tail + 1].next = 0 /\ node'[tail + 1].live
  <2>1. node[tail] \in Node /\ node[tail].live
    BY <1>4 DEF QueueInv, TypeOK, Listed
  <2> QED
    BY <1>9, <2>1 DEF Node, NewNode
<1>14. Listed'
  <2>1. head \in Nat /\ 1 <= head /\ head <= tail
    BY <1>4 DEF QueueInv, TypeOK, Listed
  <2>2. \A i \in head..(tail - 1) :
          node'[i].next = i + 1 /\ node'[i].data \in Values /\ node'[i].live
    BY <1>4, <1>9, <2>1 DEF QueueInv, Listed
  <2>3. \A i \in head..tail : node'[i].next = i + 1 /\ node'[i].data \in Values /\ node'[i].live
    BY <1>4, <1>13, <2>1, <2>2 DEF Values
  <2>4. \A i \in head..(tail + 1) : node'[i].live
    BY <1>4, <1>13, <2>1, <2>3
  <2>5. Len(node') - 1 = tail
    BY <1>4, <1>9
  <2> QED
    BY <1>1, <1>9, <1>13, <2>1, <2>3, <2>4, <2>5 DEF Listed
<1>15. Published'
  <2>1. \A u \in Threads : Linking(u)' <=> u = t
    BY <1>4, <1>5, <1>8, OthersKept
  <2> QED
    BY <1>1, <1>7, <1>9, <1>13, <2>1 DEF Published
<1>16. Unlinked'
  <2>1. \A u \in Threads : /\ Popping(u)' <=> Popping(u)
                           /\ Popping(u) => th'[u].mine = th[u].mine
    BY <1>3, <1>5, <1>8, OthersKept
  <2>2. head \in Nat /\ \A i \in 1..(head - 1) : node'[i] = node[i]
    BY <1>4, <1>9 DEF QueueInv, TypeOK, Listed
  <2> QED
    BY <1>1, <2>1, <2>2 DEF QueueInv, Unlinked
<1> QED
  BY <1>10, <1>11, <1>12, <1>14, <1>15, <1>16 DEF QueueInv

LEMMA QueuePublish ==
  ASSUME QueueInv, NEW t \in Threads, publish(t), made' = made
  PROVE  QueueInv'
<1> DEFINE op == th[t].op
<1>1. /\ At(t, "publish") /\ th[t] \in Local /\ Reached(t) /\ Locals(t)
      /\ tail' = th[t].mine
      /\ tail_mutex' = (IF op = "push" THEN NULL ELSE tail_mutex)
      /\ UNCHANGED <<node, head, head_mutex, count>>
      /\ op \in {"push", "pushWithRef"}
  BY DEF publish, QueueInv, TypeOK, Reached, At, PushOps
<1>2. After(op, "publish") = IF op = "push" THEN "return" ELSE "load"
  BY <1>1, AfterPush, AfterPushWithRef
<1>3. InTail(t) /\ Linking(t) /\ ~InHead(t) /\ ~Popping(t)
  BY <1>1 DEF InTail, InHead, Linking, Popping, At, PushOps
<1>4. /\ Len(node) = tail + 1 /\ tail' = tail + 1 /\ tail \in Nat
      /\ \A u \in Threads : Linking(u) <=> u = t
  BY <1>1, <1>3 DEF QueueInv, Published, TypeOK
<1>5. /\ th'[t] = [th[t] EXCEPT !.pc = After(op, "publish")]
      /\ \A u \in Threads : u # t => th'[u] = th[u]
  BY Goes DEF publish, QueueInv
<1>6. TypeOK'
  <2>1. PICK to \in PC : to = After(op, "publish")
    BY <1>2 DEF PC
  <2>2. [th[t] EXCEPT !.pc = to] \in Local
    <3>1. th[t] \in Local
      BY <1>1
    <3> QED
      BY <3>1 DEF Local
  <2>3. th' \in [Threads -> Local]
    BY <2>1, <2>2, Goes DEF publish, QueueInv
  <2>4. tail' \in DOMAIN node
    BY <1>4 DEF QueueInv, TypeOK
  <2> QED
    BY <1>1, <2>3, <2>4 DEF QueueInv, TypeOK
<1>7. /\ th'[t].pc = After(op, "publish")
      /\ th'[t].op = op /\ th'[t].arg = th[t].arg /\ th'[t].mine = th[t].mine
      /\ th'[t].data = th[t].data /\ th'[t].flag = th[t].flag
  BY <1>1, <1>5 DEF Local
<1> HIDE DEF op
<1>8. /\ InTail(t)' <=> op = "pushWithRef"
      /\ ~Linking(t)' /\ ~InHead(t)' /\ ~Popping(t)'
  BY <1>1, <1>2, <1>7 DEF InTail, InHead, Linking, Popping, At, PushOps, PopOps, HeadOps
<1>9. Locked'
  BY <1>1, <1>3, <1>5, <1>8, OthersKept, QueueAssumption DEF QueueInv, Locked
<1>10. \A u \in Threads : Reached(u)' /\ Locals(u)'
  <2>1. Reached(t)' /\ Locals(t)'
    BY <1>1, <1>2, <1>7, QueueAssumption
    DEF Reached, Locals, At, Ops, HeadOps, PushOps, PopOps, op
  <2>2. \A u \in Threads : At(u, "move") => head' < tail'
    BY <1>1, <1>4 DEF QueueInv, Locals, TypeOK
  <2> QED
    BY <1>5, <2>1, <2>2, OthersKept, LocalsKept DEF QueueInv
<1>11. Listed'
  BY <1>1, <1>4 DEF QueueInv, Listed, TypeOK
<1>12. Published'
  BY <1>1, <1>4, <1>5, <1>8, OthersKept DEF Published
<1>13. Unlinked'
  <2>1. \A u \in Threads : /\ Popping(u)' <=> Popping(u)
                           /\ Popping(u) => th'[u].mine = th[u].mine
    BY <1>3, <1>5, <1>8, OthersKept
  <2> QED
    BY <1>1, <2>1 DEF QueueInv, Unlinked
<1> QED
  BY <1>6, <1>9, <1>10, <1>11, <1>12, <1>13 DEF QueueInv

LEMMA QueueMoveHead ==
  ASSUME QueueInv, NEW t \in Threads, moveHead(t), made' = made
  PROVE  QueueInv'
<1> DEFINE op == th[t].op
<1>1. /\ At(t, "move") /\ th[t] \in Local /\ Reached(t) /\ Locals(t)
      /\ UNCHANGED <<tail, head_mutex, tail_mutex, count>>
      /\ op \in {"try_pop", "peek"}
  BY DEF moveHead, QueueInv, TypeOK, Reached, At, PopOps
<1>2. After(op, "move") = "load"
  BY <1>1, AfterPop DEF PopOps
<1>3. InHead(t) /\ ~InTail(t) /\ ~Linking(t) /\ ~Popping(t)
  BY <1>1 DEF InTail, InHead, Linking, Popping, At, PushOps, PopOps, HeadOps
<1>4. /\ head \in Nat /\ tail \in Nat /\ 1 <= head /\ head < tail /\ tail <= Len(node)
      /\ Len(node) \in Nat /\ node \in Seq(Node)
      /\ node[head].next = head + 1 /\ node[head].data \in Values /\ node[head].live
  BY <1>1 DEF QueueInv, TypeOK, Listed, Locals
<1>5. /\ th'[t] = [th[t] EXCEPT !.pc = "load", !.mine = head]
      /\ \A u \in Threads : u # t => th'[u] = th[u]
  BY <1>2, Goes DEF moveHead, QueueInv
<1>6. head' = head + 1 /\ node' = [node EXCEPT ![head].next = 0]
  BY <1>4 DEF moveHead
<1>7. /\ node' \in Seq(Node) /\ Len(node') = Len(node) /\ DOMAIN node' = DOMAIN node
      /\ \A i \in 1..Len(node) : i # head => node'[i] = node[i]
      /\ node'[head].data = node[head].data /\ node'[head].live
  <2>1. node[head] \in Node /\ [node[head] EXCEPT !.next = 0] \in Node
    <3>1. node[head] \in Node
      BY <1>4
    <3> QED
      BY <3>1 DEF Node
  <2>2. node' = [node EXCEPT ![head] = [node[head] EXCEPT !.next = 0]]
    BY <1>6
  <2>3. node'[head] = [node[head] EXCEPT !.next = 0]
    BY <1>4, <2>2
  <2>4. node'[head].data = node[head].data /\ node'[head].live = node[head].live
    BY <2>1, <2>3 DEF Node
  <2> QED
    BY <1>4, <2>1, <2>2, <2>4
<1>8. TypeOK'
  <2>1. [th[t] EXCEPT !.pc = "load", !.mine = head] \in Local
    <3>1. th[t] \in Local /\ head \in Nat
      BY <1>1, <1>4
    <3> QED
      BY <3>1 DEF Local, PC
  <2>2. th' \in [Threads -> Local]
    BY <1>2, <2>1, Goes DEF moveHead, QueueInv
  <2>3. head' \in DOMAIN node' /\ tail' \in DOMAIN node'
    BY <1>1, <1>4, <1>6, <1>7
  <2> QED
    BY <1>1, <1>7, <2>2, <2>3 DEF QueueInv, TypeOK
<1>9. /\ th'[t].pc = "load" /\ th'[t].mine = head
      /\ th'[t].op = op /\ th'[t].arg = th[t].arg
      /\ th'[t].data = th[t].data /\ th'[t].flag = th[t].flag
  BY <1>1, <1>5 DEF Local
<1> HIDE DEF op
<1>10. InHead(t)' /\ ~InTail(t)' /\ ~Linking(t)' /\ Popping(t)'
  BY <1>1, <1>9 DEF InTail, InHead, Linking, Popping, At, PushOps, PopOps, HeadOps
<1>11. Locked'
  BY <1>1, <1>3, <1>5, <1>10, OthersKept DEF QueueInv, Locked
<1>12. \A u \in Threads : Reached(u)' /\ Locals(u)'
  <2>1. Reached(t)' /\ Locals(t)'
    BY <1>1, <1>9, QueueAssumption
    DEF Reached, Locals, At, Ops, HeadOps, PushOps, PopOps, op
  <2>2. \A u \in Threads : At(u, "move") => u = t
    <3>1. \A u \in Threads : At(u, "move") => InHead(u)
      BY DEF QueueInv, Reached, InHead, At, HeadOps
    <3> QED
      BY <1>3, <3>1 DEF QueueInv, Locked
  <2> QED
    BY <1>5, <2>1, <2>2, OthersKept, LocalsKept DEF QueueInv
<1>13. Listed'
  <2>1. \A i \in (head + 1)..Len(node) : node'[i] = node[i]
    BY <1>4, <1>7
  <2> QED
    BY <1>1, <1>4, <1>6, <1>7, <2>1 DEF QueueInv, Listed
<1>14. Published'
  <2>1. \A u \in Threads : /\ Linking(u)' <=> Linking(u)
                           /\ Linking(u) => th'[u].mine = th[u].mine
    BY <1>3, <1>5, <1>10, OthersKept
  <2>2. node'[tail] = node[tail]
    BY <1>4, <1>7
  <2> QED
    BY <1>1, <1>7, <2>1, <2>2 DEF QueueInv, Published
<1>15. Unlinked'
  <2>1. \A u \in Threads : /\ Popping(u)' <=> Popping(u) \/ u = t
                           /\ Popping(u) => th'[u].mine = th[u].mine
    BY <1>3, <1>5, <1>10, OthersKept
  <2>2. \A i \in 1..(head - 1) : node'[i] = node[i]
    BY <1>4, <1>7
  <2>3. \A u \in Threads : Popping(u)' =>
          /\ th'[u].mine \in 1..head
          /\ node'[th'[u].mine].live /\ node'[th'[u].mine].data \in Values
    BY <1>4, <1>7, <1>9, <2>1, <2>2 DEF QueueInv, Unlinked
  <2>4. \A u, v \in Threads : Popping(u)' /\ Popping(v)' /\ th'[u].mine = th'[v].mine => u = v
    <3>1. \A u \in Threads : Popping(u) => th'[u].mine # head
      BY <1>4, <2>1 DEF QueueInv, Unlinked
    <3> QED
      BY <1>3, <1>9, <2>1, <3>1 DEF QueueInv, Unlinked
  <2>5. \A i \in 1..head : node'[i].live => \E u \in Threads : Popping(u)' /\ th'[u].mine = i
    <3>1. ASSUME NEW i \in 1..(head - 1), node'[i].live
          PROVE  \E u \in Threads : Popping(u)' /\ th'[u].mine = i
      BY <2>1, <2>2, <3>1 DEF QueueInv, Unlinked
    <3> QED
      BY <1>4, <1>9, <1>10, <3>1
  <2>6. head' - 1 = head
    BY <1>4, <1>6
  <2> QED
    BY <2>3, <2>4, <2>5, <2>6 DEF Unlinked
<1> QED
  BY <1>8, <1>11, <1>12, <1>13, <1>14, <1>15 DEF QueueInv

LEMMA QueueTakeData ==
  ASSUME QueueInv, NEW t \in Threads, takeData(t), made' = made
  PROVE  QueueInv'
<1> PICK op : op = th[t].op
  OBVIOUS
<1> PICK m : m = th[t].mine
  OBVIOUS
<1> PICK d : d = IF op = "try_pop" THEN node[m].data ELSE th[t].data
  OBVIOUS
<1>1. /\ At(t, "take") /\ th[t] \in Local /\ Reached(t) /\ Locals(t)
      /\ UNCHANGED <<head, tail, head_mutex, tail_mutex, count>>
      /\ op \in {"try_pop", "peek"}
  BY DEF takeData, QueueInv, TypeOK, Reached, At, PopOps
<1>2. After(op, "take") = "return"
  BY <1>1, AfterPop DEF PopOps
<1>3. ~InHead(t) /\ ~InTail(t) /\ ~Linking(t) /\ Popping(t)
  BY <1>1 DEF InTail, InHead, Linking, Popping, At, PushOps, PopOps, HeadOps
<1>4. /\ head \in Nat /\ tail \in Nat /\ 1 <= head /\ head <= tail /\ tail <= Len(node)
      /\ Len(node) \in Nat /\ node \in Seq(Node)
      /\ m \in 1..(head - 1) /\ node[m].data \in Values
  BY <1>3 DEF QueueInv, TypeOK, Listed, Unlinked
<1>5. /\ th'[t] = [th[t] EXCEPT !.pc = "return", !.data = d]
      /\ \A u \in Threads : u # t => th'[u] = th[u]
  BY <1>2, Goes DEF takeData, QueueInv
<1>6. node' = [node EXCEPT ![m] = [node[m] EXCEPT !.live = FALSE]]
  BY DEF takeData
<1>7. /\ node' \in Seq(Node) /\ Len(node') = Len(node) /\ DOMAIN node' = DOMAIN node
      /\ \A i \in 1..Len(node) : i # m => node'[i] = node[i]
      /\ ~node'[m].live
  <2>1. node[m] \in Node /\ [node[m] EXCEPT !.live = FALSE] \in Node
    <3>1. node[m] \in Node
      BY <1>4
    <3> QED
      BY <3>1 DEF Node
  <2>2. node'[m] = [node[m] EXCEPT !.live = FALSE]
    <3>1. m \in DOMAIN node
      BY <1>4
    <3> QED
      BY <1>6, <3>1
  <2>3. ~node'[m].live
    BY <2>1, <2>2 DEF Node
  <2> QED
    BY <1>4, <1>6, <2>1, <2>3
<1>8. TypeOK'
  <2>1. [th[t] EXCEPT !.pc = "return", !.data = d] \in Local
    <3>1. th[t] \in Local /\ d \in Values \cup {NULL}
      BY <1>1, <1>4 DEF Local
    <3> QED
      BY <3>1 DEF Local, PC
  <2>2. th' \in [Threads -> Local]
    BY <1>2, <2>1, Goes DEF takeData, QueueInv
  <2> QED
    BY <1>1, <1>7, <2>2 DEF QueueInv, TypeOK
<1>9. /\ th'[t].pc = "return" /\ th'[t].data = d
      /\ th'[t].op = op /\ th'[t].arg = th[t].arg
      /\ th'[t].mine = m /\ th'[t].flag = th[t].flag
  BY <1>1, <1>5 DEF Local
<1>10. ~InHead(t)' /\ ~InTail(t)' /\ ~Linking(t)' /\ ~Popping(t)'
  BY <1>1, <1>9 DEF InTail, InHead, Linking, Popping, At, PushOps, PopOps, HeadOps
<1>11. Locked'
  BY <1>1, <1>3, <1>5, <1>10, OthersKept DEF QueueInv, Locked
<1>12. \A u \in Threads : Reached(u)' /\ Locals(u)'
  <2>1. Reached(t)' /\ Locals(t)'
    BY <1>1, <1>9, QueueAssumption DEF Reached, Locals, At, Ops, HeadOps, PushOps, PopOps
  <2> QED
    BY <1>1, <1>5, <2>1, OthersKept, LocalsKept DEF QueueInv, Locals
<1>13. \A i \in head..Len(node) : node'[i] = node[i]
  BY <1>4, <1>7
<1>14. Listed'
  BY <1>1, <1>4, <1>7, <1>13 DEF QueueInv, Listed
<1>15. Published'
  <2>1. \A u \in Threads : /\ Linking(u)' <=> Linking(u)
                           /\ Linking(u) => th'[u].mine = th[u].mine
    BY <1>3, <1>5, <1>10, OthersKept
  <2>2. node'[tail] = node[tail]
    BY <1>4, <1>13
  <2> QED
    BY <1>1, <1>7, <2>1, <2>2 DEF QueueInv, Published
<1>16. Unlinked'
  <2>1. \A u \in Threads : /\ Popping(u)' <=> Popping(u) /\ u # t
                           /\ u # t => th'[u].mine = th[u].mine
    BY <1>3, <1>5, <1>10, OthersKept
  <2>2. \A u \in Threads : Popping(u)' =>
          /\ th'[u].mine \in 1..(head - 1)
          /\ node'[th'[u].mine].live /\ node'[th'[u].mine].data \in Values
    <3>1. ASSUME NEW u \in Threads, Popping(u)'
          PROVE  th'[u].mine \in 1..(head - 1) /\ node'[th'[u].mine] = node[th'[u].mine]
      BY <1>3, <1>4, <1>7, <2>1, <3>1 DEF QueueInv, Unlinked
    <3> QED
      BY <2>1, <3>1 DEF QueueInv, Unlinked
  <2>3. \A u, v \in Threads : Popping(u)' /\ Popping(v)' /\ th'[u].mine = th'[v].mine => u = v
    BY <2>1 DEF QueueInv, Unlinked
  <2>4. \A i \in 1..(head - 1) : node'[i].live => \E u \in Threads : Popping(u)' /\ th'[u].mine = i
    <3>1. ASSUME NEW i \in 1..(head - 1), node'[i].live
          PROVE  \E u \in Threads : Popping(u)' /\ th'[u].mine = i
      <4>1. i # m /\ node[i].live
        BY <1>4, <1>7, <3>1
      <4> QED
        BY <2>1, <4>1 DEF QueueInv, Unlinked
    <3> QED
      BY <3>1
  <2> QED
    BY <1>1, <2>2, <2>3, <2>4 DEF Unlinked
<1> QED
  BY <1>8, <1>11, <1>12, <1>14, <1>15, <1>16 DEF QueueInv

LEMMA QueueStep ==
  ASSUME QueueInv, [Next]_vars
  PROVE  QueueInv'
<1>1. CASE UNCHANGED vars
  <2>1. UNCHANGED <<node, head, tail, head_mutex, tail_mutex, count, th, made>>
    BY <1>1 DEF vars, shared
  <2>2. TypeOK' /\ Locked'
    BY <2>1 DEF QueueInv, TypeOK, Locked, InTail, InHead
  <2>3. \A t \in Threads : Reached(t)' /\ Locals(t)'
    BY <2>1 DEF QueueInv, Reached, Locals, At
  <2>4. Listed' /\ Published'
    BY <2>1 DEF QueueInv, Listed, Published, Linking, At
  <2>5. Unlinked'
    BY <2>1 DEF QueueInv, Unlinked, Popping
  <2> QED
    BY <2>2, <2>3, <2>4, <2>5 DEF QueueInv
<1>2. ASSUME NEW t \in Threads, Step(t)
      PROVE  QueueInv'
  BY <1>2, QueueLockTail, QueueLink, QueuePublish, QueueLoadCount, QueueStoreCount,
     QueueLockHead, QueueGetTail, QueueMoveHead, QueueTakeData, QueueReturn DEF Step
<1> QED
  BY <1>1, <1>2, QueueCall DEF Next

LEMMA QueueInvariant == FairSpec => []QueueInv
BY QueueInit, QueueStep, PTL DEF FairSpec

(* Pointers stay within the nodes allocated, locks with the threads and    *)
(* every thread at one of the accesses of its call.                        *)
THEOREM QueueTyped == FairSpec => []TypeOK
<1>1. QueueInv => TypeOK
  BY DEF QueueInv
<1> QED
  BY <1>1, QueueInvariant, PTL

(* No push, pop or peek, with any interleaving of any number of threads,   *)
(* dereferences a node another one has freed (circular_pipeline.hpp, push, *)
(* pop_head, try_pop).                                                     *)
THEOREM QueueMemorySafe == FairSpec => []NoUseAfterFree
<1>1. ASSUME QueueInv, NEW t \in Threads
      PROVE  /\ At(t, "link") => node[tail].live
             /\ At(t, "move") => head # 0 /\ node[head].live
             /\ At(t, "take") => node[th[t].mine].live
  <2>1. tail \in head..Len(node) /\ head \in head..Len(node) /\ head # 0
    BY <1>1 DEF QueueInv, TypeOK, Listed
  <2>2. At(t, "take") => Popping(t)
    BY <1>1 DEF QueueInv, Reached, Popping, At
  <2> QED
    BY <1>1, <2>1, <2>2 DEF QueueInv, Listed, Unlinked
<1>2. QueueInv => NoUseAfterFree
  BY <1>1 DEF NoUseAfterFree
<1> QED
  BY <1>2, QueueInvariant, PTL
=============================================================================
