----------------------- MODULE QueueRefinementProofs -----------------------
(***************************************************************************)
(* What the nodes of ThreadsafeQueue hold, seen from outside: the content  *)
(* of the list, the drift of count from its length, and the refinement of  *)
(* FifoQueue.                                                              *)
(*                                                                         *)
(* Chain follows next by a recursive function; that it visits head,        *)
(* head + 1, ..., tail - 1 is shown by induction, in the form of the least *)
(* counterexample.                                                         *)
(***************************************************************************)
EXTENDS ThreadsafeQueueProofs, SequenceTheorems

(* A set of naturals that is not empty has a least element: the intervals  *)
(* 0..x are finite sets, and strict inclusion of those is well founded.    *)
LEMMA LeastNat ==
  ASSUME NEW S \in SUBSET Nat, S # {}
  PROVE  \E m \in S : \A k \in S : m <= k
<1> DEFINE U == {0..x : x \in S}
<1>1. IsWellFoundedOn(StrictSubsetOrdering(Nat), FiniteSubsetsOf(Nat))
  BY FS_StrictSubsetOrderingWellFounded
<1>2. U \subseteq FiniteSubsetsOf(Nat)
  <2>1. ASSUME NEW x \in S
        PROVE  0..x \in FiniteSubsetsOf(Nat)
    <3>1. x \in Int /\ 0 \in Int /\ 0..x \subseteq Nat
      OBVIOUS
    <3>2. IsFiniteSet(0..x)
      BY <3>1, FS_Interval
    <3> QED
      BY <3>1, <3>2 DEF FiniteSubsetsOf
  <2> QED
    BY <2>1
<1>3. U # {}
  OBVIOUS
<1>4. PICK u \in U : \A v \in U : ~(<<v, u>> \in StrictSubsetOrdering(Nat))
  <2> HIDE DEF U
  <2> QED
    BY <1>1, <1>2, <1>3, WFMin
<1>5. PICK m \in S : u = 0..m
  OBVIOUS
<1>6. ASSUME NEW k \in S, k < m
      PROVE  FALSE
  <2>1. <<0..k, 0..m>> \in StrictSubsetOrdering(Nat)
    BY <1>6 DEF StrictSubsetOrdering
  <2> QED
    BY <1>4, <1>5, <2>1
<1> QED
  BY <1>6

-----------------------------------------------------------------------------
(* The nodes of the list are the ones from head to the one before tail. *)
LEMMA ChainIs ==
  ASSUME QueueInv
  PROVE  Chain = [i \in 1..(tail - head) |-> head + i - 1]
<1> DEFINE L == Len(node)
           Eq(f) == f = [i \in 0..L |-> IF i = 0 THEN head
                                        ELSE IF f[i - 1] = 0 THEN 0 ELSE node[f[i - 1]].next]
           at == CHOOSE f : Eq(f)
           F == [i \in 0..L |-> IF head + i <= L THEN head + i ELSE 0]
           Ends(f, k) == (f[k] = tail \/ k = L) /\ \A j \in 0..(k - 1) : f[j] # tail
           n == CHOOSE k \in 0..L : Ends(at, k)
<1>1. Chain = [i \in 1..n |-> at[i - 1]]
  BY DEF Chain
<1>2. /\ L \in Nat /\ head \in 1..tail /\ tail \in 1..L
      /\ \A i \in head..(L - 1) : node[i].next = i + 1
      /\ node[L].next = 0
  BY DEF QueueInv, TypeOK, Listed
<1> HIDE DEF L
<1>3. Eq(F)
  <2>1. ASSUME NEW i \in 0..L
        PROVE  F[i] = IF i = 0 THEN head ELSE IF F[i - 1] = 0 THEN 0 ELSE node[F[i - 1]].next
    <3>1. CASE i = 0
      BY <1>2, <3>1
    <3>2. CASE i # 0
      <4>1. i - 1 \in 0..L
        BY <1>2, <3>2
      <4>2. F[i - 1] = IF head + (i - 1) <= L THEN head + (i - 1) ELSE 0
        BY <4>1
      <4>3. CASE head + i <= L
        <5>1. F[i - 1] = head + i - 1 /\ head + i - 1 \in head..(L - 1)
          BY <1>2, <3>2, <4>2, <4>3
        <5> HIDE DEF F
        <5>2. node[F[i - 1]].next = head + i
          BY <1>2, <5>1
        <5> QED
          BY <1>2, <3>2, <4>3, <5>1, <5>2 DEF F
      <4>4. CASE head + i = L + 1
        <5>1. F[i - 1] = L
          BY <1>2, <4>2, <4>4
        <5> QED
          BY <1>2, <3>2, <4>4, <5>1
      <4>5. CASE head + i > L + 1
        BY <1>2, <3>2, <4>2, <4>5
      <4> QED
        BY <1>2, <4>3, <4>4, <4>5
    <3> QED
      BY <3>1, <3>2
  <2> QED
    BY <2>1
<1>4. Eq(at)
  BY <1>3
<1> HIDE DEF at
<1>5. at = F
  <2> DEFINE Bad == {i \in 0..L : at[i] # F[i]}
  <2>1. SUFFICES ASSUME Bad # {}
                 PROVE  FALSE
    BY <1>4
  <2>2. Bad \in SUBSET Nat
    BY <1>2
  <2>3. PICK m \in Bad : \A k \in Bad : m <= k
    BY <2>1, <2>2, LeastNat
  <2>4. m # 0
    BY <1>2, <1>4
  <2>5. at[m - 1] = F[m - 1] /\ m - 1 \in 0..L /\ m \in 0..L
    BY <1>2, <2>3, <2>4
  <2>6. at[m] = IF at[m - 1] = 0 THEN 0 ELSE node[at[m - 1]].next
    BY <1>4, <2>4, <2>5
  <2>7. F[m] = IF F[m - 1] = 0 THEN 0 ELSE node[F[m - 1]].next
    BY <1>3, <2>4, <2>5
  <2> QED
    BY <2>5, <2>6, <2>7
<1>6. n = tail - head
  <2>1. tail - head \in 0..L
    BY <1>2
  <2>2. \A k \in 0..(tail - head) : at[k] = head + k
    BY <1>2, <1>5
  <2>3. Ends(at, tail - head)
    BY <1>2, <2>2
  <2>4. ASSUME NEW k \in 0..L, Ends(at, k)
        PROVE  k = tail - head
    <3>1. CASE k < tail - head
      BY <1>2, <2>2, <2>4, <3>1
    <3>2. CASE k > tail - head
      BY <1>2, <2>2, <2>4, <3>2
    <3> QED
      BY <1>2, <2>1, <3>1, <3>2
  <2> QED
    BY <2>1, <2>3, <2>4
<1> HIDE DEF n
<1>7. \A i \in 1..(tail - head) : at[i - 1] = head + i - 1
  BY <1>2, <1>5
<1> QED
  BY <1>1, <1>6, <1>7

ContentsSpan ==
  /\ Contents = [i \in 1..(tail - head) |-> node[head + i - 1].data]
  /\ Contents \in Seq(Values) /\ Len(Contents) = tail - head

LEMMA ContentsIs == QueueInv => ContentsSpan
<1> SUFFICES ASSUME QueueInv
             PROVE  ContentsSpan
  OBVIOUS
<1>1. /\ Len(node) \in Nat /\ head \in 1..tail /\ tail \in 1..Len(node)
      /\ \A i \in head..(Len(node) - 1) : node[i].data \in Values
  BY DEF QueueInv, TypeOK, Listed
<1> DEFINE C == [i \in 1..(tail - head) |-> head + i - 1]
           D == [i \in 1..(tail - head) |-> node[head + i - 1].data]
<1>2. Contents = [i \in DOMAIN C |-> IF C[i] = 0 THEN NULL ELSE node[C[i]].data]
  BY ChainIs DEF Contents
<1>3. \A i \in 1..(tail - head) : head + i - 1 # 0 /\ head + i - 1 \in head..(Len(node) - 1)
  BY <1>1
<1>4. Contents = D
  BY <1>2, <1>3
<1>5. tail - head \in Nat /\ D \in [1..(tail - head) -> Values]
  BY <1>1, <1>3
<1>6. D \in Seq(Values) /\ Len(D) = tail - head
  BY <1>5
<1> QED
  BY <1>4, <1>6 DEF ContentsSpan

(* What the step of a thread does to its locals. *)
Becomes(t, pc) ==
  /\ th'[t].pc = pc
  /\ th'[t].op = th[t].op /\ th'[t].arg = th[t].arg
  /\ \A u \in Threads : u # t => th'[u] = th[u]

SameResult(t) == th'[t].data = th[t].data /\ th'[t].flag = th[t].flag

LEMMA Did ==
  ASSUME QueueInv, NEW t \in Threads
  PROVE  /\ lockTail(t) => Becomes(t, "link") /\ SameResult(t)
         /\ lockHead(t) => Becomes(t, "get_tail") /\ SameResult(t)
         /\ link(t) => Becomes(t, After(th[t].op, "link")) /\ SameResult(t)
         /\ publish(t) => Becomes(t, After(th[t].op, "publish")) /\ SameResult(t)
         /\ loadCount(t) => /\ Becomes(t, After(th[t].op, "load")) /\ SameResult(t)
                            /\ th'[t].mine = th[t].mine /\ th'[t].reg = count
         /\ storeCount(t) => /\ Becomes(t, After(th[t].op, "store")) /\ SameResult(t)
                             /\ th'[t].mine = th[t].mine
         /\ get_tail(t) => /\ Becomes(t, IF head = tail \/ th[t].op = "isEmpty"
                                           THEN "return" ELSE "move")
                           /\ th'[t].data = th[t].data
                           /\ th'[t].flag = Found(th[t].op, head = tail)
         /\ moveHead(t) => /\ Becomes(t, After(th[t].op, "move")) /\ SameResult(t)
                           /\ th'[t].mine = head
         /\ takeData(t) => /\ Becomes(t, After(th[t].op, "take"))
                           /\ th'[t].data = IF th[t].op = "try_pop"
                                              THEN node[th[t].mine].data ELSE th[t].data
                           /\ th'[t].flag = th[t].flag
<1> USE DEF Becomes, SameResult
<1>1. TypeOK /\ th[t] \in Local
  BY DEF QueueInv, TypeOK
<1>2. ASSUME lockTail(t) PROVE Becomes(t, "link") /\ SameResult(t)
  <2>1. /\ th'[t] = [th[t] EXCEPT !.pc = "link"]
        /\ \A u \in Threads : u # t => th'[u] = th[u]
    BY <1>1, <1>2, Goes DEF lockTail
  <2> QED
    BY <1>1, <2>1 DEF Local
<1>3. ASSUME lockHead(t) PROVE Becomes(t, "get_tail") /\ SameResult(t)
  <2>1. /\ th'[t] = [th[t] EXCEPT !.pc = "get_tail"]
        /\ \A u \in Threads : u # t => th'[u] = th[u]
    BY <1>1, <1>3, Goes DEF lockHead
  <2> QED
    BY <1>1, <2>1 DEF Local
<1>4. ASSUME link(t) PROVE Becomes(t, After(th[t].op, "link")) /\ SameResult(t)
  <2>1. /\ th'[t] = [th[t] EXCEPT !.pc = After(th[t].op, "link"), !.mine = Len(node) + 1]
        /\ \A u \in Threads : u # t => th'[u] = th[u]
    BY <1>1, <1>4, Goes DEF link
  <2> QED
    BY <1>1, <2>1 DEF Local
<1>5. ASSUME publish(t) PROVE Becomes(t, After(th[t].op, "publish")) /\ SameResult(t)
  BY <1>1, <1>5, Goes DEF publish, Local
<1>6. ASSUME loadCount(t)
      PROVE  /\ Becomes(t, After(th[t].op, "load")) /\ SameResult(t)
             /\ th'[t].mine = th[t].mine /\ th'[t].reg = count
  <2>1. /\ th'[t] = [th[t] EXCEPT !.pc = After(th[t].op, "load"), !.reg = count]
        /\ \A u \in Threads : u # t => th'[u] = th[u]
    BY <1>1, <1>6, Goes DEF loadCount
  <2> QED
    BY <1>1, <2>1 DEF Local
<1>7. ASSUME storeCount(t)
      PROVE  /\ Becomes(t, After(th[t].op, "store")) /\ SameResult(t)
             /\ th'[t].mine = th[t].mine
  <2>1. /\ th'[t] = [th[t] EXCEPT !.pc = After(th[t].op, "store"), !.reg = 0]
        /\ \A u \in Threads : u # t => th'[u] = th[u]
    BY <1>1, <1>7, Goes DEF storeCount
  <2> QED
    BY <1>1, <2>1 DEF Local
<1>8. ASSUME get_tail(t)
      PROVE  /\ Becomes(t, IF head = tail \/ th[t].op = "isEmpty" THEN "return" ELSE "move")
             /\ th'[t].data = th[t].data
             /\ th'[t].flag = Found(th[t].op, head = tail)
  <2>1. /\ th'[t] = [th[t] EXCEPT !.pc = IF head = tail \/ th[t].op = "isEmpty" THEN "return" ELSE "move",
                               !.flag = Found(th[t].op, head = tail)]
        /\ \A u \in Threads : u # t => th'[u] = th[u]
    BY <1>1, <1>8, Goes DEF get_tail
  <2> QED
    BY <1>1, <2>1 DEF Local
<1>9. ASSUME moveHead(t)
      PROVE  /\ Becomes(t, After(th[t].op, "move")) /\ SameResult(t)
             /\ th'[t].mine = head
  <2>1. /\ th'[t] = [th[t] EXCEPT !.pc = After(th[t].op, "move"), !.mine = head]
        /\ \A u \in Threads : u # t => th'[u] = th[u]
    BY <1>1, <1>9, Goes DEF moveHead
  <2> QED
    BY <1>1, <2>1 DEF Local
<1>10. ASSUME takeData(t)
       PROVE  /\ Becomes(t, After(th[t].op, "take"))
              /\ th'[t].data = IF th[t].op = "try_pop" THEN node[th[t].mine].data ELSE th[t].data
              /\ th'[t].flag = th[t].flag
  <2>1. /\ th'[t] = [th[t] EXCEPT !.pc = After(th[t].op, "take"),
                               !.data = IF th[t].op = "try_pop"
                                          THEN node[th[t].mine].data ELSE th[t].data]
        /\ \A u \in Threads : u # t => th'[u] = th[u]
    BY <1>1, <1>10, Goes DEF takeData
  <2> QED
    BY <1>1, <2>1 DEF Local
<1> QED
  BY <1>2, <1>3, <1>4, <1>5, <1>6, <1>7, <1>8, <1>9, <1>10

-----------------------------------------------------------------------------
(* A push that has linked its node and a pop that has unlinked its own,    *)
(* and has not yet changed count.                                          *)
OwesUp(t) ==
  \/ th[t].op = "push" /\ th[t].pc \in {"load", "store"}
  \/ th[t].op = "pushWithRef" /\ th[t].pc \in {"publish", "load", "store"}
OwesDown(t) == th[t].op \in PopOps /\ th[t].pc \in {"load", "store"}

(* The changes made to count so far, by pushes and by pops. *)
CountedUp == Len(node) - 1 - (IF \E t \in Threads : OwesUp(t) THEN 1 ELSE 0)
CountedDown == head - 1 - (IF \E t \in Threads : OwesDown(t) THEN 1 ELSE 0)

(* What is left of them when any may have been lost; until a node has been *)
(* unlinked none can be.                                                   *)
InReach(n) == -CountedDown <= n /\ n <= CountedUp /\ (head = 1 => n = CountedUp)

CountInv ==
  /\ InReach(count)
  /\ \A t \in Threads : At(t, "store") => InReach(th[t].reg)

(* One push at a time and one pop at a time count. *)
LEMMA OwesOne ==
  ASSUME QueueInv, NEW t \in Threads, NEW u \in Threads
  PROVE  /\ OwesUp(t) /\ OwesUp(u) => t = u
         /\ OwesDown(t) /\ OwesDown(u) => t = u
<1>1. OwesUp(t) => InTail(t)
  BY DEF OwesUp, InTail, PushOps
<1>2. OwesUp(u) => InTail(u)
  BY DEF OwesUp, InTail, PushOps
<1>3. OwesDown(t) => InHead(t)
  BY DEF OwesDown, InHead, HeadOps
<1>4. OwesDown(u) => InHead(u)
  BY DEF OwesDown, InHead, HeadOps
<1> QED
  BY <1>1, <1>2, <1>3, <1>4 DEF QueueInv, Locked

LEMMA OthersOwe ==
  ASSUME NEW u, th'[u] = th[u]
  PROVE  /\ OwesUp(u)' <=> OwesUp(u)
         /\ OwesDown(u)' <=> OwesDown(u)
         /\ At(u, "store")' <=> At(u, "store")
BY DEF OwesUp, OwesDown, At

LEMMA CountedInt ==
  ASSUME QueueInv
  PROVE  CountedUp \in Int /\ CountedDown \in Int /\ head \in Int /\ count \in Int
BY DEF CountedUp, CountedDown, QueueInv, TypeOK

(* A step that makes no change to count and none due. *)
LEMMA CountKept ==
  ASSUME QueueInv, CountInv, NEW t \in Threads,
         CountedUp' = CountedUp, CountedDown' = CountedDown, UNCHANGED count,
         head' = 1 => head = 1,
         \A u \in Threads : u # t => th'[u] = th[u],
         At(t, "store")' => th'[t].reg = count
  PROVE  CountInv'
<1>1. \A n : InReach(n) => (-CountedDown' <= n /\ n <= CountedUp' /\ (head' = 1 => n = CountedUp'))
  BY DEF InReach
<1>2. InReach(count)'
  BY <1>1 DEF CountInv, InReach
<1>3. ASSUME NEW u \in Threads, At(u, "store")'
      PROVE  InReach(th[u].reg)'
  <2>1. CASE u = t
    BY <1>1, <1>3, <2>1 DEF CountInv, InReach
  <2>2. CASE u # t
    <3>1. th'[u] = th[u] /\ At(u, "store")
      BY <1>3, <2>2, OthersOwe
    <3> QED
      BY <1>1, <3>1 DEF CountInv, InReach
  <2> QED
    BY <2>1, <2>2
<1> QED
  BY <1>2, <1>3 DEF CountInv

(* Nothing is owed before and after, or the same. *)
LEMMA SameOwed ==
  ASSUME NEW t \in Threads,
         \A u \in Threads : u # t => th'[u] = th[u],
         OwesUp(t)' <=> OwesUp(t),
         OwesDown(t)' <=> OwesDown(t),
         UNCHANGED head, Len(node') = Len(node)
  PROVE  CountedUp' = CountedUp /\ CountedDown' = CountedDown
<1>1. \A u \in Threads : /\ OwesUp(u)' <=> OwesUp(u)
                         /\ OwesDown(u)' <=> OwesDown(u)
  BY OthersOwe
<1> QED
  BY <1>1 DEF CountedUp, CountedDown

LEMMA CountCall ==
  ASSUME QueueInv, CountInv, NEW t \in Threads, NEW op \in Ops, Call(t, op)
  PROVE  CountInv'
<1>1. /\ th[t].pc = "idle" /\ th[t] \in Local
      /\ UNCHANGED <<node, head, tail, head_mutex, tail_mutex, count>>
  BY DEF Call, shared, QueueInv, TypeOK, At
<1>2. /\ th'[t] = [th[t] EXCEPT !.pc = IF op \in PushOps THEN "lock tail" ELSE "lock head",
                                !.op = op, !.arg = IF op \in PushOps THEN t ELSE NULL]
      /\ \A u \in Threads : u # t => th'[u] = th[u]
  BY Goes DEF Call, QueueInv
<1>3. th'[t].pc \in {"lock tail", "lock head"}
  BY <1>1, <1>2 DEF Local
<1>4. ~OwesUp(t) /\ ~OwesDown(t) /\ ~OwesUp(t)' /\ ~OwesDown(t)' /\ ~At(t, "store")'
  BY <1>1, <1>3 DEF OwesUp, OwesDown, At
<1> QED
  BY <1>1, <1>2, <1>4, SameOwed, CountKept

LEMMA CountReturn ==
  ASSUME QueueInv, CountInv, NEW t \in Threads, Return(t)
  PROVE  CountInv'
<1>1. /\ th[t].pc = "return" /\ th[t] \in Local
      /\ UNCHANGED <<node, head, tail, head_mutex, tail_mutex, count>>
  BY DEF Return, shared, QueueInv, TypeOK, At
<1>2. /\ th'[t] = [th[t] EXCEPT !.pc = "idle", !.op = NULL, !.arg = NULL, !.mine = 0,
                                !.data = NULL, !.flag = FALSE]
      /\ \A u \in Threads : u # t => th'[u] = th[u]
  BY Goes DEF Return, QueueInv
<1>3. th'[t].pc = "idle"
  BY <1>1, <1>2 DEF Local
<1>4. ~OwesUp(t) /\ ~OwesDown(t) /\ ~OwesUp(t)' /\ ~OwesDown(t)' /\ ~At(t, "store")'
  BY <1>1, <1>3 DEF OwesUp, OwesDown, At
<1> QED
  BY <1>1, <1>2, <1>4, SameOwed, CountKept

(* The steps that take a lock, look at the tail, free a node or load count. *)
LEMMA CountQuiet ==
  ASSUME QueueInv, CountInv, NEW t \in Threads,
         lockTail(t) \/ lockHead(t) \/ get_tail(t) \/ takeData(t) \/ loadCount(t) \/ publish(t)
  PROVE  CountInv'
<1>1. UNCHANGED <<head, count>> /\ Len(node') = Len(node)
  <2>1. UNCHANGED <<head, count>>
    BY DEF lockTail, lockHead, get_tail, takeData, loadCount, publish, shared
  <2>2. takeData(t) \/ node' = node
    BY DEF lockTail, lockHead, get_tail, loadCount, publish, shared
  <2>3. takeData(t) => Len(node') = Len(node)
    BY DEF takeData, QueueInv, TypeOK
  <2> QED
    BY <2>1, <2>2, <2>3
<1>2. Reached(t)
  BY DEF QueueInv
<1>3. CASE lockTail(t) \/ lockHead(t) \/ get_tail(t)
  <2>1. /\ th[t].pc \in {"lock tail", "lock head", "get_tail"}
        /\ th'[t].pc \in {"link", "get_tail", "return", "move"}
        /\ \A u \in Threads : u # t => th'[u] = th[u]
    BY <1>3, Did DEF lockTail, lockHead, get_tail, At, Becomes
  <2>2. ~OwesUp(t) /\ ~OwesDown(t) /\ ~OwesUp(t)' /\ ~OwesDown(t)' /\ ~At(t, "store")'
    BY <2>1 DEF OwesUp, OwesDown, At
  <2> QED
    BY <1>1, <2>1, <2>2, SameOwed, CountKept
<1>4. CASE takeData(t)
  <2>1. /\ th[t].pc = "take" /\ th[t].op \in PopOps
        /\ \A u \in Threads : u # t => th'[u] = th[u]
    BY <1>2, <1>4, Did DEF takeData, At, Becomes, Reached
  <2>2. th'[t].pc = "return"
    BY <1>4, <2>1, Did, AfterPop DEF Becomes
  <2>3. ~OwesUp(t) /\ ~OwesDown(t) /\ ~OwesUp(t)' /\ ~OwesDown(t)' /\ ~At(t, "store")'
    BY <2>1, <2>2 DEF OwesUp, OwesDown, At
  <2> QED
    BY <1>1, <2>1, <2>3, SameOwed, CountKept
<1>5. CASE loadCount(t)
  <2>1. /\ th[t].pc = "load" /\ th[t].op \in {"push", "pushWithRef", "try_pop", "peek"}
        /\ th'[t].op = th[t].op /\ th'[t].reg = count
        /\ \A u \in Threads : u # t => th'[u] = th[u]
    BY <1>5, Did, Counting DEF loadCount, At, Becomes
  <2>2. th'[t].pc = "store"
    BY <1>5, <2>1, Did, AfterPush, AfterPushWithRef, AfterPop DEF Becomes, PopOps
  <2>3. /\ OwesUp(t)' <=> OwesUp(t)
        /\ OwesDown(t)' <=> OwesDown(t)
    BY <2>1, <2>2 DEF OwesUp, OwesDown
  <2> QED
    BY <1>1, <2>1, <2>3, SameOwed, CountKept
<1>6. CASE publish(t)
  <2>1. /\ th[t].pc = "publish" /\ th[t].op \in {"push", "pushWithRef"}
        /\ th'[t].op = th[t].op
        /\ \A u \in Threads : u # t => th'[u] = th[u]
    BY <1>2, <1>6, Did DEF publish, At, Becomes, Reached, PushOps
  <2>2. th'[t].pc = IF th[t].op = "push" THEN "return" ELSE "load"
    BY <1>6, <2>1, Did, AfterPush, AfterPushWithRef DEF Becomes
  <2>3. /\ OwesUp(t)' <=> OwesUp(t)
        /\ OwesDown(t)' <=> OwesDown(t)
        /\ ~At(t, "store")'
    BY <2>1, <2>2 DEF OwesUp, OwesDown, At, PopOps
  <2> QED
    BY <1>1, <2>1, <2>3, SameOwed, CountKept
<1> QED
  BY <1>3, <1>4, <1>5, <1>6

(* A node more, and a push that owes it to count. *)
LEMMA CountLink ==
  ASSUME QueueInv, CountInv, NEW t \in Threads, link(t), QueueInv'
  PROVE  CountInv'
<1>1. /\ th[t].pc = "link" /\ th[t].op \in {"push", "pushWithRef"}
      /\ th'[t].op = th[t].op
      /\ \A u \in Threads : u # t => th'[u] = th[u]
      /\ UNCHANGED <<head, count>>
  BY Did DEF link, At, Becomes, QueueInv, Reached, PushOps
<1>2. th'[t].pc = IF th[t].op = "push" THEN "load" ELSE "publish"
  BY <1>1, Did, AfterPush, AfterPushWithRef DEF Becomes
<1>3. OwesUp(t)' /\ ~OwesUp(t) /\ ~OwesDown(t)' /\ ~OwesDown(t) /\ ~At(t, "store")'
  BY <1>1, <1>2 DEF OwesUp, OwesDown, At, PopOps
<1>4. \A u \in Threads : ~OwesUp(u)
  <2>1. InTail(t)
    BY <1>1 DEF InTail, PushOps
  <2>2. \A u \in Threads : OwesUp(u) => InTail(u)
    BY DEF OwesUp, InTail, PushOps
  <2> QED
    BY <1>3, <2>1, <2>2 DEF QueueInv, Locked
<1>5. Len(node') = Len(node) + 1 /\ Len(node) \in Nat
  <2>1. InTail(t) /\ ~Linking(t) /\ Linking(t)'
    BY <1>1, <1>2 DEF InTail, Linking, At, PushOps
  <2>2. Len(node) = tail /\ tail' = tail
    BY <2>1, TailIsLast DEF link
  <2>3. Len(node') = tail' + 1
    BY <2>1 DEF QueueInv, Published
  <2> QED
    BY <2>2, <2>3 DEF QueueInv, TypeOK
<1>6. CountedUp' = CountedUp
  BY <1>3, <1>4, <1>5 DEF CountedUp
<1>7. CountedDown' = CountedDown
  BY <1>1, <1>3, OthersOwe DEF CountedDown
<1> QED
  BY <1>1, <1>3, <1>6, <1>7, CountKept

(* A node less, and a pop that owes it to count. *)
LEMMA CountMoveHead ==
  ASSUME QueueInv, CountInv, NEW t \in Threads, moveHead(t), QueueInv'
  PROVE  CountInv'
<1>1. /\ th[t].pc = "move" /\ th[t].op \in PopOps
      /\ th'[t].op = th[t].op
      /\ \A u \in Threads : u # t => th'[u] = th[u]
      /\ UNCHANGED count
  BY Did DEF moveHead, At, Becomes, QueueInv, Reached
<1>2. th'[t].pc = "load"
  BY <1>1, Did, AfterPop DEF Becomes
<1>3. ~OwesUp(t)' /\ ~OwesUp(t) /\ OwesDown(t)' /\ ~OwesDown(t) /\ ~At(t, "store")'
  BY <1>1, <1>2 DEF OwesUp, OwesDown, At, PopOps
<1>4. \A u \in Threads : ~OwesDown(u)
  <2>1. InHead(t)
    BY <1>1 DEF InHead, HeadOps
  <2>2. \A u \in Threads : OwesDown(u) => InHead(u)
    BY DEF OwesDown, InHead, HeadOps
  <2> QED
    BY <1>3, <2>1, <2>2 DEF QueueInv, Locked
<1>5. head' = head + 1 /\ head \in Nat \ {0} /\ Len(node') = Len(node)
  BY <1>1 DEF moveHead, QueueInv, TypeOK, Listed, Locals, At
<1>6. CountedUp' = CountedUp
  BY <1>1, <1>3, <1>5, OthersOwe DEF CountedUp
<1>7. CountedDown' = CountedDown
  BY <1>3, <1>4, <1>5 DEF CountedDown
<1> QED
  BY <1>1, <1>3, <1>5, <1>6, <1>7, CountKept

(* A push counts: whatever it overwrites, its own change and no other is   *)
(* added to what it had loaded.                                            *)
LEMMA CountStoreUp ==
  ASSUME QueueInv, CountInv, NEW t \in Threads, storeCount(t), th[t].op \in PushOps
  PROVE  CountInv'
<1>1. /\ th[t].pc = "store" /\ th[t].op \in {"push", "pushWithRef"}
      /\ th'[t].op = th[t].op
      /\ \A u \in Threads : u # t => th'[u] = th[u]
      /\ UNCHANGED <<node, head>> /\ count' = th[t].reg + 1 /\ th[t].reg \in Int
  BY Did DEF storeCount, At, Becomes, PushOps, QueueInv, TypeOK, Local
<1>2. th'[t].pc = IF th[t].op = "push" THEN "publish" ELSE "return"
  BY <1>1, Did, AfterPush, AfterPushWithRef DEF Becomes
<1>3. ~OwesUp(t)' /\ OwesUp(t) /\ ~OwesDown(t)' /\ ~OwesDown(t) /\ ~At(t, "store")'
  BY <1>1, <1>2 DEF OwesUp, OwesDown, At, PopOps
<1>4. \A u \in Threads : OwesUp(u) => u = t
  BY <1>3, OwesOne
<1>5. CountedUp' = CountedUp + 1
  <2>1. \A u \in Threads : ~OwesUp(u)'
    BY <1>1, <1>3, <1>4, OthersOwe
  <2> QED
    BY <1>1, <1>3, <2>1 DEF CountedUp, QueueInv, TypeOK
<1>6. CountedDown' = CountedDown
  BY <1>1, <1>3, OthersOwe DEF CountedDown
<1>7. InReach(count)'
  <2>1. InReach(th[t].reg)
    BY <1>1 DEF CountInv, At
  <2> QED
    BY <1>1, <1>5, <1>6, <2>1, CountedInt DEF InReach
<1>8. ASSUME NEW u \in Threads, At(u, "store")'
      PROVE  InReach(th[u].reg)'
  <2>1. u # t /\ th'[u] = th[u] /\ At(u, "store") /\ InReach(th[u].reg)
    BY <1>1, <1>3, <1>8, OthersOwe DEF CountInv
  <2>2. OwesDown(u)
    BY <1>4, <2>1, Counting DEF At, OwesUp, OwesDown, PopOps
  <2>3. head # 1
    BY <2>2 DEF OwesDown, QueueInv, Unlinked, Popping, TypeOK
  <2>4. th[u].reg \in Int
    BY DEF QueueInv, TypeOK, Local
  <2> QED
    BY <1>1, <1>5, <1>6, <2>1, <2>3, <2>4, CountedInt DEF InReach
<1> QED
  BY <1>7, <1>8 DEF CountInv

(* A pop counts. *)
LEMMA CountStoreDown ==
  ASSUME QueueInv, CountInv, NEW t \in Threads, storeCount(t), th[t].op \in PopOps
  PROVE  CountInv'
<1>1. /\ th[t].pc = "store" /\ th[t].op \in {"try_pop", "peek"}
      /\ th'[t].op = th[t].op
      /\ \A u \in Threads : u # t => th'[u] = th[u]
      /\ UNCHANGED <<node, head>> /\ count' = th[t].reg - 1 /\ th[t].reg \in Int
  BY Did DEF storeCount, At, Becomes, PushOps, PopOps, QueueInv, TypeOK, Local
<1>2. th'[t].pc = "take"
  BY <1>1, Did, AfterPop DEF Becomes
<1>3. ~OwesUp(t)' /\ ~OwesUp(t) /\ ~OwesDown(t)' /\ OwesDown(t) /\ ~At(t, "store")'
  BY <1>1, <1>2 DEF OwesUp, OwesDown, At, PopOps
<1>4. \A u \in Threads : OwesDown(u) => u = t
  BY <1>3, OwesOne
<1>5. CountedDown' = CountedDown + 1
  <2>1. \A u \in Threads : ~OwesDown(u)'
    BY <1>1, <1>3, <1>4, OthersOwe
  <2> QED
    BY <1>1, <1>3, <2>1 DEF CountedDown, QueueInv, TypeOK
<1>6. CountedUp' = CountedUp
  BY <1>1, <1>3, OthersOwe DEF CountedUp
<1>7. head # 1 /\ head' # 1
  BY <1>1, <1>3 DEF OwesDown, QueueInv, Unlinked, Popping, TypeOK
<1>8. InReach(count)'
  <2>1. InReach(th[t].reg)
    BY <1>1 DEF CountInv, At
  <2> QED
    BY <1>1, <1>5, <1>6, <1>7, <2>1, CountedInt DEF InReach
<1>9. ASSUME NEW u \in Threads, At(u, "store")'
      PROVE  InReach(th[u].reg)'
  <2>1. u # t /\ th'[u] = th[u] /\ InReach(th[u].reg) /\ th[u].reg \in Int
    BY <1>1, <1>3, <1>9, OthersOwe DEF CountInv, QueueInv, TypeOK, Local
  <2> QED
    BY <1>5, <1>6, <1>7, <2>1, CountedInt DEF InReach
<1> QED
  BY <1>8, <1>9 DEF CountInv

LEMMA CountStep ==
  ASSUME QueueInv, CountInv, [Next]_vars
  PROVE  CountInv'
<1>1. CASE UNCHANGED vars
  <2>1. UNCHANGED <<node, head, count, th>>
    BY <1>1 DEF vars, shared
  <2> QED
    BY <2>1 DEF CountInv, InReach, CountedUp, CountedDown, OwesUp, OwesDown, At
<1>2. ASSUME NEW t \in Threads, Step(t)
      PROVE  CountInv'
  <2>1. QueueInv'
    BY QueueStep
  <2>2. storeCount(t) => th[t].op \in PushOps \cup PopOps
    BY Counting DEF storeCount, At, PushOps, PopOps
  <2> QED
    BY <1>2, <2>1, <2>2, CountQuiet, CountLink, CountMoveHead, CountStoreUp, CountStoreDown,
       CountReturn DEF Step
<1> QED
  BY <1>1, <1>2, CountCall DEF Next

(* The two unsynchronised changes of count lose updates, but never more    *)
(* than one for each push and each pop that succeeded, and none before the *)
(* first pop (circular_pipeline.hpp, count++ under tail_mutex, count--     *)
(* under head_mutex).                                                      *)
THEOREM CountBounded == FairSpec => []CountDrift
<1>1. Init => CountInv
  <2> SUFFICES ASSUME Init
               PROVE  CountInv
    OBVIOUS
  <2>1. Len(node) = 1 /\ head = 1 /\ count = 0 /\ \A t \in Threads : th[t].pc = "idle"
    BY DEF Init
  <2>2. CountedUp = 0 /\ CountedDown = 0
    <3>1. \A t \in Threads : ~OwesUp(t) /\ ~OwesDown(t)
      BY <2>1 DEF OwesUp, OwesDown
    <3>2. Len(node) - 1 = 0 /\ head - 1 = 0
      BY <2>1
    <3>3. CountedUp = 0 - 0 /\ CountedDown = 0 - 0
      BY <3>1, <3>2 DEF CountedUp, CountedDown
    <3> QED
      BY <3>3
  <2> QED
    BY <2>1, <2>2 DEF CountInv, InReach, At
<1>2. ASSUME QueueInv, CountInv, Quiescent
      PROVE  LET pushed == Len(node) - 1
                 popped == Cardinality({i \in DOMAIN node : ~node[i].live})
                 drift  == count - Len(Contents)
             IN  /\ -pushed <= drift /\ drift <= popped
                 /\ popped = 0 => drift = 0
  <2>1. \A t \in Threads : /\ ~OwesUp(t) /\ ~OwesDown(t)
                           /\ ~Linking(t) /\ ~Popping(t)
    BY <1>2 DEF Quiescent, At, OwesUp, OwesDown, Linking, Popping
  <2>2. /\ Len(node) = tail /\ head \in 1..tail /\ tail \in Nat /\ count \in Int
        /\ DOMAIN node = 1..tail
    BY <1>2, <2>1 DEF QueueInv, Published, TypeOK, Listed
  <2>3. {i \in DOMAIN node : ~node[i].live} = 1..(head - 1)
    BY <1>2, <2>1, <2>2 DEF QueueInv, Listed, Unlinked
  <2>4. Cardinality(1..(head - 1)) = head - 1
    BY <2>2, FS_Interval
  <2>5. Len(Contents) = tail - head
    BY <1>2, ContentsIs DEF ContentsSpan
  <2>6. CountedUp = tail - 1 /\ CountedDown = head - 1
    BY <2>1, <2>2 DEF CountedUp, CountedDown
  <2>7. -(head - 1) <= count /\ count <= tail - 1 /\ (head = 1 => count = tail - 1)
    BY <1>2, <2>6 DEF CountInv, InReach
  <2>8. Cardinality({i \in DOMAIN node : ~node[i].live}) = head - 1
    BY <2>3, <2>4
  <2>9. Len(node) \in Nat /\ head \in Nat /\ tail \in Nat /\ head <= tail
    BY <2>2
  <2> QED
    BY <2>2, <2>5, <2>7, <2>8, <2>9
<1>3. QueueInv /\ CountInv => CountDrift
  BY <1>2 DEF CountDrift
<1> QED
  BY <1>1, <1>3, CountStep, QueueInvariant, PTL DEF FairSpec

-----------------------------------------------------------------------------
(* The refinement: first what the abstract calls and the abstract queue    *)
(* depend on.                                                              *)
Calls == [t \in Threads |-> AbstractCall(t)]

Front == IF Contents = <<>> THEN NULL ELSE Head(Contents)

LEMMA AbstractKept ==
  ASSUME NEW u, th'[u] = th[u], Popping(u) => node'[th[u].mine].data = node[th[u].mine].data
  PROVE  AbstractCall(u)' = AbstractCall(u)
<1>1. Effective(u)' <=> Effective(u)
  BY DEF Effective, At
<1>2. th[u].op = "try_pop" /\ th[u].pc \in {"load", "store", "take"} => Popping(u)
  BY DEF Popping, PopOps
<1>3. Result(u)' = Result(u)
  BY <1>1, <1>2 DEF Result
<1> QED
  BY <1>1, <1>3 DEF AbstractCall, At

(* The data of a node that has been linked does not change. *)
LEMMA OthersAbstract ==
  ASSUME QueueInv, NEW t \in Threads, Step(t)
  PROVE  \A u \in Threads : u # t => AbstractCall(u)' = AbstractCall(u)
<1>1. \A u \in Threads : u # t => th'[u] = th[u]
  <2>1. TypeOK
    BY DEF QueueInv
  <2>2. CASE Return(t)
    BY <2>1, <2>2, Goes DEF Return
  <2> QED
    BY <2>2, Did DEF Step, Becomes
<1>2. ASSUME NEW u \in Threads, Popping(u)
      PROVE  node'[th[u].mine].data = node[th[u].mine].data
  <2>1. th[u].mine \in 1..(head - 1) /\ head \in 1..tail /\ tail \in 1..Len(node)
        /\ node \in Seq(Node) /\ th[u].mine \in DOMAIN node
    BY <1>2 DEF QueueInv, Unlinked, Listed, TypeOK
  <2>2. \A i \in DOMAIN node : node[i] \in Node
    BY <2>1
  <2>3. CASE link(t)
    <3>1. node'[th[u].mine] = node[th[u].mine]
      <4>1. th[u].mine \in 1..(tail - 1)
        BY <2>1
      <4> QED
        BY <2>3, <4>1, LinkNodes
    <3> QED
      BY <3>1
  <2>4. CASE moveHead(t)
    BY <2>1, <2>4 DEF moveHead
  <2>5. CASE takeData(t)
    <3>1. node' = [node EXCEPT ![th[t].mine] = [node[th[t].mine] EXCEPT !.live = FALSE]]
      BY <2>5 DEF takeData
    <3>2. CASE th[u].mine = th[t].mine
      <4>1. node'[th[u].mine] = [node[th[u].mine] EXCEPT !.live = FALSE]
        BY <2>1, <3>1, <3>2
      <4>2. node[th[u].mine] \in Node
        BY <2>1, <2>2
      <4> QED
        BY <4>1, <4>2 DEF Node
    <3>3. CASE th[u].mine # th[t].mine
      BY <2>1, <3>1, <3>3
    <3> QED
      BY <3>2, <3>3
  <2> QED
    BY <2>3, <2>4, <2>5
    DEF Step, lockTail, publish, loadCount, storeCount, lockHead, get_tail, Return, shared
<1> QED
  BY <1>1, <1>2, AbstractKept

LEMMA ContentsKept ==
  ASSUME QueueInv, QueueInv', UNCHANGED <<head, tail>>,
         \A i \in head..(tail - 1) : node'[i].data = node[i].data
  PROVE  Contents' = Contents
<1>1. head \in Nat /\ tail \in Nat
  BY DEF QueueInv, TypeOK
<1>2. \A i \in 1..(tail - head) : node'[head + i - 1].data = node[head + i - 1].data
  BY <1>1
<1>3. ContentsSpan' /\ ContentsSpan
  BY ContentsIs, PTL
<1> QED
  BY <1>2, <1>3 DEF ContentsSpan

LEMMA CallsKept ==
  ASSUME NEW t \in Threads, AbstractCall(t)' = AbstractCall(t),
         \A u \in Threads : u # t => AbstractCall(u)' = AbstractCall(u)
  PROVE  Calls' = Calls
BY DEF Calls

(* One call takes effect. *)
LEMMA CallsDone ==
  ASSUME NEW t \in Threads, NEW r,
         AbstractCall(t)' = [status |-> "done", op |-> th[t].op, arg |-> th[t].arg, res |-> r],
         \A u \in Threads : u # t => AbstractCall(u)' = AbstractCall(u)
  PROVE  Calls' = [Calls EXCEPT ![t].status = "done", ![t].res = r]
BY DEF Calls, AbstractCall

-----------------------------------------------------------------------------
(* The steps between the start of a call and its return that do not show. *)
LEMMA QuietSim ==
  ASSUME QueueInv, QueueInv', NEW t \in Threads, Step(t),
         \/ lockTail(t) \/ lockHead(t) \/ link(t) \/ loadCount(t) \/ storeCount(t)
         \/ takeData(t)
         \/ get_tail(t) /\ head # tail /\ th[t].op # "isEmpty"
  PROVE  Contents' = Contents /\ Calls' = Calls
<1>1. UNCHANGED <<head, tail>>
  BY DEF lockTail, lockHead, link, loadCount, storeCount, takeData, get_tail, shared
<1>2. /\ head \in 1..tail /\ tail \in 1..Len(node) /\ Len(node) \in Nat
      /\ Reached(t) /\ Locals(t)
  BY DEF QueueInv, TypeOK, Listed
<1>3. Contents' = Contents
  <2>1. CASE link(t)
    <3>1. \A i \in head..(tail - 1) : node'[i] = node[i]
      <4>1. \A i \in 1..(tail - 1) : node'[i] = node[i]
        BY <2>1, LinkNodes
      <4> QED
        BY <1>2, <4>1
    <3> QED
      BY <1>1, <3>1, ContentsKept
  <2>2. CASE takeData(t)
    <3>1. Popping(t)
      BY <1>2, <2>2 DEF takeData, At, Reached, Popping
    <3>2. th[t].mine \in 1..(head - 1)
      BY <3>1 DEF QueueInv, Unlinked
    <3>3. \A i \in head..(tail - 1) : node'[i] = node[i]
      BY <1>2, <2>2, <3>2 DEF takeData
    <3> QED
      BY <1>1, <3>3, ContentsKept
  <2>3. CASE node' = node
    BY <1>1, <2>3, ContentsKept
  <2> QED
    BY <2>1, <2>2, <2>3 DEF lockTail, lockHead, loadCount, storeCount, get_tail, shared
<1>4. AbstractCall(t)' = AbstractCall(t)
  <2> USE DEF AbstractCall, Result, Effective, At, Becomes, SameResult
  <2>1. CASE lockTail(t)
    <3>1. th[t].pc = "lock tail" /\ th[t].op \in PushOps
      BY <1>2, <2>1 DEF lockTail, Reached
    <3>2. th'[t].pc = "link" /\ th'[t].op = th[t].op /\ th'[t].arg = th[t].arg
          /\ th'[t].data = th[t].data
      BY <2>1, Did
    <3> QED
      BY <3>1, <3>2
  <2>2. CASE lockHead(t)
    <3>1. th[t].pc = "lock head"
      BY <2>2 DEF lockHead
    <3>2. th'[t].pc = "get_tail" /\ th'[t].op = th[t].op /\ th'[t].arg = th[t].arg
          /\ th'[t].data = th[t].data
      BY <2>2, Did
    <3> QED
      BY <3>1, <3>2
  <2>3. CASE link(t)
    <3>1. th[t].pc = "link" /\ th[t].op \in {"push", "pushWithRef"}
      BY <1>2, <2>3 DEF link, Reached, PushOps
    <3>2. /\ th'[t].pc = (IF th[t].op = "push" THEN "load" ELSE "publish")
          /\ th'[t].op = th[t].op /\ th'[t].arg = th[t].arg /\ th'[t].data = th[t].data
      BY <2>3, <3>1, Did, AfterPush, AfterPushWithRef
    <3> QED
      BY <3>1, <3>2 DEF PopOps
  <2>4. CASE loadCount(t)
    <3>1. th[t].pc = "load" /\ th[t].op \in {"push", "pushWithRef", "try_pop", "peek"}
      BY <2>4, Counting DEF loadCount
    <3>2. th'[t].pc = "store"
      BY <2>4, <3>1, Did, AfterPush, AfterPushWithRef, AfterPop DEF PopOps
    <3>3. /\ th'[t].op = th[t].op /\ th'[t].arg = th[t].arg /\ th'[t].data = th[t].data
          /\ th'[t].flag = th[t].flag /\ th'[t].mine = th[t].mine /\ node' = node
      BY <2>4, Did DEF loadCount, shared
    <3> QED
      BY <3>1, <3>2, <3>3
  <2>5. CASE storeCount(t)
    <3>1. th[t].pc = "store" /\ th[t].op \in {"push", "pushWithRef", "try_pop", "peek"}
      BY <2>5, Counting DEF storeCount
    <3>2. th'[t].pc = IF th[t].op = "push" THEN "publish"
                      ELSE IF th[t].op = "pushWithRef" THEN "return" ELSE "take"
      BY <2>5, <3>1, Did, AfterPush, AfterPushWithRef, AfterPop DEF PopOps
    <3>3. /\ th'[t].op = th[t].op /\ th'[t].arg = th[t].arg /\ th'[t].data = th[t].data
          /\ th'[t].flag = th[t].flag /\ th'[t].mine = th[t].mine /\ node' = node
      BY <2>5, Did DEF storeCount
    <3> QED
      BY <3>1, <3>2, <3>3 DEF PopOps
  <2>6. CASE takeData(t)
    <3>1. th[t].pc = "take" /\ th[t].op \in {"try_pop", "peek"}
      BY <1>2, <2>6 DEF takeData, Reached, PopOps
    <3>2. th'[t].pc = "return"
      BY <2>6, <3>1, Did, AfterPop DEF PopOps
    <3>3. /\ th'[t].op = th[t].op /\ th'[t].arg = th[t].arg /\ th'[t].flag = th[t].flag
          /\ th'[t].data = IF th[t].op = "try_pop" THEN node[th[t].mine].data ELSE th[t].data
      BY <2>6, Did
    <3> QED
      BY <3>1, <3>2, <3>3 DEF PopOps
  <2>7. CASE get_tail(t) /\ head # tail /\ th[t].op # "isEmpty"
    <3>1. th[t].pc = "get_tail"
      BY <2>7 DEF get_tail
    <3>2. th'[t].pc = "move" /\ th'[t].op = th[t].op /\ th'[t].arg = th[t].arg
          /\ th'[t].data = th[t].data
      BY <2>7, Did
    <3> QED
      BY <3>1, <3>2
  <2> QED
    BY <2>1, <2>2, <2>3, <2>4, <2>5, <2>6, <2>7
<1> QED
  BY <1>3, <1>4, OthersAbstract, CallsKept

(* The start of a call. *)
LEMMA CallSim ==
  ASSUME QueueInv, QueueInv', NEW t \in Threads, NEW op \in Ops, Call(t, op)
  PROVE  Fifo!Invoke(t, op)
<1>1. /\ th[t].pc = "idle" /\ th[t] \in Local /\ Locals(t) /\ made < MaxCalls /\ made' = made + 1
      /\ UNCHANGED <<node, head, tail>>
  BY DEF Call, shared, QueueInv, TypeOK, At
<1>2. /\ th'[t] = [th[t] EXCEPT !.pc = IF op \in PushOps THEN "lock tail" ELSE "lock head",
                                !.op = op, !.arg = IF op \in PushOps THEN t ELSE NULL]
      /\ \A u \in Threads : u # t => th'[u] = th[u]
  BY Goes DEF Call, QueueInv
<1>3. /\ th'[t].pc \in {"lock tail", "lock head"} /\ th'[t].op = op
      /\ th'[t].arg = (IF op \in PushOps THEN t ELSE NULL)
      /\ th'[t].data = th[t].data /\ th[t].data = NULL
  BY <1>1, <1>2 DEF Local, Locals, At
<1>4. Contents' = Contents
  BY <1>1, ContentsKept
<1>5. AbstractCall(t)' = [status |-> "called", op |-> op, res |-> [data |-> NULL, flag |-> FALSE],
                          arg |-> IF op \in PushOps THEN t ELSE NULL]
  BY <1>3 DEF AbstractCall, Result, Effective, At
<1>6. \A u \in Threads : u # t => AbstractCall(u)' = AbstractCall(u)
  BY <1>1, <1>2, AbstractKept
<1>7. Calls[t].status = "idle"
  BY <1>1 DEF Calls, AbstractCall, At
<1>8. Calls' = [Calls EXCEPT ![t] = AbstractCall(t)']
  BY <1>6 DEF Calls
<1> QED
  BY <1>1, <1>4, <1>5, <1>7, <1>8 DEF Fifo!Invoke, Fifo!NoAnswer, Fifo!PushOps, PushOps, Calls

(* The end of a call. *)
LEMMA ReturnSim ==
  ASSUME QueueInv, QueueInv', NEW t \in Threads, Return(t), made' = made
  PROVE  Fifo!Return(t)
<1>1. th[t].pc = "return" /\ th[t] \in Local /\ UNCHANGED <<node, head, tail>>
  BY DEF Return, shared, QueueInv, TypeOK, At
<1>2. /\ th'[t] = [th[t] EXCEPT !.pc = "idle", !.op = NULL, !.arg = NULL, !.mine = 0,
                                !.data = NULL, !.flag = FALSE]
      /\ \A u \in Threads : u # t => th'[u] = th[u]
  BY Goes DEF Return, QueueInv
<1>3. th'[t].pc = "idle" /\ th'[t].op = NULL /\ th'[t].arg = NULL /\ th'[t].data = NULL
  BY <1>1, <1>2 DEF Local
<1>4. Contents' = Contents
  BY <1>1, ContentsKept
<1>5. AbstractCall(t)' = [status |-> "idle", op |-> NULL, arg |-> NULL,
                          res |-> [data |-> NULL, flag |-> FALSE]]
  BY <1>3 DEF AbstractCall, Result, Effective, At
<1>6. \A u \in Threads : u # t => AbstractCall(u)' = AbstractCall(u)
  BY <1>1, <1>2, AbstractKept
<1>7. Calls[t].status = "done"
  BY <1>1 DEF Calls, AbstractCall, Effective, At
<1>8. Calls' = [Calls EXCEPT ![t] = AbstractCall(t)']
  BY <1>6 DEF Calls
<1> QED
  BY <1>4, <1>5, <1>7, <1>8 DEF Fifo!Return, Fifo!Idle, Fifo!NoAnswer, Calls

(* The step at which a call takes effect, whatever the call. *)
LEMMA EffectSim ==
  ASSUME NEW t \in Threads, made' = made,
         AbstractCall(t).status = "called",
         AbstractCall(t)' = [status |-> "done", op |-> th[t].op, arg |-> th[t].arg,
                              res |-> Fifo!Answer(th[t].op, Front)],
         \A u \in Threads : u # t => AbstractCall(u)' = AbstractCall(u),
         Contents' = CASE th[t].op \in PushOps                    -> Append(Contents, th[t].arg)
                       [] th[t].op \in PopOps /\ Contents # <<>>  -> Tail(Contents)
                       [] OTHER                                   -> Contents
  PROVE  Fifo!TakeEffect(t)
<1>1. Calls' = [Calls EXCEPT ![t].status = "done", ![t].res = Fifo!Answer(th[t].op, Front)]
  BY CallsDone
<1>2. Calls[t].status = "called" /\ Calls[t].op = th[t].op /\ Calls[t].arg = th[t].arg
  BY DEF Calls, AbstractCall
<1> QED
  BY <1>1, <1>2
  DEF Fifo!TakeEffect, Fifo!PushOps, Fifo!PopOps, PushOps, PopOps, Calls, Front

(* A push takes effect when its node becomes the tail. *)
LEMMA PublishSim ==
  ASSUME QueueInv, QueueInv', NEW t \in Threads, Step(t), publish(t)
  PROVE  Fifo!TakeEffect(t)
<1>1. /\ th[t].pc = "publish" /\ th[t].op \in {"push", "pushWithRef"} /\ Locals(t)
      /\ UNCHANGED <<node, head>> /\ tail' = th[t].mine
      /\ made' = made
  BY DEF publish, At, QueueInv, Reached, PushOps, Step
<1>2. th'[t].pc = IF th[t].op = "push" THEN "return" ELSE "load"
  BY <1>1, Did, AfterPush, AfterPushWithRef DEF Becomes
<1>3. /\ th'[t].op = th[t].op /\ th'[t].arg = th[t].arg
      /\ th'[t].data = th[t].data /\ th'[t].flag = th[t].flag
      /\ th[t].arg = t /\ th[t].data = NULL /\ ~th[t].flag
  BY <1>1, Did DEF Becomes, SameResult, Locals, At, PushOps
<1>4. /\ tail' = tail + 1 /\ node[tail].data = t /\ head \in 1..tail /\ tail \in Nat
  <2>1. Linking(t)
    BY <1>1 DEF Linking, At
  <2> QED
    BY <1>1, <2>1 DEF QueueInv, Published, TypeOK, Listed
<1>5. Contents' = Append(Contents, th[t].arg)
  <2>1. ContentsSpan /\ ContentsSpan'
    BY ContentsIs, PTL
  <2>2. /\ Contents' = [i \in 1..(tail + 1 - head) |-> node[head + i - 1].data]
        /\ Contents = [i \in 1..(tail - head) |-> node[head + i - 1].data]
        /\ Len(Contents) = tail - head /\ Contents \in Seq(Values)
    BY <1>1, <1>4, <2>1 DEF ContentsSpan
  <2>3. DOMAIN Append(Contents, t) = 1..(tail + 1 - head)
    BY <1>4, <2>2
  <2>4. \A i \in 1..(tail + 1 - head) : Append(Contents, t)[i] = node[head + i - 1].data
    <3>1. \A i \in 1..(tail - head) : Append(Contents, t)[i] = Contents[i]
      BY <1>4, <2>2
    <3>2. Append(Contents, t)[tail - head + 1] = t
      BY <1>4, <2>2
    <3>3. node[head + (tail - head + 1) - 1].data = t
      BY <1>4
    <3>4. \A i \in 1..(tail + 1 - head) : i \in 1..(tail - head) \/ i = tail - head + 1
      BY <1>4
    <3> QED
      BY <2>2, <3>1, <3>2, <3>3, <3>4
  <2>5. Append(Contents, t) \in Seq(Values) /\ Contents' \in Seq(Values)
    BY <2>1, <2>2 DEF ContentsSpan, Values
  <2>6. Len(Append(Contents, t)) = tail + 1 - head /\ Len(Contents') = tail + 1 - head
    BY <1>1, <1>4, <2>1, <2>2 DEF ContentsSpan
  <2>7. \A i \in 1..Len(Contents') : Contents'[i] = Append(Contents, t)[i]
    BY <2>2, <2>4, <2>6
  <2> QED
    BY <1>3, <2>5, <2>6, <2>7, SeqEqual
<1>6. AbstractCall(t).status = "called"
  BY <1>1 DEF AbstractCall, Effective, At, PopOps
<1>7. AbstractCall(t)' = [status |-> "done", op |-> th[t].op, arg |-> th[t].arg,
                          res |-> Fifo!Answer(th[t].op, Front)]
  <2>1. Fifo!Answer(th[t].op, Front) = [data |-> NULL, flag |-> FALSE]
    BY <1>1 DEF Fifo!Answer
  <2>2. Effective(t)' /\ th'[t].pc # "idle"
    BY <1>1, <1>2, <1>3 DEF Effective, At
  <2>3. Result(t)' = [data |-> NULL, flag |-> FALSE]
    BY <1>1, <1>3 DEF Result
  <2> QED
    BY <1>3, <2>1, <2>2, <2>3 DEF AbstractCall, At
<1>8. Contents' = CASE th[t].op \in PushOps                    -> Append(Contents, th[t].arg)
                    [] th[t].op \in PopOps /\ Contents # <<>>  -> Tail(Contents)
                    [] OTHER                                   -> Contents
  <2>1. th[t].op \in PushOps /\ th[t].op \notin PopOps
    BY <1>1 DEF PushOps, PopOps
  <2> QED
    BY <1>5, <2>1
<1> QED
  BY <1>1, <1>6, <1>7, <1>8, EffectSim, OthersAbstract

(* A call that finds the queue empty, and isEmpty, take effect when they   *)
(* compare head with tail.                                                 *)
LEMMA GetTailSim ==
  ASSUME QueueInv, QueueInv', NEW t \in Threads, Step(t), get_tail(t),
         head = tail \/ th[t].op = "isEmpty"
  PROVE  Fifo!TakeEffect(t)
<1>1. /\ th[t].pc = "get_tail" /\ th[t].op \in {"try_pop", "peek", "isEmpty"} /\ Locals(t)
      /\ UNCHANGED <<node, head, tail>> /\ made' = made
  BY DEF get_tail, At, QueueInv, Reached, PopOps, HeadOps, Step
<1>2. /\ th'[t].pc = "return" /\ th'[t].op = th[t].op /\ th'[t].arg = th[t].arg
      /\ th'[t].data = th[t].data /\ th'[t].flag = Found(th[t].op, head = tail)
      /\ th[t].data = NULL
  BY <1>1, Did DEF Becomes, Locals, At
<1>3. Contents' = Contents
  BY <1>1, ContentsKept
<1>4. /\ head = tail => Contents = <<>>
      /\ head # tail => Contents # <<>> /\ Head(Contents) # NULL
  <2>1. ContentsSpan /\ head \in 1..tail /\ tail \in Nat
    BY ContentsIs DEF QueueInv, TypeOK, Listed
  <2>2. ASSUME head = tail
        PROVE  Contents = <<>>
    <3>1. Len(Contents) = 0 /\ Contents \in Seq(Values)
      BY <2>1, <2>2 DEF ContentsSpan
    <3> QED
      BY <3>1
  <2>3. ASSUME head # tail
        PROVE  Contents # <<>> /\ Head(Contents) # NULL
    <3>1. Len(Contents) > 0 /\ Contents \in Seq(Values)
      BY <2>1, <2>3 DEF ContentsSpan
    <3>2. Contents # <<>> /\ Head(Contents) \in Values
      BY <3>1
    <3> QED
      BY <3>2, QueueAssumption DEF Values
  <2> QED
    BY <2>2, <2>3
<1>5. AbstractCall(t).status = "called"
  BY <1>1 DEF AbstractCall, Effective, At
<1>6. AbstractCall(t)' = [status |-> "done", op |-> th[t].op, arg |-> th[t].arg,
                          res |-> Fifo!Answer(th[t].op, Front)]
  <2>1. Front = NULL <=> head = tail
    BY <1>4 DEF Front
  <2>2. Fifo!Answer(th[t].op, Front) = [data |-> NULL, flag |-> Found(th[t].op, head = tail)]
    BY <1>1, <2>1 DEF Fifo!Answer, Found
  <2>3. Effective(t)' /\ th'[t].pc # "idle"
    BY <1>2 DEF Effective, At
  <2>4. Found(th[t].op, head = tail) \in BOOLEAN
    BY DEF Found
  <2>5. Result(t)' = [data |-> NULL, flag |-> Found(th[t].op, head = tail)]
    BY <1>2, <2>3, <2>4 DEF Result
  <2> QED
    BY <1>2, <2>2, <2>3, <2>5 DEF AbstractCall, At
<1>7. Contents' = CASE th[t].op \in PushOps                    -> Append(Contents, th[t].arg)
                    [] th[t].op \in PopOps /\ Contents # <<>>  -> Tail(Contents)
                    [] OTHER                                   -> Contents
  <2>1. th[t].op \notin PushOps /\ ~(th[t].op \in PopOps /\ Contents # <<>>)
    BY <1>1, <1>4 DEF PushOps, PopOps
  <2> QED
    BY <1>3, <2>1
<1> QED
  BY <1>1, <1>5, <1>6, <1>7, EffectSim, OthersAbstract

(* A pop that finds an element takes effect when it unlinks the node. *)
LEMMA MoveHeadSim ==
  ASSUME QueueInv, QueueInv', NEW t \in Threads, Step(t), moveHead(t)
  PROVE  Fifo!TakeEffect(t)
<1>1. /\ th[t].pc = "move" /\ th[t].op \in {"try_pop", "peek"} /\ Locals(t)
      /\ tail' = tail /\ made' = made
  BY DEF moveHead, At, QueueInv, Reached, PopOps, Step
<1>2. th'[t].pc = "load"
  BY <1>1, Did, AfterPop DEF Becomes, PopOps
<1>3. /\ th'[t].op = th[t].op /\ th'[t].arg = th[t].arg /\ th'[t].mine = head
      /\ th'[t].data = NULL /\ th'[t].flag = (th[t].op = "peek")
  BY <1>1, Did DEF Becomes, SameResult, Locals, At
<1>4. /\ head \in Nat /\ tail \in Nat /\ 1 <= head /\ head < tail /\ tail <= Len(node)
      /\ head' = head + 1 /\ node \in Seq(Node) /\ Len(node) \in Nat
  BY <1>1 DEF moveHead, QueueInv, TypeOK, Listed, Locals, At
<1>5. \A i \in 1..Len(node) : node'[i].data = node[i].data
  <2>1. node' = [node EXCEPT ![head] = [node[head] EXCEPT !.next = 0]]
    BY DEF moveHead
  <2>2. node[head] \in Node
    BY <1>4
  <2>3. [node[head] EXCEPT !.next = 0].data = node[head].data
    BY <2>2 DEF Node
  <2> QED
    BY <1>4, <2>1, <2>3
<1>6. /\ Contents = [i \in 1..(tail - head) |-> node[head + i - 1].data]
      /\ Contents' = [i \in 1..(tail - head - 1) |-> node'[head + i].data]
      /\ Contents \in Seq(Values) /\ Len(Contents) = tail - head
      /\ Contents' \in Seq(Values) /\ Len(Contents') = tail - head - 1
  <2>1. ContentsSpan /\ ContentsSpan'
    BY ContentsIs, PTL
  <2>2. tail' - head' = tail - head - 1 /\ \A i \in Int : head' + i - 1 = head + i
    BY <1>1, <1>4
  <2>3. Contents' = [i \in 1..(tail' - head') |-> node'[head' + i - 1].data]
    BY <2>1 DEF ContentsSpan
  <2>4. Contents' = [i \in 1..(tail - head - 1) |-> node'[head + i].data]
    BY <2>2, <2>3
  <2> QED
    BY <2>1, <2>2, <2>4 DEF ContentsSpan
<1>7. Contents # <<>> /\ Head(Contents) = node[head].data /\ Head(Contents) \in Values
  <2>1. Len(Contents) \in Nat \ {0} /\ Contents \in Seq(Values)
    BY <1>4, <1>6
  <2>2. Contents # <<>> /\ Head(Contents) = Contents[1] /\ Head(Contents) \in Values
    BY <2>1
  <2>3. Contents[1] = node[head + 1 - 1].data /\ head + 1 - 1 = head
    BY <1>4, <1>6
  <2> QED
    BY <2>2, <2>3
<1>8. Contents' = Tail(Contents)
  <2>1. /\ Tail(Contents) \in Seq(Values) /\ Len(Tail(Contents)) = tail - head - 1
        /\ \A i \in 1..(tail - head - 1) : Tail(Contents)[i] = Contents[i + 1]
    <3>1. Contents \in Seq(Values) /\ Contents # <<>> /\ Len(Contents) = tail - head
      BY <1>6, <1>7
    <3>2. /\ Tail(Contents) \in Seq(Values) /\ Len(Tail(Contents)) = Len(Contents) - 1
          /\ \A i \in 1..(Len(Contents) - 1) : Tail(Contents)[i] = Contents[i + 1]
      BY <3>1
    <3> QED
      BY <3>1, <3>2
  <2>2. \A i \in 1..(tail - head - 1) : Contents[i + 1] = node[head + i].data
    <3>1. \A i \in 1..(tail - head - 1) : i + 1 \in 1..(tail - head) /\ head + (i + 1) - 1 = head + i
      BY <1>4
    <3> QED
      BY <1>6, <3>1
  <2>3. \A i \in 1..(tail - head - 1) : Contents'[i] = node[head + i].data
    BY <1>4, <1>5, <1>6
  <2>4. \A i \in 1..Len(Contents') : Contents'[i] = Tail(Contents)[i]
    BY <1>6, <2>1, <2>2, <2>3
  <2> QED
    BY <1>6, <2>1, <2>4, SeqEqual
<1>9. AbstractCall(t).status = "called"
  BY <1>1 DEF AbstractCall, Effective, At
<1>10. AbstractCall(t)' = [status |-> "done", op |-> th[t].op, arg |-> th[t].arg,
                           res |-> Fifo!Answer(th[t].op, Front)]
  <2>1. Front = node[head].data /\ Front # NULL
    BY <1>7, QueueAssumption DEF Front, Values
  <2>2. Effective(t)' /\ th'[t].pc # "idle"
    BY <1>1, <1>2, <1>3 DEF Effective, At, PopOps
  <2>3. node'[th'[t].mine].data = Front
    BY <1>3, <1>4, <1>5, <2>1
  <2>4. Result(t)' = [data |-> IF th[t].op = "try_pop" THEN Front ELSE NULL,
                      flag |-> th[t].op = "peek"]
    BY <1>2, <1>3, <2>2, <2>3 DEF Result
  <2>5. Fifo!Answer(th[t].op, Front) = [data |-> IF th[t].op = "try_pop" THEN Front ELSE NULL,
                                        flag |-> th[t].op = "peek"]
    BY <1>1, <2>1 DEF Fifo!Answer
  <2> QED
    BY <1>3, <2>2, <2>4, <2>5 DEF AbstractCall, At
<1>11. Contents' = CASE th[t].op \in PushOps                    -> Append(Contents, th[t].arg)
                     [] th[t].op \in PopOps /\ Contents # <<>>  -> Tail(Contents)
                     [] OTHER                                   -> Contents
  <2>1. th[t].op \notin PushOps /\ th[t].op \in PopOps
    BY <1>1 DEF PushOps, PopOps
  <2> QED
    BY <1>7, <1>8, <2>1
<1> QED
  BY <1>1, <1>9, <1>10, <1>11, EffectSim, OthersAbstract

(* Every step is a step of the FIFO queue or does not show. *)
LEMMA RefinesStep ==
  ASSUME QueueInv, QueueInv', [Next]_vars
  PROVE  [Fifo!FifoNext]_(Fifo!fifoVars)
<1>1. CASE UNCHANGED vars
  <2>1. UNCHANGED <<node, head, tail, th, made>>
    BY <1>1 DEF vars, shared
  <2>2. Contents' = Contents
    BY <2>1, ContentsKept
  <2>3. Calls' = Calls
    BY <2>1, AbstractKept DEF Calls
  <2> QED
    BY <2>1, <2>2, <2>3 DEF Fifo!fifoVars, Calls
<1>2. ASSUME NEW t \in Threads, Step(t)
      PROVE  [Fifo!FifoNext]_(Fifo!fifoVars)
  <2>1. made' = made
    BY <1>2 DEF Step
  <2>2. CASE \/ lockTail(t) \/ lockHead(t) \/ link(t) \/ loadCount(t) \/ storeCount(t)
             \/ takeData(t)
             \/ get_tail(t) /\ head # tail /\ th[t].op # "isEmpty"
    BY <1>2, <2>1, <2>2, QuietSim DEF Fifo!fifoVars, Calls
  <2>3. CASE \/ publish(t) \/ moveHead(t)
             \/ get_tail(t) /\ (head = tail \/ th[t].op = "isEmpty")
    BY <1>2, <2>3, PublishSim, MoveHeadSim, GetTailSim DEF Fifo!FifoNext
  <2>4. CASE Return(t)
    BY <2>1, <2>4, ReturnSim DEF Fifo!FifoNext
  <2> QED
    BY <1>2, <2>2, <2>3, <2>4 DEF Step
<1>3. ASSUME NEW t \in Threads, NEW op \in Ops, Call(t, op)
      PROVE  Fifo!FifoNext
  BY <1>3, CallSim DEF Fifo!FifoNext, Fifo!Ops, Fifo!PushOps, Fifo!PopOps, Ops, PushOps, PopOps
<1> QED
  BY <1>1, <1>2, <1>3 DEF Next

(* The queue of circular_pipeline.hpp is linearizable: with any number of  *)
(* threads and any interleaving, push, pushWithRef, try_pop, peek and      *)
(* isEmpty behave as one atomic step each on a FIFO queue.                 *)
THEOREM QueueLinearizable == FairSpec => Linearizable
<1>1. Init => Fifo!FifoInit
  <2> SUFFICES ASSUME Init
               PROVE  Fifo!FifoInit
    OBVIOUS
  <2>1. head = 1 /\ tail = 1 /\ made = 0
    BY DEF Init
  <2>2. ContentsSpan
    BY QueueInit, ContentsIs
  <2>3. Len(Contents) = 0 /\ Contents \in Seq(Values)
    BY <2>1, <2>2 DEF ContentsSpan
  <2>4. Contents = <<>>
    BY <2>3
  <2>5. \A t \in Threads : /\ th[t].pc = "idle" /\ th[t].op = NULL /\ th[t].arg = NULL
                           /\ th[t].data = NULL
    BY DEF Init
  <2>6. \A t \in Threads : AbstractCall(t) = [status |-> "idle", op |-> NULL, arg |-> NULL,
                                              res |-> [data |-> NULL, flag |-> FALSE]]
    BY <2>5 DEF AbstractCall, Result, Effective, At
  <2> QED
    BY <2>1, <2>4, <2>6 DEF Fifo!FifoInit, Fifo!Idle, Fifo!NoAnswer
<1> QED
  BY <1>1, RefinesStep, QueueInvariant, PTL DEF FairSpec, Linearizable, Fifo!FifoSpec
=============================================================================
