--------------------------- MODULE TKKernelLemmas ---------------------------
(***************************************************************************)
(* What the functions of ready_queue.h and task.c do to a kernel state:    *)
(* each keeps the ready queue right, and the queues of objects as they are *)
(* unless it ends a wait.                                                  *)
(***************************************************************************)
EXTENDS TKTaskCalls, TKSequenceLemmas, WellFoundedInduction

-----------------------------------------------------------------------------
(* What the queue operations of TKTask do to a queue without duplicates:   *)
(* which tasks are in it afterwards, and that it still has no duplicates.  *)

\* A queue of tasks in which no task is linked twice.
Queue == {q \in Seq(Task) : IsInjective(q)}

\* The empty queue is one.
LEMMA EmptyQueue ==
  /\ <<>> \in Queue
  /\ ToSet(<<>>) = {}
BY EmptySequence DEF Queue, Unrepeated

\* ToSet lists the elements; only the empty queue has none.
LEMMA QueueElements ==
  ASSUME NEW q \in Seq(Task)
  PROVE  /\ Len(q) \in Nat
         /\ DOMAIN q = 1 .. Len(q)
         /\ ToSet(q) = {q[i] : i \in 1 .. Len(q)}
         /\ ToSet(q) \subseteq Task
         /\ q = <<>> <=> ToSet(q) = {}
BY Elements

\* Appending a task that is not linked (QueInsert at the end).
LEMMA QueueAppend ==
  ASSUME NEW q \in Queue, NEW t \in Task, t \notin ToSet(q)
  PROVE  /\ Append(q, t) \in Queue
         /\ ToSet(Append(q, t)) = ToSet(q) \cup {t}
BY Appended DEF Queue, Unrepeated

\* The first of the queue after an append.
LEMMA AppendHead ==
  ASSUME NEW q \in Seq(Task), NEW t \in Task
  PROVE  Head(Append(q, t)) = IF q = <<>> THEN t ELSE Head(q)
BY AppendedHead

\* QueRemove takes a task out of a queue, if it is linked there.
LEMMA QueueRemoval ==
  ASSUME NEW q \in Queue, NEW t \in Task
  PROVE  /\ QueueWithout(q, t) \in Queue
         /\ ToSet(QueueWithout(q, t)) = ToSet(q) \ {t}
         /\ t \notin ToSet(q) => QueueWithout(q, t) = q
BY Removed DEF Queue, Unrepeated, QueueWithout, WithoutElement

\* The removal of a task that is not the first leaves the first in place.
LEMMA HeadKept ==
  ASSUME NEW q \in Queue, NEW t \in Task, q # <<>>, Head(q) # t
  PROVE  /\ QueueWithout(q, t) # <<>>
         /\ Head(QueueWithout(q, t)) = Head(q)
BY RemovedHead DEF Queue, Unrepeated, QueueWithout, WithoutElement

\* The rest of a queue holds all but its head.
LEMMA QueueTail ==
  ASSUME NEW q \in Queue, q # <<>>
  PROVE  /\ Head(q) \in ToSet(q)
         /\ Tail(q) \in Queue
         /\ ToSet(Tail(q)) = ToSet(q) \ {Head(q)}
BY TailElements DEF Queue, Unrepeated

\* ready_queue_rotate: the head goes to the end.
LEMMA QueueRotation ==
  ASSUME NEW q \in Queue, q # <<>>
  PROVE  /\ Head(q) \in ToSet(q)
         /\ Append(Tail(q), Head(q)) \in Queue
         /\ ToSet(Append(Tail(q), Head(q))) = ToSet(q)
<1>1. /\ Head(q) \in ToSet(q) /\ Tail(q) \in Queue
      /\ ToSet(Tail(q)) = ToSet(q) \ {Head(q)}
  BY QueueTail
<1>2. Head(q) \in Task
  BY <1>1, QueueElements DEF Queue
<1>. DEFINE h == Head(q)
            l == Tail(q)
<1>. HIDE DEF h, l
<1>3. /\ Append(l, h) \in Queue
      /\ ToSet(Append(l, h)) = ToSet(l) \cup {h}
  BY <1>1, <1>2, QueueAppend DEF h, l
<1>. QED
  BY <1>1, <1>3 DEF h, l

\* The tasks that are left in a queue keep their order.
LEMMA QueueOrder ==
  ASSUME NEW q \in Queue, NEW t \in Task, NEW r, r = QueueWithout(q, t),
         NEW i \in DOMAIN r, NEW j \in DOMAIN r, i < j
  PROVE  \E a, b \in DOMAIN q : a < b /\ r[i] = q[a] /\ r[j] = q[b]
<1>1. q \in Unrepeated(Task) /\ r = WithoutElement(q, t)
  BY DEF Queue, Unrepeated, QueueWithout, WithoutElement
<1>2. r \in Seq(Task) /\ q \in Seq(Task)
  BY <1>1, Removed DEF Unrepeated
<1>3. DOMAIN r = 1 .. Len(r) /\ DOMAIN q = 1 .. Len(q)
  BY <1>2, Elements
<1>. QED
  BY <1>1, <1>3, RemovedOrder

\* Without its head, a queue is its tail.
LEMMA QueueHeadRemoved ==
  ASSUME NEW q \in Queue, q # <<>>
  PROVE  QueueWithout(q, Head(q)) = Tail(q)
BY HeadRemoved DEF Queue, Unrepeated, QueueWithout, WithoutElement

\* What is left of a queue is a queue.
LEMMA QueueRest ==
  ASSUME NEW q \in Queue, NEW n \in 0 .. Len(q)
  PROVE  From(q, n) \in Queue /\ ToSet(From(q, n)) \subseteq ToSet(q)
<1>1. q \in Seq(Task) /\ Len(q) \in Nat /\ \A i, j \in 1 .. Len(q) : q[i] = q[j] => i = j
  BY QueueElements DEF Queue, IsInjective
<1>. DEFINE r == From(q, n)
<1>2. /\ r \in Seq(Task) /\ Len(r) = Len(q) - n
      /\ \A i \in 1 .. Len(q) - n : r[i] = q[n + i]
  BY <1>1, FromElements
<1>. HIDE DEF r
<1>3. \A i \in 1 .. Len(q) - n : n + i \in 1 .. Len(q)
  BY <1>1
<1>4. DOMAIN r = 1 .. Len(q) - n /\ ToSet(r) = {r[i] : i \in 1 .. Len(q) - n}
  BY <1>2, QueueElements
<1>5. \A i, j \in 1 .. Len(q) - n : r[i] = r[j] => i = j
  <2>1. SUFFICES ASSUME NEW i \in 1 .. Len(q) - n, NEW j \in 1 .. Len(q) - n, r[i] = r[j]
                 PROVE  i = j
    OBVIOUS
  <2>2. q[n + i] = q[n + j] /\ n + i \in 1 .. Len(q) /\ n + j \in 1 .. Len(q)
    BY <1>2, <1>3, <2>1
  <2>3. n + i = n + j
    BY <1>1, <2>2
  <2>. QED
    BY <1>1, <2>3
<1>6. r \in Queue
  BY <1>2, <1>4, <1>5 DEF Queue, IsInjective
<1>7. ToSet(r) \subseteq ToSet(q)
  BY <1>1, <1>2, <1>3, <1>4, QueueElements
<1>. QED
  BY <1>6, <1>7 DEF r

\* Step n of a loop over a queue takes the head of what is left.
LEMMA QueueRestStep ==
  ASSUME NEW q \in Queue, NEW n \in 1 .. Len(q)
  PROVE  /\ q[n] \in ToSet(From(q, n - 1)) /\ Head(From(q, n - 1)) = q[n]
         /\ From(q, n - 1) \in Queue /\ From(q, n - 1) # <<>> /\ From(q, n) \in Queue
         /\ QueueWithout(From(q, n - 1), q[n]) = From(q, n)
         /\ ToSet(From(q, n)) = ToSet(From(q, n - 1)) \ {q[n]}
         /\ q[n] \in ToSet(q) /\ q[n] \in Task
<1>1. q \in Seq(Task) /\ Len(q) \in Nat
  BY QueueElements DEF Queue
<1>2. n - 1 \in 0 .. Len(q) /\ n - 1 \in 0 .. Len(q) - 1 /\ n \in 0 .. Len(q) /\ (n - 1) + 1 = n
  BY <1>1
<1>. DEFINE r == From(q, n - 1)
<1>3. r \in Queue /\ ToSet(r) \subseteq ToSet(q) /\ From(q, n) \in Queue
  BY <1>2, QueueRest
<1>4. r # <<>> /\ Head(r) = q[n] /\ Tail(r) = From(q, n)
  <2>1. PICK m \in 0 .. Len(q) - 1 : m = n - 1
    BY <1>2
  <2>2. /\ From(q, m) # <<>> /\ Head(From(q, m)) = q[m + 1]
        /\ Tail(From(q, m)) = From(q, m + 1)
    BY <1>1, FromSteps
  <2>3. m + 1 = n
    BY <1>2, <2>1
  <2>. QED
    BY <2>1, <2>2, <2>3
<1>. HIDE DEF r
<1>5. Head(r) \in ToSet(r) /\ ToSet(Tail(r)) = ToSet(r) \ {Head(r)}
  BY <1>3, <1>4, QueueTail
<1>6. QueueWithout(r, Head(r)) = Tail(r)
  BY <1>3, <1>4, QueueHeadRemoved
<1>7. ToSet(q) \subseteq Task
  BY <1>1, QueueElements
<1>. QED
  BY <1>3, <1>4, <1>5, <1>6, <1>7 DEF r

-----------------------------------------------------------------------------
(* The order of a queue.                                                   *)

\* t is somewhere in front of u.
Precedes(q, t, u) == \E i, j \in DOMAIN q : i < j /\ q[i] = t /\ q[j] = u

\* From q to q2 no task but those in X falls behind a task it was in front of.
OrderKept(q, q2, X) ==
  \A t, u \in ToSet(q2) : t \notin X /\ Precedes(q, t, u) => Precedes(q2, t, u)

\* The last of the queue is the only one that may have fallen behind others.
Orderly(q, q2) ==
  OrderKept(q, q2, {}) \/ \E x \in ToSet(q2) : Last(q2) = x /\ OrderKept(q, q2, {x})

\* Nobody is twice in a queue.
LEMMA PrecedesOther ==
  ASSUME NEW q \in Queue, NEW t, NEW u, Precedes(q, t, u)
  PROVE  t # u /\ t \in ToSet(q) /\ u \in ToSet(q)
<1>1. PICK i, j \in DOMAIN q : i < j /\ q[i] = t /\ q[j] = u
  BY DEF Precedes
<1>2. q \in Seq(Task) /\ DOMAIN q = 1 .. Len(q) /\ ToSet(q) = {q[n] : n \in 1 .. Len(q)}
  BY QueueElements DEF Queue
<1>3. \A m, n \in DOMAIN q : q[m] = q[n] => m = n
  BY DEF Queue, IsInjective
<1>. QED
  BY <1>1, <1>2, <1>3

\* Two rearrangements in a row.
LEMMA OrderKeptTwice ==
  ASSUME NEW q, NEW q1, NEW q2, NEW X, NEW Y, OrderKept(q, q1, X), OrderKept(q1, q2, Y),
         ToSet(q2) \subseteq ToSet(q1)
  PROVE  OrderKept(q, q2, X \cup Y)
BY DEF OrderKept

\* A task that joins the queue does so at its end.
LEMMA AppendOrder ==
  ASSUME NEW q \in Queue, NEW t \in Task, t \notin ToSet(q), NEW q2, q2 = Append(q, t)
  PROVE  /\ OrderKept(q, q2, {})
         /\ Last(q2) = t /\ t \in ToSet(q2)
         /\ \A u \in ToSet(q) : Precedes(q2, u, t)
<1>1. q \in Seq(Task)
  BY DEF Queue
<1>2. Len(q) \in Nat /\ DOMAIN q = 1 .. Len(q) /\ ToSet(q) = {q[i] : i \in 1 .. Len(q)}
  BY <1>1, QueueElements
<1>. DEFINE n == Len(q)
<1>3. /\ q2 \in Seq(Task) /\ Len(q2) = n + 1
      /\ \A i \in 1 .. n : q2[i] = q[i]
      /\ q2[n + 1] = t
  BY <1>1
<1>4. DOMAIN q2 = 1 .. n + 1 /\ ToSet(q2) = {q2[i] : i \in 1 .. n + 1}
  BY <1>3, QueueElements
<1>5. Last(q2) = t /\ t \in ToSet(q2)
  BY <1>2, <1>3, <1>4 DEF Last
<1>6. \A u \in ToSet(q) : Precedes(q2, u, t)
  <2>. SUFFICES ASSUME NEW u \in ToSet(q) PROVE Precedes(q2, u, t)
    OBVIOUS
  <2>1. PICK i \in 1 .. n : q[i] = u
    BY <1>2
  <2>2. i \in DOMAIN q2 /\ n + 1 \in DOMAIN q2 /\ i < n + 1 /\ q2[i] = u
    BY <1>2, <1>3, <1>4, <2>1
  <2>. QED
    BY <1>3, <2>2 DEF Precedes
<1>7. ASSUME NEW a, NEW b, Precedes(q, a, b) PROVE Precedes(q2, a, b)
  <2>1. PICK i, j \in DOMAIN q : i < j /\ q[i] = a /\ q[j] = b
    BY <1>7 DEF Precedes
  <2>2. i \in DOMAIN q2 /\ j \in DOMAIN q2 /\ q2[i] = a /\ q2[j] = b
    BY <1>2, <1>3, <1>4, <2>1
  <2>. QED
    BY <2>1, <2>2 DEF Precedes
<1>. QED
  BY <1>5, <1>6, <1>7 DEF OrderKept

\* Those that stay in a queue when one leaves keep their order.
LEMMA RemovalOrder ==
  ASSUME NEW q \in Queue, NEW t \in Task, NEW q2, q2 = QueueWithout(q, t)
  PROVE  OrderKept(q, q2, {})
<1>1. SUFFICES ASSUME NEW a \in ToSet(q2), NEW b \in ToSet(q2), Precedes(q, a, b)
               PROVE  Precedes(q2, a, b)
  BY DEF OrderKept
<1>2. q2 \in Queue
  BY QueueRemoval
<1>3. /\ DOMAIN q2 = 1 .. Len(q2) /\ ToSet(q2) = {q2[n] : n \in 1 .. Len(q2)}
      /\ Len(q2) \in Nat
  BY <1>2, QueueElements DEF Queue
<1>4. PICK i, j \in DOMAIN q2 : q2[i] = a /\ q2[j] = b
  BY <1>3
<1>5. i # j
  BY <1>1, <1>4, PrecedesOther
<1>6. CASE j < i
  <2>1. PICK x, y \in DOMAIN q : x < y /\ q2[j] = q[x] /\ q2[i] = q[y]
    BY <1>4, <1>6, QueueOrder
  <2>2. PICK m, n \in DOMAIN q : m < n /\ q[m] = a /\ q[n] = b
    BY <1>1 DEF Precedes
  <2>3. m = y /\ n = x
    BY <1>4, <2>1, <2>2 DEF Queue, IsInjective
  <2>4. DOMAIN q \subseteq Int
    BY QueueElements DEF Queue
  <2>. QED
    BY <2>1, <2>2, <2>3, <2>4
<1>7. CASE i < j
  BY <1>4, <1>7 DEF Precedes
<1>. QED
  BY <1>3, <1>4, <1>5, <1>6, <1>7

\* A task is put at the end of its queue, or leaves another and is put there.
LEMMA MoveLastOrder ==
  ASSUME NEW q \in Queue, NEW t \in Task, NEW q2, q2 = Append(QueueWithout(q, t), t)
  PROVE  /\ q2 \in Queue /\ ToSet(q2) = ToSet(q) \cup {t}
         /\ Last(q2) = t
         /\ OrderKept(q, q2, {t})
<1>. DEFINE q1 == QueueWithout(q, t)
<1>1. q1 \in Queue /\ ToSet(q1) = ToSet(q) \ {t} /\ OrderKept(q, q1, {})
  BY QueueRemoval, RemovalOrder
<1>2. q2 = Append(q1, t) /\ t \notin ToSet(q1)
  BY <1>1
<1>. HIDE DEF q1
<1>3. q2 \in Queue /\ ToSet(q2) = ToSet(q1) \cup {t}
  BY <1>1, <1>2, QueueAppend
<1>4. OrderKept(q1, q2, {}) /\ Last(q2) = t /\ \A u \in ToSet(q1) : Precedes(q2, u, t)
  BY <1>1, <1>2, AppendOrder
<1>5. ASSUME NEW a \in ToSet(q2), NEW b \in ToSet(q2), a # t, Precedes(q, a, b)
      PROVE  Precedes(q2, a, b)
  <2>1. a \in ToSet(q1)
    BY <1>3, <1>5
  <2>2. CASE b = t
    BY <1>4, <2>1, <2>2
  <2>3. CASE b # t
    <3>1. b \in ToSet(q1)
      BY <1>3, <1>5, <2>3
    <3>2. Precedes(q1, a, b)
      BY <1>1, <1>5, <2>1, <3>1 DEF OrderKept
    <3>. QED
      BY <1>4, <1>5, <3>2 DEF OrderKept
  <2>. QED
    BY <2>2, <2>3
<1>. QED
  BY <1>1, <1>3, <1>4, <1>5 DEF OrderKept

\* A task that is put at the end of its queue may be the only one to fall behind.
LEMMA MovedOrderly ==
  ASSUME NEW q \in Queue, NEW t \in Task, NEW q2, q2 = Append(QueueWithout(q, t), t)
  PROVE  Orderly(q, q2) /\ ToSet(q2) = ToSet(q) \cup {t} /\ q2 \in Queue
<1>1. /\ ToSet(q2) = ToSet(q) \cup {t} /\ Last(q2) = t /\ OrderKept(q, q2, {t})
      /\ q2 \in Queue
  BY MoveLastOrder
<1>. QED
  BY <1>1 DEF Orderly

\* A task that leaves its queue.
LEMMA RemovedOrderly ==
  ASSUME NEW q \in Queue, NEW t \in Task, NEW q2, q2 = QueueWithout(q, t)
  PROVE  Orderly(q, q2) /\ ToSet(q2) = ToSet(q) \ {t} /\ q2 \in Queue
BY QueueRemoval, RemovalOrder DEF Orderly

\* The same task put at the end a second time.
LEMMA MovedTwiceOrderly ==
  ASSUME NEW q \in Queue, NEW t \in Task, NEW q1, q1 = Append(QueueWithout(q, t), t),
         NEW q2, q2 = Append(QueueWithout(q1, t), t)
  PROVE  Orderly(q, q2) /\ ToSet(q2) = ToSet(q) \cup {t}
<1>1. /\ q1 \in Queue /\ ToSet(q1) = ToSet(q) \cup {t} /\ OrderKept(q, q1, {t})
  BY MoveLastOrder
<1>2. /\ ToSet(q2) = ToSet(q1) \cup {t} /\ Last(q2) = t /\ OrderKept(q1, q2, {t})
  BY <1>1, MoveLastOrder
<1>3. ToSet(q2) \subseteq ToSet(q1) /\ t \in ToSet(q2)
  BY <1>1, <1>2
<1>4. OrderKept(q, q2, {t} \cup {t})
  BY <1>1, <1>2, <1>3, OrderKeptTwice
<1>5. {t} \cup {t} = {t}
  OBVIOUS
<1>6. OrderKept(q, q2, {t})
  BY <1>4, <1>5
<1>. QED
  BY <1>1, <1>2, <1>3, <1>6 DEF Orderly

\* One task leaves, another is put at the end.
LEMMA RemovedMovedOrderly ==
  ASSUME NEW q \in Queue, NEW t \in Task, NEW q1, q1 = QueueWithout(q, t),
         NEW s \in ToSet(q1), NEW q2, q2 = Append(QueueWithout(q1, s), s)
  PROVE  Orderly(q, q2) /\ ToSet(q2) \subseteq ToSet(q)
<1>1. q1 \in Queue /\ ToSet(q1) = ToSet(q) \ {t} /\ OrderKept(q, q1, {})
  BY QueueRemoval, RemovalOrder
<1>2. s \in Task
  BY <1>1, QueueElements DEF Queue
<1>3. /\ ToSet(q2) = ToSet(q1) \cup {s} /\ Last(q2) = s /\ OrderKept(q1, q2, {s})
  BY <1>1, <1>2, MoveLastOrder
<1>4. ToSet(q2) \subseteq ToSet(q1) /\ s \in ToSet(q2)
  BY <1>3
<1>5. OrderKept(q, q2, {} \cup {s})
  BY <1>1, <1>3, <1>4, OrderKeptTwice
<1>6. {} \cup {s} = {s}
  OBVIOUS
<1>7. OrderKept(q, q2, {s})
  BY <1>5, <1>6
<1>. QED
  BY <1>1, <1>3, <1>4, <1>7 DEF Orderly

-----------------------------------------------------------------------------
(* The search in the bitmap.                                               *)

\* A set of priorities that is not empty has a least element.
LEMMA LeastElement ==
  ASSUME NEW S, S \subseteq Nat, S # {}
  PROVE  \E x \in S : \A y \in S : x <= y
<1>1. PICK x \in S : \A y \in S : ~(<<y, x>> \in OpToRel(<, Nat))
  BY NatLessThanWellFounded, WFMin
<1>2. \A y \in S : ~(y < x)
  BY <1>1 DEF OpToRel
<1>. QED
  BY <1>2

\* first_priority finds the highest priority from 'from' on, or NUM_PRI.
LEMMA FirstPriority ==
  ASSUME NEW bm \in SUBSET Pri, NEW from \in Pri
  PROVE  /\ first_priority(bm, from) \in 0 .. NumPri
         /\ first_priority(bm, from) \in bm \cup {NumPri}
         /\ \A q \in bm : q >= from => first_priority(bm, from) <= q
<1>1. Pri = {n \in Nat : n < NumPri} /\ NumPri \in Nat
  BY TaskAssumption DEF Pri
<1>2. CASE \E q \in bm : q >= from
  <2>. DEFINE S == {q \in bm : q >= from}
              f == CHOOSE q \in bm : q >= from /\ \A r \in bm : r >= from => q <= r
  <2>1. S \subseteq Nat
    BY <1>1
  <2>2. S # {}
    BY <1>2
  <2>3. PICK q \in S : \A r \in S : q <= r
    BY <2>1, <2>2, LeastElement
  <2>4. q \in bm /\ q >= from /\ \A r \in bm : r >= from => q <= r
    BY <2>3
  <2>5. f \in bm /\ f >= from /\ \A r \in bm : r >= from => f <= r
    BY <2>4
  <2>6. first_priority(bm, from) = f
    BY <1>2 DEF first_priority
  <2>. HIDE DEF f
  <2>. QED
    BY <1>1, <2>5, <2>6
<1>3. CASE ~ \E q \in bm : q >= from
  <2>1. first_priority(bm, from) = NumPri
    BY <1>3 DEF first_priority
  <2>. QED
    BY <1>1, <1>3, <2>1
<1>. QED
  BY <1>2, <1>3

-----------------------------------------------------------------------------
(* Kernel states.                                                          *)

RQType == [top_priority : 0 .. NumPri, tskque : [Pri -> Seq(Task)],
           bitmap : SUBSET Pri, klocktsk : Task \cup {NoTask}]

\* The control blocks are up to the modules of the objects.
IsKernel(k) ==
  k \in [tcb : [Task -> TCBType], rq : RQType, wq : [WaitQueue -> Seq(Task)],
         schedtsk : Task \cup {NoTask}, ctxtsk : Task \cup {NoTask}, obj : {k.obj}]

\* No READY task is linked in the queue of an object, and none twice.
WaitsLinked(k) ==
  \A w \in WaitQueue : /\ k.wq[w] \in Queue
                       /\ \A u \in ToSet(k.wq[w]) : k.tcb[u].state # "READY"

\* t is in no queue of an object.
Unqueued(k, t) == \A w \in WaitQueue : t \notin ToSet(k.wq[w])

\* The READY tasks of priority p, those in X left out.
ReadyAt(k, X, p) ==
  {u \in Task \ X : k.tcb[u].state = "READY" /\ k.tcb[u].priority = p}

\* The ready queue is right for all tasks but those in X, which are not linked.
Queued(k, X) ==
  /\ IsKernel(k)
  /\ \A p \in Pri : /\ k.rq.tskque[p] \in Queue
                    /\ ToSet(k.rq.tskque[p]) = ReadyAt(k, X, p)
  /\ k.rq.bitmap = {p \in Pri : k.rq.tskque[p] # <<>>}
  /\ k.rq.top_priority \in k.rq.bitmap \cup {NumPri}
  /\ \A p \in k.rq.bitmap : k.rq.top_priority <= p
  /\ k.rq.klocktsk = NoTask
  /\ \A u \in Task : ~k.tcb[u].klocked /\ ~k.tcb[u].klockwait
  /\ WaitsLinked(k)

\* Equal but for the slice counter.
Alike(c, d) ==
  /\ c.state = d.state /\ c.priority = d.priority
  /\ c.wupcnt = d.wupcnt /\ c.suscnt = d.suscnt
  /\ c.tskevt = d.tskevt /\ c.waitmask = d.waitmask /\ c.nodiswai = d.nodiswai
  /\ c.tskwait = d.tskwait /\ c.wid = d.wid /\ c.winfo = d.winfo /\ c.wtmeb = d.wtmeb
  /\ c.klocked = d.klocked /\ c.klockwait = d.klockwait

AllAlike(k, k2) == \A u \in Task : Alike(k2.tcb[u], k.tcb[u])

SameContext(k, k2) == k2.ctxtsk = k.ctxtsk /\ k2.wq = k.wq /\ k2.obj = k.obj

\* The slice counter is read by time_slice_schedule only.
LEMMA SliceCounter ==
  ASSUME NEW c \in TCBType, NEW n \in Nat, NEW d, d = [c EXCEPT !.slicecnt = n]
  PROVE  /\ d \in TCBType
         /\ Alike(d, c)
<1>1. d \in TCBType
  BY DEF TCBType
<1>. QED
  BY <1>1 DEF TCBType, Alike

\* t is linked at the end of the queue of its priority.
Linked(k, k2, t) ==
  /\ k2.rq.tskque = [k.rq.tskque EXCEPT ![k.tcb[t].priority] = Append(@, t)]
  /\ k2.rq.top_priority = IF raises_top(k, t) THEN k.tcb[t].priority
                          ELSE k.rq.top_priority

\* ready_queue_insert links a READY task that is not linked.
LEMMA Insert ==
  ASSUME NEW k, NEW t \in Task, Queued(k, {t}), k.tcb[t].state = "READY",
         NEW k2, k2 = ready_queue_insert(k, t)
  PROVE  /\ Queued(k2, {})
         /\ AllAlike(k, k2)
         /\ SameContext(k, k2)
         /\ k2.schedtsk = k.schedtsk
         /\ Linked(k, k2, t)
<1>. DEFINE p == k.tcb[t].priority
            q == k.rq.tskque
<1>1. /\ IsKernel(k) /\ k.rq \in RQType /\ k.tcb[t] \in TCBType
      /\ p \in Pri /\ q \in [Pri -> Seq(Task)] /\ ~k.tcb[t].klocked
  BY DEF Queued, IsKernel, RQType, TCBType
<1>2. /\ k2.tcb = [k.tcb EXCEPT ![t].slicecnt = 0]
      /\ k2.rq.tskque = [q EXCEPT ![p] = Append(@, t)]
      /\ k2.rq.bitmap = k.rq.bitmap \cup {p}
      /\ k2.rq.klocktsk = k.rq.klocktsk
      /\ k2.rq.top_priority = IF p < k.rq.top_priority THEN p ELSE k.rq.top_priority
      /\ SameContext(k, k2) /\ k2.schedtsk = k.schedtsk
  BY <1>1 DEF ready_queue_insert, IsKernel, RQType, SameContext
<1>3. t \notin ToSet(q[p])
  BY <1>1 DEF Queued, ReadyAt
<1>p. p = k.tcb[t].priority /\ q = k.rq.tskque
  OBVIOUS
<1>. HIDE DEF p, q
<1>4. /\ Append(q[p], t) \in Queue
      /\ ToSet(Append(q[p], t)) = ToSet(q[p]) \cup {t}
      /\ Append(q[p], t) \in Seq(Task) /\ Append(q[p], t) # <<>>
  <2>1. q[p] \in Queue
    BY <1>1, <1>p DEF Queued
  <2>2. Append(q[p], t) \in Queue /\ ToSet(Append(q[p], t)) = ToSet(q[p]) \cup {t}
    BY <1>3, <2>1, QueueAppend
  <2>. QED
    BY <2>2, EmptyQueue DEF Queue
<1>5. ASSUME NEW u \in Task
      PROVE  /\ k2.tcb[u] \in TCBType
             /\ Alike(k2.tcb[u], k.tcb[u])
             /\ ~k2.tcb[u].klocked /\ ~k2.tcb[u].klockwait
  <2>1. /\ k.tcb \in [Task -> TCBType] /\ k.tcb[u] \in TCBType
        /\ ~k.tcb[u].klocked /\ ~k.tcb[u].klockwait
    BY DEF Queued, IsKernel
  <2>2. CASE u = t
    <3>1. k2.tcb[u] = [k.tcb[u] EXCEPT !.slicecnt = 0]
      BY <1>2, <2>1, <2>2
    <3>. QED
      BY <2>1, <3>1, SliceCounter DEF Alike
  <2>3. CASE u # t
    BY <1>2, <2>1, <2>3 DEF Alike
  <2>. QED
    BY <2>2, <2>3
<1>6. IsKernel(k2)
  <2>1. k2.tcb \in [Task -> TCBType]
    <3>1. k2.tcb = [u \in Task |-> k2.tcb[u]]
      BY <1>1, <1>2 DEF IsKernel
    <3>. QED
      BY <1>5, <3>1
  <2>2. k2.rq \in RQType
    <3>1. k2.rq = [k.rq EXCEPT !.tskque[p] = Append(@, t), !.bitmap = @ \cup {p},
                               !.klocktsk = k2.rq.klocktsk,
                               !.top_priority = k2.rq.top_priority]
      BY <1>1, <1>p, <1>2 DEF ready_queue_insert, IsKernel, RQType
    <3>2. p \in 0 .. NumPri
      BY <1>1, TaskAssumption DEF Pri
    <3>3. k2.rq.top_priority \in 0 .. NumPri
      BY <1>1, <1>2, <3>2 DEF RQType
    <3>4. k2.rq.tskque \in [Pri -> Seq(Task)]
      BY <1>1, <1>2, <1>4
    <3>5. /\ k2.rq.bitmap \in SUBSET Pri
          /\ k2.rq.klocktsk \in Task \cup {NoTask}
      BY <1>1, <1>2 DEF RQType
    <3>6. k2.rq = [top_priority |-> k2.rq.top_priority, tskque |-> k2.rq.tskque,
                   bitmap |-> k2.rq.bitmap, klocktsk |-> k2.rq.klocktsk]
      BY <1>1, <3>1 DEF RQType
    <3>. HIDE DEF RQType
    <3>. QED
      BY <3>3, <3>4, <3>5, <3>6 DEF RQType
  <2>3. k2 = [k EXCEPT !.tcb = k2.tcb, !.rq = k2.rq]
    BY <1>1 DEF ready_queue_insert, IsKernel
  <2>. QED
    BY <1>1, <2>1, <2>2, <2>3 DEF IsKernel
<1>7. ASSUME NEW r \in Pri
      PROVE  /\ k2.rq.tskque[r] \in Queue
             /\ ToSet(k2.rq.tskque[r]) = ReadyAt(k2, {}, r)
             /\ r # p => k2.rq.tskque[r] = q[r]
  <2>1. \A u \in Task : /\ k2.tcb[u].state = k.tcb[u].state
                       /\ k2.tcb[u].priority = k.tcb[u].priority
    BY <1>5 DEF Alike
  <2>2. q[r] \in Queue /\ ToSet(q[r]) = ReadyAt(k, {t}, r)
    BY <1>p DEF Queued
  <2>3. k2.rq.tskque[r] = IF r = p THEN Append(q[p], t) ELSE q[r]
    BY <1>1, <1>2
  <2>4. ReadyAt(k2, {}, r) = ReadyAt(k, {t}, r) \cup (IF r = p THEN {t} ELSE {})
    BY <1>p, <2>1 DEF ReadyAt
  <2>5. CASE r = p
    BY <1>4, <2>2, <2>3, <2>4, <2>5
  <2>6. CASE r # p
    BY <2>2, <2>3, <2>4, <2>6
  <2>. QED
    BY <2>5, <2>6
<1>8. k2.rq.bitmap = {r \in Pri : k2.rq.tskque[r] # <<>>}
  <2>1. k.rq.bitmap = {r \in Pri : q[r] # <<>>}
    BY <1>p DEF Queued
  <2>2. \A r \in Pri : k2.rq.tskque[r] # <<>> <=> r = p \/ q[r] # <<>>
    BY <1>1, <1>2, <1>4
  <2>. QED
    BY <1>1, <1>2, <2>1, <2>2
<1>9. /\ k2.rq.top_priority \in k2.rq.bitmap \cup {NumPri}
      /\ \A r \in k2.rq.bitmap : k2.rq.top_priority <= r
  BY <1>1, <1>2, TaskAssumption DEF Queued, RQType, Pri
<1>10. k2.rq.klocktsk = NoTask
  BY <1>2 DEF Queued
<1>11. Queued(k2, {})
  <2>1. WaitsLinked(k2)
    BY <1>2, <1>5 DEF Queued, WaitsLinked, SameContext, Alike, Queue, ToSet, IsKernel
  <2>. QED
    BY <1>5, <1>6, <1>7, <1>8, <1>9, <1>10, <2>1 DEF Queued
<1>. QED
  BY <1>2, <1>5, <1>11, <1>p DEF AllAlike, raises_top, Linked

-----------------------------------------------------------------------------
(* Removal from the ready queue.                                           *)

SameButQueues(k, k1) ==
  /\ k1.tcb = k.tcb /\ k1.schedtsk = k.schedtsk /\ SameContext(k, k1)
  /\ k1.rq.bitmap = k.rq.bitmap /\ k1.rq.klocktsk = k.rq.klocktsk
  /\ k1.rq.top_priority = k.rq.top_priority

\* In k1 the task t is no longer linked in the queue of priority r.
Unlinked(k, k1, t, r) ==
  /\ k1.rq.tskque[r] \in Queue
  /\ ToSet(k1.rq.tskque[r]) = ReadyAt(k, {t}, r)
  /\ k.tcb[t].state # "READY" \/ r # k.tcb[t].priority =>
       k1.rq.tskque[r] = k.rq.tskque[r]
  /\ k.rq.tskque[r] # <<>> /\ Head(k.rq.tskque[r]) # t =>
       /\ k1.rq.tskque[r] # <<>>
       /\ Head(k1.rq.tskque[r]) = Head(k.rq.tskque[r])

\* A READY task is in no queue of an object.
LEMMA ReadyUnqueued ==
  ASSUME NEW k, NEW X, Queued(k, X), NEW t \in Task, k.tcb[t].state = "READY"
  PROVE  Unqueued(k, t)
BY DEF Queued, WaitsLinked, Unqueued

\* The queues of objects stay, and no task in them becomes READY.
LEMMA LinksKept ==
  ASSUME NEW k, WaitsLinked(k), NEW k2, k2.wq = k.wq,
         \A u \in Task : k2.tcb[u].state = "READY" =>
                           k.tcb[u].state = "READY" \/ Unqueued(k, u)
  PROVE  WaitsLinked(k2)
<1>1. ASSUME NEW w \in WaitQueue, NEW u \in ToSet(k.wq[w]) PROVE k2.tcb[u].state # "READY"
  <2>1. u \in Task /\ k.tcb[u].state # "READY"
    BY QueueElements DEF WaitsLinked, Queue
  <2>. QED
    BY <2>1 DEF Unqueued
<1>. QED
  BY <1>1 DEF WaitsLinked

\* QueRemove takes the task out of the queue of its priority.
LEMMA Removal ==
  ASSUME NEW k, NEW t \in Task, Queued(k, {}), Unqueued(k, t), NEW k1, k1 = QueRemove(k, t)
  PROVE  /\ IsKernel(k1)
         /\ SameButQueues(k, k1)
         /\ \A r \in Pri : Unlinked(k, k1, t, r)
<1>. DEFINE q == k.rq.tskque
            q1 == [r \in Pri |-> QueueWithout(q[r], t)]
<1>1. /\ IsKernel(k) /\ k.rq \in RQType
      /\ \A r \in Pri : q[r] \in Queue /\ ToSet(q[r]) = ReadyAt(k, {}, r)
  BY DEF Queued, IsKernel
<1>2. \A r \in Pri : q1[r] \in Queue /\ ToSet(q1[r]) = ToSet(q[r]) \ {t}
                     /\ (t \notin ToSet(q[r]) => q1[r] = q[r])
  BY <1>1, QueueRemoval
<1>3. \A r \in Pri : q[r] # <<>> /\ Head(q[r]) # t =>
                       q1[r] # <<>> /\ Head(q1[r]) = Head(q[r])
  BY <1>1, HeadKept
<1>4. \A r \in Pri : ReadyAt(k, {t}, r) = ReadyAt(k, {}, r) \ {t}
  BY DEF ReadyAt
<1>5. \A r \in Pri : k.tcb[t].state # "READY" \/ r # k.tcb[t].priority =>
                       t \notin ReadyAt(k, {}, r)
  BY DEF ReadyAt
<1>6. k.wq = [w \in WaitQueue |-> QueueWithout(k.wq[w], t)]
  <2>1. k.wq \in [WaitQueue -> Seq(Task)]
    BY <1>1 DEF IsKernel
  <2>2. \A w \in WaitQueue : k.wq[w] \in Queue /\ t \notin ToSet(k.wq[w])
    BY DEF Queued, WaitsLinked, Unqueued
  <2>3. \A w \in WaitQueue : QueueWithout(k.wq[w], t) = k.wq[w]
    BY <2>2, QueueRemoval
  <2>. QED
    BY <2>1, <2>3
<1>7. k1 = [k EXCEPT !.rq.tskque = q1]
  BY <1>1, <1>6 DEF QueRemove, IsKernel, RQType
<1>8. q1 \in [Pri -> Seq(Task)]
  BY <1>2 DEF Queue
<1>. HIDE DEF q1
<1>9. k1.rq.tskque = q1 /\ IsKernel(k1)
  BY <1>1, <1>7, <1>8 DEF IsKernel, RQType
<1>12. /\ k1.tcb = k.tcb /\ k1.schedtsk = k.schedtsk /\ SameContext(k, k1)
       /\ k1.rq.bitmap = k.rq.bitmap /\ k1.rq.klocktsk = k.rq.klocktsk
       /\ k1.rq.top_priority = k.rq.top_priority
  BY <1>1, <1>7 DEF IsKernel, RQType, SameContext
<1>. HIDE DEF q
<1>10. q = k.rq.tskque
  BY DEF q
<1>11. \A r \in Pri :
         /\ q1[r] \in Queue
         /\ ToSet(q1[r]) = ReadyAt(k, {t}, r)
         /\ k.tcb[t].state # "READY" \/ r # k.tcb[t].priority => q1[r] = q[r]
  BY <1>1, <1>2, <1>4, <1>5
<1>. QED
  BY <1>3, <1>9, <1>10, <1>11, <1>12 DEF Unlinked, SameButQueues

\* ready_queue_delete unlinks a READY task.
LEMMA Delete ==
  ASSUME NEW k, NEW t \in Task, Queued(k, {}), k.tcb[t].state = "READY",
         NEW k2, k2 = ready_queue_delete(k, t)
  PROVE  /\ Queued(k2, {t})
         /\ k2.tcb = k.tcb
         /\ SameContext(k, k2)
         /\ k2.schedtsk = k.schedtsk
         /\ ready_queue_top(k) # t => ready_queue_top(k2) = ready_queue_top(k)
<1>. DEFINE p == k.tcb[t].priority
            k0 == QueRemove(k, t)
            q == k0.rq.tskque
            empty == q[p] = <<>>
            bm == IF empty THEN k.rq.bitmap \ {p} ELSE k.rq.bitmap
            top == IF empty /\ p = k.rq.top_priority
                   THEN first_priority(k.rq.bitmap \ {p}, p) ELSE k.rq.top_priority
<1>1. /\ IsKernel(k) /\ k.rq \in RQType /\ k.tcb[t] \in TCBType
      /\ p \in Pri /\ ~k.tcb[t].klockwait /\ k.rq.klocktsk = NoTask
      /\ k.rq.bitmap \in SUBSET Pri
  BY DEF Queued, IsKernel, RQType, TCBType
<1>. HIDE DEF k0
<1>0. k0 = QueRemove(k, t)
  BY DEF k0
<1>2. /\ IsKernel(k0)
      /\ k0.tcb = k.tcb /\ k0.schedtsk = k.schedtsk /\ SameContext(k, k0)
      /\ k0.rq.bitmap = k.rq.bitmap /\ k0.rq.klocktsk = k.rq.klocktsk
      /\ k0.rq.top_priority = k.rq.top_priority
      /\ \A r \in Pri :
           /\ q[r] \in Queue
           /\ ToSet(q[r]) = ReadyAt(k, {t}, r)
           /\ r # p => q[r] = k.rq.tskque[r]
           /\ k.rq.tskque[r] # <<>> /\ Head(k.rq.tskque[r]) # t =>
                q[r] # <<>> /\ Head(q[r]) = Head(k.rq.tskque[r])
  <2>0. Unqueued(k, t)
    BY ReadyUnqueued
  <2>1. IsKernel(k0) /\ SameButQueues(k, k0) /\ \A r \in Pri : Unlinked(k, k0, t, r)
    BY <1>0, <2>0, Removal, Zenon
  <2>. QED
    BY <2>1 DEF Unlinked, SameButQueues
<1>3. q \in [Pri -> Seq(Task)]
  BY <1>2 DEF IsKernel, RQType
<1>. HIDE DEF q
<1>4. k0.rq.tskque = q
  BY DEF q
<1>5. /\ k0.rq.bitmap = k.rq.bitmap /\ k0.rq.klocktsk = NoTask
      /\ k0.rq.top_priority = k.rq.top_priority /\ k0.tcb = k.tcb
  BY <1>1, <1>2 DEF IsKernel, RQType
<1>6. NoTask # t
  BY TaskAssumption
<1>7. k2 = [k0 EXCEPT !.rq.bitmap = bm, !.rq.top_priority = top]
  <2>. DEFINE k1 == [QueRemove(k, t) EXCEPT !.rq.klocktsk = IF @ = t THEN NoTask ELSE @]
  <2>1. k1 = k0
    BY <1>0, <1>2, <1>5, <1>6 DEF IsKernel, RQType
  <2>2. k2 = IF k1.rq.tskque[p] # <<>> THEN k1
             ELSE [k1 EXCEPT !.rq.bitmap = k1.rq.bitmap \ {p},
                             !.rq.top_priority =
                               IF p # @ THEN @
                               ELSE first_priority(k1.rq.bitmap \ {p}, p)]
    BY <1>1 DEF ready_queue_delete
  <2>. HIDE DEF k1
  <2>3. CASE empty
    BY <1>2, <1>4, <1>5, <2>1, <2>2, <2>3 DEF IsKernel, RQType
  <2>4. CASE ~empty
    <3>1. k2 = k0
      BY <1>4, <2>1, <2>2, <2>4
    <3>. QED
      BY <1>2, <1>5, <2>4, <3>1 DEF IsKernel, RQType
  <2>. QED
    BY <2>3, <2>4
<1>8. /\ k2.tcb = k.tcb /\ k2.schedtsk = k.schedtsk /\ SameContext(k, k2)
      /\ k2.rq = [top_priority |-> top, tskque |-> q, bitmap |-> bm, klocktsk |-> NoTask]
  <2>. HIDE DEF bm, top
  <2>1. k0.rq \in RQType
    BY <1>2 DEF IsKernel
  <2>2. k2.rq = [k0.rq EXCEPT !.bitmap = bm, !.top_priority = top]
    BY <1>2, <1>7 DEF IsKernel
  <2>3. /\ k2.tcb = k0.tcb /\ k2.schedtsk = k0.schedtsk
        /\ k2.ctxtsk = k0.ctxtsk /\ k2.wq = k0.wq /\ k2.obj = k0.obj
    BY <1>2, <1>7 DEF IsKernel
  <2>. QED
    BY <1>2, <1>4, <1>5, <2>1, <2>2, <2>3 DEF RQType, SameContext
<1>9. bm \in SUBSET Pri /\ top \in 0 .. NumPri
  <2>1. k.rq.bitmap \ {p} \in SUBSET Pri
    BY <1>1
  <2>2. first_priority(k.rq.bitmap \ {p}, p) \in 0 .. NumPri
    BY <1>1, <2>1, FirstPriority
  <2>. QED
    BY <1>1, <2>1, <2>2 DEF RQType
<1>10. IsKernel(k2)
  <2>1. k2.rq \in RQType
    BY <1>1, <1>3, <1>8, <1>9 DEF RQType
  <2>. HIDE DEF bm, top
  <2>2. k2 = [k0 EXCEPT !.rq = k2.rq]
    BY <1>2, <1>7 DEF IsKernel
  <2>. QED
    BY <1>2, <2>1, <2>2 DEF IsKernel
<1>11. bm = {r \in Pri : q[r] # <<>>}
  <2>1. \A r \in Pri : r \in k.rq.bitmap <=> k.rq.tskque[r] # <<>>
    BY DEF Queued
  <2>2. p \in k.rq.bitmap
    <3>1. t \in ReadyAt(k, {}, p)
      BY DEF ReadyAt
    <3>2. t \in ToSet(k.rq.tskque[p])
      BY <1>1, <3>1 DEF Queued
    <3>. QED
      BY <1>1, <2>1, <3>2, EmptyQueue
  <2>3. \A r \in Pri : r \in bm <=> q[r] # <<>>
    BY <1>2, <2>1, <2>2
  <2>. QED
    BY <1>9, <2>3
<1>12. top \in bm \cup {NumPri} /\ \A r \in bm : top <= r
  <2>1. /\ k.rq.top_priority \in k.rq.bitmap \cup {NumPri}
        /\ \A r \in k.rq.bitmap : k.rq.top_priority <= r
    BY DEF Queued
  <2>2. CASE empty /\ p = k.rq.top_priority
    <3>1. /\ top \in bm \cup {NumPri}
          /\ \A r \in bm : r >= p => top <= r
      BY <1>1, <1>9, <2>2, FirstPriority
    <3>2. \A r \in bm : r >= p
      BY <1>1, <2>1, <2>2 DEF Pri
    <3>. QED
      BY <3>1, <3>2
  <2>3. CASE ~(empty /\ p = k.rq.top_priority)
    BY <2>1, <2>3
  <2>. QED
    BY <2>2, <2>3
<1>13. Queued(k2, {t})
  <2>1. \A r \in Pri : ReadyAt(k2, {t}, r) = ReadyAt(k, {t}, r)
    BY <1>8 DEF ReadyAt
  <2>. HIDE DEF bm, top
  <2>2. /\ k2.rq.tskque = q /\ k2.rq.bitmap = bm /\ k2.rq.top_priority = top
        /\ k2.rq.klocktsk = NoTask
    BY <1>8
  <2>3. \A u \in Task : ~k2.tcb[u].klocked /\ ~k2.tcb[u].klockwait
    BY <1>8 DEF Queued
  <2>4. WaitsLinked(k2)
    BY <1>8 DEF Queued, WaitsLinked, SameContext
  <2>. QED
    BY <1>2, <1>10, <1>11, <1>12, <2>1, <2>2, <2>3, <2>4 DEF Queued
<1>14. ASSUME ready_queue_top(k) # t
       PROVE  ready_queue_top(k2) = ready_queue_top(k)
  <2>. DEFINE o == k.rq.top_priority
  <2>1. o \in k.rq.bitmap \cup {NumPri} /\ k.rq.klocktsk = NoTask
        /\ k.rq.bitmap = {r \in Pri : k.rq.tskque[r] # <<>>}
        /\ \A r \in k.rq.bitmap : o <= r
    BY DEF Queued
  <2>2. CASE o = NumPri
    <3>1. p \notin k.rq.bitmap
      BY <1>1, <2>1, <2>2, TaskAssumption DEF Pri
    <3>2. top = o
      BY <1>1, <2>2, TaskAssumption DEF Pri
    <3>. QED
      BY <1>8, <2>1, <2>2, <3>2 DEF ready_queue_top
  <2>3. CASE o # NumPri
    <3>1. o \in Pri /\ k.rq.tskque[o] # <<>> /\ ready_queue_top(k) = Head(k.rq.tskque[o])
      BY <2>1, <2>3 DEF ready_queue_top
    <3>2. q[o] # <<>> /\ Head(q[o]) = Head(k.rq.tskque[o])
      BY <1>2, <1>14, <3>1
    <3>3. top = o
      BY <3>2
    <3>. QED
      BY <1>8, <2>1, <2>3, <3>1, <3>2, <3>3 DEF ready_queue_top
  <2>. QED
    BY <2>2, <2>3
<1>. QED
  BY <1>8, <1>13, <1>14

-----------------------------------------------------------------------------
(* The queues are permuted; the caches stay as they are.                   *)

\* ready_queue_top is the READY task of the highest priority.
LEMMA Top ==
  ASSUME NEW k, Queued(k, {}), NEW t, t = ready_queue_top(k)
  PROVE  /\ t \in Task \cup {NoTask}
         /\ t # NoTask =>
              /\ k.tcb[t].state = "READY"
              /\ k.tcb[t].priority = k.rq.top_priority
              /\ k.rq.top_priority \in Pri
              /\ t = Head(k.rq.tskque[k.rq.top_priority])
              /\ \A u \in Task : k.tcb[u].state = "READY" =>
                                   k.tcb[t].priority <= k.tcb[u].priority
         /\ t = NoTask => \A u \in Task : k.tcb[u].state # "READY"
<1>. DEFINE p == k.rq.top_priority
            q == k.rq.tskque
<1>1. /\ IsKernel(k) /\ k.rq.klocktsk = NoTask
      /\ p \in k.rq.bitmap \cup {NumPri}
      /\ \A r \in k.rq.bitmap : p <= r
      /\ k.rq.bitmap = {r \in Pri : q[r] # <<>>}
      /\ \A r \in Pri : q[r] \in Queue /\ ToSet(q[r]) = ReadyAt(k, {}, r)
  BY DEF Queued
<1>2. ASSUME NEW u \in Task, k.tcb[u].state = "READY"
      PROVE  k.tcb[u].priority \in k.rq.bitmap
  <2>1. k.tcb[u].priority \in Pri
    BY <1>1 DEF IsKernel, TCBType
  <2>2. u \in ReadyAt(k, {}, k.tcb[u].priority)
    BY <1>2 DEF ReadyAt
  <2>. QED
    BY <1>1, <2>1, <2>2, EmptyQueue
<1>3. CASE p = NumPri
  <2>1. t = NoTask
    BY <1>1, <1>3 DEF ready_queue_top
  <2>2. \A r \in Pri : ~(NumPri <= r)
    BY TaskAssumption DEF Pri
  <2>. QED
    BY <1>1, <1>2, <1>3, <2>1, <2>2
<1>4. CASE p # NumPri
  <2>1. p \in Pri /\ q[p] # <<>> /\ t = Head(q[p])
    BY <1>1, <1>4 DEF ready_queue_top
  <2>2. t \in ToSet(q[p])
    BY <1>1, <2>1, QueueRotation
  <2>3. t \in Task /\ k.tcb[t].state = "READY" /\ k.tcb[t].priority = p
    BY <1>1, <2>1, <2>2 DEF ReadyAt
  <2>4. t # NoTask
    BY <2>3, TaskAssumption
  <2>. QED
    BY <1>1, <1>2, <2>1, <2>3, <2>4
<1>. QED
  BY <1>3, <1>4

\* A permutation of the queues leaves the ready queue right.
LEMMA Permuted ==
  ASSUME NEW k, Queued(k, {}), NEW k2, IsKernel(k2), AllAlike(k, k2), SameContext(k, k2),
         k2.rq.bitmap = k.rq.bitmap, k2.rq.klocktsk = k.rq.klocktsk,
         k2.rq.top_priority = k.rq.top_priority,
         \A r \in Pri : /\ k2.rq.tskque[r] \in Queue
                        /\ ToSet(k2.rq.tskque[r]) = ToSet(k.rq.tskque[r])
  PROVE  Queued(k2, {})
<1>1. \A r \in Pri : ReadyAt(k2, {}, r) = ReadyAt(k, {}, r)
  BY DEF AllAlike, Alike, ReadyAt
<1>2. \A r \in Pri : k2.rq.tskque[r] = <<>> <=> k.rq.tskque[r] = <<>>
  BY QueueElements DEF Queued, Queue
<1>3. \A u \in Task : ~k2.tcb[u].klocked /\ ~k2.tcb[u].klockwait
  BY DEF AllAlike, Alike, Queued
<1>4. WaitsLinked(k2)
  BY LinksKept DEF Queued, AllAlike, Alike, SameContext
<1>. QED
  BY <1>1, <1>2, <1>3, <1>4 DEF Queued

\* k2 is k with the queues permuted.
Moved(k, k2) ==
  Queued(k2, {}) /\ AllAlike(k, k2) /\ SameContext(k, k2) /\ k2.schedtsk = k.schedtsk

\* The slice counter of one task is set.
LEMMA SetCounter ==
  ASSUME NEW k, IsKernel(k), NEW t \in Task, NEW n \in Nat,
         NEW tc, tc = [k.tcb EXCEPT ![t].slicecnt = n]
  PROVE  /\ tc \in [Task -> TCBType]
         /\ \A u \in Task : Alike(tc[u], k.tcb[u])
<1>1. k.tcb \in [Task -> TCBType]
  BY DEF IsKernel
<1>2. tc[t] = [k.tcb[t] EXCEPT !.slicecnt = n] /\ k.tcb[t] \in TCBType
  BY <1>1
<1>3. tc[t] \in TCBType /\ Alike(tc[t], k.tcb[t])
  BY <1>2, SliceCounter
<1>4. ASSUME NEW u \in Task, u # t PROVE tc[u] \in TCBType /\ Alike(tc[u], k.tcb[u])
  BY <1>1, <1>4 DEF Alike
<1>5. tc = [u \in Task |-> tc[u]]
  BY <1>1
<1>. QED
  BY <1>3, <1>4, <1>5

\* ready_queue_move_last puts a READY task at the end of its queue.
LEMMA MoveLast ==
  ASSUME NEW k, NEW t \in Task, Queued(k, {}), k.tcb[t].state = "READY",
         NEW k2, k2 = ready_queue_move_last(k, t)
  PROVE  /\ Moved(k, k2)
         /\ k2.rq.top_priority = k.rq.top_priority
         /\ ready_queue_top(k) # t => ready_queue_top(k2) = ready_queue_top(k)
<1>. DEFINE p == k.tcb[t].priority
            k1 == QueRemove(k, t)
<1>1. IsKernel(k) /\ p \in Pri
  BY DEF Queued, IsKernel, TCBType
<1>. HIDE DEF k1
<1>2. k1 = QueRemove(k, t)
  BY DEF k1
<1>3. IsKernel(k1) /\ SameButQueues(k, k1) /\ \A r \in Pri : Unlinked(k, k1, t, r)
  <2>1. Unqueued(k, t)
    BY ReadyUnqueued
  <2>. QED
    BY <1>2, <2>1, Removal, Zenon
<1>. DEFINE q == k1.rq.tskque
            tc == [k.tcb EXCEPT ![t].slicecnt = 0]
<1>4. /\ q \in [Pri -> Seq(Task)] /\ k1.rq \in RQType /\ k1.tcb = k.tcb
  BY <1>3 DEF IsKernel, RQType, SameButQueues
<1>5. k2 = [k1 EXCEPT !.rq.tskque[p] = Append(q[p], t), !.tcb[t].slicecnt = 0]
  BY <1>2 DEF ready_queue_move_last
<1>6. Append(q[p], t) \in Seq(Task)
  BY <1>1, <1>4
<1>7. tc \in [Task -> TCBType] /\ \A u \in Task : Alike(tc[u], k.tcb[u])
  BY <1>1, SetCounter
<1>8. k2.tcb = tc
  BY <1>3, <1>4, <1>5 DEF IsKernel
<1>9. k2.rq = [k1.rq EXCEPT !.tskque = [q EXCEPT ![p] = Append(q[p], t)]]
  BY <1>1, <1>3, <1>4, <1>5 DEF IsKernel, RQType
<1>. HIDE DEF tc
<1>10. k2.rq \in RQType
  <2>. DEFINE q2 == [q EXCEPT ![p] = Append(q[p], t)]
  <2>1. q2 \in [Pri -> Seq(Task)]
    BY <1>1, <1>4, <1>6
  <2>2. k2.rq = [k1.rq EXCEPT !.tskque = q2]
    BY <1>9
  <2>. HIDE DEF q2
  <2>. QED
    BY <1>4, <2>1, <2>2 DEF RQType
<1>11. k2 = [k1 EXCEPT !.rq = k2.rq, !.tcb = k2.tcb]
  BY <1>3, <1>5 DEF IsKernel
<1>12. IsKernel(k2) /\ k2.schedtsk = k1.schedtsk /\ SameContext(k1, k2)
  BY <1>3, <1>7, <1>8, <1>10, <1>11 DEF IsKernel, SameContext
<1>13. /\ k2.rq.bitmap = k.rq.bitmap /\ k2.rq.klocktsk = k.rq.klocktsk
       /\ k2.rq.top_priority = k.rq.top_priority
       /\ k2.rq.tskque = [q EXCEPT ![p] = Append(q[p], t)]
  BY <1>3, <1>4, <1>9 DEF RQType, SameButQueues
<1>14. AllAlike(k, k2)
  BY <1>7, <1>8 DEF AllAlike
<1>15. \A r \in Pri : q[r] \in Queue /\ ToSet(q[r]) = ReadyAt(k, {t}, r)
                      /\ ToSet(k.rq.tskque[r]) = ReadyAt(k, {}, r)
  BY <1>3 DEF Unlinked, Queued
<1>16. ASSUME NEW r \in Pri
       PROVE  /\ k2.rq.tskque[r] \in Queue
              /\ ToSet(k2.rq.tskque[r]) = ToSet(k.rq.tskque[r])
  <2>1. CASE r = p
    <3>1. t \notin ToSet(q[r])
      BY <1>15 DEF ReadyAt
    <3>2. Append(q[r], t) \in Queue /\ ToSet(Append(q[r], t)) = ToSet(q[r]) \cup {t}
      BY <1>15, <3>1, QueueAppend
    <3>3. ReadyAt(k, {}, p) = ReadyAt(k, {t}, p) \cup {t}
      BY DEF ReadyAt
    <3>4. k2.rq.tskque[r] = Append(q[r], t)
      BY <1>4, <1>13, <2>1
    <3>. QED
      BY <1>15, <2>1, <3>2, <3>3, <3>4
  <2>2. CASE r # p
    <3>1. ReadyAt(k, {}, r) = ReadyAt(k, {t}, r)
      BY <2>2 DEF ReadyAt
    <3>2. k2.rq.tskque[r] = q[r]
      BY <1>4, <1>13, <2>2
    <3>. QED
      BY <1>15, <3>1, <3>2
  <2>. QED
    BY <2>1, <2>2
<1>17. Moved(k, k2)
  <2>1. SameContext(k, k2)
    BY <1>3, <1>12 DEF SameButQueues, SameContext
  <2>2. Queued(k2, {})
    BY <1>12, <1>13, <1>14, <1>16, <2>1, Permuted
  <2>. QED
    BY <1>3, <1>12, <1>14, <2>1, <2>2 DEF Moved, SameButQueues
<1>18. ASSUME ready_queue_top(k) # t
       PROVE  ready_queue_top(k2) = ready_queue_top(k)
  <2>. DEFINE o == k.rq.top_priority
  <2>1. /\ k.rq.klocktsk = NoTask /\ k2.rq.klocktsk = NoTask
        /\ o \in k.rq.bitmap \cup {NumPri}
        /\ k.rq.bitmap = {r \in Pri : k.rq.tskque[r] # <<>>}
    BY <1>13 DEF Queued
  <2>2. CASE o = NumPri
    BY <1>13, <2>1, <2>2 DEF ready_queue_top
  <2>3. CASE o # NumPri
    <3>1. o \in Pri /\ k.rq.tskque[o] # <<>> /\ ready_queue_top(k) = Head(k.rq.tskque[o])
      BY <2>1, <2>3 DEF ready_queue_top
    <3>2. q[o] # <<>> /\ Head(q[o]) = Head(k.rq.tskque[o])
      BY <1>3, <1>18, <3>1 DEF Unlinked
    <3>3. Head(k2.rq.tskque[o]) = Head(q[o])
      BY <1>4, <1>13, <3>1, <3>2, AppendHead
    <3>. QED
      BY <1>13, <2>1, <2>3, <3>1, <3>2, <3>3 DEF ready_queue_top
  <2>. QED
    BY <2>2, <2>3
<1>. QED
  BY <1>13, <1>17, <1>18

\* The slice counter of a task decides nothing but its next time slice.
LEMMA Counted ==
  ASSUME NEW k, Queued(k, {}), NEW t \in Task, NEW n \in Nat,
         NEW k2, k2 = [k EXCEPT !.tcb[t].slicecnt = n]
  PROVE  Moved(k, k2) /\ k2.rq = k.rq
<1>. DEFINE tc == [k.tcb EXCEPT ![t].slicecnt = n]
<1>1. IsKernel(k)
  BY DEF Queued
<1>2. tc \in [Task -> TCBType] /\ \A u \in Task : Alike(tc[u], k.tcb[u])
  BY <1>1, SetCounter
<1>3. k2 = [k EXCEPT !.tcb = tc]
  BY <1>1 DEF IsKernel
<1>. HIDE DEF tc
<1>4. /\ IsKernel(k2) /\ k2.tcb = tc /\ k2.rq = k.rq
      /\ k2.schedtsk = k.schedtsk /\ SameContext(k, k2)
  BY <1>1, <1>2, <1>3 DEF IsKernel, SameContext
<1>5. AllAlike(k, k2)
  BY <1>2, <1>4 DEF AllAlike
<1>6. \A r \in Pri : k2.rq.tskque[r] \in Queue
  BY <1>4 DEF Queued
<1>7. Queued(k2, {})
  BY <1>4, <1>5, <1>6, Permuted
<1>. QED
  BY <1>4, <1>5, <1>7 DEF Moved

\* time_slice_schedule charges a READY task.
LEMMA TimeSlice ==
  ASSUME NEW k, Queued(k, {}), NEW t \in Task \cup {NoTask},
         t # NoTask => k.tcb[t].state = "READY",
         NEW k2, k2 = time_slice_schedule(k, t)
  PROVE  /\ Moved(k, k2)
         /\ k2.rq.top_priority = k.rq.top_priority
         /\ ready_queue_top(k) # t => ready_queue_top(k2) = ready_queue_top(k)
         /\ \/ ready_queue_top(k2) = ready_queue_top(k)
            \/ /\ t # NoTask
               /\ k.tcb[t].slicetime > 0
               /\ k.tcb[t].slicecnt + 1 > k.tcb[t].slicetime
<1>1. CASE k2 = k
  BY <1>1 DEF Moved, AllAlike, Alike, SameContext
<1>2. CASE t # NoTask /\ k.tcb[t].slicetime # 0
  <2>1. t \in Task /\ k.tcb[t] \in TCBType
    BY <1>2 DEF Queued, IsKernel
  <2>2. k.tcb[t].slicecnt \in Nat /\ k.tcb[t].slicetime \in Nat
    BY <2>1 DEF TCBType
  <2>3. CASE k.tcb[t].slicecnt + 1 > k.tcb[t].slicetime
    <3>1. k2 = ready_queue_move_last(k, t)
      BY <1>2, <2>3 DEF time_slice_schedule
    <3>. QED
      BY <1>2, <2>1, <2>2, <2>3, <3>1, MoveLast
  <2>4. CASE ~(k.tcb[t].slicecnt + 1 > k.tcb[t].slicetime)
    <3>. DEFINE n == k.tcb[t].slicecnt + 1
    <3>1. k2 = [k EXCEPT !.tcb[t].slicecnt = n]
      BY <1>2, <2>1, <2>4 DEF time_slice_schedule, Queued, IsKernel
    <3>2. n \in Nat
      BY <2>2
    <3>. HIDE DEF n
    <3>3. Moved(k, k2) /\ k2.rq = k.rq
      BY <2>1, <3>1, <3>2, Counted
    <3>. QED
      BY <3>3 DEF ready_queue_top
  <2>. QED
    BY <2>3, <2>4
<1>. QED
  BY <1>1, <1>2 DEF time_slice_schedule

\* ready_queue_rotate puts the first task of a queue at its end.
LEMMA Rotate ==
  ASSUME NEW k, Queued(k, {}), NEW p \in Pri, NEW k2, k2 = ready_queue_rotate(k, p)
  PROVE  Moved(k, k2)
<1>. DEFINE q == k.rq.tskque[p]
            h == Head(q)
            q2 == [k.rq.tskque EXCEPT ![p] = Append(Tail(q), h)]
            tc == [k.tcb EXCEPT ![h].slicecnt = 0]
<1>1. CASE q = <<>>
  BY <1>1 DEF ready_queue_rotate, Moved, AllAlike, Alike, SameContext
<1>2. CASE q # <<>>
  <2>1. /\ IsKernel(k) /\ k.rq \in RQType /\ k.rq.tskque \in [Pri -> Seq(Task)]
        /\ q \in Queue
    BY DEF Queued, IsKernel, RQType
  <2>2. /\ h \in ToSet(q) /\ Append(Tail(q), h) \in Queue
        /\ ToSet(Append(Tail(q), h)) = ToSet(q)
    BY <1>2, <2>1, QueueRotation
  <2>3. h \in Task
    BY <2>1, <2>2, QueueElements DEF Queue
  <2>4. tc \in [Task -> TCBType] /\ \A u \in Task : Alike(tc[u], k.tcb[u])
    BY <2>1, <2>3, SetCounter
  <2>5. q2 \in [Pri -> Seq(Task)]
    BY <2>1, <2>2 DEF Queue
  <2>6. k2 = [k EXCEPT !.rq.tskque = q2, !.tcb = tc]
    BY <1>2, <2>1 DEF ready_queue_rotate, IsKernel, RQType
  <2>7. \A r \in Pri : q2[r] \in Queue /\ ToSet(q2[r]) = ToSet(k.rq.tskque[r])
    BY <2>1, <2>2 DEF Queued
  <2>. HIDE DEF tc, q2, q
  <2>8. /\ IsKernel(k2) /\ k2.tcb = tc /\ k2.schedtsk = k.schedtsk
        /\ SameContext(k, k2) /\ k2.rq.tskque = q2
        /\ k2.rq.bitmap = k.rq.bitmap /\ k2.rq.klocktsk = k.rq.klocktsk
        /\ k2.rq.top_priority = k.rq.top_priority
    BY <2>1, <2>4, <2>5, <2>6 DEF IsKernel, RQType, SameContext
  <2>9. AllAlike(k, k2)
    BY <2>4, <2>8 DEF AllAlike
  <2>10. Queued(k2, {})
    BY <2>7, <2>8, <2>9, Permuted
  <2>. QED
    BY <2>8, <2>9, <2>10 DEF Moved
<1>. QED
  BY <1>1, <1>2

-----------------------------------------------------------------------------
(* The kernel state between two critical sections.                         *)

KInv(k) == Queued(k, {}) /\ k.schedtsk = ready_queue_top(k)

\* Only schedtsk is set.
LEMMA Selected ==
  ASSUME NEW k, Queued(k, {}), NEW s \in Task \cup {NoTask},
         NEW k2, k2 = [k EXCEPT !.schedtsk = s]
  PROVE  /\ Queued(k2, {}) /\ AllAlike(k, k2) /\ SameContext(k, k2)
         /\ k2.schedtsk = s /\ ready_queue_top(k2) = ready_queue_top(k)
<1>1. IsKernel(k)
  BY DEF Queued
<1>2. /\ IsKernel(k2) /\ k2.tcb = k.tcb /\ k2.rq = k.rq
      /\ k2.schedtsk = s /\ SameContext(k, k2)
  BY <1>1 DEF IsKernel, SameContext
<1>3. AllAlike(k, k2)
  BY <1>2 DEF AllAlike, Alike
<1>4. \A r \in Pri : k2.rq.tskque[r] \in Queue
  BY <1>2 DEF Queued
<1>5. Queued(k2, {})
  BY <1>2, <1>3, <1>4, Permuted
<1>. QED
  BY <1>2, <1>3, <1>5 DEF ready_queue_top

\* Two critical sections that change no TCB in a row.
LEMMA AlikeTransitive ==
  ASSUME NEW k, NEW k1, NEW k2, AllAlike(k, k1), AllAlike(k1, k2),
         SameContext(k, k1), SameContext(k1, k2)
  PROVE  AllAlike(k, k2) /\ SameContext(k, k2)
BY DEF AllAlike, Alike, SameContext

\* reschedule makes schedtsk the top of the ready queue.
LEMMA Reschedule ==
  ASSUME NEW k, Queued(k, {}),
         k.schedtsk # NoTask => k.tcb[k.schedtsk].state = "READY",
         NEW k2, k2 = reschedule(k)
  PROVE  KInv(k2) /\ AllAlike(k, k2) /\ SameContext(k, k2)
<1>. DEFINE top == ready_queue_top(k)
            k1 == charge_preempted(k)
<1>1. CASE k.schedtsk = top
  BY <1>1 DEF reschedule, KInv, AllAlike, Alike, SameContext
<1>2. CASE k.schedtsk # top
  <2>1. k2 = [k1 EXCEPT !.schedtsk = top]
    BY <1>2 DEF reschedule
  <2>2. top \in Task \cup {NoTask}
    BY Top
  <2>3. k.schedtsk \in Task \cup {NoTask}
    BY DEF Queued, IsKernel
  <2>4. Moved(k, k1) /\ ready_queue_top(k1) = top
    <3>1. CASE k.schedtsk = k.ctxtsk
      <4>1. k1 = time_slice_schedule(k, k.schedtsk)
        BY <3>1 DEF charge_preempted
      <4>. QED
        BY <1>2, <2>3, <4>1, TimeSlice
    <3>2. CASE k.schedtsk # k.ctxtsk
      <4>1. k1 = k
        BY <3>2 DEF charge_preempted
      <4>. QED
        BY <4>1 DEF Moved, AllAlike, Alike, SameContext
    <3>. QED
      BY <3>1, <3>2
  <2>. HIDE DEF k1, top
  <2>5. /\ Queued(k2, {}) /\ AllAlike(k1, k2) /\ SameContext(k1, k2)
        /\ k2.schedtsk = top /\ ready_queue_top(k2) = top
    BY <2>1, <2>2, <2>4, Selected DEF Moved
  <2>. QED
    BY <2>4, <2>5, AlikeTransitive DEF KInv, Moved
<1>. QED
  BY <1>1, <1>2

-----------------------------------------------------------------------------
(* One TCB is set.                                                         *)

\* From k to k2 the TCB of t becomes c, but for the slice counters.
Effect(k, k2, t, c) ==
  /\ \A u \in Task : Alike(k2.tcb[u], IF u = t THEN c ELSE k.tcb[u])
  /\ SameContext(k, k2)

\* A change of one TCB followed by changes of slice counters only.
LEMMA EffectThenAlike ==
  ASSUME NEW k, NEW k1, NEW k2, NEW t, NEW c,
         Effect(k, k1, t, c), AllAlike(k1, k2), SameContext(k1, k2)
  PROVE  Effect(k, k2, t, c)
BY DEF Effect, AllAlike, Alike, SameContext

\* The TCB c may replace that of t, t being linked as its state says but for
\* the tasks in X before and in Y afterwards.
Settable(k, X, Y, t, c) ==
  /\ X \subseteq {t} /\ Y \subseteq {t}
  /\ c.state = "READY" => k.tcb[t].state = "READY" \/ Unqueued(k, t)
  /\ c \in TCBType /\ ~c.klocked /\ ~c.klockwait
  /\ (t \notin X /\ k.tcb[t].state = "READY") <=> (t \notin Y /\ c.state = "READY")
  /\ t \notin Y /\ c.state = "READY" => c.priority = k.tcb[t].priority

SetTo(k, k2, t, c) ==
  /\ k2.tcb = [k.tcb EXCEPT ![t] = c]
  /\ k2.schedtsk = k.schedtsk /\ k2.rq = k.rq
  /\ ready_queue_top(k2) = ready_queue_top(k)

\* Writing one TCB keeps the ready queue right, if the links agree with it.
LEMMA SetTask ==
  ASSUME NEW k, NEW t \in Task, NEW X, NEW Y, NEW c, Queued(k, X),
         Settable(k, X, Y, t, c), NEW k2, k2 = [k EXCEPT !.tcb[t] = c]
  PROVE  Queued(k2, Y) /\ Effect(k, k2, t, c) /\ SetTo(k, k2, t, c)
<1>1. IsKernel(k) /\ k.tcb \in [Task -> TCBType]
  BY DEF Queued, IsKernel
<1>2. /\ IsKernel(k2) /\ k2.tcb = [k.tcb EXCEPT ![t] = c] /\ k2.rq = k.rq
      /\ k2.schedtsk = k.schedtsk /\ SameContext(k, k2)
  BY <1>1 DEF IsKernel, SameContext, Settable
<1>3. \A u \in Task : k2.tcb[u] = IF u = t THEN c ELSE k.tcb[u]
  BY <1>1, <1>2
<1>4. Effect(k, k2, t, c)
  BY <1>2, <1>3 DEF Effect, Alike
<1>5. ASSUME NEW r \in Pri PROVE ReadyAt(k2, Y, r) = ReadyAt(k, X, r)
  <2>1. \A u \in Task : u \in ReadyAt(k2, Y, r) <=> u \in ReadyAt(k, X, r)
    BY <1>3 DEF ReadyAt, Settable
  <2>. QED
    BY <2>1 DEF ReadyAt
<1>6. \A u \in Task : ~k2.tcb[u].klocked /\ ~k2.tcb[u].klockwait
  BY <1>3 DEF Queued, Settable
<1>7. WaitsLinked(k2)
  <2>1. \A u \in Task : k2.tcb[u].state = "READY" =>
                          k.tcb[u].state = "READY" \/ Unqueued(k, u)
    BY <1>3 DEF Settable
  <2>2. WaitsLinked(k) /\ k2.wq = k.wq
    BY <1>2 DEF Queued, SameContext
  <2>. QED
    BY <2>1, <2>2, LinksKept
<1>8. Queued(k2, Y)
  BY <1>2, <1>5, <1>6, <1>7 DEF Queued
<1>. QED
  BY <1>2, <1>4, <1>8 DEF ready_queue_top, SetTo

\* The same, of a TCB whose state and priority stay as they are or are not READY.
LEMMA SetData ==
  ASSUME NEW k, KInv(k), NEW t \in Task, NEW c \in TCBType, ~c.klocked, ~c.klockwait,
         k.tcb[t].state = "READY" <=> c.state = "READY",
         c.state = "READY" => c.priority = k.tcb[t].priority,
         NEW k2, k2 = [k EXCEPT !.tcb[t] = c]
  PROVE  KInv(k2) /\ Effect(k, k2, t, c)
<1>1. Queued(k, {}) /\ Settable(k, {}, {}, t, c)
  BY DEF KInv, Settable
<1>2. Queued(k2, {}) /\ Effect(k, k2, t, c) /\ SetTo(k, k2, t, c)
  BY <1>1, SetTask
<1>. QED
  BY <1>2 DEF KInv, SetTo

\* k1 is k with t, which was not READY, linked as the last READY task of its priority.
ReadyLast(k, k1, t) ==
  LET p == k.tcb[t].priority IN
  /\ Queued(k1, {}) /\ Effect(k, k1, t, [k.tcb[t] EXCEPT !.state = "READY"])
  /\ k1.schedtsk = k.schedtsk
  /\ k1.rq.tskque = [k.rq.tskque EXCEPT ![p] = Append(@, t)]
  /\ k1.rq.top_priority = IF p < k.rq.top_priority THEN p ELSE k.rq.top_priority

\* The first half of make_ready.
LEMMA ReadyInserted ==
  ASSUME NEW k, KInv(k), NEW t \in Task, k.tcb[t].state # "READY", Unqueued(k, t),
         NEW k1, k1 = ready_queue_insert([k EXCEPT !.tcb[t].state = "READY"], t)
  PROVE  ReadyLast(k, k1, t)
<1>. DEFINE c == [k.tcb[t] EXCEPT !.state = "READY"]
            k0 == [k EXCEPT !.tcb[t] = c]
            p == k.tcb[t].priority
            o == k.rq.top_priority
<1>1. /\ Queued(k, {}) /\ IsKernel(k) /\ k.tcb[t] \in TCBType
  BY DEF KInv, Queued, IsKernel
<1>2. c \in TCBType /\ c.state = "READY" /\ c.priority = p /\ ~c.klocked /\ ~c.klockwait
  BY <1>1 DEF TCBType, TState, Queued
<1>3. k0 = [k EXCEPT !.tcb[t].state = "READY"]
  BY <1>1 DEF IsKernel
<1>4. k1 = ready_queue_insert(k0, t)
  BY <1>3
<1>. HIDE DEF c, k0, p, o
<1>5. /\ Queued(k0, {t}) /\ Effect(k, k0, t, c) /\ k0.schedtsk = k.schedtsk
      /\ k0.rq = k.rq /\ k0.tcb = [k.tcb EXCEPT ![t] = c]
  <2>1. Settable(k, {}, {t}, t, c)
    BY <1>2 DEF Settable
  <2>2. k0 = [k EXCEPT !.tcb[t] = c]
    BY DEF k0
  <2>3. Queued(k0, {t}) /\ Effect(k, k0, t, c) /\ SetTo(k, k0, t, c)
    BY <1>1, <2>1, <2>2, SetTask
  <2>. QED
    BY <2>3 DEF SetTo
<1>6. k0.tcb[t] = c
  BY <1>1, <1>5 DEF IsKernel
<1>7. /\ Queued(k1, {}) /\ AllAlike(k0, k1) /\ SameContext(k0, k1)
      /\ k1.schedtsk = k.schedtsk
      /\ k1.rq.tskque = [k.rq.tskque EXCEPT ![p] = Append(@, t)]
      /\ k1.rq.top_priority = IF p < o THEN p ELSE o
  <2>1. k0.tcb[t].state = "READY"
    BY <1>2, <1>6
  <2>2. /\ Queued(k1, {}) /\ AllAlike(k0, k1) /\ SameContext(k0, k1)
        /\ k1.schedtsk = k0.schedtsk /\ Linked(k0, k1, t)
    BY <1>5, <1>4, <2>1, Insert
  <2>. QED
    BY <1>2, <1>5, <1>6, <2>2 DEF raises_top, o, Linked
<1>8. Effect(k, k1, t, c)
  BY <1>5, <1>7, EffectThenAlike
<1>. QED
  BY <1>7, <1>8 DEF ReadyLast, c, p, o

\* make_ready: a task that is not READY becomes so.
LEMMA MakeReady ==
  ASSUME NEW k, KInv(k), NEW t \in Task, k.tcb[t].state # "READY", Unqueued(k, t),
         NEW k2, k2 = make_ready(k, t)
  PROVE  KInv(k2) /\ Effect(k, k2, t, [k.tcb[t] EXCEPT !.state = "READY"])
<1>. DEFINE c == [k.tcb[t] EXCEPT !.state = "READY"]
            k1 == ready_queue_insert([k EXCEPT !.tcb[t].state = "READY"], t)
            p == k.tcb[t].priority
            o == k.rq.top_priority
<1>1. /\ Queued(k, {}) /\ k.schedtsk = ready_queue_top(k) /\ IsKernel(k)
      /\ k.tcb[t] \in TCBType /\ p \in Pri
      /\ k.rq.tskque \in [Pri -> Seq(Task)] /\ k.rq.klocktsk = NoTask
      /\ o \in k.rq.bitmap \cup {NumPri}
      /\ k.rq.bitmap = {r \in Pri : k.rq.tskque[r] # <<>>}
      /\ \A r \in k.rq.bitmap : o <= r
  BY DEF KInv, Queued, IsKernel, TCBType, RQType
<1>2. k2 = IF p < o THEN [charge_preempted(k1) EXCEPT !.schedtsk = t] ELSE k1
  BY DEF make_ready, raises_top
<1>3. ReadyLast(k, k1, t)
  BY ReadyInserted
<1>. HIDE DEF c, k1, p, o
<1>4. /\ Queued(k1, {}) /\ k1.schedtsk = k.schedtsk
      /\ k1.rq.tskque = [k.rq.tskque EXCEPT ![p] = Append(@, t)]
      /\ k1.rq.top_priority = IF p < o THEN p ELSE o
  BY <1>3 DEF ReadyLast, p, o
<1>5. Effect(k, k1, t, c)
  BY <1>3 DEF ReadyLast, c
<1>6. k1.rq.klocktsk = NoTask
  BY <1>4 DEF Queued
<1>7. CASE p < o
  <2>1. k.rq.tskque[p] = <<>> /\ p # NumPri
    <3>1. NumPri \in Nat /\ p \in Int /\ p < NumPri /\ o \in Int
      BY <1>1, TaskAssumption DEF Pri
    <3>2. p \notin k.rq.bitmap
      BY <1>1, <1>7, <3>1
    <3>. QED
      BY <1>1, <3>1, <3>2
  <2>2. ready_queue_top(k1) = t
    <3>1. k1.rq.tskque[p] = Append(k.rq.tskque[p], t)
      BY <1>1, <1>4
    <3>2. Head(k1.rq.tskque[p]) = t
      BY <1>1, <2>1, <3>1, AppendHead
    <3>. QED
      BY <1>4, <1>6, <1>7, <2>1, <3>2 DEF ready_queue_top
  <2>3. /\ k1.schedtsk \in Task \cup {NoTask} /\ k1.schedtsk # t
        /\ k1.schedtsk # NoTask => k1.tcb[k1.schedtsk].state = "READY"
    <3>1. k.schedtsk # NoTask => k.tcb[k.schedtsk].state = "READY"
      BY <1>1, Top
    <3>2. k.schedtsk \in Task \cup {NoTask}
      BY <1>1, Top
    <3>. QED
      BY <1>4, <1>5, <3>1, <3>2, TaskAssumption DEF Effect, Alike
  <2>. DEFINE k3 == charge_preempted(k1)
  <2>4. Moved(k1, k3) /\ ready_queue_top(k3) = t
    <3>1. CASE k1.schedtsk = k1.ctxtsk
      <4>1. k3 = time_slice_schedule(k1, k1.schedtsk)
        BY <3>1 DEF charge_preempted
      <4>. QED
        BY <1>4, <2>2, <2>3, <4>1, TimeSlice
    <3>2. CASE k1.schedtsk # k1.ctxtsk
      <4>1. k3 = k1
        BY <3>2 DEF charge_preempted
      <4>. QED
        BY <1>4, <2>2, <4>1 DEF Moved, AllAlike, Alike, SameContext
    <3>. QED
      BY <3>1, <3>2
  <2>5. k2 = [k3 EXCEPT !.schedtsk = t]
    BY <1>2, <1>7
  <2>. HIDE DEF k3
  <2>6. /\ Queued(k2, {}) /\ AllAlike(k3, k2) /\ SameContext(k3, k2)
        /\ k2.schedtsk = t /\ ready_queue_top(k2) = t
    BY <2>4, <2>5, Selected DEF Moved
  <2>7. Effect(k, k2, t, c)
    BY <1>5, <2>4, <2>6, EffectThenAlike DEF Moved
  <2>. QED
    BY <2>6, <2>7 DEF KInv, c
<1>8. CASE ~(p < o)
  <2>1. o # NumPri /\ o \in Pri /\ k.rq.tskque[o] # <<>>
    <3>1. p \in 0 .. (NumPri - 1) /\ NumPri \in Nat
      BY <1>1, TaskAssumption DEF Pri
    <3>2. o # NumPri
      BY <1>8, <3>1
    <3>. QED
      BY <1>1, <3>2
  <2>2. k1.rq.tskque[o] = IF o = p THEN Append(k.rq.tskque[o], t) ELSE k.rq.tskque[o]
    BY <1>1, <1>4, <2>1
  <2>3. Head(k1.rq.tskque[o]) = Head(k.rq.tskque[o])
    BY <1>1, <2>1, <2>2, AppendHead
  <2>4. ready_queue_top(k) = Head(k.rq.tskque[o])
    BY <1>1, <2>1 DEF ready_queue_top, o
  <2>5. ready_queue_top(k1) = Head(k1.rq.tskque[o])
    BY <1>4, <1>6, <1>8, <2>1 DEF ready_queue_top
  <2>. QED
    BY <1>1, <1>4, <1>2, <1>5, <1>8, <2>3, <2>4, <2>5 DEF KInv, c
<1>. QED
  BY <1>7, <1>8 DEF c

\* make_non_ready: t is unlinked, and schedtsk selected among the others.
LEMMA MakeNonReady ==
  ASSUME NEW k, KInv(k), NEW t \in Task, k.tcb[t].state = "READY",
         NEW k2, k2 = make_non_ready(k, t)
  PROVE  /\ Queued(k2, {t}) /\ k2.tcb = k.tcb /\ SameContext(k, k2)
         /\ k2.schedtsk = ready_queue_top(k2)
<1>. DEFINE k1 == ready_queue_delete(k, t)
            s == ready_queue_top(k1)
<1>1. Queued(k, {}) /\ k.schedtsk = ready_queue_top(k)
  BY DEF KInv
<1>2. k2 = IF k1.schedtsk = t THEN [k1 EXCEPT !.schedtsk = s] ELSE k1
  BY DEF make_non_ready
<1>3. k1 = ready_queue_delete(k, t)
  OBVIOUS
<1>. HIDE DEF k1
<1>4. /\ Queued(k1, {t}) /\ k1.tcb = k.tcb /\ SameContext(k, k1)
      /\ k1.schedtsk = k.schedtsk
      /\ ready_queue_top(k) # t => ready_queue_top(k1) = ready_queue_top(k)
  BY <1>1, <1>3, Delete
<1>5. CASE k1.schedtsk # t
  BY <1>1, <1>2, <1>4, <1>5
<1>6. CASE k1.schedtsk = t
  <2>1. s \in Task \cup {NoTask}
    <3>1. /\ k1.rq.klocktsk = NoTask
          /\ k1.rq.top_priority \in k1.rq.bitmap \cup {NumPri}
          /\ k1.rq.bitmap = {r \in Pri : k1.rq.tskque[r] # <<>>}
          /\ \A r \in Pri : k1.rq.tskque[r] \in Queue
      BY <1>4 DEF Queued
    <3>. DEFINE q == k1.rq.tskque[k1.rq.top_priority]
    <3>2. s = NoTask \/ (s = Head(q) /\ q \in Queue /\ q # <<>>)
      BY <3>1 DEF ready_queue_top
    <3>. HIDE DEF q
    <3>3. s = NoTask \/ (s \in ToSet(q) /\ ToSet(q) \subseteq Task)
      BY <3>2, QueueRotation, QueueElements DEF Queue
    <3>. QED
      BY <3>3
  <2>2. IsKernel(k1)
    BY <1>4 DEF Queued
  <2>. HIDE DEF s
  <2>3. /\ IsKernel(k2) /\ k2.tcb = k1.tcb /\ k2.rq = k1.rq
        /\ k2.schedtsk = s /\ SameContext(k1, k2)
    BY <1>2, <1>6, <2>1, <2>2 DEF IsKernel, SameContext
  <2>4. Queued(k2, {t})
    BY <1>4, <2>3 DEF Queued, ReadyAt, WaitsLinked, SameContext, IsKernel
  <2>. QED
    BY <1>4, <2>3, <2>4 DEF SameContext, ready_queue_top, s
<1>. QED
  BY <1>5, <1>6

\* A READY task leaves the ready queue and gets another state.
LEMMA LeaveReady ==
  ASSUME NEW k, KInv(k), NEW t \in Task, k.tcb[t].state = "READY",
         NEW c \in TCBType, ~c.klocked, ~c.klockwait, c.state # "READY",
         NEW k1, k1 = make_non_ready(k, t),
         NEW k2, k2 = [k1 EXCEPT !.tcb[t] = c]
  PROVE  KInv(k2) /\ Effect(k, k2, t, c)
<1>1. /\ Queued(k1, {t}) /\ k1.tcb = k.tcb /\ SameContext(k, k1)
      /\ k1.schedtsk = ready_queue_top(k1)
  BY MakeNonReady
<1>2. Settable(k1, {t}, {}, t, c)
  BY DEF Settable
<1>3. Queued(k2, {}) /\ Effect(k1, k2, t, c) /\ SetTo(k1, k2, t, c)
  BY <1>1, <1>2, SetTask
<1>. QED
  BY <1>1, <1>3 DEF KInv, SetTo, Effect, SameContext

\* k1 is k with t, READY before and after, moved to the end of the queue of priority p.
MovedTo(k, k1, t, p) ==
  /\ Queued(k1, {}) /\ Effect(k, k1, t, [k.tcb[t] EXCEPT !.priority = p])
  /\ k1.schedtsk = k.schedtsk
  /\ k1.rq.tskque =
       [ready_queue_delete(k, t).rq.tskque EXCEPT ![p] = Append(@, t)]

\* change_task_priority of a READY task, up to reschedule.
LEMMA Requeue ==
  ASSUME NEW k, KInv(k), NEW t \in Task, k.tcb[t].state = "READY", NEW p \in Pri,
         NEW k1, k1 = ready_queue_insert(
                        [ready_queue_delete(k, t) EXCEPT !.tcb[t].priority = p], t)
  PROVE  MovedTo(k, k1, t, p)
<1>. DEFINE c == [k.tcb[t] EXCEPT !.priority = p]
            kd == ready_queue_delete(k, t)
            k0 == [kd EXCEPT !.tcb[t] = c]
<1>1. Queued(k, {}) /\ k.tcb[t] \in TCBType /\ ~k.tcb[t].klocked /\ ~k.tcb[t].klockwait
  BY DEF KInv, Queued, IsKernel
<1>2. kd = ready_queue_delete(k, t)
  OBVIOUS
<1>. HIDE DEF kd
<1>3. Queued(kd, {t}) /\ kd.tcb = k.tcb /\ SameContext(k, kd) /\ kd.schedtsk = k.schedtsk
  BY <1>1, <1>2, Delete
<1>4. k0 = [kd EXCEPT !.tcb[t].priority = p]
  BY <1>3 DEF Queued, IsKernel
<1>5. c \in TCBType /\ c.state = "READY" /\ c.priority = p /\ ~c.klocked /\ ~c.klockwait
  BY <1>1 DEF TCBType
<1>. HIDE DEF c
<1>6. Settable(kd, {t}, {t}, t, c)
  BY <1>3, <1>5 DEF Settable
<1>7. k0 = [kd EXCEPT !.tcb[t] = c] /\ k1 = ready_queue_insert(k0, t)
  BY <1>2, <1>4
<1>. HIDE DEF k0
<1>8. Queued(k0, {t}) /\ Effect(kd, k0, t, c) /\ SetTo(kd, k0, t, c)
  BY <1>3, <1>6, <1>7, SetTask
<1>9. k0.tcb[t] = c
  BY <1>3, <1>8 DEF SetTo, Queued, IsKernel
<1>10. /\ Queued(k1, {}) /\ AllAlike(k0, k1) /\ SameContext(k0, k1)
       /\ k1.schedtsk = k0.schedtsk /\ Linked(k0, k1, t)
  BY <1>5, <1>7, <1>8, <1>9, Insert
<1>11. Effect(k, k1, t, c)
  <2>1. Effect(k, k0, t, c)
    BY <1>3, <1>8 DEF Effect, SameContext
  <2>. QED
    BY <1>10, <2>1, EffectThenAlike
<1>12. k1.rq.tskque = [kd.rq.tskque EXCEPT ![p] = Append(@, t)]
  BY <1>5, <1>8, <1>9, <1>10 DEF Linked, SetTo
<1>. QED
  BY <1>2, <1>3, <1>8, <1>10, <1>11, <1>12 DEF MovedTo, SetTo, c

\* change_task_priority of a READY task.
LEMMA ChangeReadyPriority ==
  ASSUME NEW k, KInv(k), NEW t \in Task, k.tcb[t].state = "READY", NEW p \in Pri,
         NEW k2, k2 = reschedule(ready_queue_insert(
                        [ready_queue_delete(k, t) EXCEPT !.tcb[t].priority = p], t))
  PROVE  KInv(k2) /\ Effect(k, k2, t, [k.tcb[t] EXCEPT !.priority = p])
<1>. DEFINE c == [k.tcb[t] EXCEPT !.priority = p]
            k1 == ready_queue_insert(
                    [ready_queue_delete(k, t) EXCEPT !.tcb[t].priority = p], t)
<1>1. Queued(k, {}) /\ k.schedtsk = ready_queue_top(k) /\ k.tcb[t] \in TCBType
  BY DEF KInv, Queued, IsKernel
<1>2. c.state = "READY"
  BY <1>1 DEF TCBType
<1>3. MovedTo(k, k1, t, p) /\ k2 = reschedule(k1)
  BY Requeue
<1>. HIDE DEF c, k1
<1>4. Queued(k1, {}) /\ Effect(k, k1, t, c) /\ k1.schedtsk = k.schedtsk
  BY <1>3 DEF MovedTo, c
<1>5. k1.schedtsk # NoTask => k1.tcb[k1.schedtsk].state = "READY"
  <2>1. /\ k.schedtsk \in Task \cup {NoTask}
        /\ k.schedtsk # NoTask => k.tcb[k.schedtsk].state = "READY"
    BY <1>1, Top
  <2>. QED
    BY <1>2, <1>4, <2>1 DEF Effect, Alike
<1>6. KInv(k2) /\ AllAlike(k1, k2) /\ SameContext(k1, k2)
  BY <1>3, <1>4, <1>5, Reschedule
<1>. QED
  BY <1>4, <1>6, EffectThenAlike DEF c

\* rotate_ready_queue and rotate_ready_queue_run.
LEMMA RotateReadyQueue ==
  ASSUME NEW k, KInv(k), NEW p \in Pri, NEW k2, k2 = rotate_ready_queue(k, p)
  PROVE  KInv(k2) /\ AllAlike(k, k2) /\ SameContext(k, k2)
<1>. DEFINE k1 == ready_queue_rotate(k, p)
<1>1. Queued(k, {}) /\ k.schedtsk = ready_queue_top(k)
  BY DEF KInv
<1>2. k1 = ready_queue_rotate(k, p) /\ k2 = reschedule(k1)
  BY DEF rotate_ready_queue
<1>. HIDE DEF k1
<1>3. Moved(k, k1)
  BY <1>1, <1>2, Rotate
<1>4. k1.schedtsk # NoTask => k1.tcb[k1.schedtsk].state = "READY"
  <2>1. /\ k.schedtsk \in Task \cup {NoTask}
        /\ k.schedtsk # NoTask => k.tcb[k.schedtsk].state = "READY"
    BY <1>1, Top
  <2>. QED
    BY <1>3, <2>1 DEF Moved, AllAlike, Alike
<1>5. KInv(k2) /\ AllAlike(k1, k2) /\ SameContext(k1, k2)
  BY <1>2, <1>3, <1>4, Reschedule DEF Moved
<1>. QED
  BY <1>3, <1>5, AlikeTransitive DEF Moved

\* The time slice of the running task at the beginning of timer_handler.
LEMMA TimeSliceTick ==
  ASSUME NEW k, KInv(k), NEW k2, k2 = time_slice_tick(k)
  PROVE  KInv(k2) /\ AllAlike(k, k2) /\ SameContext(k, k2)
<1>1. Queued(k, {}) /\ k.schedtsk = ready_queue_top(k)
  BY DEF KInv
<1>2. CASE k.ctxtsk = NoTask \/ k.schedtsk # k.ctxtsk
  BY <1>2 DEF time_slice_tick, AllAlike, Alike, SameContext
<1>3. CASE k.ctxtsk # NoTask /\ k.schedtsk = k.ctxtsk
  <2>. DEFINE t == k.ctxtsk
              k1 == time_slice_schedule(k, t)
              expired == k.tcb[t].slicetime > 0 /\ k.tcb[t].slicecnt + 1 > k.tcb[t].slicetime
              s == IF expired THEN Head(k1.rq.tskque[k.tcb[t].priority]) ELSE t
  <2>1. /\ t \in Task /\ t = ready_queue_top(k) /\ k.tcb[t].state = "READY"
        /\ k.tcb[t].priority = k.rq.top_priority /\ k.rq.top_priority \in Pri
    BY <1>1, <1>3, Top
  <2>2. k2 = [k1 EXCEPT !.schedtsk = s]
    BY <1>3 DEF time_slice_tick
  <2>3. k1 = time_slice_schedule(k, t)
    OBVIOUS
  <2>4. t \in Task \cup {NoTask}
    BY <2>1
  <2>. HIDE DEF k1, t
  <2>5. /\ Moved(k, k1) /\ k1.rq.top_priority = k.rq.top_priority
        /\ ready_queue_top(k1) = t \/ expired
    BY <1>1, <2>1, <2>3, <2>4, TimeSlice
  <2>6. s = ready_queue_top(k1)
    <3>1. k1.rq.klocktsk = NoTask
      BY <2>5 DEF Moved, Queued
    <3>2. k1.rq.top_priority # NumPri
      BY <2>1, <2>5, TaskAssumption DEF Pri
    <3>3. ready_queue_top(k1) = Head(k1.rq.tskque[k.tcb[t].priority])
      BY <2>1, <2>5, <3>1, <3>2 DEF ready_queue_top
    <3>. QED
      BY <2>5, <3>3
  <2>. HIDE DEF s
  <2>7. s \in Task \cup {NoTask}
    BY <2>5, <2>6, Top DEF Moved
  <2>8. /\ Queued(k2, {}) /\ AllAlike(k1, k2) /\ SameContext(k1, k2)
        /\ k2.schedtsk = s /\ ready_queue_top(k2) = ready_queue_top(k1)
    BY <2>2, <2>5, <2>7, Selected DEF Moved
  <2>. QED
    BY <2>5, <2>6, <2>8, AlikeTransitive DEF KInv, Moved
<1>. QED
  BY <1>2, <1>3

-----------------------------------------------------------------------------
(* The calls that act on one task.                                         *)

\* A critical section that ends in k2 leads to k2.
LEMMA NextKernel ==
  ASSUME NEW k2, IsKernel(k2), Becomes(k2)
  PROVE  Kernel' = k2
BY DEF Becomes, Kernel, IsKernel

\* Only the TCB of t changes.
Touch(k, k2, t) ==
  /\ \A u \in Task : u # t => Alike(k2.tcb[u], k.tcb[u])
  /\ SameContext(k, k2)

\* Two steps on the same TCB touch that TCB only.
LEMMA TouchTwice ==
  ASSUME NEW k, NEW k1, NEW k2, NEW t, Touch(k, k1, t), Touch(k1, k2, t)
  PROVE  Touch(k, k2, t)
BY DEF Touch, Alike, SameContext

\* What an Effect says of the TCB written, and of the others.
LEMMA EffectTouch ==
  ASSUME NEW k, NEW k2, NEW t \in Task, NEW c, Effect(k, k2, t, c)
  PROVE  Touch(k, k2, t) /\ Alike(k2.tcb[t], c)
BY DEF Effect, Touch

\* The last of two values of a TCB counts.
LEMMA EffectTwice ==
  ASSUME NEW k, NEW k1, NEW k2, NEW t, NEW c, NEW d, Effect(k, k1, t, c),
         Effect(k1, k2, t, d)
  PROVE  Effect(k, k2, t, d)
BY DEF Effect, Alike, SameContext

\* The TCB of a task in a kernel state.
LEMMA TaskBlock ==
  ASSUME NEW k, KInv(k), NEW t \in Task
  PROVE  /\ IsKernel(k) /\ Queued(k, {}) /\ k.tcb \in [Task -> TCBType]
         /\ k.tcb[t] \in TCBType /\ ~k.tcb[t].klocked /\ ~k.tcb[t].klockwait
BY DEF KInv, Queued, IsKernel

\* The TCB c with another base and current priority.
Reprioritised(c, p) == [c EXCEPT !.bpriority = p, !.priority = p]

\* tk_chg_pri: a READY task changes queues; a waiting one stays where it is.
LEMMA ChangeTaskPriority ==
  ASSUME NEW k, KInv(k), NEW t \in Task, NEW p \in Pri,
         NEW c, c = Reprioritised(k.tcb[t], p),
         NEW k2, k2 = change_task_priority([k EXCEPT !.tcb[t].bpriority = p], t, p)
  PROVE  KInv(k2) /\ Effect(k, k2, t, c) /\ c.state = k.tcb[t].state
<1>. DEFINE c0 == [k.tcb[t] EXCEPT !.bpriority = p]
            k0 == [k EXCEPT !.tcb[t] = c0]
<1>1. /\ IsKernel(k) /\ k.tcb \in [Task -> TCBType] /\ k.tcb[t] \in TCBType
      /\ ~k.tcb[t].klocked /\ ~k.tcb[t].klockwait
  BY TaskBlock
<1>2. /\ c0 \in TCBType /\ c \in TCBType /\ ~c0.klocked /\ ~c0.klockwait
      /\ ~c.klocked /\ ~c.klockwait /\ c0.state = k.tcb[t].state /\ c.state = k.tcb[t].state
      /\ c0.priority = k.tcb[t].priority
      /\ c = [c0 EXCEPT !.priority = p]
  BY <1>1 DEF TCBType, Reprioritised
<1>3. k2 = change_task_priority(k0, t, p)
  BY <1>1 DEF IsKernel
<1>4. k0 = [k EXCEPT !.tcb[t] = c0]
  OBVIOUS
<1>. HIDE DEF c0, k0
<1>5. KInv(k0) /\ Effect(k, k0, t, c0)
  BY <1>1, <1>2, <1>4, SetData
<1>6. k0.tcb[t] = c0 /\ IsKernel(k0)
  BY <1>1, <1>4, <1>5 DEF KInv, Queued, IsKernel
<1>7. KInv(k2) /\ Effect(k0, k2, t, c)
  <2>1. CASE k.tcb[t].state = "READY"
    <3>1. k2 = reschedule(ready_queue_insert(
                 [ready_queue_delete(k0, t) EXCEPT !.tcb[t].priority = p], t))
      BY <1>2, <1>3, <1>6, <2>1 DEF change_task_priority
    <3>2. KInv(k2) /\ Effect(k0, k2, t, [k0.tcb[t] EXCEPT !.priority = p])
      BY <1>2, <1>5, <1>6, <2>1, <3>1, ChangeReadyPriority
    <3>. QED
      BY <1>2, <1>6, <3>2
  <2>2. CASE k.tcb[t].state # "READY"
    <3>1. k2 = [k0 EXCEPT !.tcb[t].priority = p]
      BY <1>2, <1>3, <1>6, <2>2 DEF change_task_priority
    <3>2. k2 = [k0 EXCEPT !.tcb[t] = c]
      BY <1>2, <1>6, <3>1 DEF IsKernel
    <3>. QED
      BY <1>2, <1>5, <1>6, <2>2, <3>2, SetData
  <2>. QED
    BY <2>1, <2>2
<1>. QED
  BY <1>2, <1>5, <1>7, EffectTwice

\* The state of a task that is suspended once more.
Suspended(s) ==
  CASE s = "READY" -> "SUSPEND" [] s = "WAIT" -> "WAITSUS" [] OTHER -> s

SuspendedMore(c) == [c EXCEPT !.suscnt = @ + 1, !.state = Suspended(@)]

\* tk_sus_tsk: a READY task leaves the ready queue, a waiting one waits on.
LEMMA Suspend ==
  ASSUME NEW k, KInv(k), NEW t \in Task, task_alive(k.tcb[t].state),
         k.tcb[t].suscnt < MaxSus, NEW k2, k2 = suspend(k, t),
         NEW c, c = SuspendedMore(k.tcb[t])
  PROVE  /\ KInv(k2) /\ Effect(k, k2, t, c) /\ c \in TCBType
         /\ c.state = Suspended(k.tcb[t].state) /\ c.suscnt > 0
         /\ c.state \in {"SUSPEND", "WAITSUS"}
         /\ is_waiting(c.state) <=> is_waiting(k.tcb[t].state)
<1>. DEFINE s == Suspended(k.tcb[t].state)
            n == k.tcb[t].suscnt + 1
            c0 == [k.tcb[t] EXCEPT !.suscnt = n]
            k0 == [k EXCEPT !.tcb[t] = c0]
            k1 == make_non_ready(k0, t)
<1>1. /\ IsKernel(k) /\ k.tcb \in [Task -> TCBType] /\ k.tcb[t] \in TCBType
      /\ ~k.tcb[t].klocked /\ ~k.tcb[t].klockwait
  BY TaskBlock
<1>2. s \in {"SUSPEND", "WAITSUS"} /\ (s = "WAITSUS" <=> is_waiting(k.tcb[t].state))
  BY <1>1 DEF task_alive, is_waiting, Suspended
<1>3. n \in 0 .. MaxSus /\ n > 0
  BY <1>1, TaskAssumption DEF TCBType
<1>4. c = [c0 EXCEPT !.state = s]
  BY <1>1 DEF TCBType, SuspendedMore
<1>5. k0 = [k EXCEPT !.tcb[t].suscnt = @ + 1]
  BY <1>1 DEF IsKernel
<1>. HIDE DEF s, n
<1>6. /\ c0 \in TCBType /\ ~c0.klocked /\ ~c0.klockwait /\ c0.suscnt = n
      /\ c0.state = k.tcb[t].state /\ c0.priority = k.tcb[t].priority
  BY <1>1, <1>3 DEF TCBType
<1>. HIDE DEF c0
<1>7. /\ c \in TCBType /\ ~c.klocked /\ ~c.klockwait /\ c.state = s /\ c.suscnt > 0
  BY <1>2, <1>3, <1>4, <1>6 DEF TCBType, TState
<1>8. KInv(k0) /\ Effect(k, k0, t, c0)
  BY <1>1, <1>6, SetData
<1>9. k0.tcb[t] = c0 /\ IsKernel(k0)
  BY <1>1, <1>8 DEF KInv, Queued, IsKernel
<1>10. KInv(k2) /\ Effect(k0, k2, t, c)
  <2>1. CASE k.tcb[t].state = "READY"
    <3>1. k2 = [k1 EXCEPT !.tcb[t].state = "SUSPEND"]
      BY <1>5, <2>1 DEF suspend
    <3>2. k1 = make_non_ready(k0, t)
      OBVIOUS
    <3>. HIDE DEF k0, k1
    <3>3. Queued(k1, {t}) /\ k1.tcb = k0.tcb
      BY <1>6, <1>8, <1>9, <2>1, <3>2, MakeNonReady
    <3>4. IsKernel(k1)
      BY <3>3 DEF Queued
    <3>5. s = "SUSPEND"
      BY <2>1 DEF s, Suspended
    <3>6. k2 = [k1 EXCEPT !.tcb[t] = c]
      BY <1>4, <1>9, <3>1, <3>3, <3>4, <3>5 DEF IsKernel
    <3>7. k0.tcb[t].state = "READY" /\ c.state # "READY"
      BY <1>6, <1>7, <1>9, <2>1, <3>5
    <3>. QED
      BY <1>7, <1>8, <3>2, <3>6, <3>7, LeaveReady
  <2>2. CASE k.tcb[t].state # "READY"
    <3>1. k2 = [k0 EXCEPT !.tcb[t] = c]
      <4>1. CASE k.tcb[t].state = "WAIT"
        <5>1. k2 = [k0 EXCEPT !.tcb[t].state = "WAITSUS"]
          BY <1>5, <4>1 DEF suspend
        <5>2. s = "WAITSUS"
          BY <4>1 DEF s, Suspended
        <5>. HIDE DEF k0
        <5>. QED
          BY <1>4, <1>9, <5>1, <5>2 DEF IsKernel
      <4>2. CASE k.tcb[t].state # "WAIT"
        <5>1. k2 = k0
          BY <1>5, <2>2, <4>2 DEF suspend
        <5>2. s = k.tcb[t].state
          BY <2>2, <4>2 DEF s, Suspended
        <5>3. c = c0
          BY <1>4, <1>6, <5>2 DEF TCBType
        <5>. HIDE DEF k0
        <5>. QED
          BY <1>9, <5>1, <5>3 DEF IsKernel
      <4>. QED
        BY <4>1, <4>2
    <3>. HIDE DEF k0
    <3>2. k0.tcb[t].state # "READY" /\ c.state # "READY"
      BY <1>2, <1>6, <1>7, <1>9, <2>2
    <3>. QED
      BY <1>7, <1>8, <3>1, <3>2, SetData
  <2>. QED
    BY <2>1, <2>2
<1>11. Effect(k, k2, t, c)
  BY <1>8, <1>10, EffectTwice
<1>12. is_waiting(c.state) <=> is_waiting(k.tcb[t].state)
  BY <1>2, <1>7 DEF is_waiting
<1>. QED
  BY <1>2, <1>7, <1>10, <1>11, <1>12 DEF s

\* The state of a task that is suspended n times after a resume.
Resumed(s, n) ==
  IF n > 0 THEN s ELSE IF s = "SUSPEND" THEN "READY" ELSE "WAIT"

ResumedTo(c, n) == [c EXCEPT !.suscnt = n, !.state = Resumed(@, n)]

\* resume: the count goes down, and at 0 the suspension ends.
LEMMA Resume ==
  ASSUME NEW k, KInv(k), NEW t \in Task, NEW n \in Nat, n < k.tcb[t].suscnt,
         k.tcb[t].state \in {"SUSPEND", "WAITSUS"},
         k.tcb[t].state = "SUSPEND" => Unqueued(k, t),
         NEW k2, k2 = resume(k, t, n),
         NEW c, c = ResumedTo(k.tcb[t], n)
  PROVE  /\ KInv(k2) /\ Effect(k, k2, t, c) /\ c \in TCBType
         /\ c.state = Resumed(k.tcb[t].state, n) /\ c.suscnt = n
         /\ is_waiting(c.state) <=> is_waiting(k.tcb[t].state)
         /\ c.state \in {"SUSPEND", "WAITSUS"} <=> n > 0
<1>. DEFINE s == Resumed(k.tcb[t].state, n)
            c0 == [k.tcb[t] EXCEPT !.suscnt = n]
            k0 == [k EXCEPT !.tcb[t] = c0]
<1>1. /\ IsKernel(k) /\ k.tcb \in [Task -> TCBType] /\ k.tcb[t] \in TCBType
      /\ ~k.tcb[t].klocked /\ ~k.tcb[t].klockwait
  BY TaskBlock
<1>2. n \in 0 .. MaxSus
  BY <1>1, TaskAssumption DEF TCBType
<1>3. /\ n > 0 => s = k.tcb[t].state
      /\ n = 0 => s \in {"READY", "WAIT"} /\ (s = "WAIT" <=> k.tcb[t].state = "WAITSUS")
  BY <1>2 DEF Resumed
<1>4. c0 \in TCBType /\ ~c0.klocked /\ ~c0.klockwait /\ c0.suscnt = n
      /\ c0.state = k.tcb[t].state /\ c0.priority = k.tcb[t].priority
  BY <1>1, <1>2 DEF TCBType
<1>5. c = [c0 EXCEPT !.state = s]
  BY <1>1 DEF TCBType, ResumedTo
<1>6. k0 = [k EXCEPT !.tcb[t].suscnt = n]
  OBVIOUS
<1>. HIDE DEF c0
<1>7. KInv(k0) /\ Effect(k, k0, t, c0)
  BY <1>1, <1>4, SetData
<1>8. k0.tcb[t] = c0 /\ IsKernel(k0)
  BY <1>1, <1>7 DEF KInv, Queued, IsKernel
<1>10. k0.wq = k.wq
  BY <1>7 DEF Effect, SameContext
<1>. HIDE DEF k0
<1>9. k2 = IF n > 0 THEN k0
           ELSE IF k.tcb[t].state = "SUSPEND" THEN make_ready(k0, t)
           ELSE [k0 EXCEPT !.tcb[t].state = "WAIT"]
  BY <1>6, Zenon DEF resume
<1>11. n > 0 \/ k.tcb[t].state # "SUSPEND" => k2 = [k0 EXCEPT !.tcb[t] = c]
  <2>1. CASE n > 0
    <3>1. s = c0.state
      BY <1>3, <1>4, <2>1
    <3>2. c = c0
      BY <1>4, <1>5, <3>1 DEF TCBType
    <3>. QED
      BY <1>8, <1>9, <2>1, <3>2 DEF IsKernel
  <2>2. CASE ~(n > 0) /\ k.tcb[t].state # "SUSPEND"
    <3>1. c = [c0 EXCEPT !.state = "WAIT"]
      BY <1>5, <2>2 DEF s, Resumed
    <3>. QED
      BY <1>8, <1>9, <2>2, <3>1 DEF IsKernel
  <2>. QED
    BY <2>1, <2>2
<1>. HIDE DEF s
<1>12. c \in TCBType /\ ~c.klocked /\ ~c.klockwait /\ c.state = s /\ c.suscnt = n
  <2>1. s \in TState
    BY <1>2, <1>3 DEF TState
  <2>. QED
    BY <1>4, <1>5, <2>1 DEF TCBType
<1>13. KInv(k2) /\ Effect(k0, k2, t, c)
  <2>1. CASE n > 0 \/ k.tcb[t].state # "SUSPEND"
    <3>1. c.state # "READY"
      BY <1>2, <1>3, <1>12, <2>1
    <3>2. k0.tcb[t].state # "READY" /\ k2 = [k0 EXCEPT !.tcb[t] = c]
      BY <1>4, <1>8, <1>11, <2>1
    <3>. QED
      BY <1>7, <1>12, <3>1, <3>2, SetData
  <2>2. CASE ~(n > 0 \/ k.tcb[t].state # "SUSPEND")
    <3>1. k2 = make_ready(k0, t)
      BY <1>9, <2>2
    <3>2. s = "READY"
      BY <2>2 DEF s, Resumed
    <3>3. Unqueued(k0, t)
      BY <1>10, <2>2 DEF Unqueued
    <3>4. k0.tcb[t].state # "READY" /\ c = [k0.tcb[t] EXCEPT !.state = "READY"]
      BY <1>4, <1>5, <1>8, <2>2, <3>2
    <3>. QED
      BY <1>7, <3>1, <3>3, <3>4, MakeReady
  <2>. QED
    BY <2>1, <2>2
<1>14. Effect(k, k2, t, c)
  BY <1>7, <1>13, EffectTwice
<1>15. /\ is_waiting(c.state) <=> is_waiting(k.tcb[t].state)
       /\ c.state \in {"SUSPEND", "WAITSUS"} <=> n > 0
  BY <1>2, <1>3, <1>12 DEF is_waiting
<1>. QED
  BY <1>12, <1>13, <1>14, <1>15 DEF s

-----------------------------------------------------------------------------
(* Waits.                                                                  *)

\* The queues of objects without t.
WithoutTask(wq, t) == [w \in WaitQueue |-> QueueWithout(wq[w], t)]

\* From k to k2 the task t leaves the queue it waits in, and its TCB becomes c.
Unlink(k, k2, t, c) ==
  /\ \A u \in Task : Alike(k2.tcb[u], IF u = t THEN c ELSE k.tcb[u])
  /\ k2.ctxtsk = k.ctxtsk /\ k2.obj = k.obj
  /\ k2.wq = WithoutTask(k.wq, t)

\* A step on the TCB before or after t has left its queue.
LEMMA UnlinkEffect ==
  ASSUME NEW k, NEW k1, NEW k2, NEW t, NEW c, NEW d,
         \/ Effect(k, k1, t, c) /\ Unlink(k1, k2, t, d)
         \/ Unlink(k, k1, t, c) /\ Effect(k1, k2, t, d)
  PROVE  Unlink(k, k2, t, d)
<1>1. /\ \A u \in Task : Alike(k1.tcb[u], IF u = t THEN c ELSE k.tcb[u])
      /\ \A u \in Task : Alike(k2.tcb[u], IF u = t THEN d ELSE k1.tcb[u])
  BY DEF Effect, Unlink
<1>2. \A u \in Task : Alike(k2.tcb[u], IF u = t THEN d ELSE k.tcb[u])
  <2>. TAKE u \in Task
  <2>1. CASE u = t
    BY <1>1, <2>1
  <2>2. CASE u # t
    <3>1. Alike(k1.tcb[u], k.tcb[u]) /\ Alike(k2.tcb[u], k1.tcb[u])
      BY <1>1, <2>2
    <3>. QED
      BY <2>2, <3>1 DEF Alike
  <2>. QED
    BY <2>1, <2>2
<1>3. /\ k2.ctxtsk = k.ctxtsk /\ k2.obj = k.obj
      /\ k2.wq = WithoutTask(k.wq, t)
  BY DEF Effect, Unlink, SameContext
<1>. QED
  BY <1>2, <1>3 DEF Unlink

\* QueRemove of a task that is not READY takes it out of the queues of objects.
LEMMA QueRemoveWaiting ==
  ASSUME NEW k, KInv(k), NEW t \in Task, k.tcb[t].state # "READY",
         NEW k1, k1 = QueRemove(k, t)
  PROVE  KInv(k1) /\ Unlink(k, k1, t, k.tcb[t]) /\ Unqueued(k1, t) /\ k1.tcb = k.tcb
<1>1. /\ IsKernel(k) /\ k.rq \in RQType /\ k.wq \in [WaitQueue -> Seq(Task)]
      /\ \A p \in Pri : k.rq.tskque[p] \in Queue /\ ToSet(k.rq.tskque[p]) = ReadyAt(k, {}, p)
      /\ \A w \in WaitQueue : k.wq[w] \in Queue
  BY DEF KInv, Queued, IsKernel, WaitsLinked
<1>2. \A p \in Pri : QueueWithout(k.rq.tskque[p], t) = k.rq.tskque[p]
  <2>1. \A p \in Pri : t \notin ReadyAt(k, {}, p)
    BY DEF ReadyAt
  <2>. QED
    BY <1>1, <2>1, QueueRemoval
<1>3. [p \in Pri |-> QueueWithout(k.rq.tskque[p], t)] = k.rq.tskque
  BY <1>1, <1>2 DEF RQType
<1>. DEFINE wq1 == WithoutTask(k.wq, t)
<1>4. k1 = [k EXCEPT !.wq = wq1]
  BY <1>1, <1>3 DEF QueRemove, IsKernel, RQType, WithoutTask
<1>5. /\ wq1 \in [WaitQueue -> Seq(Task)]
      /\ \A w \in WaitQueue : wq1[w] \in Queue /\ ToSet(wq1[w]) = ToSet(k.wq[w]) \ {t}
  BY <1>1, QueueRemoval DEF WithoutTask, Queue
<1>. HIDE DEF wq1
<1>6. /\ IsKernel(k1) /\ k1.tcb = k.tcb /\ k1.rq = k.rq /\ k1.schedtsk = k.schedtsk
      /\ k1.ctxtsk = k.ctxtsk /\ k1.obj = k.obj /\ k1.wq = wq1
  BY <1>1, <1>4, <1>5 DEF IsKernel
<1>7. WaitsLinked(k1)
  BY <1>5, <1>6 DEF KInv, Queued, WaitsLinked
<1>8. KInv(k1)
  BY <1>6, <1>7 DEF KInv, Queued, ReadyAt, ready_queue_top
<1>9. Unqueued(k1, t)
  BY <1>5, <1>6 DEF Unqueued
<1>10. Unlink(k, k1, t, k.tcb[t])
  BY <1>6 DEF Unlink, Alike, wq1
<1>. QED
  BY <1>6, <1>8, <1>9, <1>10

Untimed(c) == [c EXCEPT !.wtmeb = FALSE]

Woken(c) == [c EXCEPT !.state = IF @ = "WAIT" THEN "READY" ELSE "SUSPEND"]

EndedWait(c, ercd) ==
  [c EXCEPT !.tskwait = {}, !.wid = NoQueue, !.winfo = 0, !.nodiswai = FALSE,
            !.wercd = ercd]

\* wait_cancel takes a task out of its queue and its timeout back.
LEMMA WaitCancel ==
  ASSUME NEW k, KInv(k), NEW t \in Task, k.tcb[t].state # "READY",
         NEW k1, k1 = wait_cancel(k, t)
  PROVE  KInv(k1) /\ Unlink(k, k1, t, Untimed(k.tcb[t])) /\ Unqueued(k1, t)
<1>. DEFINE c == Untimed(k.tcb[t])
            k0 == [k EXCEPT !.tcb[t] = c]
<1>1. IsKernel(k) /\ k.tcb[t] \in TCBType /\ ~k.tcb[t].klocked /\ ~k.tcb[t].klockwait
  BY TaskBlock
<1>2. k1 = QueRemove(k0, t)
  BY <1>1 DEF wait_cancel, timer_delete, IsKernel, Untimed
<1>3. /\ c \in TCBType /\ c.state = k.tcb[t].state /\ c.priority = k.tcb[t].priority
      /\ ~c.klocked /\ ~c.klockwait
  BY <1>1 DEF TCBType, Untimed
<1>. HIDE DEF c
<1>4. KInv(k0) /\ Effect(k, k0, t, c)
  BY <1>3, SetData
<1>5. k0.tcb[t] = c
  BY <1>1 DEF IsKernel
<1>. HIDE DEF k0
<1>6. KInv(k1) /\ Unlink(k0, k1, t, c) /\ Unqueued(k1, t)
  BY <1>2, <1>3, <1>4, <1>5, QueRemoveWaiting
<1>7. Unlink(k, k1, t, c)
  BY <1>4, <1>6, UnlinkEffect
<1>. QED
  BY <1>6, <1>7 DEF c

\* make_non_wait: the task is READY again, unless it is suspended.
LEMMA MakeNonWait ==
  ASSUME NEW k, KInv(k), NEW t \in Task, is_waiting(k.tcb[t].state), Unqueued(k, t),
         NEW k2, k2 = make_non_wait(k, t)
  PROVE  KInv(k2) /\ Effect(k, k2, t, Woken(k.tcb[t]))
<1>. DEFINE c == Woken(k.tcb[t])
<1>1. /\ IsKernel(k) /\ k.tcb[t] \in TCBType /\ ~k.tcb[t].klocked /\ ~k.tcb[t].klockwait
      /\ k.tcb[t].state \in {"WAIT", "WAITSUS"}
  BY TaskBlock DEF is_waiting
<1>2. CASE k.tcb[t].state = "WAIT"
  <2>1. k2 = make_ready(k, t) /\ c = [k.tcb[t] EXCEPT !.state = "READY"]
    BY <1>2 DEF make_non_wait, Woken
  <2>. HIDE DEF c
  <2>2. KInv(k2) /\ Effect(k, k2, t, c)
    BY <1>2, <2>1, MakeReady
  <2>. QED
    BY <2>2 DEF c
<1>3. CASE k.tcb[t].state # "WAIT"
  <2>1. c = [k.tcb[t] EXCEPT !.state = "SUSPEND"]
    BY <1>3 DEF Woken
  <2>2. k2 = [k EXCEPT !.tcb[t] = c]
    BY <1>1, <1>3 DEF make_non_wait, IsKernel, Woken
  <2>. HIDE DEF c
  <2>3. c \in TCBType /\ c.state = "SUSPEND" /\ ~c.klocked /\ ~c.klockwait
    BY <1>1, <2>1 DEF TCBType, TState
  <2>4. KInv(k2) /\ Effect(k, k2, t, c)
    BY <1>1, <2>2, <2>3, SetData
  <2>. QED
    BY <2>4 DEF c
<1>. QED
  BY <1>2, <1>3

\* wait_release is both.
LEMMA WaitRelease ==
  ASSUME NEW k, KInv(k), NEW t \in Task, is_waiting(k.tcb[t].state),
         NEW k2, k2 = wait_release(k, t)
  PROVE  /\ KInv(k2) /\ Unlink(k, k2, t, Woken(Untimed(k.tcb[t])))
         /\ k2.tcb[t].state = IF k.tcb[t].state = "WAIT" THEN "READY" ELSE "SUSPEND"
         /\ k2.tcb[t].suscnt = k.tcb[t].suscnt /\ k2.tcb[t].wid = k.tcb[t].wid
         /\ ~k2.tcb[t].wtmeb
<1>. DEFINE k1 == wait_cancel(k, t)
            c == Untimed(k.tcb[t])
<1>1. k1 = wait_cancel(k, t) /\ k2 = make_non_wait(k1, t)
  BY DEF wait_release
<1>2. k.tcb[t] \in TCBType
  BY TaskBlock
<1>3. /\ c \in TCBType /\ ~c.wtmeb /\ c.state = k.tcb[t].state
      /\ c.suscnt = k.tcb[t].suscnt /\ c.wid = k.tcb[t].wid
  BY <1>2 DEF TCBType, Untimed
<1>. HIDE DEF k1, c
<1>4. KInv(k1) /\ Unlink(k, k1, t, c) /\ Unqueued(k1, t)
  BY <1>1, WaitCancel DEF is_waiting, c
<1>5. k1.tcb[t] \in TCBType /\ Alike(k1.tcb[t], c)
  BY <1>4, TaskBlock DEF Unlink
<1>6. is_waiting(k1.tcb[t].state) /\ k1.tcb[t].state = k.tcb[t].state
  BY <1>3, <1>5 DEF Alike
<1>7. KInv(k2) /\ Effect(k1, k2, t, Woken(k1.tcb[t]))
  BY <1>1, <1>4, <1>6, MakeNonWait
<1>8. Alike(Woken(k1.tcb[t]), Woken(c))
  BY <1>3, <1>5 DEF Alike, Woken, TCBType
<1>9. Effect(k1, k2, t, Woken(c))
  BY <1>7, <1>8 DEF Effect, Alike
<1>10. Unlink(k, k2, t, Woken(c))
  BY <1>4, <1>9, UnlinkEffect
<1>11. /\ Woken(c).state = IF k.tcb[t].state = "WAIT" THEN "READY" ELSE "SUSPEND"
       /\ Woken(c).suscnt = k.tcb[t].suscnt /\ Woken(c).wid = k.tcb[t].wid
       /\ ~Woken(c).wtmeb
  BY <1>3 DEF Woken, TCBType
<1>12. Alike(k2.tcb[t], Woken(c))
  BY <1>10 DEF Unlink
<1>. QED
  BY <1>7, <1>10, <1>11, <1>12 DEF Alike, c

\* end_wait resets what the wait was for.
LEMMA EndWait ==
  ASSUME NEW k, KInv(k), NEW t \in Task, NEW ercd \in WaitResult,
         NEW k2, k2 = end_wait(k, t, ercd)
  PROVE  /\ KInv(k2) /\ Touch(k, k2, t)
         /\ k2.tcb[t].state = k.tcb[t].state /\ k2.tcb[t].suscnt = k.tcb[t].suscnt
         /\ k2.tcb[t].wtmeb = k.tcb[t].wtmeb /\ ~k2.tcb[t].nodiswai
<1>. DEFINE c == EndedWait(k.tcb[t], ercd)
<1>1. IsKernel(k) /\ k.tcb[t] \in TCBType /\ ~k.tcb[t].klocked /\ ~k.tcb[t].klockwait
  BY TaskBlock
<1>2. k2 = [k EXCEPT !.tcb[t] = c]
  BY <1>1 DEF end_wait, IsKernel, EndedWait
<1>3. /\ c \in TCBType /\ ~c.klocked /\ ~c.klockwait /\ c.state = k.tcb[t].state
      /\ c.priority = k.tcb[t].priority /\ c.suscnt = k.tcb[t].suscnt
      /\ c.wtmeb = k.tcb[t].wtmeb /\ ~c.nodiswai
  <2>. DEFINE d == [k.tcb[t] EXCEPT !.tskwait = {}, !.wid = NoQueue, !.winfo = 0]
  <2>1. /\ d \in TCBType /\ ~d.klocked /\ ~d.klockwait /\ d.state = k.tcb[t].state
        /\ d.priority = k.tcb[t].priority /\ d.suscnt = k.tcb[t].suscnt
        /\ d.wtmeb = k.tcb[t].wtmeb
    BY <1>1 DEF TCBType
  <2>2. c = [d EXCEPT !.nodiswai = FALSE, !.wercd = ercd]
    BY DEF EndedWait
  <2>. HIDE DEF d, c
  <2>. QED
    BY <2>1, <2>2 DEF TCBType
<1>. HIDE DEF c
<1>4. KInv(k2) /\ Effect(k, k2, t, c)
  BY <1>2, <1>3, SetData
<1>5. Touch(k, k2, t) /\ Alike(k2.tcb[t], c)
  BY <1>4, EffectTouch
<1>. QED
  BY <1>3, <1>4, <1>5 DEF Alike

\* What make_wait writes to the TCB of a READY task.
Blocked(c, fac, w, tmout, nodiswai) ==
  [c EXCEPT !.state = "WAIT", !.tskwait = fac, !.wid = w, !.wercd = "E_TMOUT",
            !.nodiswai = nodiswai, !.wtmeb = (tmout # "TMO_FEVR")]

\* make_wait of a READY task.
LEMMA MakeWait ==
  ASSUME NEW k, KInv(k), NEW t \in Task, k.ctxtsk = t, k.tcb[t].state = "READY",
         NEW fac \in SUBSET WaitFactor, NEW w \in WaitQueue \cup {NoQueue},
         NEW tmout \in TMO, NEW nodiswai \in BOOLEAN,
         NEW k2, k2 = make_wait(k, fac, w, tmout, nodiswai),
         NEW c, c = Blocked(k.tcb[t], fac, w, tmout, nodiswai)
  PROVE  /\ KInv(k2) /\ Effect(k, k2, t, c)
         /\ c \in TCBType /\ c.state = "WAIT" /\ c.priority = k.tcb[t].priority
<1>. DEFINE k1 == make_non_ready(k, t)
<1>1. IsKernel(k) /\ k.tcb[t] \in TCBType /\ ~k.tcb[t].klocked /\ ~k.tcb[t].klockwait
  BY TaskBlock
<1>2. k1 = make_non_ready(k, t)
  OBVIOUS
<1>. HIDE DEF k1
<1>3. Queued(k1, {t}) /\ k1.tcb = k.tcb
  BY <1>2, MakeNonReady
<1>4. k2 = [k1 EXCEPT !.tcb[t] = c]
  <2>. DEFINE kw == [k1 EXCEPT !.tcb[t].state = "WAIT"]
              d == [k.tcb[t] EXCEPT !.state = "WAIT"]
  <2>1. k2 = [kw EXCEPT !.tcb[t] = [@ EXCEPT !.tskwait = fac, !.wid = w,
                                     !.wercd = "E_TMOUT", !.nodiswai = nodiswai,
                                     !.wtmeb = (tmout # "TMO_FEVR")]]
    BY <1>2 DEF make_wait
  <2>2. kw = [k1 EXCEPT !.tcb[t] = d] /\ kw.tcb[t] = d
    BY <1>1, <1>3 DEF Queued, IsKernel
  <2>3. c = [d EXCEPT !.tskwait = fac, !.wid = w,
                      !.wercd = "E_TMOUT", !.nodiswai = nodiswai,
                      !.wtmeb = (tmout # "TMO_FEVR")]
    BY DEF Blocked
  <2>. HIDE DEF d
  <2>4. k2 = [kw EXCEPT !.tcb[t] = c]
    BY <2>1, <2>2, <2>3
  <2>5. IsKernel(k1)
    BY <1>3 DEF Queued
  <2>. HIDE DEF kw
  <2>. QED
    BY <2>2, <2>4, <2>5 DEF IsKernel
<1>5. /\ c \in TCBType /\ ~c.klocked /\ ~c.klockwait /\ c.state = "WAIT"
      /\ c.priority = k.tcb[t].priority
  <2>. DEFINE d == [k.tcb[t] EXCEPT !.state = "WAIT", !.tskwait = fac, !.wid = w]
  <2>1. "E_TMOUT" \in WaitResult /\ "WAIT" \in TState
    BY DEF WaitResult, TState
  <2>2. /\ d \in TCBType /\ ~d.klocked /\ ~d.klockwait /\ d.state = "WAIT"
        /\ d.priority = k.tcb[t].priority
    BY <1>1, <2>1 DEF TCBType
  <2>3. c = [d EXCEPT !.wercd = "E_TMOUT", !.nodiswai = nodiswai,
                      !.wtmeb = (tmout # "TMO_FEVR")]
    BY DEF Blocked
  <2>. HIDE DEF d
  <2>. QED
    BY <2>1, <2>2, <2>3 DEF TCBType
<1>6. KInv(k2) /\ Effect(k, k2, t, c)
  BY <1>2, <1>4, <1>5, LeaveReady
<1>. QED
  BY <1>5, <1>6

\* The wait queue w is set to q.
PutQueue(k, w, q) == [k EXCEPT !.wq[w] = q]

\* From k to k2 the queue w becomes q, and nothing else changes.
Requeued(k, k2, w, q) ==
  /\ KInv(k2) /\ k2.tcb = k.tcb /\ k2.ctxtsk = k.ctxtsk /\ k2.obj = k.obj
  /\ k2.wq = [k.wq EXCEPT ![w] = q] /\ k2.schedtsk = k.schedtsk

\* The queue of one object is replaced by another without READY tasks.
LEMMA SetQueue ==
  ASSUME NEW k, KInv(k), NEW w \in WaitQueue, NEW q \in Queue,
         \A u \in ToSet(q) : k.tcb[u].state # "READY",
         NEW k2, k2 = PutQueue(k, w, q)
  PROVE  Requeued(k, k2, w, q)
<1>. USE DEF PutQueue, Requeued
<1>1. IsKernel(k) /\ q \in Seq(Task)
  BY DEF KInv, Queued, Queue
<1>2. /\ IsKernel(k2) /\ k2.tcb = k.tcb /\ k2.rq = k.rq /\ k2.schedtsk = k.schedtsk
      /\ k2.ctxtsk = k.ctxtsk /\ k2.obj = k.obj /\ k2.wq = [k.wq EXCEPT ![w] = q]
  BY <1>1 DEF IsKernel
<1>3. \A v \in WaitQueue : k2.wq[v] = IF v = w THEN q ELSE k.wq[v]
  BY <1>1, <1>2 DEF IsKernel
<1>4. WaitsLinked(k2)
  BY <1>2, <1>3 DEF KInv, Queued, WaitsLinked
<1>. QED
  BY <1>2, <1>4 DEF KInv, Queued, ReadyAt, ready_queue_top

\* The control blocks of the objects are written by the calls of their modules.
LEMMA SetObjects ==
  ASSUME NEW k, KInv(k), NEW o, NEW k2, k2 = [k EXCEPT !.obj = o]
  PROVE  /\ KInv(k2) /\ k2.tcb = k.tcb /\ k2.wq = k.wq /\ k2.schedtsk = k.schedtsk
         /\ k2.ctxtsk = k.ctxtsk /\ k2.obj = o
<1>1. IsKernel(k)
  BY DEF KInv, Queued
<1>2. /\ IsKernel(k2) /\ k2.tcb = k.tcb /\ k2.rq = k.rq /\ k2.wq = k.wq
      /\ k2.schedtsk = k.schedtsk /\ k2.ctxtsk = k.ctxtsk /\ k2.obj = o
  BY <1>1 DEF IsKernel
<1>3. Queued(k2, {})
  BY <1>2 DEF KInv, Queued, ReadyAt, WaitsLinked
<1>. QED
  BY <1>2, <1>3 DEF KInv, ready_queue_top

\* The dispatcher moves the context.
LEMMA Retarget ==
  ASSUME NEW k, KInv(k), NEW x \in Task \cup {NoTask}, NEW k2, k2 = [k EXCEPT !.ctxtsk = x]
  PROVE  /\ KInv(k2) /\ k2.tcb = k.tcb /\ k2.wq = k.wq /\ k2.schedtsk = k.schedtsk
         /\ k2.ctxtsk = x /\ k2.obj = k.obj
<1>1. IsKernel(k)
  BY DEF KInv, Queued
<1>2. /\ IsKernel(k2) /\ k2.tcb = k.tcb /\ k2.rq = k.rq /\ k2.wq = k.wq
      /\ k2.schedtsk = k.schedtsk /\ k2.ctxtsk = x /\ k2.obj = k.obj
  BY <1>1 DEF IsKernel
<1>3. Queued(k2, {})
  BY <1>2 DEF KInv, Queued, ReadyAt, WaitsLinked
<1>. QED
  BY <1>2, <1>3 DEF KInv, ready_queue_top

-----------------------------------------------------------------------------
(* The life of a task.                                                     *)

Dormant(c) ==
  [c EXCEPT !.state = "DORMANT", !.priority = c.ipriority, !.bpriority = c.ipriority,
            !.wupcnt = 0, !.suscnt = 0, !.waitmask = {}, !.nodiswai = FALSE,
            !.klockwait = FALSE, !.klocked = FALSE, !.slicetime = 0, !.tskevt = {},
            !.tskwait = {}, !.wid = NoQueue, !.winfo = 0, !.wercd = "none"]

\* What make_dormant leaves in a TCB.
LEMMA DormantBlock ==
  ASSUME NEW c \in TCBType, NEW d, d = Dormant(c)
  PROVE  /\ d \in TCBType /\ ~d.klocked /\ ~d.klockwait /\ d.state = "DORMANT"
         /\ d.suscnt = 0 /\ d.wtmeb = c.wtmeb /\ ~d.nodiswai
<1>. DEFINE c1 == [c EXCEPT !.state = "DORMANT", !.priority = c.ipriority,
                        !.bpriority = c.ipriority, !.wupcnt = 0, !.suscnt = 0]
            c2 == [c1 EXCEPT !.waitmask = {}, !.nodiswai = FALSE, !.klockwait = FALSE,
                             !.klocked = FALSE, !.slicetime = 0]
<1>1. d \in TCBType
  <2>1. c1 \in TCBType
    <3>1. /\ c.ipriority \in Pri /\ 0 \in 0 .. MaxWup /\ 0 \in 0 .. MaxSus
          /\ "DORMANT" \in TState
      BY TaskAssumption DEF TCBType, TState
    <3>. QED
      BY <3>1 DEF TCBType
  <2>. DEFINE c3 == [c2 EXCEPT !.tskevt = {}, !.tskwait = {}]
              c4 == [c3 EXCEPT !.wid = NoQueue, !.winfo = 0]
  <2>2. d = [c4 EXCEPT !.wercd = "none"]
    BY DEF Dormant
  <2>. HIDE DEF c1
  <2>3. c2 \in TCBType
    BY <2>1 DEF TCBType
  <2>. HIDE DEF c2
  <2>4. {} \in SUBSET WaitFactor /\ "none" \in WaitResult
    BY DEF WaitResult
  <2>5. c3 \in TCBType
    BY <2>3, <2>4 DEF TCBType
  <2>. HIDE DEF c3
  <2>6. c4 \in TCBType
    BY <2>5 DEF TCBType
  <2>. HIDE DEF c4
  <2>. QED
    BY <2>2, <2>4, <2>6 DEF TCBType
<1>. QED
  BY <1>1 DEF Dormant, TCBType

\* The TCB of t is set to c.
Put(k, t, c) == [k EXCEPT !.tcb[t] = c]

\* make_dormant sets one TCB.
LEMMA MakeDormant ==
  ASSUME NEW k, IsKernel(k), NEW t \in Task, NEW d, d = Dormant(k.tcb[t])
  PROVE  make_dormant(k, t) = Put(k, t, d)
<1>1. make_dormant(k, t) = Put(k, t, Dormant(k.tcb[t]))
  BY DEF make_dormant, Dormant, IsKernel, Put
<1>. QED
  BY <1>1

\* The end of a task that is not READY.
LEMMA EndIdle ==
  ASSUME NEW k, KInv(k), NEW t \in Task, k.tcb[t].state # "READY",
         NEW k2, k2 = make_dormant(k, t)
  PROVE  /\ KInv(k2) /\ Touch(k, k2, t) /\ k2.tcb[t].state = "DORMANT"
         /\ k2.tcb[t].wtmeb = k.tcb[t].wtmeb
<1>. DEFINE d == Dormant(k.tcb[t])
<1>1. IsKernel(k) /\ k.tcb[t] \in TCBType
  BY TaskBlock
<1>2. d = Dormant(k.tcb[t])
  OBVIOUS
<1>. HIDE DEF d
<1>3. /\ d \in TCBType /\ ~d.klocked /\ ~d.klockwait /\ d.state = "DORMANT"
      /\ d.wtmeb = k.tcb[t].wtmeb
  BY <1>1, <1>2, DormantBlock
<1>4. k2 = [k EXCEPT !.tcb[t] = d]
  BY <1>1, <1>2, MakeDormant DEF Put
<1>5. KInv(k2) /\ Effect(k, k2, t, d)
  BY <1>3, <1>4, SetData
<1>. QED
  BY <1>3, <1>5, EffectTouch DEF Alike

\* The end of a READY task, which make_non_ready takes out first.
LEMMA EndReady ==
  ASSUME NEW k, KInv(k), NEW t \in Task, k.tcb[t].state = "READY",
         NEW k2, k2 = make_dormant(make_non_ready(k, t), t)
  PROVE  /\ KInv(k2) /\ Touch(k, k2, t) /\ k2.tcb[t].state = "DORMANT"
         /\ k2.tcb[t].wtmeb = k.tcb[t].wtmeb
<1>. DEFINE k1 == make_non_ready(k, t)
            d == Dormant(k.tcb[t])
<1>1. IsKernel(k) /\ k.tcb[t] \in TCBType
  BY TaskBlock
<1>2. d = Dormant(k.tcb[t]) /\ k1 = make_non_ready(k, t)
  OBVIOUS
<1>. HIDE DEF d, k1
<1>3. /\ d \in TCBType /\ ~d.klocked /\ ~d.klockwait /\ d.state = "DORMANT"
      /\ d.wtmeb = k.tcb[t].wtmeb
  BY <1>1, <1>2, DormantBlock
<1>4. IsKernel(k1) /\ k1.tcb = k.tcb
  BY <1>2, MakeNonReady DEF Queued
<1>5. k2 = [k1 EXCEPT !.tcb[t] = d]
  BY <1>2, <1>4, MakeDormant DEF Put
<1>6. KInv(k2) /\ Effect(k, k2, t, d)
  BY <1>2, <1>3, <1>5, LeaveReady
<1>. QED
  BY <1>3, <1>6, EffectTouch DEF Alike

\* A free TCB.
LEMMA BlankBlock ==
  ASSUME NEW p \in Pri, NEW b, b = blank_tcb(p)
  PROVE  /\ b \in TCBType /\ ~b.klocked /\ ~b.klockwait /\ b.state = "NONEXIST"
         /\ b.suscnt = 0 /\ ~b.wtmeb /\ ~b.nodiswai
BY TaskAssumption DEF blank_tcb, TCBType, WaitFactor, WaitResult, TState

\* The TCB of a task that tkstart.c has created.
Created(p) == [blank_tcb(p) EXCEPT !.state = "DORMANT"]

\* It is not linked yet.
LEMMA CreatedBlock ==
  ASSUME NEW p \in Pri, NEW c, c = Created(p)
  PROVE  /\ c \in TCBType /\ ~c.klocked /\ ~c.klockwait /\ c.state = "DORMANT"
         /\ c.suscnt = 0 /\ ~c.wtmeb /\ ~c.nodiswai
<1>. DEFINE b == blank_tcb(p)
<1>1. /\ b \in TCBType /\ ~b.klocked /\ ~b.klockwait
      /\ b.suscnt = 0 /\ ~b.wtmeb /\ ~b.nodiswai
  BY BlankBlock
<1>2. c = [b EXCEPT !.state = "DORMANT"]
  BY DEF Created
<1>. HIDE DEF b
<1>. QED
  BY <1>1, <1>2 DEF TCBType, TState

\* Nothing is linked, and the tasks in created are DORMANT.
Booted(k, created) ==
  /\ KInv(k) /\ k.ctxtsk = NoTask
  /\ k.wq = [w \in WaitQueue |-> <<>>]
  /\ \A u \in Task : /\ Unqueued(k, u)
                     /\ k.tcb[u].state = IF u \in created THEN "DORMANT"
                                         ELSE "NONEXIST"
                     /\ k.tcb[u].suscnt = 0 /\ ~k.tcb[u].wtmeb /\ ~k.tcb[u].nodiswai

\* tkstart.c, before the initial task is started.
LEMMA Boot ==
  ASSUME NEW created \in SUBSET Task, NEW ipri \in [Task -> Pri],
         NEW k, k = create_all(task_initialize, created, ipri)
  PROVE  Booted(k, created) /\ k.obj = <<>>
<1>. DEFINE c(u) == IF u \in created THEN Created(ipri[u]) ELSE blank_tcb(0)
<1>1. 0 \in Pri /\ NumPri \in Nat
  BY TaskAssumption DEF Pri
<1>2. /\ k.tcb = [u \in Task |-> c(u)] /\ k.rq = ready_queue_initialize
      /\ k.wq = [w \in WaitQueue |-> <<>>] /\ k.schedtsk = NoTask
      /\ k.ctxtsk = NoTask /\ k.obj = <<>>
      /\ k = [tcb |-> k.tcb, rq |-> k.rq, wq |-> k.wq, schedtsk |-> NoTask,
              ctxtsk |-> NoTask, obj |-> <<>>]
  BY DEF create_all, task_initialize, Created
<1>3. \A u \in Task : /\ c(u) \in TCBType /\ ~c(u).klocked /\ ~c(u).klockwait
                      /\ c(u).state = IF u \in created THEN "DORMANT" ELSE "NONEXIST"
                      /\ c(u).suscnt = 0 /\ ~c(u).wtmeb /\ ~c(u).nodiswai
  BY <1>1, BlankBlock, CreatedBlock
<1>. HIDE DEF c
<1>4. /\ <<>> \in Seq(Task) /\ <<>> \in Queue /\ ToSet(<<>>) = {}
  BY EmptyQueue DEF Queue
<1>5. k.rq \in RQType
  BY <1>1, <1>2, <1>4 DEF ready_queue_initialize, RQType
<1>6. IsKernel(k)
  BY <1>2, <1>3, <1>4, <1>5 DEF IsKernel
<1>7. /\ k.rq.bitmap = {} /\ k.rq.top_priority = NumPri /\ k.rq.klocktsk = NoTask
      /\ k.rq.tskque = [p \in Pri |-> <<>>]
  BY <1>2 DEF ready_queue_initialize
<1>8. \A u \in Task : k.tcb[u].state # "READY" /\ ~k.tcb[u].klocked /\ ~k.tcb[u].klockwait
  BY <1>2, <1>3
<1>9. WaitsLinked(k) /\ \A u \in Task : Unqueued(k, u)
  BY <1>2, <1>4 DEF WaitsLinked, Unqueued
<1>10. Queued(k, {})
  BY <1>4, <1>6, <1>7, <1>8, <1>9 DEF Queued, ReadyAt
<1>11. KInv(k)
  BY <1>2, <1>7, <1>10 DEF KInv, ready_queue_top
<1>12. \A u \in Task : k.tcb[u] = c(u)
  BY <1>2
<1>. QED
  BY <1>2, <1>3, <1>9, <1>11, <1>12 DEF Booted

-----------------------------------------------------------------------------
(* The order of a wait queue.                                              *)

LeastOr(S, n) == IF S = {} THEN n ELSE CHOOSE i \in S : \A j \in S : i <= j

InOrder(f, q) == \A i, j \in DOMAIN q : i < j => f[q[i]] <= f[q[j]]

\* The elements of q before pos are at most t, that at pos is greater.
PlaceOf(f, q, t, pos) ==
  /\ pos \in 1 .. Len(q) + 1
  /\ \A i \in 1 .. Len(q) : i < pos => f[q[i]] <= f[t]
  /\ pos <= Len(q) => f[q[pos]] > f[t]

\* From q to q2 the task t goes to its place.
Placed(f, q, q2, t) ==
  /\ q2 \in Queue /\ ToSet(q2) = ToSet(q) \cup {t} /\ q2 # <<>>
  /\ InOrder(f, q) => InOrder(f, q2)
  /\ Head(q2) = IF q = <<>> \/ f[t] < f[Head(q)] THEN t ELSE Head(q)

\* The place before the first element that is greater.
LEMMA Place ==
  ASSUME NEW f \in [Task -> Nat], NEW q \in Queue, NEW t \in Task,
         NEW lower, lower = {i \in DOMAIN q : f[q[i]] > f[t]},
         NEW pos, pos = LeastOr(lower, Len(q) + 1)
  PROVE  PlaceOf(f, q, t, pos)
<1>1. Len(q) \in Nat /\ DOMAIN q = 1 .. Len(q) /\ \A i \in 1 .. Len(q) : f[q[i]] \in Nat
  BY Elements, ElementOfSeq DEF Queue
<1>2. f[t] \in Nat
  OBVIOUS
<1>3. \A i \in 1 .. Len(q) : i \notin lower => f[q[i]] <= f[t]
  BY <1>1, <1>2
<1>4. CASE lower = {}
  <2>1. pos = Len(q) + 1
    BY <1>4 DEF LeastOr
  <2>. QED
    BY <1>1, <1>3, <1>4, <2>1 DEF PlaceOf
<1>5. CASE lower # {}
  <2>1. lower \subseteq Nat
    BY <1>1
  <2>2. \E i \in lower : \A j \in lower : i <= j
    BY <1>5, <2>1, LeastElement
  <2>3. pos = CHOOSE i \in lower : \A j \in lower : i <= j
    BY <1>5 DEF LeastOr
  <2>4. pos \in lower /\ \A j \in lower : pos <= j
    BY <2>2, <2>3, Zenon
  <2>5. pos \in 1 .. Len(q) /\ f[q[pos]] > f[t]
    BY <1>1, <2>4
  <2>6. \A i \in 1 .. Len(q) : i < pos => f[q[i]] <= f[t]
    <3>1. SUFFICES ASSUME NEW i \in 1 .. Len(q), i < pos PROVE f[q[i]] <= f[t]
      OBVIOUS
    <3>2. i \in lower => pos <= i
      BY <2>4
    <3>3. i \notin lower
      BY <1>1, <2>5, <3>1, <3>2
    <3>. QED
      BY <1>3, <3>3
  <2>7. pos \in 1 .. Len(q) + 1
    BY <1>1, <2>5
  <2>. QED
    BY <2>5, <2>6, <2>7 DEF PlaceOf
<1>. QED
  BY <1>4, <1>5

\* There the order is kept.
LEMMA PutInPlace ==
  ASSUME NEW f \in [Task -> Nat], NEW q \in Queue, NEW t \in Task, t \notin ToSet(q),
         NEW pos, PlaceOf(f, q, t, pos), NEW q2, q2 = InsertAt(q, pos, t)
  PROVE  Placed(f, q, q2, t)
<1>1. /\ q \in Unrepeated(Task) /\ q \in Seq(Task) /\ Len(q) \in Nat /\ DOMAIN q = 1 .. Len(q)
      /\ \A i \in 1 .. Len(q) : f[q[i]] \in Nat
  BY Elements, ElementOfSeq DEF Queue, Unrepeated
<1>2. pos \in 1 .. Len(q) + 1 /\ f[t] \in Nat
  BY DEF PlaceOf
<1>3. q2 \in Seq(Task) /\ With(q, q2, pos, t)
  BY <1>1, <1>2, InsertedAt
<1>4. q2 \in Queue /\ ToSet(q2) = ToSet(q) \cup {t}
  BY <1>1, <1>2, Inserted DEF Queue, Unrepeated
<1>5. /\ Len(q2) = Len(q) + 1 /\ DOMAIN q2 = 1 .. Len(q) + 1
      /\ \A j \in 1 .. Len(q) + 1 :
           q2[j] = IF j < pos THEN q[j] ELSE IF j = pos THEN t ELSE q[j - 1]
  BY <1>1, <1>3, Elements DEF With
<1>6. q2 # <<>> /\ Head(q2) = q2[1]
  BY <1>1, <1>3, <1>5
<1>7. Head(q2) = IF q = <<>> \/ f[t] < f[Head(q)] THEN t ELSE Head(q)
  <2>1. CASE q = <<>>
    <3>1. pos = 1 /\ 1 \in 1 .. Len(q) + 1
      BY <1>1, <1>2, <2>1
    <3>. QED
      BY <1>5, <1>6, <2>1, <3>1
  <2>2. CASE q # <<>>
    <3>1. 1 \in 1 .. Len(q) /\ 1 \in 1 .. Len(q) + 1 /\ Head(q) = q[1]
      BY <1>1, <2>2
    <3>2. CASE pos = 1
      <4>1. f[q[1]] > f[t] /\ q2[1] = t
        BY <1>1, <1>5, <3>1, <3>2 DEF PlaceOf
      <4>. QED
        BY <1>6, <1>1, <1>2, <3>1, <4>1
    <3>3. CASE pos # 1
      <4>1. 1 < pos
        BY <1>1, <1>2, <3>3
      <4>2. f[q[1]] <= f[t] /\ q2[1] = q[1]
        BY <1>1, <1>5, <3>1, <4>1 DEF PlaceOf
      <4>. QED
        BY <1>6, <1>1, <1>2, <2>2, <3>1, <4>2
    <3>. QED
      BY <3>2, <3>3
  <2>. QED
    BY <2>1, <2>2
<1>8. ASSUME InOrder(f, q), NEW i \in 1 .. Len(q) + 1, NEW j \in 1 .. Len(q) + 1, i < j
      PROVE  f[q2[i]] <= f[q2[j]]
  <2>1. \A x, y \in 1 .. Len(q) : x <= y => f[q[x]] <= f[q[y]]
    <3>1. SUFFICES ASSUME NEW x \in 1 .. Len(q), NEW y \in 1 .. Len(q), x <= y
                   PROVE  f[q[x]] <= f[q[y]]
      OBVIOUS
    <3>2. CASE x = y
      BY <1>1, <3>2
    <3>3. CASE x < y
      BY <1>1, <1>8, <3>3 DEF InOrder
    <3>. QED
      BY <1>1, <3>1, <3>2, <3>3
  <2>2. \A x \in 1 .. Len(q) : x < pos => f[q[x]] <= f[t]
    BY DEF PlaceOf
  <2>3. CASE j < pos
    <3>1. q2[i] = q[i] /\ q2[j] = q[j] /\ i \in 1 .. Len(q) /\ j \in 1 .. Len(q) /\ i <= j
      BY <1>1, <1>2, <1>5, <1>8, <2>3
    <3>. QED
      BY <2>1, <3>1
  <2>4. CASE j = pos
    <3>1. i < pos /\ i \in 1 .. Len(q) /\ q2[i] = q[i] /\ q2[j] = t
      BY <1>1, <1>2, <1>5, <1>8, <2>4
    <3>. QED
      BY <2>2, <3>1
  <2>5. CASE j > pos /\ i < pos
    <3>1. q2[i] = q[i] /\ q2[j] = q[j - 1] /\ i \in 1 .. Len(q) /\ j - 1 \in 1 .. Len(q)
          /\ i <= j - 1
      BY <1>1, <1>2, <1>5, <1>8, <2>5
    <3>. QED
      BY <2>1, <3>1
  <2>6. CASE j > pos /\ i = pos
    <3>1. q2[i] = t /\ q2[j] = q[j - 1] /\ pos \in 1 .. Len(q) /\ j - 1 \in 1 .. Len(q)
          /\ pos <= j - 1 /\ pos <= Len(q)
      BY <1>1, <1>2, <1>5, <1>8, <2>6
    <3>2. f[q[pos]] > f[t] /\ f[q[pos]] <= f[q[j - 1]]
      BY <2>1, <3>1 DEF PlaceOf
    <3>. QED
      BY <1>1, <1>2, <3>1, <3>2
  <2>7. CASE j > pos /\ i > pos
    <3>1. q2[i] = q[i - 1] /\ q2[j] = q[j - 1] /\ i - 1 \in 1 .. Len(q)
          /\ j - 1 \in 1 .. Len(q) /\ i - 1 <= j - 1
      BY <1>1, <1>2, <1>5, <1>8, <2>7
    <3>. QED
      BY <2>1, <3>1
  <2>. QED
    BY <1>1, <1>2, <1>8, <2>3, <2>4, <2>5, <2>6, <2>7
<1>9. InOrder(f, q) => InOrder(f, q2)
  BY <1>5, <1>8 DEF InOrder
<1>. QED
  BY <1>4, <1>6, <1>7, <1>9 DEF Placed

\* A queue in the order of the priorities.
Sorted(k, q) ==
  \A i, j \in DOMAIN q : i < j => k.tcb[q[i]].priority <= k.tcb[q[j]].priority

\* t comes before the first of the queue.
ComesFirst(k, q, t, tpri) ==
  q = <<>> \/ (tpri /\ k.tcb[t].priority < k.tcb[Head(q)].priority)

\* From q to q2 the task t joins the queue.
Joined(k, q, q2, t, tpri) ==
  /\ q2 \in Queue /\ ToSet(q2) = ToSet(q) \cup {t} /\ q2 # <<>>
  /\ tpri /\ Sorted(k, q) => Sorted(k, q2)
  /\ Head(q2) = IF ComesFirst(k, q, t, tpri) THEN t ELSE Head(q)

\* queue_insert_tpri puts t before the first task of a lower priority.
LEMMA QueueInsertTpri ==
  ASSUME NEW k, NEW w \in WaitQueue, NEW q, q = k.wq[w], q \in Queue,
         NEW t \in Task, t \notin ToSet(q), k.tcb \in [Task -> TCBType],
         NEW k2, k2 = queue_insert_tpri(k, w, t)
  PROVE  \E q2 : k2 = PutQueue(k, w, q2) /\ Joined(k, q, q2, t, TRUE)
<1>. DEFINE f == [u \in Task |-> k.tcb[u].priority]
            lower == {i \in DOMAIN q : k.tcb[q[i]].priority > k.tcb[t].priority}
            pos == IF lower = {} THEN Len(q) + 1
                   ELSE CHOOSE i \in lower : \A j \in lower : i <= j
            q2 == InsertAt(q, pos, t)
<1>1. k2 = PutQueue(k, w, q2)
  BY DEF queue_insert_tpri, PutQueue
<1>2. DOMAIN q = 1 .. Len(q) /\ \A i \in 1 .. Len(q) : q[i] \in Task
  BY Elements, ElementOfSeq DEF Queue
<1>3. f \in [Task -> Nat] /\ \A u \in Task : f[u] = k.tcb[u].priority
  <2>1. \A u \in Task : k.tcb[u].priority \in Pri
    BY DEF TCBType
  <2>2. Pri \subseteq Nat
    BY TaskAssumption DEF Pri
  <2>. QED
    BY <2>1, <2>2
<1>4. lower = {i \in DOMAIN q : f[q[i]] > f[t]}
  BY <1>2, <1>3
<1>. HIDE DEF f, lower
<1>5. pos = LeastOr(lower, Len(q) + 1)
  BY DEF LeastOr
<1>6. q2 = InsertAt(q, pos, t)
  OBVIOUS
<1>. HIDE DEF pos, q2
<1>7. PlaceOf(f, q, t, pos)
  BY <1>3, <1>4, <1>5, Place, Zenon
<1>8. Placed(f, q, q2, t)
  BY <1>3, <1>6, <1>7, PutInPlace
<1>9. Sorted(k, q) => Sorted(k, q2)
  <2>1. DOMAIN q2 = 1 .. Len(q2) /\ \A i \in 1 .. Len(q2) : q2[i] \in Task
    BY <1>8, Elements, ElementOfSeq DEF Queue, Placed
  <2>2. \A i \in 1 .. Len(q) : f[q[i]] = k.tcb[q[i]].priority
    BY <1>2, <1>3
  <2>3. Sorted(k, q) => InOrder(f, q)
    BY <1>2, <2>2 DEF Sorted, InOrder
  <2>4. InOrder(f, q2) => Sorted(k, q2)
    BY <2>1, <1>3 DEF Sorted, InOrder
  <2>. QED
    BY <1>8, <2>3, <2>4 DEF Placed
<1>10. Head(q2) = IF ComesFirst(k, q, t, TRUE) THEN t ELSE Head(q)
  <2>1. q # <<>> => Head(q) \in Task
    BY QueueTail, QueueElements DEF Queue
  <2>2. ComesFirst(k, q, t, TRUE) <=> q = <<>> \/ f[t] < f[Head(q)]
    BY <2>1, <1>3 DEF ComesFirst
  <2>. QED
    BY <1>8, <2>2 DEF Placed
<1>11. Joined(k, q, q2, t, TRUE)
  BY <1>8, <1>9, <1>10 DEF Joined, Placed
<1>. QED
  BY <1>1, <1>11

\* wait_queue_insert puts t there, or at the end.
LEMMA WaitQueueInsert ==
  ASSUME NEW k, NEW w \in WaitQueue, NEW q, q = k.wq[w], q \in Queue,
         NEW t \in Task, t \notin ToSet(q), k.tcb \in [Task -> TCBType],
         NEW tpri \in BOOLEAN, NEW k2, k2 = wait_queue_insert(k, w, t, tpri)
  PROVE  \E q2 : k2 = PutQueue(k, w, q2) /\ Joined(k, q, q2, t, tpri)
<1>1. CASE tpri
  <2>1. k2 = queue_insert_tpri(k, w, t)
    BY <1>1 DEF wait_queue_insert
  <2>2. \E q2 : k2 = PutQueue(k, w, q2) /\ Joined(k, q, q2, t, TRUE)
    BY <2>1, QueueInsertTpri
  <2>3. tpri = TRUE
    BY <1>1
  <2>. QED
    BY <2>2, <2>3
<1>2. CASE ~tpri
  <2>1. k2 = PutQueue(k, w, Append(q, t))
    BY <1>2 DEF wait_queue_insert, PutQueue
  <2>2. PICK q2 : q2 = Append(q, t)
    OBVIOUS
  <2>3. q2 \in Queue /\ ToSet(q2) = ToSet(q) \cup {t}
    BY <2>2, QueueAppend
  <2>4. Head(q2) = IF q = <<>> THEN t ELSE Head(q)
    BY <2>2, AppendHead DEF Queue
  <2>5. q2 # <<>>
    BY <2>3, EmptyQueue
  <2>6. ComesFirst(k, q, t, tpri) <=> q = <<>>
    BY <1>2 DEF ComesFirst
  <2>7. Joined(k, q, q2, t, tpri)
    BY <1>2, <2>3, <2>4, <2>5, <2>6, Zenon DEF Joined
  <2>. QED
    BY <2>1, <2>2, <2>7
<1>. QED
  BY <1>1, <1>2

\* A task that is not READY and not in the queue of w joins it.
LEMMA QueueUp ==
  ASSUME NEW k, KInv(k), NEW w \in WaitQueue, NEW t \in Task, t \notin ToSet(k.wq[w]),
         k.tcb[t].state # "READY", NEW tpri \in BOOLEAN,
         NEW k2, k2 = wait_queue_insert(k, w, t, tpri)
  PROVE  \E q : Requeued(k, k2, w, q) /\ Joined(k, k.wq[w], q, t, tpri)
<1>1. /\ k.tcb \in [Task -> TCBType] /\ k.wq[w] \in Queue
      /\ \A u \in ToSet(k.wq[w]) : k.tcb[u].state # "READY"
  BY DEF KInv, Queued, IsKernel, WaitsLinked
<1>2. PICK q : k2 = PutQueue(k, w, q) /\ Joined(k, k.wq[w], q, t, tpri)
  BY <1>1, WaitQueueInsert
<1>3. q \in Queue /\ \A u \in ToSet(q) : k.tcb[u].state # "READY"
  BY <1>1, <1>2 DEF Joined
<1>4. Requeued(k, k2, w, q)
  BY <1>2, <1>3, SetQueue
<1>. QED
  BY <1>2, <1>4

\* The order stays while the priorities do.
LEMMA SortedStays ==
  ASSUME NEW k, NEW k2, NEW q \in Seq(Task), Sorted(k, q),
         \A u \in ToSet(q) : k2.tcb[u].priority = k.tcb[u].priority
  PROVE  Sorted(k2, q)
<1>1. \A i \in DOMAIN q : q[i] \in ToSet(q)
  BY QueueElements
<1>. QED
  BY <1>1 DEF Sorted

\* A queue stays sorted without one of its tasks.
LEMMA SortedWithout ==
  ASSUME NEW k, NEW q \in Queue, Sorted(k, q), NEW t \in Task
  PROVE  Sorted(k, QueueWithout(q, t))
<1>. DEFINE r == QueueWithout(q, t)
<1>1. \A i, j \in DOMAIN r :
        i < j => \E a, b \in DOMAIN q : a < b /\ r[i] = q[a] /\ r[j] = q[b]
  BY QueueOrder
<1>. QED
  BY <1>1 DEF Sorted

-----------------------------------------------------------------------------
(* The order of the task queues, which are functions from Pri here.        *)

\* No queue is reordered, but that its last task may have fallen behind the
\* others, and one task at most joins a queue.
Arranged(f, g) ==
  /\ \A p \in Pri : Orderly(f[p], g[p])
  /\ \E x : \A p \in Pri : ToSet(g[p]) \subseteq ToSet(f[p]) \cup {x}

\* s is put at the end of its queue, or nothing is done.
Charged(f, g, s) ==
  \A p \in Pri : \/ g[p] = f[p]
                 \/ s \in ToSet(f[p]) /\ g[p] = Append(QueueWithout(f[p], s), s)

\* The task queues of a kernel state.
TaskQueues == {f \in [Pri -> Seq(Task)] : \A p \in Pri : f[p] \in Queue}

\* Nothing is done.
LEMMA ArrangedSame ==
  ASSUME NEW f
  PROVE  Arranged(f, f) /\ \A s : Charged(f, f, s)
BY DEF Arranged, Charged, Orderly, OrderKept

\* Charging a task for the time it ran is one way of rearranging the queues.
LEMMA ChargedArranged ==
  ASSUME NEW f \in TaskQueues, NEW g, NEW s, Charged(f, g, s)
  PROVE  Arranged(f, g)
<1>1. ASSUME NEW p \in Pri
      PROVE  Orderly(f[p], g[p]) /\ ToSet(g[p]) \subseteq ToSet(f[p])
  <2>1. f[p] \in Queue /\ f[p] \in Seq(Task)
    BY DEF TaskQueues, Queue
  <2>2. CASE g[p] = f[p]
    BY <2>2 DEF Orderly, OrderKept
  <2>3. CASE s \in ToSet(f[p]) /\ g[p] = Append(QueueWithout(f[p], s), s)
    <3>1. s \in Task
      BY <2>1, <2>3, QueueElements
    <3>2. Orderly(f[p], g[p]) /\ ToSet(g[p]) = ToSet(f[p]) \cup {s}
      BY <2>1, <2>3, <3>1, MovedOrderly
    <3>. QED
      BY <2>3, <3>2
  <2>. QED
    BY <2>2, <2>3 DEF Charged
<1>. QED
  BY <1>1 DEF Arranged

\* The task queues of a kernel state are queues.
LEMMA QueuesOf ==
  ASSUME NEW k, NEW X, Queued(k, X)
  PROVE  k.rq.tskque \in TaskQueues
BY DEF TaskQueues, Queued, IsKernel, RQType

\* A kernel state whose ready queue is right is one.
LEMMA QueuedKernel ==
  ASSUME NEW k, NEW X, Queued(k, X)
  PROVE  IsKernel(k) /\ \A p \in Pri : k.rq.tskque[p] \in Queue
BY DEF Queued

\* The task queues after a removal.
LEMMA QueRemoveQueues ==
  ASSUME NEW k, IsKernel(k), NEW t, NEW k1, k1 = QueRemove(k, t)
  PROVE  k1.rq.tskque = [p \in Pri |-> QueueWithout(k.rq.tskque[p], t)]
BY DEF QueRemove, IsKernel, RQType

\* A task that is READY is in the queue of its priority, and in no other.
LEMMA ReadyInQueue ==
  ASSUME NEW k, Queued(k, {}), NEW t \in Task, NEW p \in Pri
  PROVE  t \in ToSet(k.rq.tskque[p]) <=>
           k.tcb[t].state = "READY" /\ k.tcb[t].priority = p
BY DEF Queued, ReadyAt

\* ready_queue_move_last.
LEMMA MoveLastQueues ==
  ASSUME NEW k, NEW t \in Task, Queued(k, {}), k.tcb[t].state = "READY",
         NEW k2, k2 = ready_queue_move_last(k, t)
  PROVE  Charged(k.rq.tskque, k2.rq.tskque, t)
<1>. DEFINE p == k.tcb[t].priority
            q == k.rq.tskque
            q1 == [r \in Pri |-> QueueWithout(q[r], t)]
            k1 == QueRemove(k, t)
<1>1. IsKernel(k) /\ p \in Pri
  BY DEF Queued, IsKernel, TCBType
<1>2. k1.rq.tskque = q1
  BY <1>1, QueRemoveQueues
<1>3. IsKernel(k1)
  BY ReadyUnqueued, Removal
<1>4. k2 = [k1 EXCEPT !.rq.tskque[p] = Append(@, t), !.tcb[t].slicecnt = 0]
  BY DEF ready_queue_move_last
<1>. HIDE DEF k1, q1, q
<1>5. k2.rq.tskque = [q1 EXCEPT ![p] = Append(@, t)]
  <2>1. k1.rq \in RQType
    BY <1>3 DEF IsKernel
  <2>2. k2.rq = [k1.rq EXCEPT !.tskque[p] = Append(@, t)]
    BY <1>3, <1>4 DEF IsKernel
  <2>. HIDE DEF p
  <2>3. k2.rq = [k1.rq EXCEPT !.tskque = [q1 EXCEPT ![p] = Append(q1[p], t)]]
    BY <1>2, <2>1, <2>2 DEF RQType
  <2>. QED
    BY <2>1, <2>3 DEF RQType
<1>. USE DEF q1, q
<1>6. ASSUME NEW r \in Pri, r # p PROVE q1[r] = q[r]
  <2>1. t \notin ToSet(q[r])
    BY <1>6, ReadyInQueue
  <2>2. q[r] \in Queue
    BY DEF Queued
  <2>. QED
    BY <2>1, <2>2, QueueRemoval
<1>7. t \in ToSet(q[p])
  BY <1>1, ReadyInQueue
<1>8. ASSUME NEW r \in Pri
      PROVE  k2.rq.tskque[r] = IF r = p THEN Append(QueueWithout(q[p], t), t) ELSE q[r]
  BY <1>1, <1>5, <1>6
<1>. HIDE DEF p, q1
<1>. QED
  BY <1>7, <1>8 DEF Charged

\* time_slice_schedule.
LEMMA TimeSliceQueues ==
  ASSUME NEW k, Queued(k, {}), NEW t \in Task \cup {NoTask},
         t # NoTask => k.tcb[t].state = "READY",
         NEW k2, k2 = time_slice_schedule(k, t)
  PROVE  Charged(k.rq.tskque, k2.rq.tskque, t)
<1>1. CASE k2.rq = k.rq
  BY <1>1, ArrangedSame
<1>2. CASE t # NoTask /\ k2 = ready_queue_move_last(k, t)
  BY <1>2, MoveLastQueues
<1>3. CASE k2 = [k EXCEPT !.tcb[t].slicecnt = @ + 1]
  BY <1>1, <1>3 DEF Queued, IsKernel
<1>. QED
  BY <1>1, <1>2, <1>3 DEF time_slice_schedule

\* charge_preempted.
LEMMA ChargeQueues ==
  ASSUME NEW k, Queued(k, {}),
         k.schedtsk # NoTask => k.tcb[k.schedtsk].state = "READY",
         NEW k2, k2 = charge_preempted(k)
  PROVE  Charged(k.rq.tskque, k2.rq.tskque, k.schedtsk) /\ Queued(k2, {})
<1>1. k.schedtsk \in Task \cup {NoTask}
  BY DEF Queued, IsKernel
<1>2. CASE k.schedtsk = k.ctxtsk
  BY <1>1, <1>2, TimeSlice, TimeSliceQueues DEF charge_preempted, Moved
<1>3. CASE k.schedtsk # k.ctxtsk
  BY <1>3, ArrangedSame DEF charge_preempted
<1>. QED
  BY <1>2, <1>3

\* reschedule.
LEMMA RescheduleQueues ==
  ASSUME NEW k, Queued(k, {}),
         k.schedtsk # NoTask => k.tcb[k.schedtsk].state = "READY",
         NEW k2, k2 = reschedule(k)
  PROVE  /\ Charged(k.rq.tskque, k2.rq.tskque, k.schedtsk)
         /\ k.schedtsk = ready_queue_top(k) => k2 = k
<1>1. CASE k.schedtsk = ready_queue_top(k)
  BY <1>1, ArrangedSame DEF reschedule
<1>2. CASE k.schedtsk # ready_queue_top(k)
  <2>. DEFINE k1 == charge_preempted(k)
  <2>1. Charged(k.rq.tskque, k1.rq.tskque, k.schedtsk) /\ Queued(k1, {})
    BY ChargeQueues
  <2>2. k2 = [k1 EXCEPT !.schedtsk = ready_queue_top(k)]
    BY <1>2 DEF reschedule
  <2>. HIDE DEF k1
  <2>3. k2.rq = k1.rq
    <3>1. IsKernel(k1)
      BY <2>1 DEF Queued
    <3>. QED
      BY <2>2, <3>1 DEF IsKernel
  <2>. QED
    BY <1>2, <2>1, <2>3
<1>. QED
  BY <1>1, <1>2

\* A task leaves its queue.
LEMMA RemovedArranged ==
  ASSUME NEW f \in TaskQueues, NEW t \in Task,
         NEW g, g = [p \in Pri |-> QueueWithout(f[p], t)]
  PROVE  Arranged(f, g)
<1>1. ASSUME NEW p \in Pri
      PROVE  Orderly(f[p], g[p]) /\ ToSet(g[p]) \subseteq ToSet(f[p])
  <2>1. f[p] \in Queue /\ g[p] = QueueWithout(f[p], t)
    BY DEF TaskQueues
  <2>. QED
    BY <2>1, RemovedOrderly
<1>. QED
  BY <1>1 DEF Arranged

\* ready_queue_delete.
LEMMA DeleteQueues ==
  ASSUME NEW k, KInv(k), NEW t \in Task, NEW k2, k2 = ready_queue_delete(k, t)
  PROVE  k2.rq.tskque = [p \in Pri |-> QueueWithout(k.rq.tskque[p], t)]
<1>. DEFINE k0 == QueRemove(k, t)
            k1 == [k0 EXCEPT !.rq.klocktsk = IF @ = t THEN NoTask ELSE @]
            bm == k1.rq.bitmap \ {k.tcb[t].priority}
            top == IF k.tcb[t].priority # k1.rq.top_priority THEN k1.rq.top_priority
                   ELSE first_priority(bm, k.tcb[t].priority)
<1>1. IsKernel(k) /\ ~k.tcb[t].klockwait
  BY DEF KInv, Queued
<1>2. k0.rq.tskque = [p \in Pri |-> QueueWithout(k.rq.tskque[p], t)]
  BY <1>1, QueRemoveQueues
<1>3. /\ DOMAIN k0 = {"tcb", "rq", "wq", "schedtsk", "ctxtsk", "obj"}
      /\ DOMAIN k0.rq = {"top_priority", "tskque", "bitmap", "klocktsk"}
  BY <1>1 DEF QueRemove, IsKernel, RQType
<1>4. k2 = k1 \/ k2 = [k1 EXCEPT !.rq = [@ EXCEPT !.bitmap = bm, !.top_priority = top]]
  <2>. HIDE DEF k0
  <2>1. k0 = QueRemove(k, t)
    BY DEF k0
  <2>2. k2 = k1 \/ k2 = [k1 EXCEPT !.rq.bitmap = bm,
                                  !.rq.top_priority =
                                    IF k.tcb[t].priority # @ THEN @
                                    ELSE first_priority(bm, k.tcb[t].priority)]
    BY <1>1, <2>1 DEF ready_queue_delete
  <2>3. /\ DOMAIN k1 = {"tcb", "rq", "wq", "schedtsk", "ctxtsk", "obj"}
        /\ DOMAIN k1.rq = {"top_priority", "tskque", "bitmap", "klocktsk"}
    BY <1>3
  <2>. HIDE DEF k1
  <2>. QED
    BY <2>2, <2>3
<1>. HIDE DEF k0, bm, top
<1>5. k1.rq.tskque = k0.rq.tskque
  BY <1>3
<1>6. /\ DOMAIN k1 = {"tcb", "rq", "wq", "schedtsk", "ctxtsk", "obj"}
      /\ DOMAIN k1.rq = {"top_priority", "tskque", "bitmap", "klocktsk"}
  BY <1>3
<1>. HIDE DEF k1
<1>7. k2.rq.tskque = k1.rq.tskque
  BY <1>4, <1>6
<1>. QED
  BY <1>2, <1>5, <1>7

\* make_non_ready.
LEMMA MakeNonReadyQueues ==
  ASSUME NEW k, KInv(k), NEW t \in Task, k.tcb[t].state = "READY",
         NEW k2, k2 = make_non_ready(k, t)
  PROVE  Arranged(k.rq.tskque, k2.rq.tskque)
<1>. DEFINE k1 == ready_queue_delete(k, t)
<1>1. Queued(k, {}) /\ k.rq.tskque \in TaskQueues
  BY QueuesOf DEF KInv
<1>2. Queued(k1, {t})
  BY <1>1, Delete
<1>3. k1.rq.tskque = [p \in Pri |-> QueueWithout(k.rq.tskque[p], t)]
  BY DeleteQueues
<1>4. k2 = k1 \/ k2 = [k1 EXCEPT !.schedtsk = ready_queue_top(k1)]
  BY DEF make_non_ready
<1>. HIDE DEF k1
<1>5. k2.rq = k1.rq
  <2>1. IsKernel(k1)
    BY <1>2 DEF Queued
  <2>. QED
    BY <1>4, <2>1 DEF IsKernel
<1>. QED
  BY <1>1, <1>3, <1>5, RemovedArranged

\* A task is put at the end of the queue of p, wherever it was, then s is charged.
LEMMA MovedCharged ==
  ASSUME NEW f \in TaskQueues, NEW t \in Task, NEW p \in Pri, NEW g1,
         \A r \in Pri : g1[r] = IF r = p THEN Append(QueueWithout(f[p], t), t)
                                ELSE QueueWithout(f[r], t),
         NEW g, NEW s, Charged(g1, g, s),
         s \in ToSet(g1[p]) /\ s # t => g = g1
  PROVE  Arranged(f, g)
<1>1. ASSUME NEW r \in Pri
      PROVE  Orderly(f[r], g[r]) /\ ToSet(g[r]) \subseteq ToSet(f[r]) \cup {t}
  <2>1. f[r] \in Queue
    BY DEF TaskQueues
  <2>2. CASE g[r] = g1[r]
    <3>1. CASE r = p
      BY <2>1, <2>2, <3>1, MovedOrderly
    <3>2. CASE r # p
      BY <2>1, <2>2, <3>2, RemovedOrderly
    <3>. QED
      BY <3>1, <3>2
  <2>3. CASE s \in ToSet(g1[r]) /\ g[r] = Append(QueueWithout(g1[r], s), s) /\ g[r] # g1[r]
    <3>1. CASE r = p
      <4>1. s = t
        BY <2>3, <3>1
      <4>2. g1[r] = Append(QueueWithout(f[r], t), t)
        BY <3>1
      <4>3. g[r] = Append(QueueWithout(g1[r], t), t)
        BY <2>3, <4>1
      <4>4. PICK a, b, c : a = f[r] /\ b = g1[r] /\ c = g[r]
        OBVIOUS
      <4>5. a \in Queue /\ b = Append(QueueWithout(a, t), t) /\ c = Append(QueueWithout(b, t), t)
        BY <2>1, <4>2, <4>3, <4>4
      <4>6. Orderly(a, c) /\ ToSet(c) = ToSet(a) \cup {t}
        BY <4>5, MovedTwiceOrderly
      <4>. QED
        BY <4>4, <4>6
    <3>2. CASE r # p
      <4>1. g1[r] = QueueWithout(f[r], t)
        BY <3>2
      <4>. QED
        BY <2>1, <2>3, <4>1, RemovedMovedOrderly
    <3>. QED
      BY <3>1, <3>2
  <2>. QED
    BY <2>2, <2>3 DEF Charged
<1>. QED
  BY <1>1 DEF Arranged

\* make_ready.
LEMMA MakeReadyQueues ==
  ASSUME NEW k, KInv(k), NEW t \in Task, k.tcb[t].state # "READY", Unqueued(k, t),
         NEW k2, k2 = make_ready(k, t)
  PROVE  Arranged(k.rq.tskque, k2.rq.tskque)
<1>. DEFINE k1 == ready_queue_insert([k EXCEPT !.tcb[t].state = "READY"], t)
            k3 == charge_preempted(k1)
            p == k.tcb[t].priority
            o == k.rq.top_priority
            s == k.schedtsk
            f == k.rq.tskque
            f1 == k1.rq.tskque
            f3 == k3.rq.tskque
<1>1. /\ Queued(k, {}) /\ s = ready_queue_top(k) /\ f \in TaskQueues /\ p \in Pri
      /\ s \in Task \cup {NoTask}
  BY QueuesOf DEF KInv, Queued, IsKernel, TCBType
<1>2. ReadyLast(k, k1, t)
  BY ReadyInserted
<1>3. k2 = IF p < o THEN [k3 EXCEPT !.schedtsk = t] ELSE k1
  BY DEF make_ready, raises_top
<1>4. s # NoTask => k.tcb[s].state = "READY" /\ k.tcb[s].priority = o
  BY <1>1, Top
<1>5. k3 = charge_preempted(k1)
  OBVIOUS
<1>. HIDE DEF k1, k3
<1>6. /\ Queued(k1, {}) /\ k1.schedtsk = s /\ f1 = [f EXCEPT ![p] = Append(@, t)]
      /\ Effect(k, k1, t, [k.tcb[t] EXCEPT !.state = "READY"])
  BY <1>2 DEF ReadyLast
<1>7. s # NoTask => s # t /\ k1.tcb[s].state = "READY" /\ k1.tcb[s].priority = o
  <2>1. s # NoTask => s \in Task /\ s # t
    BY <1>1, <1>4
  <2>. QED
    BY <1>4, <1>6, <2>1 DEF Effect, Alike
<1>8. Charged(f1, f3, s) /\ Queued(k3, {})
  BY <1>5, <1>6, <1>7, ChargeQueues
<1>9. k2.rq.tskque = f1 \/ (p < o /\ k2.rq.tskque = f3)
  <2>. HIDE DEF p, o, s, f, f1
  <2>1. IsKernel(k3)
    BY <1>8, QueuedKernel
  <2>2. CASE p < o
    <3>1. k2 = [k3 EXCEPT !.schedtsk = t]
      BY <1>3, <2>2
    <3>2. k2.rq = k3.rq
      BY <2>1, <3>1 DEF IsKernel
    <3>. QED
      BY <2>2, <3>2
  <2>3. CASE ~(p < o)
    BY <1>3, <2>3 DEF f1
  <2>. QED
    BY <2>2, <2>3
<1>10. p < o => s \notin ToSet(f1[p])
  <2>1. SUFFICES ASSUME p < o, s \in ToSet(f1[p]) PROVE FALSE
    OBVIOUS
  <2>2. f1[p] \in Queue
    BY <1>1, <1>6, QueuedKernel
  <2>3. s \in Task
    BY <2>1, <2>2, QueueElements DEF Queue
  <2>. HIDE DEF p, o, s, f
  <2>4. s \in ToSet(f1[p]) => k1.tcb[s].priority = p
    <3>1. Queued(k1, {}) /\ p \in Pri
      BY <1>1, <1>6
    <3>. QED
      BY <2>3, <3>1, ReadyInQueue
  <2>5. s # NoTask
    BY <2>3, TaskAssumption
  <2>6. p \in Int
    BY <1>1 DEF Pri
  <2>. HIDE DEF f1
  <2>. QED
    BY <1>7, <2>1, <2>4, <2>5, <2>6
<1>11. \A r \in Pri : t \notin ToSet(f[r])
  BY <1>1, ReadyInQueue
<1>. HIDE DEF p, o, s, f, f1, f3
<1>12. ASSUME NEW r \in Pri
       PROVE  f1[r] = IF r = p THEN Append(QueueWithout(f[p], t), t) ELSE QueueWithout(f[r], t)
  <2>1. f[r] \in Queue /\ f[p] \in Queue /\ f \in [Pri -> Seq(Task)]
    BY <1>1 DEF TaskQueues
  <2>2. QueueWithout(f[r], t) = f[r] /\ QueueWithout(f[p], t) = f[p]
    BY <1>1, <1>11, <2>1, QueueRemoval
  <2>3. f1[r] = IF r = p THEN Append(f[p], t) ELSE f[r]
    BY <1>1, <1>6, <2>1
  <2>. QED
    BY <2>2, <2>3
<1>13. Charged(f1, f1, s)
  BY ArrangedSame
<1>14. Arranged(f, f1)
  <2>1. s \in ToSet(f1[p]) /\ s # t => f1 = f1
    OBVIOUS
  <2>. QED
    BY <1>1, <1>12, <1>13, <2>1, MovedCharged, Zenon
<1>15. ASSUME p < o PROVE Arranged(f, f3)
  <2>1. s \in ToSet(f1[p]) /\ s # t => f3 = f1
    BY <1>10, <1>15
  <2>. QED
    BY <1>1, <1>8, <1>12, <2>1, MovedCharged, Zenon
<1>. QED
  BY <1>9, <1>14, <1>15 DEF f

\* rotate_ready_queue.
LEMMA RotateQueues ==
  ASSUME NEW k, KInv(k), NEW p \in Pri, NEW k2, k2 = rotate_ready_queue(k, p)
  PROVE  Arranged(k.rq.tskque, k2.rq.tskque)
<1>. DEFINE k1 == ready_queue_rotate(k, p)
            f == k.rq.tskque
            f1 == k1.rq.tskque
            f2 == k2.rq.tskque
            h == Head(f[p])
            s == k.schedtsk
<1>1. Queued(k, {}) /\ s = ready_queue_top(k) /\ f \in TaskQueues /\ s \in Task \cup {NoTask}
  BY QueuesOf DEF KInv, Queued, IsKernel
<1>2. s # NoTask => /\ k.tcb[s].state = "READY" /\ k.tcb[s].priority = k.rq.top_priority
                    /\ s = Head(f[k.rq.top_priority])
  BY <1>1, Top
<1>3. k1 = ready_queue_rotate(k, p) /\ k2 = reschedule(k1)
  BY DEF rotate_ready_queue
<1>4. f[p] = <<>> => k1 = k
  BY DEF ready_queue_rotate
<1>5. f[p] # <<>> => f1 = [f EXCEPT ![p] = Append(Tail(f[p]), h)]
  <2>1. IsKernel(k)
    BY <1>1, QueuedKernel
  <2>. QED
    BY <2>1 DEF ready_queue_rotate, IsKernel, RQType
<1>. HIDE DEF k1
<1>6. Moved(k, k1)
  BY <1>1, <1>3, Rotate
<1>7. /\ Queued(k1, {}) /\ k1.schedtsk = s
      /\ s # NoTask => k1.tcb[s].state = "READY" /\ k1.tcb[s].priority = k.tcb[s].priority
  BY <1>1, <1>2, <1>6 DEF Moved, AllAlike, Alike
<1>8. Charged(f1, f2, s) /\ (s = ready_queue_top(k1) => k2 = k1)
  BY <1>2, <1>3, <1>7, RescheduleQueues
<1>9. CASE f[p] = <<>>
  <2>1. k2 = k
    BY <1>1, <1>4, <1>8, <1>9
  <2>. QED
    BY <2>1, ArrangedSame
<1>10. CASE f[p] # <<>>
  <2>1. f[p] \in Queue /\ \A r \in Pri : f[r] \in Queue
    BY <1>1 DEF TaskQueues
  <2>2. h \in Task /\ h \in ToSet(f[p]) /\ QueueWithout(f[p], h) = Tail(f[p])
    BY <1>10, <2>1, QueueTail, QueueHeadRemoved, QueueElements DEF Queue
  <2>3. \A r \in Pri : r # p => h \notin ToSet(f[r])
    BY <1>1, <2>2, ReadyInQueue
  <2>4. s \in ToSet(f1[p]) => s = h
    <3>1. SUFFICES ASSUME s \in ToSet(f1[p]) PROVE s = h
      OBVIOUS
    <3>2. f1[p] \in Queue
      BY <1>7, QueuedKernel
    <3>3. s \in Task /\ s # NoTask
      BY <3>1, <3>2, QueueElements, TaskAssumption DEF Queue
    <3>. HIDE DEF s
    <3>4. s \in ToSet(f1[p]) => k1.tcb[s].priority = p
      BY <1>7, <3>3, ReadyInQueue
    <3>. HIDE DEF f, f1, h
    <3>5. k.rq.top_priority = p
      BY <1>2, <1>7, <3>1, <3>3, <3>4
    <3>. QED
      BY <1>2, <3>3, <3>5 DEF h
  <2>. HIDE DEF h, s, f, f1, f2
  <2>5. ASSUME NEW r \in Pri
        PROVE  f1[r] = IF r = p THEN Append(QueueWithout(f[p], h), h) ELSE QueueWithout(f[r], h)
    <3>1. f \in [Pri -> Seq(Task)]
      BY <1>1 DEF TaskQueues
    <3>2. f1[r] = IF r = p THEN Append(Tail(f[p]), h) ELSE f[r]
      BY <1>5, <1>10, <3>1
    <3>3. r # p => QueueWithout(f[r], h) = f[r]
      BY <2>1, <2>2, <2>3, QueueRemoval
    <3>. QED
      BY <2>2, <3>2, <3>3
  <2>6. s \in ToSet(f1[p]) /\ s # h => f2 = f1
    BY <2>4
  <2>7. Arranged(f, f2)
    BY <1>1, <1>8, <2>2, <2>5, <2>6, MovedCharged, Zenon
  <2>. QED
    BY <2>7 DEF f, f2
<1>. QED
  BY <1>9, <1>10

\* A READY task that is requeued does not displace the top of another.
LEMMA MovedToTop ==
  ASSUME NEW k, KInv(k), NEW t \in Task, k.tcb[t].state = "READY", NEW p \in Pri,
         NEW k1, MovedTo(k, k1, t, p),
         NEW s, s = k.schedtsk, s # t, s \in ToSet(k1.rq.tskque[p])
  PROVE  ready_queue_top(k1) = s
<1>. DEFINE f == k.rq.tskque
            f1 == k1.rq.tskque
            c == [k.tcb[t] EXCEPT !.priority = p]
            x == ready_queue_top(k1)
<1>1. Queued(k, {}) /\ s = ready_queue_top(k) /\ k.tcb[t] \in TCBType /\ p \in Nat
  BY DEF KInv, Queued, IsKernel, Pri
<1>2. Queued(k1, {}) /\ Effect(k, k1, t, c)
  BY DEF MovedTo
<1>3. s \in Task /\ s # NoTask
  <2>1. f1[p] \in Queue
    BY <1>2, QueuedKernel
  <2>. QED
    BY <2>1, QueueElements, TaskAssumption DEF Queue
<1>4. c.priority = p /\ c.state = "READY"
  BY <1>1 DEF TCBType
<1>. HIDE DEF c
<1>5. /\ k1.tcb[s].state = "READY" /\ k1.tcb[s].priority = p
  BY <1>2, <1>3, ReadyInQueue
<1>6. \A u \in Task : /\ k1.tcb[u].state = IF u = t THEN "READY" ELSE k.tcb[u].state
                      /\ k1.tcb[u].priority = IF u = t THEN p ELSE k.tcb[u].priority
  BY <1>2, <1>4 DEF Effect, Alike
<1>7. k.tcb[s].priority = p
  BY <1>3, <1>5, <1>6
<1>8. /\ k.rq.top_priority = p /\ s = Head(f[p])
      /\ \A u \in Task : k.tcb[u].state = "READY" => p <= k.tcb[u].priority
  BY <1>1, <1>3, <1>7, Top
<1>9. /\ x \in Task /\ x # NoTask /\ k1.tcb[x].state = "READY"
      /\ k1.tcb[x].priority = k1.rq.top_priority
      /\ x = Head(f1[k1.rq.top_priority])
      /\ \A u \in Task : k1.tcb[u].state = "READY" => k1.tcb[x].priority <= k1.tcb[u].priority
  <2>1. x # NoTask
    BY <1>2, <1>3, <1>5, Top
  <2>. QED
    BY <1>2, <2>1, Top
<1>. HIDE DEF x
<1>10. k1.rq.top_priority = p
  <2>1. k1.tcb[x].priority <= p
    BY <1>3, <1>5, <1>9
  <2>2. p <= k1.tcb[x].priority
    BY <1>1, <1>6, <1>8, <1>9
  <2>3. k1.tcb[x].priority \in Int
    <3>1. IsKernel(k1)
      BY <1>2, QueuedKernel
    <3>2. k1.tcb[x] \in TCBType
      BY <1>9, <3>1 DEF IsKernel
    <3>3. k1.tcb[x].priority \in Pri
      BY <3>2 DEF TCBType
    <3>. QED
      BY <3>3 DEF Pri
  <2>. QED
    BY <1>1, <1>9, <2>1, <2>2, <2>3
<1>11. f1[p] = Append(QueueWithout(f[p], t), t)
  <2>1. ready_queue_delete(k, t).rq.tskque = [r \in Pri |-> QueueWithout(f[r], t)]
    BY DeleteQueues
  <2>2. f1 = [ready_queue_delete(k, t).rq.tskque EXCEPT ![p] = Append(@, t)]
    BY DEF MovedTo
  <2>. HIDE DEF f, f1
  <2>. QED
    BY <2>1, <2>2
<1>12. Head(f1[p]) = s
  <2>1. f[p] \in Queue /\ f[p] # <<>>
    <3>1. s \in ToSet(f[p])
      BY <1>1, <1>3, <1>6, <1>5, <1>7, ReadyInQueue
    <3>2. f[p] \in Queue
      BY <1>1, QueuedKernel
    <3>. QED
      BY <3>1, <3>2, EmptyQueue
  <2>2. QueueWithout(f[p], t) # <<>> /\ Head(QueueWithout(f[p], t)) = s
    BY <1>8, <2>1, HeadKept
  <2>3. QueueWithout(f[p], t) \in Seq(Task)
    BY <2>1, QueueRemoval DEF Queue
  <2>. QED
    BY <1>11, <2>2, <2>3, AppendHead
<1>. QED
  BY <1>9, <1>10, <1>12 DEF x

\* change_task_priority.
LEMMA ChangeReadyQueues ==
  ASSUME NEW k, KInv(k), NEW t \in Task, k.tcb[t].state = "READY", NEW p \in Pri,
         NEW k2, k2 = reschedule(ready_queue_insert(
                        [ready_queue_delete(k, t) EXCEPT !.tcb[t].priority = p], t))
  PROVE  Arranged(k.rq.tskque, k2.rq.tskque)
<1>. DEFINE k1 == ready_queue_insert(
                    [ready_queue_delete(k, t) EXCEPT !.tcb[t].priority = p], t)
            f == k.rq.tskque
            f1 == k1.rq.tskque
            f2 == k2.rq.tskque
            s == k.schedtsk
            c == [k.tcb[t] EXCEPT !.priority = p]
<1>1. Queued(k, {}) /\ s = ready_queue_top(k) /\ f \in TaskQueues
      /\ s \in Task \cup {NoTask} /\ k.tcb[t] \in TCBType
  <2>1. Queued(k, {}) /\ s = ready_queue_top(k)
    BY DEF KInv
  <2>2. IsKernel(k) /\ f \in TaskQueues
    BY <2>1, QueuedKernel, QueuesOf
  <2>. QED
    BY <2>1, <2>2 DEF IsKernel
<1>2. MovedTo(k, k1, t, p) /\ k2 = reschedule(k1)
  BY Requeue
<1>3. c.state = "READY"
  BY <1>1 DEF TCBType
<1>. HIDE DEF k1, c
<1>4. Queued(k1, {}) /\ Effect(k, k1, t, c) /\ k1.schedtsk = s
  BY <1>2 DEF MovedTo, c
<1>5. s # NoTask => k1.tcb[s].state = "READY"
  <2>1. s # NoTask => s \in Task /\ k.tcb[s].state = "READY"
    BY <1>1, Top
  <2>. QED
    BY <1>3, <1>4, <2>1 DEF Effect, Alike
<1>6. Charged(f1, f2, s) /\ (s = ready_queue_top(k1) => k2 = k1)
  BY <1>2, <1>4, <1>5, RescheduleQueues
<1>7. s \in ToSet(f1[p]) /\ s # t => f2 = f1
  BY <1>2, <1>6, MovedToTop
<1>8. ASSUME NEW r \in Pri
      PROVE  f1[r] = IF r = p THEN Append(QueueWithout(f[p], t), t) ELSE QueueWithout(f[r], t)
  <2>1. ready_queue_delete(k, t).rq.tskque = [q \in Pri |-> QueueWithout(f[q], t)]
    BY DeleteQueues
  <2>2. f1 = [ready_queue_delete(k, t).rq.tskque EXCEPT ![p] = Append(@, t)]
    BY <1>2 DEF MovedTo
  <2>. HIDE DEF f, f1
  <2>. QED
    BY <2>1, <2>2
<1>. HIDE DEF f, f1, f2, s
<1>9. Arranged(f, f2)
  BY <1>1, <1>6, <1>7, <1>8, MovedCharged, Zenon
<1>. QED
  BY <1>9 DEF f, f2

\* The time slice of the running task.
LEMMA TickQueues ==
  ASSUME NEW k, KInv(k), NEW k2, k2 = time_slice_tick(k)
  PROVE  Arranged(k.rq.tskque, k2.rq.tskque)
<1>1. CASE k2 = k
  BY <1>1, ArrangedSame
<1>2. CASE k.ctxtsk # NoTask /\ k.schedtsk = k.ctxtsk
  <2>. DEFINE t == k.ctxtsk
              k1 == time_slice_schedule(k, t)
  <2>1. Queued(k, {}) /\ t = ready_queue_top(k) /\ k.rq.tskque \in TaskQueues
    BY <1>2, QueuesOf DEF KInv
  <2>2. t \in Task /\ t \in Task \cup {NoTask} /\ k.tcb[t].state = "READY"
    BY <1>2, <2>1, Top
  <2>3. \E s : k2 = [k1 EXCEPT !.schedtsk = s]
    BY <1>2 DEF time_slice_tick
  <2>4. Charged(k.rq.tskque, k1.rq.tskque, t) /\ Queued(k1, {})
    BY <2>1, <2>2, TimeSlice, TimeSliceQueues DEF Moved
  <2>. HIDE DEF k1
  <2>5. k2.rq = k1.rq
    <3>1. IsKernel(k1)
      BY <2>4, QueuedKernel
    <3>. QED
      BY <2>3, <3>1 DEF IsKernel
  <2>. QED
    BY <2>1, <2>4, <2>5, ChargedArranged
<1>. QED
  BY <1>1, <1>2 DEF time_slice_tick
\* wait_cancel of a task that is not READY.
LEMMA WaitCancelQueues ==
  ASSUME NEW k, KInv(k), NEW t \in Task, k.tcb[t].state # "READY",
         NEW k1, k1 = wait_cancel(k, t)
  PROVE  k1.rq.tskque = k.rq.tskque
<1>. DEFINE k0 == timer_delete(k, t)
<1>1. /\ Queued(k, {}) /\ IsKernel(k) /\ k.rq.tskque \in TaskQueues
  BY QueuesOf, QueuedKernel DEF KInv
<1>2. IsKernel(k0) /\ k0.rq = k.rq
  <2>1. k.tcb[t] \in TCBType
    BY <1>1 DEF IsKernel
  <2>2. [k.tcb[t] EXCEPT !.wtmeb = FALSE] \in TCBType
    BY <2>1 DEF TCBType
  <2>3. k0 = [k EXCEPT !.tcb = [@ EXCEPT ![t] = [k.tcb[t] EXCEPT !.wtmeb = FALSE]]]
    BY <1>1 DEF timer_delete, IsKernel
  <2>. QED
    BY <1>1, <2>2, <2>3 DEF IsKernel
<1>3. k1 = QueRemove(k0, t)
  BY DEF wait_cancel
<1>. HIDE DEF k0
<1>4. k1.rq.tskque = [p \in Pri |-> QueueWithout(k.rq.tskque[p], t)]
  <2>1. k1.rq.tskque = [p \in Pri |-> QueueWithout(k0.rq.tskque[p], t)]
    BY <1>2, <1>3, QueRemoveQueues
  <2>. QED
    BY <1>2, <2>1
<1>5. \A p \in Pri : QueueWithout(k.rq.tskque[p], t) = k.rq.tskque[p]
  <2>1. \A p \in Pri : t \notin ToSet(k.rq.tskque[p])
    BY <1>1, ReadyInQueue
  <2>. QED
    BY <1>1, <2>1, QueuedKernel, QueueRemoval
<1>. QED
  BY <1>1, <1>4, <1>5 DEF TaskQueues

\* wait_release.
LEMMA WaitReleaseQueues ==
  ASSUME NEW k, KInv(k), NEW t \in Task, is_waiting(k.tcb[t].state),
         NEW k2, k2 = wait_release(k, t)
  PROVE  KInv(k2) /\ Arranged(k.rq.tskque, k2.rq.tskque)
<1>. DEFINE k1 == wait_cancel(k, t)
<1>1. k1 = wait_cancel(k, t) /\ k2 = make_non_wait(k1, t) /\ k.tcb[t].state # "READY"
  BY DEF wait_release, is_waiting
<1>2. KInv(k2) /\ k.tcb[t] \in TCBType
  BY WaitRelease, TaskBlock
<1>. HIDE DEF k1
<1>3. KInv(k1) /\ Unlink(k, k1, t, Untimed(k.tcb[t])) /\ Unqueued(k1, t)
  BY <1>1, WaitCancel
<1>4. k1.rq.tskque = k.rq.tskque
  BY <1>1, WaitCancelQueues
<1>5. k1.tcb[t].state = k.tcb[t].state
  BY <1>2, <1>3 DEF Unlink, Untimed, TCBType, Alike
<1>6. CASE k1.tcb[t].state = "WAIT"
  <2>1. k2 = make_ready(k1, t) /\ k1.tcb[t].state # "READY"
    BY <1>1, <1>5, <1>6 DEF make_non_wait
  <2>2. Arranged(k1.rq.tskque, k2.rq.tskque)
    BY <1>3, <2>1, MakeReadyQueues
  <2>. QED
    BY <1>2, <1>4, <2>2
<1>7. CASE k1.tcb[t].state # "WAIT"
  <2>1. IsKernel(k1)
    BY <1>3, TaskBlock
  <2>2. k2.rq = k1.rq
    BY <1>1, <1>7, <2>1 DEF make_non_wait, IsKernel
  <2>. QED
    BY <1>2, <1>4, <2>2, ArrangedSame
<1>. QED
  BY <1>6, <1>7

\* suspend.
LEMMA SuspendQueues ==
  ASSUME NEW k, KInv(k), NEW t \in Task, k.tcb[t].suscnt < MaxSus,
         NEW k2, k2 = suspend(k, t)
  PROVE  Arranged(k.rq.tskque, k2.rq.tskque)
<1>. DEFINE c0 == [k.tcb[t] EXCEPT !.suscnt = @ + 1]
            k0 == [k EXCEPT !.tcb[t] = c0]
            k1 == make_non_ready(k0, t)
<1>1. /\ IsKernel(k) /\ k.tcb \in [Task -> TCBType] /\ k.tcb[t] \in TCBType
      /\ ~k.tcb[t].klocked /\ ~k.tcb[t].klockwait
  BY TaskBlock
<1>2. k0 = [k EXCEPT !.tcb[t].suscnt = @ + 1]
  BY <1>1 DEF IsKernel
<1>3. /\ c0 \in TCBType /\ ~c0.klocked /\ ~c0.klockwait
      /\ c0.state = k.tcb[t].state /\ c0.priority = k.tcb[t].priority
  <2>1. k.tcb[t].suscnt + 1 \in 0 .. MaxSus
    BY <1>1, TaskAssumption DEF TCBType
  <2>. QED
    BY <1>1, <2>1 DEF TCBType
<1>. HIDE DEF c0
<1>4. KInv(k0)
  BY <1>1, <1>3, SetData
<1>5. k0.tcb[t] = c0 /\ k0.rq = k.rq /\ IsKernel(k0)
  BY <1>1, <1>4, TaskBlock DEF IsKernel
<1>6. CASE k.tcb[t].state = "READY"
  <2>1. k2 = [k1 EXCEPT !.tcb[t].state = "SUSPEND"] /\ k1 = make_non_ready(k0, t)
    BY <1>2, <1>6 DEF suspend
  <2>2. k0.tcb[t].state = "READY"
    BY <1>3, <1>5, <1>6
  <2>. HIDE DEF k0, k1
  <2>3. Arranged(k0.rq.tskque, k1.rq.tskque) /\ IsKernel(k1)
    BY <1>4, <2>1, <2>2, MakeNonReadyQueues, MakeNonReady, QueuedKernel
  <2>4. k2.rq = k1.rq
    BY <2>1, <2>3 DEF IsKernel
  <2>. QED
    BY <1>5, <2>3, <2>4
<1>7. CASE k.tcb[t].state # "READY"
  <2>1. k2 = k0 \/ k2 = [k0 EXCEPT !.tcb[t].state = "WAITSUS"]
    BY <1>2, <1>7 DEF suspend
  <2>. HIDE DEF k0
  <2>2. k2.rq = k0.rq
    BY <1>5, <2>1 DEF IsKernel
  <2>. QED
    BY <1>5, <2>2, ArrangedSame
<1>. QED
  BY <1>6, <1>7

\* resume.
LEMMA ResumeQueues ==
  ASSUME NEW k, KInv(k), NEW t \in Task, NEW n \in Nat, n < k.tcb[t].suscnt,
         k.tcb[t].state \in {"SUSPEND", "WAITSUS"},
         k.tcb[t].state = "SUSPEND" => Unqueued(k, t),
         NEW k2, k2 = resume(k, t, n)
  PROVE  Arranged(k.rq.tskque, k2.rq.tskque)
<1>. DEFINE c0 == [k.tcb[t] EXCEPT !.suscnt = n]
            k0 == [k EXCEPT !.tcb[t] = c0]
<1>1. /\ IsKernel(k) /\ k.tcb \in [Task -> TCBType] /\ k.tcb[t] \in TCBType
      /\ ~k.tcb[t].klocked /\ ~k.tcb[t].klockwait
  BY TaskBlock
<1>2. k0 = [k EXCEPT !.tcb[t].suscnt = n]
  BY <1>1 DEF IsKernel
<1>3. /\ c0 \in TCBType /\ ~c0.klocked /\ ~c0.klockwait
      /\ c0.state = k.tcb[t].state /\ c0.priority = k.tcb[t].priority
  <2>1. n \in 0 .. MaxSus
    BY <1>1, TaskAssumption DEF TCBType
  <2>. QED
    BY <1>1, <2>1 DEF TCBType
<1>. HIDE DEF c0
<1>4. KInv(k0) /\ k0.wq = k.wq
  <2>1. KInv(k0) /\ Effect(k, k0, t, c0)
    BY <1>1, <1>3, SetData
  <2>. QED
    BY <2>1 DEF Effect, SameContext
<1>5. k0.tcb[t] = c0 /\ k0.rq = k.rq /\ IsKernel(k0)
  BY <1>1, <1>4, TaskBlock DEF IsKernel
<1>. HIDE DEF k0
<1>6. k2 = IF n > 0 THEN k0
           ELSE IF k.tcb[t].state = "SUSPEND" THEN make_ready(k0, t)
           ELSE [k0 EXCEPT !.tcb[t].state = "WAIT"]
  BY <1>2, Zenon DEF resume
<1>7. CASE n > 0 \/ k.tcb[t].state # "SUSPEND"
  <2>1. k2.rq = k0.rq
    BY <1>5, <1>6, <1>7 DEF IsKernel
  <2>. QED
    BY <1>5, <2>1, ArrangedSame
<1>8. CASE ~(n > 0) /\ k.tcb[t].state = "SUSPEND"
  <2>1. k2 = make_ready(k0, t)
    BY <1>6, <1>8
  <2>2. Unqueued(k0, t) /\ k0.tcb[t].state # "READY"
    BY <1>3, <1>4, <1>5, <1>8 DEF Unqueued
  <2>3. Arranged(k0.rq.tskque, k2.rq.tskque)
    BY <1>4, <2>1, <2>2, MakeReadyQueues
  <2>. QED
    BY <1>5, <2>3
<1>. QED
  BY <1>7, <1>8

\* make_wait of a READY task.
LEMMA MakeWaitQueues ==
  ASSUME NEW k, KInv(k), NEW t \in Task, k.ctxtsk = t, k.tcb[t].state = "READY",
         NEW fac, NEW w, NEW tmout, NEW nodiswai,
         NEW k2, k2 = make_wait(k, fac, w, tmout, nodiswai)
  PROVE  Arranged(k.rq.tskque, k2.rq.tskque)
<1>. DEFINE k1 == make_non_ready(k, t)
            k3 == [k1 EXCEPT !.tcb[t].state = "WAIT"]
<1>1. Arranged(k.rq.tskque, k1.rq.tskque) /\ IsKernel(k1)
  BY MakeNonReadyQueues, MakeNonReady, QueuedKernel
<1>2. k2 = [k3 EXCEPT !.tcb[t] = [@ EXCEPT !.tskwait = fac, !.wid = w,
                                   !.wercd = "E_TMOUT", !.nodiswai = nodiswai,
                                   !.wtmeb = (tmout # "TMO_FEVR")]]
  BY DEF make_wait
<1>3. k3 = [k1 EXCEPT !.tcb[t].state = "WAIT"]
  OBVIOUS
<1>. HIDE DEF k1, k3
<1>4. k2.rq = k1.rq
  BY <1>1, <1>2, <1>3 DEF IsKernel
<1>. QED
  BY <1>1, <1>4

\* tk_chg_pri, on the TCB whose base priority has been set.
LEMMA ChangePriorityQueues ==
  ASSUME NEW k, KInv(k), NEW t \in Task, NEW p \in Pri,
         NEW k2, k2 = change_task_priority([k EXCEPT !.tcb[t].bpriority = p], t, p)
  PROVE  Arranged(k.rq.tskque, k2.rq.tskque)
<1>. DEFINE c0 == [k.tcb[t] EXCEPT !.bpriority = p]
            k0 == [k EXCEPT !.tcb[t] = c0]
<1>1. /\ IsKernel(k) /\ k.tcb \in [Task -> TCBType] /\ k.tcb[t] \in TCBType
      /\ ~k.tcb[t].klocked /\ ~k.tcb[t].klockwait
  BY TaskBlock
<1>2. /\ c0 \in TCBType /\ ~c0.klocked /\ ~c0.klockwait
      /\ c0.state = k.tcb[t].state /\ c0.priority = k.tcb[t].priority
  BY <1>1 DEF TCBType
<1>3. k2 = change_task_priority(k0, t, p)
  BY <1>1 DEF IsKernel
<1>4. k0 = [k EXCEPT !.tcb[t] = c0]
  OBVIOUS
<1>. HIDE DEF c0, k0
<1>5. KInv(k0)
  BY <1>1, <1>2, <1>4, SetData
<1>6. IsKernel(k0) /\ k0.rq = k.rq
  BY <1>1, <1>4, <1>5, TaskBlock DEF IsKernel
<1>7. CASE k0.tcb[t].state = "READY"
  <2>1. k2 = reschedule(ready_queue_insert(
               [ready_queue_delete(k0, t) EXCEPT !.tcb[t].priority = p], t))
    BY <1>3, <1>7 DEF change_task_priority
  <2>2. Arranged(k0.rq.tskque, k2.rq.tskque)
    BY <1>5, <1>7, <2>1, ChangeReadyQueues
  <2>. QED
    BY <1>6, <2>2
<1>8. CASE k0.tcb[t].state # "READY"
  <2>1. k2 = [k0 EXCEPT !.tcb[t].priority = p]
    BY <1>3, <1>8 DEF change_task_priority
  <2>2. k2.rq = k0.rq
    BY <1>6, <2>1 DEF IsKernel
  <2>. QED
    BY <1>6, <2>2, ArrangedSame
<1>. QED
  BY <1>7, <1>8

\* _ter_tsk.
LEMMA TerminateQueues ==
  ASSUME NEW k, KInv(k), NEW t \in Task, NEW k2, k2 = _ter_tsk(k, t)
  PROVE  IsKernel(k2) /\ Arranged(k.rq.tskque, k2.rq.tskque)
<1>1. CASE k.tcb[t].state = "READY"
  <2>1. k2 = make_non_ready(k, t)
    BY <1>1 DEF _ter_tsk
  <2>. QED
    BY <1>1, <2>1, MakeNonReadyQueues, MakeNonReady, QueuedKernel
<1>2. CASE is_waiting(k.tcb[t].state)
  <2>1. k2 = wait_cancel(k, t) /\ k.tcb[t].state # "READY"
    BY <1>2 DEF _ter_tsk, is_waiting
  <2>2. KInv(k2) /\ k2.rq.tskque = k.rq.tskque
    BY <2>1, WaitCancel, WaitCancelQueues
  <2>. QED
    BY <2>2, TaskBlock, ArrangedSame
<1>3. CASE k2 = k
  BY <1>3, TaskBlock, ArrangedSame
<1>. QED
  BY <1>1, <1>2, <1>3 DEF _ter_tsk

-----------------------------------------------------------------------------
(* The loop of wait_delete.                                                *)

\* f is the run of its first m iterations, for the queue q.
DeleteRun(f, k, q, m) ==
  f = [n \in 0 .. m |-> IF n = 0 THEN k
                        ELSE end_wait(wait_release(f[n - 1], q[n]), q[n], "E_DLT")]

DeleteSteps(f, k, q, m) ==
  /\ f[0] = k
  /\ \A n \in 1 .. m : f[n] = end_wait(wait_release(f[n - 1], q[n]), q[n], "E_DLT")

\* wait_delete runs for every length of the queue.
LEMMA DeleteRuns ==
  ASSUME NEW k, NEW q, NEW m \in Nat
  PROVE  \E f : DeleteRun(f, k, q, m)
<1>. DEFINE S == {n \in Nat : ~\E f : DeleteRun(f, k, q, n)}
            body(x, u) == end_wait(wait_release(x, u), u, "E_DLT")
<1>1. SUFFICES ASSUME S # {} PROVE FALSE
  OBVIOUS
<1>2. PICK n \in S : \A i \in S : n <= i
  BY <1>1, LeastElement
<1>3. CASE n = 0
  <2>. DEFINE g == [i \in 0 .. 0 |-> k]
  <2>1. DeleteRun(g, k, q, 0)
    BY DEF DeleteRun
  <2>. QED
    BY <1>2, <1>3, <2>1
<1>4. CASE n # 0
  <2>1. n - 1 \in Nat /\ ~(n <= n - 1) /\ n - 1 \notin S /\ n \in Nat
    BY <1>2, <1>4
  <2>2. PICK f : DeleteRun(f, k, q, n - 1)
    BY <2>1
  <2>. DEFINE g == [i \in 0 .. n |-> IF i = n THEN body(f[n - 1], q[n]) ELSE f[i]]
              h == [i \in 0 .. n |-> IF i = 0 THEN k ELSE body(g[i - 1], q[i])]
  <2>3. ASSUME NEW i \in 0 .. n PROVE g[i] = h[i]
    <3>1. CASE i = n
      <4>1. n - 1 \in 0 .. n /\ n - 1 # n /\ n # 0
        BY <1>4, <2>1
      <4>. QED
        BY <3>1, <4>1
    <3>2. CASE i # n
      <4>1. i \in 0 .. n - 1
        BY <2>1, <3>2
      <4>2. f[i] = IF i = 0 THEN k ELSE body(f[i - 1], q[i])
        BY <2>2, <4>1 DEF DeleteRun
      <4>3. i # 0 => i - 1 \in 0 .. n /\ i - 1 # n
        BY <2>1, <4>1
      <4>. QED
        BY <3>2, <4>2, <4>3
    <3>. QED
      BY <3>1, <3>2
  <2>4. g = h
    BY <2>3
  <2>5. DeleteRun(g, k, q, n)
    BY <2>4 DEF DeleteRun
  <2>. QED
    BY <1>2, <2>5
<1>. QED
  BY <1>3, <1>4

\* The result of wait_delete is that of its last iteration.
LEMMA WaitDelete ==
  ASSUME NEW k, NEW w, NEW q, q = k.wq[w], Len(q) \in Nat
  PROVE  \E f : DeleteSteps(f, k, q, Len(q)) /\ wait_delete(k, w) = f[Len(q)]
<1>. DEFINE f == CHOOSE f : DeleteRun(f, k, q, Len(q))
<1>1. DeleteRun(f, k, q, Len(q))
  BY DeleteRuns
<1>2. wait_delete(k, w) = f[Len(q)]
  BY DEF wait_delete, DeleteRun
<1>. HIDE DEF f
<1>3. DeleteSteps(f, k, q, Len(q))
  <2>1. \A n \in 0 .. Len(q) : f[n] = IF n = 0 THEN k
                             ELSE end_wait(wait_release(f[n - 1], q[n]), q[n], "E_DLT")
    BY <1>1 DEF DeleteRun
  <2>2. 0 \in 0 .. Len(q) /\ \A n \in 1 .. Len(q) : n \in 0 .. Len(q) /\ n # 0
    OBVIOUS
  <2>. QED
    BY <2>1, <2>2 DEF DeleteSteps
<1>. QED
  BY <1>2, <1>3

=============================================================================
