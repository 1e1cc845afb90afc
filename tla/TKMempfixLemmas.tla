--------------------------- MODULE TKMempfixLemmas ---------------------------
(***************************************************************************)
(* What the helpers of the kernel do to a kernel whose tasks queue for a   *)
(* kernel lock, and that the steps of a call under the lock keep it right. *)
(*                                                                         *)
(* A task that queues for a lock is READY but not in the ready queue, and  *)
(* a task that has the lock may be suspended with it, so the invariant of  *)
(* the task layer does not hold here; Links takes its place.               *)
(***************************************************************************)
EXTENDS TKMempfix, TKKernelLemmas, FiniteSetTheorems

-----------------------------------------------------------------------------
(* Where a task with the block c is linked, if l is the lock of the pool it *)
(* is in a call for.                                                        *)

Runnable(c) == c.state = "READY" /\ ~c.klockwait

InReady(c, p) == Runnable(c) /\ c.priority = p

InWait(c, l, w) == (c.klockwait /\ l = w) \/ (is_waiting(c.state) /\ c.wid = w)

Sane(c) == /\ c.klockwait => c.state = "READY" /\ ~c.klocked
           /\ is_waiting(c.state) => c.wid \in WaitQueue \ Lock
           /\ c.wtmeb => is_waiting(c.state)
           /\ c.state \in {"SUSPEND", "WAITSUS"} => c.suscnt > 0

\* The tasks in X are linked nowhere, all others where they belong.
ReadyLinks(k, X) ==
  \A p \in Pri : /\ k.rq.tskque[p] \in Queue
                 /\ ToSet(k.rq.tskque[p]) = {u \in Task \ X : InReady(k.tcb[u], p)}

WaitLinks(k, L, X) ==
  \A w \in WaitQueue : /\ k.wq[w] \in Queue
                       /\ ToSet(k.wq[w]) = {u \in Task \ X : InWait(k.tcb[u], L[u], w)}

ReadyCache(k) ==
  /\ k.rq.bitmap = {p \in Pri : k.rq.tskque[p] # <<>>}
  /\ k.rq.top_priority \in k.rq.bitmap \cup {NumPri}

SinglePool == \E m \in Mpf : Mpf = {m}

\* With a single pool its holder is klocktsk while it is READY.
LockTask(k, X) ==
  /\ k.rq.klocktsk # NoTask =>
       /\ k.rq.klocktsk \in Task \ X
       /\ Runnable(k.tcb[k.rq.klocktsk]) /\ k.tcb[k.rq.klocktsk].klocked
  /\ SinglePool =>
       /\ \A u, v \in Task : k.tcb[u].klocked /\ k.tcb[v].klocked => u = v
       /\ \A u \in Task \ X : k.tcb[u].klocked /\ k.tcb[u].state = "READY" =>
                                k.rq.klocktsk = u

Schedulable(k, X, s) == s # NoTask => s \in Task \ X /\ Runnable(k.tcb[s])

Blocks(k, X) ==
  \A u \in Task : /\ k.tcb[u].slicetime = 0
                  /\ u \notin X => Sane(k.tcb[u])

Links(k, L, X) ==
  /\ IsKernel(k)
  /\ ReadyLinks(k, X)
  /\ WaitLinks(k, L, X)
  /\ ReadyCache(k)
  /\ LockTask(k, X)
  /\ k.schedtsk \in X \/ Schedulable(k, X, k.schedtsk)
  /\ Blocks(k, X)

\* The kernel lock keeps its holders, and nobody queues for it anew.
Calm(k, k2) ==
  /\ k2.ctxtsk = k.ctxtsk /\ k2.obj = k.obj
  /\ \A u \in Task : /\ k2.tcb[u].klocked = k.tcb[u].klocked
                     /\ k2.tcb[u].klockwait => k.tcb[u].klockwait

\* An element that is put in front of a sequence.
LEMMA Prepended ==
  ASSUME NEW S, NEW q \in Unrepeated(S), NEW t \in S, t \notin ToSet(q)
  PROVE  /\ <<t>> \o q \in Unrepeated(S)
         /\ ToSet(<<t>> \o q) = ToSet(q) \cup {t}
         /\ Len(<<t>> \o q) = Len(q) + 1
<1>1. /\ q \in Seq(S) /\ Len(q) \in Nat /\ DOMAIN q = 1 .. Len(q)
      /\ ToSet(q) = {q[i] : i \in 1 .. Len(q)}
      /\ \A i, j \in 1 .. Len(q) : q[i] = q[j] => i = j
  BY Elements DEF Unrepeated, IsInjective
<1>2. PICK r : r = <<t>> \o q
  OBVIOUS
<1>3. /\ r \in Seq(S) /\ Len(r) = Len(q) + 1
      /\ r[1] = t /\ \A i \in 1 .. Len(q) : r[i + 1] = q[i]
  BY <1>1, <1>2
<1>4. DOMAIN r = 1 .. Len(q) + 1 /\ ToSet(r) = {r[i] : i \in 1 .. Len(q) + 1}
  BY <1>3, Elements
<1>5. \A i \in 1 .. Len(q) + 1 : i = 1 \/ (i - 1 \in 1 .. Len(q) /\ r[i] = q[i - 1])
  <2>1. SUFFICES ASSUME NEW i \in 1 .. Len(q) + 1, i # 1
                 PROVE  i - 1 \in 1 .. Len(q) /\ r[i] = q[i - 1]
    OBVIOUS
  <2>2. i - 1 \in 1 .. Len(q) /\ (i - 1) + 1 = i
    BY <1>1, <2>1
  <2>. QED
    BY <1>3, <2>2
<1>6. ToSet(r) = ToSet(q) \cup {t}
  <2>1. ToSet(q) \cup {t} \subseteq ToSet(r)
    <3>1. \A i \in 1 .. Len(q) : i + 1 \in 1 .. Len(q) + 1
      BY <1>1
    <3>2. 1 \in 1 .. Len(q) + 1
      BY <1>1
    <3>. QED
      BY <1>1, <1>3, <1>4, <3>1, <3>2
  <2>2. ToSet(r) \subseteq ToSet(q) \cup {t}
    BY <1>1, <1>3, <1>4, <1>5
  <2>. QED
    BY <2>1, <2>2
<1>7. \A i, j \in 1 .. Len(q) + 1 : r[i] = r[j] => i = j
  <2>1. SUFFICES ASSUME NEW i \in 1 .. Len(q) + 1, NEW j \in 1 .. Len(q) + 1, r[i] = r[j]
                 PROVE  i = j
    OBVIOUS
  <2>2. \A n \in 1 .. Len(q) : q[n] # t
    BY <1>1
  <2>3. i = 1 <=> j = 1
    BY <1>3, <1>5, <2>1, <2>2
  <2>4. CASE i # 1 /\ j # 1
    <3>1. i - 1 = j - 1
      BY <1>1, <1>5, <2>1, <2>4
    <3>. QED
      BY <1>1, <2>1, <3>1
  <2>. QED
    BY <2>3, <2>4
<1>. QED
  BY <1>2, <1>3, <1>4, <1>6, <1>7 DEF Unrepeated, IsInjective

\* A task that is linked at the head of a queue (ready_queue_insert_top).
LEMMA QueuePrepend ==
  ASSUME NEW q \in Queue, NEW t \in Task, t \notin ToSet(q)
  PROVE  /\ <<t>> \o q \in Queue
         /\ ToSet(<<t>> \o q) = ToSet(q) \cup {t}
BY Prepended DEF Queue, Unrepeated

-----------------------------------------------------------------------------
(* Taking a task out of the queue it is linked in.                          *)

\* From k to k1 only the links of t go.
Unhooked(k, k1, L, t) ==
  /\ IsKernel(k1)
  /\ ReadyLinks(k1, {t})
  /\ WaitLinks(k1, L, {t})
  /\ k1.tcb = k.tcb /\ k1.schedtsk = k.schedtsk /\ k1.ctxtsk = k.ctxtsk /\ k1.obj = k.obj
  /\ k1.rq.bitmap = k.rq.bitmap /\ k1.rq.top_priority = k.rq.top_priority
  /\ k1.rq.klocktsk = k.rq.klocktsk
  /\ \A p \in Pri : ~InReady(k.tcb[t], p) => k1.rq.tskque[p] = k.rq.tskque[p]

\* QueRemove takes a task out of the queue it is linked in, whichever that is.
LEMMA Unhook ==
  ASSUME NEW k, NEW L, NEW t \in Task, Links(k, L, {}), NEW k1, k1 = QueRemove(k, t)
  PROVE  Unhooked(k, k1, L, t)
<1>. DEFINE q == [p \in Pri |-> QueueWithout(k.rq.tskque[p], t)]
            v == [w \in WaitQueue |-> QueueWithout(k.wq[w], t)]
<1>1. IsKernel(k) /\ ReadyLinks(k, {}) /\ WaitLinks(k, L, {})
  BY DEF Links
<1>2. k1 = [k EXCEPT !.rq.tskque = q, !.wq = v]
  BY DEF QueRemove
<1>3. \A p \in Pri : /\ q[p] \in Queue /\ ToSet(q[p]) = ToSet(k.rq.tskque[p]) \ {t}
                     /\ t \notin ToSet(k.rq.tskque[p]) => q[p] = k.rq.tskque[p]
  BY <1>1, QueueRemoval DEF ReadyLinks
<1>4. \A w \in WaitQueue : v[w] \in Queue /\ ToSet(v[w]) = ToSet(k.wq[w]) \ {t}
  BY <1>1, QueueRemoval DEF WaitLinks
<1>5. q \in [Pri -> Seq(Task)] /\ v \in [WaitQueue -> Seq(Task)]
  BY <1>3, <1>4 DEF Queue
<1>. HIDE DEF q, v
<1>6. /\ IsKernel(k1) /\ k1.rq.tskque = q /\ k1.wq = v
      /\ k1.tcb = k.tcb /\ k1.schedtsk = k.schedtsk /\ k1.ctxtsk = k.ctxtsk
      /\ k1.obj = k.obj
      /\ k1.rq.bitmap = k.rq.bitmap /\ k1.rq.top_priority = k.rq.top_priority
      /\ k1.rq.klocktsk = k.rq.klocktsk
  <2>1. k1.rq = [k.rq EXCEPT !.tskque = q] /\ k1 = [k EXCEPT !.rq = k1.rq, !.wq = v]
    BY <1>1, <1>2 DEF IsKernel
  <2>2. k.rq \in RQType
    BY <1>1 DEF IsKernel
  <2>3. /\ k1.rq \in RQType /\ k1.rq.tskque = q
        /\ k1.rq.bitmap = k.rq.bitmap /\ k1.rq.top_priority = k.rq.top_priority
        /\ k1.rq.klocktsk = k.rq.klocktsk
    BY <1>5, <2>1, <2>2 DEF RQType
  <2>. QED
    BY <1>1, <1>5, <2>1, <2>3 DEF IsKernel
<1>7. \A p \in Pri : /\ k1.rq.tskque[p] \in Queue
                     /\ ToSet(k1.rq.tskque[p]) = {u \in Task \ {t} : InReady(k1.tcb[u], p)}
  BY <1>1, <1>3, <1>6 DEF ReadyLinks
<1>8. \A w \in WaitQueue : /\ k1.wq[w] \in Queue
                           /\ ToSet(k1.wq[w]) = {u \in Task \ {t} : InWait(k1.tcb[u], L[u], w)}
  BY <1>1, <1>4, <1>6 DEF WaitLinks
<1>9. \A p \in Pri : ~InReady(k.tcb[t], p) => k1.rq.tskque[p] = k.rq.tskque[p]
  BY <1>1, <1>3, <1>6 DEF ReadyLinks
<1>. QED
  BY <1>6, <1>7, <1>8, <1>9 DEF Unhooked, ReadyLinks, WaitLinks

\* A task that waits is in no ready queue.
LEMMA UnhookOther ==
  ASSUME NEW k, NEW L, NEW t \in Task, Links(k, L, {}), ~Runnable(k.tcb[t]),
         NEW k1, k1 = QueRemove(k, t)
  PROVE  Links(k1, L, {t})
<1>1. Unhooked(k, k1, L, t)
  BY Unhook, Zenon
<1>2. /\ IsKernel(k1) /\ ReadyLinks(k1, {t}) /\ WaitLinks(k1, L, {t})
      /\ k1.tcb = k.tcb /\ k1.schedtsk = k.schedtsk
      /\ k1.rq.bitmap = k.rq.bitmap /\ k1.rq.top_priority = k.rq.top_priority
      /\ k1.rq.klocktsk = k.rq.klocktsk
      /\ \A p \in Pri : k1.rq.tskque[p] = k.rq.tskque[p]
  BY <1>1 DEF Unhooked, InReady
<1>3. ReadyCache(k1)
  BY <1>2 DEF Links, ReadyCache
<1>4. LockTask(k1, {t})
  BY <1>2 DEF Links, LockTask
<1>5. Schedulable(k1, {t}, k1.schedtsk) /\ Blocks(k1, {t})
  BY <1>2 DEF Links, Schedulable, Blocks
<1>. QED
  BY <1>2, <1>3, <1>4, <1>5 DEF Links
\* klocktsk after ready_queue_delete.
Unmarked(k, t) == IF k.rq.klocktsk = t THEN NoTask ELSE k.rq.klocktsk

\* ready_queue_delete takes a task out of the ready queue.
LEMMA DeleteRunnable ==
  ASSUME NEW k, NEW L, NEW t \in Task, Links(k, L, {}), Runnable(k.tcb[t]),
         NEW k2, k2 = ready_queue_delete(k, t)
  PROVE  /\ Links(k2, L, {t})
         /\ k2.tcb = k.tcb /\ k2.ctxtsk = k.ctxtsk /\ k2.obj = k.obj
         /\ k2.schedtsk = k.schedtsk
<1>. DEFINE p == k.tcb[t].priority
            bm == k.rq.bitmap \ {p}
<1>0. PICK k0 : k0 = QueRemove(k, t)
  OBVIOUS
<1>1. Unhooked(k, k0, L, t)
  BY <1>0, Unhook, Zenon
<1>2. /\ IsKernel(k) /\ p \in Pri /\ k.rq \in RQType /\ k.rq.bitmap \in SUBSET Pri
      /\ bm \in SUBSET Pri /\ NoTask \notin Task
  BY TaskAssumption DEF Links, IsKernel, RQType, TCBType
<1>3. /\ IsKernel(k0) /\ k0.rq \in RQType /\ ReadyLinks(k0, {t}) /\ WaitLinks(k0, L, {t})
      /\ k0.tcb = k.tcb /\ k0.schedtsk = k.schedtsk /\ k0.ctxtsk = k.ctxtsk /\ k0.obj = k.obj
      /\ k0.rq.bitmap = k.rq.bitmap /\ k0.rq.top_priority = k.rq.top_priority
      /\ k0.rq.klocktsk = k.rq.klocktsk
      /\ \A r \in Pri : r # p => k0.rq.tskque[r] = k.rq.tskque[r]
  BY <1>1 DEF Unhooked, InReady, IsKernel
<1>4. /\ first_priority(bm, p) \in 0 .. NumPri
      /\ first_priority(bm, p) \in bm \cup {NumPri}
  BY <1>2, FirstPriority
<1>. DEFINE empty == k0.rq.tskque[p] = <<>>
            bm2 == IF empty THEN bm ELSE k.rq.bitmap
            top == IF empty /\ p = k.rq.top_priority THEN first_priority(bm, p)
                   ELSE k.rq.top_priority
            kl == Unmarked(k, t)
            rq2 == [k0.rq EXCEPT !.bitmap = bm2, !.top_priority = top, !.klocktsk = kl]
<1>5. ~k.tcb[t].klockwait
  BY DEF Runnable
<1>6. k2 = [k0 EXCEPT !.rq = rq2]
  <2>. DEFINE k1 == [QueRemove(k, t) EXCEPT !.rq.klocktsk = IF @ = t THEN NoTask ELSE @]
  <2>1. /\ k1 = [k0 EXCEPT !.rq = k1.rq] /\ k1.rq = [k0.rq EXCEPT !.klocktsk = kl]
        /\ k1.rq \in RQType /\ k1.rq.bitmap = k.rq.bitmap
        /\ k1.rq.top_priority = k.rq.top_priority /\ k1.rq.tskque = k0.rq.tskque
    BY <1>0, <1>3 DEF IsKernel, RQType, Unmarked
  <2>2. k2 = IF k1.rq.tskque[p] # <<>> THEN k1
             ELSE [k1 EXCEPT !.rq.bitmap = k1.rq.bitmap \ {p},
                             !.rq.top_priority =
                               IF p # @ THEN @
                               ELSE first_priority(k1.rq.bitmap \ {p}, p)]
    BY <1>5 DEF ready_queue_delete
  <2>. HIDE DEF k1, kl
  <2>3. CASE empty
    <3>1. k2 = [k1 EXCEPT !.rq = [k1.rq EXCEPT !.bitmap = bm,
                   !.top_priority = IF p # @ THEN @ ELSE first_priority(bm, p)]]
      BY <1>3, <2>1, <2>2, <2>3 DEF IsKernel, RQType
    <3>2. [k1.rq EXCEPT !.bitmap = bm,
                   !.top_priority = IF p # @ THEN @ ELSE first_priority(bm, p)] = rq2
      BY <1>3, <2>1, <2>3 DEF RQType
    <3>. HIDE DEF rq2
    <3>. QED
      BY <1>3, <2>1, <3>1, <3>2 DEF IsKernel
  <2>4. CASE ~empty
    <3>1. k2 = k1
      BY <2>1, <2>2, <2>4
    <3>2. k1.rq = rq2
      BY <1>3, <2>1, <2>4 DEF RQType
    <3>. HIDE DEF rq2
    <3>. QED
      BY <2>1, <3>1, <3>2
  <2>. QED
    BY <2>3, <2>4
<1>7. bm2 \in SUBSET Pri /\ top \in 0 .. NumPri /\ kl \in Task \cup {NoTask}
  BY <1>2, <1>4 DEF RQType, Unmarked
<1>8. top \in bm2 \cup {NumPri}
  BY <1>2, <1>4 DEF Links, ReadyCache
<1>9. bm2 = {r \in Pri : k0.rq.tskque[r] # <<>>}
  <2>1. \A r \in Pri : r \in k.rq.bitmap <=> k.rq.tskque[r] # <<>>
    BY DEF Links, ReadyCache
  <2>2. p \in k.rq.bitmap
    <3>1. t \in ToSet(k.rq.tskque[p])
      BY <1>2 DEF Links, ReadyLinks, InReady
    <3>. QED
      BY <1>2, <2>1, <3>1, EmptyQueue
  <2>3. \A r \in Pri : r \in bm2 <=> k0.rq.tskque[r] # <<>>
    BY <1>3, <2>1, <2>2
  <2>. QED
    BY <1>7, <2>3
<1>10. /\ LockTask(k, {}) /\ Schedulable(k, {}, k.schedtsk) /\ Blocks(k, {})
  BY DEF Links, Schedulable
<1>. HIDE DEF bm2, top, kl
<1>11. /\ rq2 \in RQType /\ rq2.tskque = k0.rq.tskque /\ rq2.bitmap = bm2
       /\ rq2.top_priority = top /\ rq2.klocktsk = kl
  BY <1>3, <1>7 DEF RQType
<1>. HIDE DEF rq2
<1>12. /\ k2.rq = rq2 /\ k2.tcb = k.tcb /\ k2.ctxtsk = k.ctxtsk /\ k2.obj = k.obj
       /\ k2.schedtsk = k.schedtsk /\ k2.wq = k0.wq /\ IsKernel(k2)
  BY <1>3, <1>6, <1>11 DEF IsKernel
<1>13. ReadyLinks(k2, {t}) /\ WaitLinks(k2, L, {t})
  BY <1>3, <1>11, <1>12 DEF ReadyLinks, WaitLinks
<1>14. ReadyCache(k2)
  BY <1>8, <1>9, <1>11, <1>12 DEF ReadyCache
<1>15. LockTask(k2, {t})
  <2>1. k2.rq.klocktsk = IF k.rq.klocktsk = t THEN NoTask ELSE k.rq.klocktsk
    BY <1>11, <1>12 DEF kl, Unmarked
  <2>. QED
    BY <1>10, <1>12, <2>1 DEF LockTask
<1>16. k2.schedtsk \in {t} \/ Schedulable(k2, {t}, k2.schedtsk)
  BY <1>10, <1>12 DEF Schedulable
<1>17. Blocks(k2, {t})
  BY <1>10, <1>12 DEF Blocks
<1>. QED
  BY <1>12, <1>13, <1>14, <1>15, <1>16, <1>17 DEF Links

\* From k to k2 only the block of t changes, to c.
NewBlock(k, k2, t, c) ==
  /\ k2.tcb = [k.tcb EXCEPT ![t] = c] /\ k2.tcb[t] = c
  /\ k2.ctxtsk = k.ctxtsk /\ k2.obj = k.obj /\ k2.schedtsk = k.schedtsk
  /\ k2.wq = k.wq /\ k2.rq = k.rq

\* The block of a task that is linked nowhere may change.
LEMMA SetUnlinked ==
  ASSUME NEW k, NEW L, NEW t \in Task, Links(k, L, {t}), NEW c \in TCBType,
         c.klocked => k.tcb[t].klocked, c.slicetime = 0,
         NEW k2, k2 = [k EXCEPT !.tcb[t] = c]
  PROVE  Links(k2, L, {t}) /\ NewBlock(k, k2, t, c)
<1>1. IsKernel(k) /\ k.tcb \in [Task -> TCBType]
  BY DEF Links, IsKernel
<1>2. k2 = [k EXCEPT !.tcb = [k.tcb EXCEPT ![t] = c]]
  BY <1>1 DEF IsKernel
<1>3. /\ IsKernel(k2) /\ k2.tcb = [k.tcb EXCEPT ![t] = c]
      /\ k2.ctxtsk = k.ctxtsk /\ k2.obj = k.obj /\ k2.schedtsk = k.schedtsk
      /\ k2.wq = k.wq /\ k2.rq = k.rq
  <2>1. [k.tcb EXCEPT ![t] = c] \in [Task -> TCBType]
    BY <1>1
  <2>. QED
    BY <1>1, <1>2, <2>1 DEF IsKernel
<1>4. k2.tcb[t] = c /\ \A u \in Task : u # t => k2.tcb[u] = k.tcb[u]
  BY <1>1, <1>3
<1>5. ReadyLinks(k2, {t}) /\ WaitLinks(k2, L, {t})
  <2>1. \A p \in Pri : {u \in Task \ {t} : InReady(k2.tcb[u], p)}
                         = {u \in Task \ {t} : InReady(k.tcb[u], p)}
    BY <1>4
  <2>2. \A w \in WaitQueue : {u \in Task \ {t} : InWait(k2.tcb[u], L[u], w)}
                               = {u \in Task \ {t} : InWait(k.tcb[u], L[u], w)}
    BY <1>4
  <2>. QED
    BY <1>3, <2>1, <2>2 DEF Links, ReadyLinks, WaitLinks
<1>6. ReadyCache(k2)
  BY <1>3 DEF Links, ReadyCache
<1>7. LockTask(k2, {t})
  <2>1. \A u \in Task : k2.tcb[u].klocked => k.tcb[u].klocked
    BY <1>4
  <2>. QED
    BY <1>3, <1>4, <2>1 DEF Links, LockTask
<1>8. /\ k2.schedtsk \in {t} \/ Schedulable(k2, {t}, k2.schedtsk)
      /\ Blocks(k2, {t})
  BY <1>3, <1>4 DEF Links, Schedulable, Blocks
<1>. QED
  BY <1>3, <1>4, <1>5, <1>6, <1>7, <1>8 DEF Links, NewBlock
\* ready_queue_delete takes a task that queues for a lock out of the queue of the
\* lock; it does not queue any more.
LEMMA DeleteLockwait ==
  ASSUME NEW k, NEW L, NEW t \in Task, Links(k, L, {}), k.tcb[t].klockwait,
         NEW k2, k2 = ready_queue_delete(k, t)
  PROVE  /\ Links(k2, L, {t})
         /\ k2.tcb = [k.tcb EXCEPT ![t].klockwait = FALSE]
         /\ k2.ctxtsk = k.ctxtsk /\ k2.obj = k.obj /\ k2.schedtsk = k.schedtsk
<1>0. PICK k0 : k0 = QueRemove(k, t)
  OBVIOUS
<1>1. ~Runnable(k.tcb[t])
  BY DEF Runnable
<1>2. Unhooked(k, k0, L, t) /\ Links(k0, L, {t})
  BY <1>0, <1>1, Unhook, UnhookOther, Zenon
<1>3. /\ IsKernel(k0) /\ k0.rq \in RQType /\ k0.tcb = k.tcb /\ k0.ctxtsk = k.ctxtsk
      /\ k0.obj = k.obj /\ k0.schedtsk = k.schedtsk /\ k0.rq.klocktsk = k.rq.klocktsk
      /\ k0.tcb \in [Task -> TCBType] /\ k0.tcb[t] \in TCBType
  BY <1>2 DEF Unhooked, IsKernel
<1>4. k0.rq.klocktsk # t
  BY <1>1, <1>3, TaskAssumption DEF Links, LockTask
<1>5. [QueRemove(k, t) EXCEPT !.rq.klocktsk = IF @ = t THEN NoTask ELSE @] = k0
  BY <1>0, <1>3, <1>4 DEF IsKernel, RQType
<1>6. k2 = [k0 EXCEPT !.tcb[t].klockwait = FALSE]
  BY <1>5 DEF ready_queue_delete
<1>7. PICK c : c = [k0.tcb[t] EXCEPT !.klockwait = FALSE]
  OBVIOUS
<1>8. c \in TCBType /\ c.klocked = k0.tcb[t].klocked /\ c.slicetime = k0.tcb[t].slicetime
  BY <1>3, <1>7 DEF TCBType
<1>9. k2 = [k0 EXCEPT !.tcb[t] = c]
  BY <1>3, <1>6, <1>7 DEF IsKernel
<1>10. c.slicetime = 0
  BY <1>3, <1>8 DEF Links, Blocks
<1>11. Links(k2, L, {t}) /\ NewBlock(k0, k2, t, c)
  <2>1. Links(k0, L, {t}) /\ c \in TCBType /\ (c.klocked => k0.tcb[t].klocked) /\ c.slicetime = 0
    BY <1>2, <1>8, <1>10
  <2>. QED
    BY <1>9, <2>1, SetUnlinked, Zenon
<1>. QED
  BY <1>3, <1>7, <1>11 DEF NewBlock

-----------------------------------------------------------------------------
(* Linking a task.                                                          *)

\* The ready queue of k with t linked in the queue q of its priority.
WithReady(k, t, c, q) ==
  [k EXCEPT !.tcb[t] = c,
            !.rq.tskque[c.priority] = q,
            !.rq.bitmap = @ \cup {c.priority},
            !.rq.klocktsk = IF c.klocked THEN t ELSE @,
            !.rq.top_priority = IF c.priority < @ THEN c.priority ELSE @]

\* No timeout is running for a task that can run.
Fit(c) == Runnable(c) /\ ~c.wtmeb

\* A runnable task goes into the ready queue.
LEMMA HookReady ==
  ASSUME NEW k, NEW L, NEW t \in Task, Links(k, L, {t}), NEW c \in TCBType,
         Fit(c), c.klocked = k.tcb[t].klocked, c.slicetime = 0,
         NEW q \in Queue, ToSet(q) = ToSet(k.rq.tskque[c.priority]) \cup {t},
         NEW k2, k2 = WithReady(k, t, c, q)
  PROVE  /\ Links(k2, L, {})
         /\ k2.tcb = [k.tcb EXCEPT ![t] = c] /\ k2.tcb[t] = c
         /\ k2.ctxtsk = k.ctxtsk /\ k2.obj = k.obj /\ k2.schedtsk = k.schedtsk
<1>. DEFINE p == c.priority
<1>1. /\ IsKernel(k) /\ k.tcb \in [Task -> TCBType] /\ k.rq \in RQType /\ p \in Pri
      /\ NoTask \notin Task
  BY TaskAssumption DEF Links, IsKernel, TCBType
<1>2. PICK rq2 : rq2 = [k.rq EXCEPT !.tskque = [k.rq.tskque EXCEPT ![p] = q],
                          !.bitmap = @ \cup {p},
                          !.klocktsk = IF c.klocked THEN t ELSE @,
                          !.top_priority = IF p < @ THEN p ELSE @]
  OBVIOUS
<1>3. k2 = [k EXCEPT !.tcb = [k.tcb EXCEPT ![t] = c], !.rq = rq2]
  BY <1>1, <1>2 DEF WithReady, IsKernel, RQType
<1>4. /\ rq2.tskque = [k.rq.tskque EXCEPT ![p] = q]
      /\ rq2.bitmap = k.rq.bitmap \cup {p}
      /\ rq2.klocktsk = IF c.klocked THEN t ELSE k.rq.klocktsk
      /\ rq2.top_priority = IF p < k.rq.top_priority THEN p ELSE k.rq.top_priority
      /\ rq2 \in RQType
  <2>1. q \in Seq(Task) /\ p \in 0 .. NumPri
    BY <1>1, TaskAssumption DEF Queue, Pri
  <2>. QED
    BY <1>1, <1>2, <2>1 DEF RQType
<1>5. /\ IsKernel(k2) /\ k2.rq = rq2 /\ k2.tcb = [k.tcb EXCEPT ![t] = c]
      /\ k2.ctxtsk = k.ctxtsk /\ k2.obj = k.obj /\ k2.schedtsk = k.schedtsk
      /\ k2.wq = k.wq
  <2>1. [k.tcb EXCEPT ![t] = c] \in [Task -> TCBType]
    BY <1>1
  <2>. QED
    BY <1>1, <1>3, <1>4, <2>1 DEF IsKernel
<1>6. k2.tcb[t] = c /\ \A u \in Task : u # t => k2.tcb[u] = k.tcb[u]
  BY <1>1, <1>5
<1>7. /\ ~c.klockwait /\ ~is_waiting(c.state) /\ c.state = "READY"
      /\ Runnable(c) /\ ~c.wtmeb
  BY DEF Fit, Runnable, is_waiting
<1>8. ReadyLinks(k2, {})
  <2>1. SUFFICES ASSUME NEW r \in Pri
                 PROVE  /\ k2.rq.tskque[r] \in Queue
                        /\ ToSet(k2.rq.tskque[r]) = {u \in Task \ {} : InReady(k2.tcb[u], r)}
    BY Zenon DEF ReadyLinks
  <2>2. /\ k.rq.tskque[r] \in Queue
        /\ ToSet(k.rq.tskque[r]) = {u \in Task \ {t} : InReady(k.tcb[u], r)}
    BY DEF Links, ReadyLinks
  <2>3. k2.rq.tskque[r] = IF r = p THEN q ELSE k.rq.tskque[r]
    BY <1>1, <1>4, <1>5 DEF RQType
  <2>4. {u \in Task \ {} : InReady(k2.tcb[u], r)}
          = {u \in Task \ {t} : InReady(k.tcb[u], r)} \cup (IF r = p THEN {t} ELSE {})
    BY <1>6, <1>7 DEF InReady
  <2>5. CASE r = p
    BY <2>2, <2>3, <2>4, <2>5
  <2>6. CASE r # p
    BY <2>2, <2>3, <2>4, <2>6
  <2>. QED
    BY <2>5, <2>6
<1>9. WaitLinks(k2, L, {})
  <2>1. \A w \in WaitQueue : {u \in Task \ {} : InWait(k2.tcb[u], L[u], w)}
                               = {u \in Task \ {t} : InWait(k.tcb[u], L[u], w)}
    BY <1>6, <1>7 DEF InWait
  <2>. QED
    BY <1>5, <2>1 DEF Links, WaitLinks
<1>10. ReadyCache(k2)
  <2>1. \A r \in Pri : k2.rq.tskque[r] # <<>> <=> r = p \/ k.rq.tskque[r] # <<>>
    <3>1. t \in ToSet(q)
      OBVIOUS
    <3>2. q # <<>>
      BY <3>1, EmptyQueue
    <3>. QED
      BY <1>1, <1>4, <1>5, <3>2 DEF RQType
  <2>. QED
    BY <1>1, <1>4, <1>5, <2>1 DEF Links, ReadyCache
<1>11. LockTask(k2, {})
  <2>1. LockTask(k, {t})
    BY DEF Links
  <2>2. \A u \in Task : k2.tcb[u].klocked <=> k.tcb[u].klocked
    BY <1>6
  <2>. HIDE DEF p
  <2>3. CASE c.klocked
    BY <1>4, <1>5, <1>6, <1>7, <2>1, <2>2, <2>3 DEF LockTask
  <2>4. CASE ~c.klocked
    BY <1>1, <1>4, <1>5, <1>6, <2>1, <2>2, <2>4 DEF LockTask
  <2>. QED
    BY <2>3, <2>4
<1>12. Schedulable(k2, {}, k2.schedtsk)
  BY <1>5, <1>6, <1>7 DEF Links, Schedulable
<1>13. Blocks(k2, {})
  BY <1>5, <1>6, <1>7 DEF Links, Blocks, Sane
<1>. QED
  BY <1>5, <1>6, <1>8, <1>9, <1>10, <1>11, <1>12, <1>13 DEF Links

\* ready_queue_insert puts it at the end.
LEMMA InsertLast ==
  ASSUME NEW k, NEW L, NEW t \in Task, Links(k, L, {t}), Runnable(k.tcb[t]),
         ~k.tcb[t].wtmeb,
         NEW k2, k2 = ready_queue_insert(k, t)
  PROVE  /\ Links(k2, L, {})
         /\ k2.tcb = [k.tcb EXCEPT ![t].slicecnt = 0]
         /\ k2.ctxtsk = k.ctxtsk /\ k2.obj = k.obj /\ k2.schedtsk = k.schedtsk
<1>1. PICK c : c = [k.tcb[t] EXCEPT !.slicecnt = 0]
  OBVIOUS
<1>2. /\ IsKernel(k) /\ k.tcb[t] \in TCBType /\ k.tcb[t].slicetime = 0 /\ k.rq \in RQType
      /\ k.tcb \in [Task -> TCBType]
  BY DEF Links, IsKernel, Blocks
<1>3. /\ c \in TCBType /\ c.klocked = k.tcb[t].klocked /\ c.priority = k.tcb[t].priority
      /\ c.state = k.tcb[t].state /\ c.klockwait = k.tcb[t].klockwait /\ c.slicetime = 0
      /\ c.priority \in Pri /\ ~c.wtmeb
  BY <1>1, <1>2 DEF TCBType
<1>4. PICK q : q = Append(k.rq.tskque[c.priority], t)
  OBVIOUS
<1>5. q \in Queue /\ ToSet(q) = ToSet(k.rq.tskque[c.priority]) \cup {t}
  <2>1. k.rq.tskque[c.priority] \in Queue /\ t \notin ToSet(k.rq.tskque[c.priority])
    BY <1>3 DEF Links, ReadyLinks
  <2>. QED
    BY <1>4, <2>1, QueueAppend
<1>6. k2 = WithReady(k, t, c, q)
  BY <1>1, <1>2, <1>3, <1>4, Zenon DEF ready_queue_insert, WithReady, IsKernel, RQType
<1>7. Runnable(c)
  BY <1>3 DEF Runnable
<1>8. Fit(c)
  BY <1>3, <1>7 DEF Fit
<1>9. /\ Links(k2, L, {}) /\ k2.tcb = [k.tcb EXCEPT ![t] = c]
      /\ k2.ctxtsk = k.ctxtsk /\ k2.obj = k.obj /\ k2.schedtsk = k.schedtsk
  <2>1. c \in TCBType /\ c.klocked = k.tcb[t].klocked /\ c.slicetime = 0
    BY <1>3
  <2>. QED
    BY <1>5, <1>6, <1>8, <2>1, HookReady
<1>. QED
  BY <1>1, <1>9

\* ready_queue_insert_top puts it at the head.
LEMMA InsertFirst ==
  ASSUME NEW k, NEW L, NEW t \in Task, Links(k, L, {t}), Runnable(k.tcb[t]),
         ~k.tcb[t].wtmeb,
         NEW k2, k2 = ready_queue_insert_top(k, t)
  PROVE  /\ Links(k2, L, {})
         /\ k2.tcb = k.tcb
         /\ k2.ctxtsk = k.ctxtsk /\ k2.obj = k.obj /\ k2.schedtsk = k.schedtsk
<1>1. PICK c : c = k.tcb[t]
  OBVIOUS
<1>2. /\ IsKernel(k) /\ c \in TCBType /\ c.slicetime = 0 /\ k.rq \in RQType
      /\ k.tcb \in [Task -> TCBType] /\ c.priority \in Pri /\ c.klocked = k.tcb[t].klocked
  BY <1>1 DEF Links, IsKernel, Blocks, TCBType
<1>4. PICK q : q = <<t>> \o k.rq.tskque[c.priority]
  OBVIOUS
<1>5. q \in Queue /\ ToSet(q) = ToSet(k.rq.tskque[c.priority]) \cup {t}
  <2>1. k.rq.tskque[c.priority] \in Queue /\ t \notin ToSet(k.rq.tskque[c.priority])
    BY <1>2 DEF Links, ReadyLinks
  <2>. QED
    BY <1>4, <2>1, QueuePrepend
<1>6. k2 = WithReady(k, t, c, q)
  <2>1. k = [k EXCEPT !.tcb[t] = c]
    BY <1>1, <1>2 DEF IsKernel
  <2>. DEFINE p == c.priority
              l == IF c.klocked THEN t ELSE k.rq.klocktsk
              top == IF p < k.rq.top_priority THEN p ELSE k.rq.top_priority
              r == [k.rq EXCEPT !.tskque[p] = q, !.bitmap = @ \cup {p}, !.klocktsk = l,
                                !.top_priority = top]
  <2>2. k2 = [k EXCEPT !.rq = r]
    BY <1>1, <1>2, <1>4 DEF ready_queue_insert_top, IsKernel, RQType
  <2>3. WithReady(k, t, c, q) = [[k EXCEPT !.tcb[t] = c] EXCEPT !.rq = r]
    BY <1>2 DEF WithReady, IsKernel, RQType
  <2>. QED
    BY <2>1, <2>2, <2>3
<1>7. Runnable(c)
  BY <1>1
<1>8. Fit(c)
  BY <1>1, <1>7 DEF Fit
<1>9. /\ Links(k2, L, {}) /\ k2.tcb = [k.tcb EXCEPT ![t] = c]
      /\ k2.ctxtsk = k.ctxtsk /\ k2.obj = k.obj /\ k2.schedtsk = k.schedtsk
  <2>1. c \in TCBType /\ c.klocked = k.tcb[t].klocked /\ c.slicetime = 0
    BY <1>2
  <2>. QED
    BY <1>5, <1>6, <1>8, <2>1, HookReady
<1>. QED
  BY <1>1, <1>2, <1>9
-----------------------------------------------------------------------------
(* A task that is linked nowhere, and the task to run.                      *)

\* A task that is neither READY nor in the queue of an object.
Detached(c) == /\ c.state # "READY" /\ ~c.klockwait /\ ~is_waiting(c.state) /\ ~c.wtmeb
               /\ c.state \in {"SUSPEND", "WAITSUS"} => c.suscnt > 0

\* The first of the ready queue, or klocktsk, can run.
LEMMA TopRunnable ==
  ASSUME NEW k, NEW L, NEW X, Links(k, L, X)
  PROVE  Schedulable(k, X, ready_queue_top(k))
<1>1. /\ LockTask(k, X) /\ ReadyCache(k) /\ ReadyLinks(k, X)
      /\ \A p \in Pri : k.rq.tskque[p] \in Queue
  BY DEF Links, ReadyLinks
<1>2. CASE k.rq.klocktsk # NoTask
  BY <1>1, <1>2 DEF ready_queue_top, Schedulable, LockTask
<1>3. CASE k.rq.klocktsk = NoTask /\ k.rq.top_priority = NumPri
  BY <1>3 DEF ready_queue_top, Schedulable
<1>4. CASE k.rq.klocktsk = NoTask /\ k.rq.top_priority # NumPri
  <2>. DEFINE p == k.rq.top_priority
              q == k.rq.tskque[p]
  <2>1. p \in Pri /\ q # <<>>
    BY <1>1, <1>4 DEF ReadyCache
  <2>2. q \in Queue /\ ToSet(q) = {u \in Task \ X : InReady(k.tcb[u], p)}
    BY <1>1, <2>1 DEF ReadyLinks
  <2>3. Head(q) \in ToSet(q)
    BY <2>1, <2>2, QueueTail
  <2>4. ready_queue_top(k) = Head(q)
    BY <1>4 DEF ready_queue_top
  <2>. QED
    BY <2>2, <2>3, <2>4 DEF Schedulable, InReady
<1>. QED
  BY <1>2, <1>3, <1>4

\* schedtsk may be any task that can run.
LEMMA SetSchedtsk ==
  ASSUME NEW k, NEW L, NEW X, Links(k, L, X), NEW s \in Task \cup {NoTask},
         Schedulable(k, X, s), NEW k2, k2 = [k EXCEPT !.schedtsk = s]
  PROVE  /\ Links(k2, L, X)
         /\ k2.schedtsk = s /\ Schedulable(k2, X, s)
         /\ k2.tcb = k.tcb /\ k2.ctxtsk = k.ctxtsk /\ k2.obj = k.obj
         /\ k2.rq = k.rq /\ k2.wq = k.wq
<1>1. IsKernel(k)
  BY DEF Links
<1>2. /\ IsKernel(k2) /\ k2.schedtsk = s
      /\ k2.tcb = k.tcb /\ k2.ctxtsk = k.ctxtsk /\ k2.obj = k.obj
      /\ k2.rq = k.rq /\ k2.wq = k.wq
  BY <1>1 DEF IsKernel
<1>3. Schedulable(k2, X, s)
  BY <1>2 DEF Schedulable
<1>. QED
  BY <1>2, <1>3 DEF Links, ReadyLinks, WaitLinks, ReadyCache, LockTask, Schedulable, Blocks

\* ready_queue_top has a task or none.
LEMMA TopType ==
  ASSUME NEW k, NEW L, NEW X, Links(k, L, X)
  PROVE  ready_queue_top(k) \in Task \cup {NoTask}
BY TopRunnable DEF Schedulable

\* A detached task counts as linked.
LEMMA Settle ==
  ASSUME NEW k, NEW L, NEW t \in Task, Links(k, L, {t}), Detached(k.tcb[t]),
         k.schedtsk # t
  PROVE  Links(k, L, {})
<1>0. NoQueue \notin WaitQueue
  BY TaskAssumption
<1>1. /\ \A p \in Pri : ~InReady(k.tcb[t], p)
      /\ \A w \in WaitQueue : ~InWait(k.tcb[t], L[t], w)
      /\ Sane(k.tcb[t])
  BY <1>0, LockAssumption DEF InReady, InWait, Runnable, Detached, Sane
<1>2. /\ \A p \in Pri : {u \in Task \ {} : InReady(k.tcb[u], p)}
                          = {u \in Task \ {t} : InReady(k.tcb[u], p)}
      /\ \A w \in WaitQueue : {u \in Task \ {} : InWait(k.tcb[u], L[u], w)}
                                = {u \in Task \ {t} : InWait(k.tcb[u], L[u], w)}
  BY <1>1
<1>3. ReadyLinks(k, {}) /\ WaitLinks(k, L, {})
  BY <1>2 DEF Links, ReadyLinks, WaitLinks
<1>4. LockTask(k, {})
  BY DEF Links, LockTask, Detached
<1>5. Schedulable(k, {}, k.schedtsk) /\ Blocks(k, {})
  BY <1>1 DEF Links, Schedulable, Blocks
<1>. QED
  BY <1>3, <1>4, <1>5 DEF Links

\* A detached task may be taken for one that is not linked.
LEMMA Unsettle ==
  ASSUME NEW k, NEW L, NEW t \in Task, Links(k, L, {}), Detached(k.tcb[t])
  PROVE  Links(k, L, {t}) /\ k.schedtsk # t
<1>0. NoQueue \notin WaitQueue /\ NoTask \notin Task
  BY TaskAssumption
<1>1. /\ \A p \in Pri : ~InReady(k.tcb[t], p)
      /\ \A w \in WaitQueue : ~InWait(k.tcb[t], L[t], w)
      /\ ~Runnable(k.tcb[t])
  BY <1>0 DEF InReady, InWait, Runnable, Detached
<1>2. /\ \A p \in Pri : {u \in Task \ {} : InReady(k.tcb[u], p)}
                          = {u \in Task \ {t} : InReady(k.tcb[u], p)}
      /\ \A w \in WaitQueue : {u \in Task \ {} : InWait(k.tcb[u], L[u], w)}
                                = {u \in Task \ {t} : InWait(k.tcb[u], L[u], w)}
  BY <1>1
<1>3. ReadyLinks(k, {t}) /\ WaitLinks(k, L, {t})
  BY <1>2 DEF Links, ReadyLinks, WaitLinks
<1>4. LockTask(k, {t})
  BY <1>1 DEF Links, LockTask
<1>5. Schedulable(k, {t}, k.schedtsk) /\ Blocks(k, {t}) /\ k.schedtsk # t
  BY <1>0, <1>1 DEF Links, Schedulable, Blocks
<1>. QED
  BY <1>3, <1>4, <1>5 DEF Links

\* A task joins the queue of an object.
LEMMA HookWait ==
  ASSUME NEW k, NEW L, NEW t \in Task, Links(k, L, {t}), ~Runnable(k.tcb[t]),
         Sane(k.tcb[t]), k.schedtsk # t, k.tcb[t].klocked => k.tcb[t].state # "READY",
         NEW w \in WaitQueue, \A x \in WaitQueue : InWait(k.tcb[t], L[t], x) <=> x = w,
         NEW q \in Queue, ToSet(q) = ToSet(k.wq[w]) \cup {t},
         NEW k2, k2 = [k EXCEPT !.wq[w] = q]
  PROVE  /\ Links(k2, L, {})
         /\ k2.tcb = k.tcb /\ k2.ctxtsk = k.ctxtsk /\ k2.obj = k.obj
         /\ k2.schedtsk = k.schedtsk
<1>1. /\ IsKernel(k) /\ k.wq \in [WaitQueue -> Seq(Task)] /\ q \in Seq(Task)
  BY DEF Links, IsKernel, Queue
<1>2. k2 = [k EXCEPT !.wq = [k.wq EXCEPT ![w] = q]]
  BY <1>1 DEF IsKernel
<1>3. /\ IsKernel(k2) /\ k2.wq = [k.wq EXCEPT ![w] = q] /\ k2.rq = k.rq
      /\ k2.tcb = k.tcb /\ k2.ctxtsk = k.ctxtsk /\ k2.obj = k.obj
      /\ k2.schedtsk = k.schedtsk
  <2>1. [k.wq EXCEPT ![w] = q] \in [WaitQueue -> Seq(Task)]
    BY <1>1
  <2>. QED
    BY <1>1, <1>2, <2>1 DEF IsKernel
<1>4. ReadyLinks(k2, {})
  <2>1. \A p \in Pri : {u \in Task \ {} : InReady(k2.tcb[u], p)}
                         = {u \in Task \ {t} : InReady(k.tcb[u], p)}
    BY <1>3 DEF InReady
  <2>. QED
    BY <1>3, <2>1 DEF Links, ReadyLinks
<1>5. WaitLinks(k2, L, {})
  <2>1. SUFFICES ASSUME NEW x \in WaitQueue
                 PROVE  /\ k2.wq[x] \in Queue
                        /\ ToSet(k2.wq[x]) = {u \in Task \ {} : InWait(k2.tcb[u], L[u], x)}
    BY Zenon DEF WaitLinks
  <2>2. /\ k.wq[x] \in Queue
        /\ ToSet(k.wq[x]) = {u \in Task \ {t} : InWait(k.tcb[u], L[u], x)}
    BY DEF Links, WaitLinks
  <2>3. {u \in Task \ {} : InWait(k2.tcb[u], L[u], x)}
          = {u \in Task \ {t} : InWait(k.tcb[u], L[u], x)} \cup (IF x = w THEN {t} ELSE {})
    BY <1>3
  <2>4. k2.wq[x] = IF x = w THEN q ELSE k.wq[x]
    BY <1>1, <1>3
  <2>5. CASE x = w
    BY <2>2, <2>3, <2>4, <2>5
  <2>6. CASE x # w
    BY <2>2, <2>3, <2>4, <2>6
  <2>. QED
    BY <2>5, <2>6
<1>6. ReadyCache(k2)
  BY <1>3 DEF Links, ReadyCache
<1>7. LockTask(k2, {})
  BY <1>3 DEF Links, LockTask
<1>8. Schedulable(k2, {}, k2.schedtsk) /\ Blocks(k2, {})
  BY <1>3 DEF Links, Schedulable, Blocks
<1>. QED
  BY <1>3, <1>4, <1>5, <1>6, <1>7, <1>8 DEF Links

\* The block of a task may change where its links do not depend on it.
LEMMA SetLinked ==
  ASSUME NEW k, NEW L, NEW t \in Task, Links(k, L, {}), NEW c \in TCBType,
         c.state = "READY" <=> k.tcb[t].state = "READY",
         is_waiting(c.state) <=> is_waiting(k.tcb[t].state),
         c.state \in {"SUSPEND", "WAITSUS"} => c.suscnt > 0,
         c.klockwait = k.tcb[t].klockwait, c.klocked = k.tcb[t].klocked, c.slicetime = 0,
         Runnable(c) => c.priority = k.tcb[t].priority,
         is_waiting(c.state) => c.wid = k.tcb[t].wid, c.wtmeb => k.tcb[t].wtmeb,
         NEW k2, k2 = [k EXCEPT !.tcb[t] = c]
  PROVE  Links(k2, L, {}) /\ NewBlock(k, k2, t, c)
<1>1. IsKernel(k) /\ k.tcb \in [Task -> TCBType]
  BY DEF Links, IsKernel
<1>2. k2 = [k EXCEPT !.tcb = [k.tcb EXCEPT ![t] = c]]
  BY <1>1 DEF IsKernel
<1>3. /\ IsKernel(k2) /\ k2.tcb = [k.tcb EXCEPT ![t] = c]
      /\ k2.ctxtsk = k.ctxtsk /\ k2.obj = k.obj /\ k2.schedtsk = k.schedtsk
      /\ k2.wq = k.wq /\ k2.rq = k.rq
  <2>1. [k.tcb EXCEPT ![t] = c] \in [Task -> TCBType]
    BY <1>1
  <2>. QED
    BY <1>1, <1>2, <2>1 DEF IsKernel
<1>4. k2.tcb[t] = c /\ \A u \in Task : u # t => k2.tcb[u] = k.tcb[u]
  BY <1>1, <1>3
<1>5. \A u \in Task : /\ k2.tcb[u].state = "READY" <=> k.tcb[u].state = "READY"
                      /\ is_waiting(k2.tcb[u].state) <=> is_waiting(k.tcb[u].state)
                      /\ k2.tcb[u].klockwait = k.tcb[u].klockwait
                      /\ k2.tcb[u].wtmeb => k.tcb[u].wtmeb
                      /\ k2.tcb[u].klocked = k.tcb[u].klocked
                      /\ is_waiting(k2.tcb[u].state) => k2.tcb[u].wid = k.tcb[u].wid
                      /\ Runnable(k2.tcb[u]) <=> Runnable(k.tcb[u])
                      /\ Runnable(k2.tcb[u]) => k2.tcb[u].priority = k.tcb[u].priority
  BY <1>4 DEF Runnable
<1>6. ReadyLinks(k2, {}) /\ WaitLinks(k2, L, {})
  <2>1. \A p \in Pri : {u \in Task \ {} : InReady(k2.tcb[u], p)}
                         = {u \in Task \ {} : InReady(k.tcb[u], p)}
    BY <1>5 DEF InReady
  <2>2. \A w \in WaitQueue : {u \in Task \ {} : InWait(k2.tcb[u], L[u], w)}
                               = {u \in Task \ {} : InWait(k.tcb[u], L[u], w)}
    BY <1>5 DEF InWait
  <2>. QED
    BY <1>3, <2>1, <2>2 DEF Links, ReadyLinks, WaitLinks
<1>7. ReadyCache(k2)
  BY <1>3 DEF Links, ReadyCache
<1>8. LockTask(k2, {})
  BY <1>3, <1>5 DEF Links, LockTask
<1>9. Schedulable(k2, {}, k2.schedtsk)
  BY <1>3, <1>5 DEF Links, Schedulable
<1>10. Blocks(k2, {})
  BY <1>4, <1>5 DEF Links, Blocks, Sane
<1>. QED
  BY <1>3, <1>4, <1>6, <1>7, <1>8, <1>9, <1>10 DEF Links, NewBlock
-----------------------------------------------------------------------------
(* The functions of task.c and wait.c.                                      *)

\* The pools are used without time slices.
LEMMA Uncharged ==
  ASSUME NEW k, NEW L, NEW X, Links(k, L, X)
  PROVE  charge_preempted(k) = k
<1>1. k.schedtsk \in Task \cup {NoTask} /\ \A u \in Task : k.tcb[u].slicetime = 0
  BY DEF Links, IsKernel, Blocks
<1>. QED
  BY <1>1 DEF charge_preempted, time_slice_schedule

\* From k to k2 the task t gets READY.
Readied(k, k2, t) ==
  k2.tcb = [k.tcb EXCEPT ![t] = [@ EXCEPT !.state = "READY", !.slicecnt = 0]]

\* make_ready of a task that is linked nowhere.
LEMMA MakeRunnable ==
  ASSUME NEW k, NEW L, NEW t \in Task, Links(k, L, {t}), ~k.tcb[t].klockwait,
         ~k.tcb[t].wtmeb,
         NEW k2, k2 = make_ready(k, t)
  PROVE  Links(k2, L, {}) /\ Calm(k, k2) /\ Readied(k, k2, t)
<1>1. PICK c : c = [k.tcb[t] EXCEPT !.state = "READY"]
  OBVIOUS
<1>2. /\ IsKernel(k) /\ k.tcb \in [Task -> TCBType] /\ k.tcb[t] \in TCBType
      /\ k.tcb[t].slicetime = 0
  BY DEF Links, IsKernel, Blocks
<1>3. /\ c \in TCBType /\ c.klocked = k.tcb[t].klocked /\ c.state = "READY" /\ ~c.klockwait
      /\ c.slicetime = 0 /\ ~c.wtmeb
  BY <1>1, <1>2 DEF TCBType, TState
<1>4. PICK k0 : k0 = [k EXCEPT !.tcb[t] = c]
  OBVIOUS
<1>5. Links(k0, L, {t}) /\ NewBlock(k, k0, t, c)
  <2>1. c \in TCBType /\ (c.klocked => k.tcb[t].klocked) /\ c.slicetime = 0
    BY <1>3
  <2>. QED
    BY <1>4, <2>1, SetUnlinked, Zenon
<1>6. PICK k1 : k1 = ready_queue_insert(k0, t)
  OBVIOUS
<1>7. Runnable(k0.tcb[t]) /\ ~k0.tcb[t].wtmeb
  BY <1>3, <1>5 DEF NewBlock, Runnable
<1>8. /\ Links(k1, L, {})
      /\ k1.tcb = [k0.tcb EXCEPT ![t].slicecnt = 0]
      /\ k1.ctxtsk = k0.ctxtsk /\ k1.obj = k0.obj /\ k1.schedtsk = k0.schedtsk
  BY <1>5, <1>6, <1>7, InsertLast
<1>9. k1.tcb = [k.tcb EXCEPT ![t] = [@ EXCEPT !.state = "READY", !.slicecnt = 0]]
  BY <1>1, <1>2, <1>5, <1>8 DEF NewBlock
<1>10. k1.ctxtsk = k.ctxtsk /\ k1.obj = k.obj
  BY <1>5, <1>8 DEF NewBlock
<1>11. Runnable(k1.tcb[t])
  BY <1>1, <1>2, <1>3, <1>9 DEF Runnable, TCBType
<1>12. charge_preempted(k1) = k1
  BY <1>8, Uncharged
<1>13. k2 = IF raises_top(k, t) THEN [k1 EXCEPT !.schedtsk = t] ELSE k1
  <2>1. [k EXCEPT !.tcb[t].state = "READY"] = k0
    BY <1>1, <1>2, <1>4 DEF IsKernel
  <2>. QED
    BY <1>6, <1>12, <2>1 DEF make_ready
<1>14. Links(k2, L, {}) /\ k2.tcb = k1.tcb /\ k2.ctxtsk = k1.ctxtsk /\ k2.obj = k1.obj
  <2>1. CASE raises_top(k, t)
    <3>1. k2 = [k1 EXCEPT !.schedtsk = t] /\ Schedulable(k1, {}, t) /\ t \in Task \cup {NoTask}
      BY <1>11, <1>13, <2>1 DEF Schedulable
    <3>. QED
      BY <1>8, <3>1, SetSchedtsk
  <2>2. CASE ~raises_top(k, t)
    BY <1>8, <1>13, <2>2
  <2>. QED
    BY <2>1, <2>2
<1>15. Calm(k, k2)
  <2>1. \A u \in Task : k2.tcb[u].klocked = k.tcb[u].klocked
                        /\ k2.tcb[u].klockwait = k.tcb[u].klockwait
    BY <1>2, <1>9, <1>14 DEF TCBType
  <2>. QED
    BY <1>10, <1>14, <2>1 DEF Calm
<1>. QED
  BY <1>9, <1>14, <1>15 DEF Readied

\* ready_queue_delete of a READY task, which may queue for a lock.
LEMMA DeleteReady ==
  ASSUME NEW k, NEW L, NEW t \in Task, Links(k, L, {}), k.tcb[t].state = "READY",
         NEW k2, k2 = ready_queue_delete(k, t)
  PROVE  /\ Links(k2, L, {t}) /\ Calm(k, k2)
         /\ k2.tcb = [k.tcb EXCEPT ![t].klockwait = FALSE]
         /\ k2.schedtsk = k.schedtsk
<1>1. k.tcb \in [Task -> TCBType] /\ k.tcb[t] \in TCBType
  BY DEF Links, IsKernel
<1>2. CASE k.tcb[t].klockwait
  <2>1. /\ Links(k2, L, {t}) /\ k2.tcb = [k.tcb EXCEPT ![t].klockwait = FALSE]
        /\ k2.ctxtsk = k.ctxtsk /\ k2.obj = k.obj /\ k2.schedtsk = k.schedtsk
    BY <1>2, DeleteLockwait
  <2>. QED
    BY <1>1, <2>1 DEF Calm, TCBType
<1>3. CASE ~k.tcb[t].klockwait
  <2>1. Runnable(k.tcb[t])
    BY <1>3 DEF Runnable
  <2>2. /\ Links(k2, L, {t}) /\ k2.tcb = k.tcb
        /\ k2.ctxtsk = k.ctxtsk /\ k2.obj = k.obj /\ k2.schedtsk = k.schedtsk
    BY <2>1, DeleteRunnable
  <2>3. k.tcb = [k.tcb EXCEPT ![t].klockwait = FALSE]
    <3>1. k.tcb[t].klockwait = FALSE
      BY <1>1, <1>3 DEF TCBType
    <3>2. k.tcb[t] = [k.tcb[t] EXCEPT !.klockwait = FALSE]
      BY <1>1, <3>1 DEF TCBType
    <3>. QED
      BY <1>1, <3>2
  <2>. QED
    BY <2>2, <2>3 DEF Calm
<1>. QED
  BY <1>2, <1>3

\* make_non_ready: the task is linked nowhere and not to run.
LEMMA LeaveRunnable ==
  ASSUME NEW k, NEW L, NEW t \in Task, Links(k, L, {}), k.tcb[t].state = "READY",
         NEW k2, k2 = make_non_ready(k, t)
  PROVE  /\ Links(k2, L, {t}) /\ Calm(k, k2)
         /\ k2.tcb = [k.tcb EXCEPT ![t].klockwait = FALSE]
         /\ k2.schedtsk # t
<1>1. PICK k1 : k1 = ready_queue_delete(k, t)
  OBVIOUS
<1>2. /\ Links(k1, L, {t}) /\ Calm(k, k1)
      /\ k1.tcb = [k.tcb EXCEPT ![t].klockwait = FALSE] /\ k1.schedtsk = k.schedtsk
  BY <1>1, DeleteReady
<1>3. k2 = IF k1.schedtsk = t THEN [k1 EXCEPT !.schedtsk = ready_queue_top(k1)] ELSE k1
  BY <1>1 DEF make_non_ready
<1>4. CASE k1.schedtsk = t
  <2>1. PICK s : s = ready_queue_top(k1)
    OBVIOUS
  <2>2. s \in Task \cup {NoTask} /\ Schedulable(k1, {t}, s)
    BY <1>2, <2>1, TopRunnable, TopType
  <2>3. k2 = [k1 EXCEPT !.schedtsk = s]
    BY <1>3, <1>4, <2>1
  <2>4. Links(k2, L, {t}) /\ k2.schedtsk = s /\ k2.tcb = k1.tcb /\ k2.ctxtsk = k1.ctxtsk
        /\ k2.obj = k1.obj
    BY <1>2, <2>2, <2>3, SetSchedtsk
  <2>5. s # t
    BY <2>2, TaskAssumption DEF Schedulable
  <2>. QED
    BY <1>2, <2>4, <2>5 DEF Calm
<1>5. CASE k1.schedtsk # t
  BY <1>2, <1>3, <1>5
<1>. QED
  BY <1>4, <1>5

\* wait_cancel: a waiting task is linked nowhere.
LEMMA CancelWait ==
  ASSUME NEW k, NEW L, NEW t \in Task, Links(k, L, {}), is_waiting(k.tcb[t].state),
         NEW k2, k2 = wait_cancel(k, t)
  PROVE  /\ Links(k2, L, {t}) /\ Calm(k, k2)
         /\ k2.tcb = [k.tcb EXCEPT ![t].wtmeb = FALSE]
         /\ k2.schedtsk # t
<1>1. PICK c : c = [k.tcb[t] EXCEPT !.wtmeb = FALSE]
  OBVIOUS
<1>2. /\ IsKernel(k) /\ k.tcb \in [Task -> TCBType] /\ k.tcb[t] \in TCBType
      /\ k.tcb[t].slicetime = 0
  BY DEF Links, IsKernel, Blocks
<1>3. /\ c \in TCBType /\ c.klocked = k.tcb[t].klocked /\ c.state = k.tcb[t].state
      /\ c.klockwait = k.tcb[t].klockwait /\ c.slicetime = 0 /\ c.wid = k.tcb[t].wid
      /\ c.priority = k.tcb[t].priority /\ c.suscnt = k.tcb[t].suscnt
      /\ ~c.wtmeb
  BY <1>1, <1>2 DEF TCBType
<1>4. PICK k1 : k1 = [k EXCEPT !.tcb[t] = c]
  OBVIOUS
<1>5. Links(k1, L, {}) /\ NewBlock(k, k1, t, c)
  <2>1. c.state \in {"SUSPEND", "WAITSUS"} => c.suscnt > 0
    BY <1>3 DEF Links, Blocks, Sane
  <2>. QED
    BY <1>3, <1>4, <2>1, SetLinked
<1>6. k2 = QueRemove(k1, t)
  <2>1. timer_delete(k, t) = k1
    BY <1>1, <1>2, <1>4 DEF timer_delete, IsKernel
  <2>. QED
    BY <2>1 DEF wait_cancel
<1>7. ~Runnable(k1.tcb[t]) /\ is_waiting(k1.tcb[t].state)
  BY <1>3, <1>5 DEF Runnable, NewBlock, is_waiting
<1>8. Links(k2, L, {t}) /\ Unhooked(k1, k2, L, t)
  BY <1>5, <1>6, <1>7, Unhook, UnhookOther, Zenon
<1>9. k1.schedtsk # t
  BY <1>5, <1>7, TaskAssumption DEF Links, Schedulable
<1>10. /\ k2.tcb = [k.tcb EXCEPT ![t] = c] /\ k2.schedtsk # t
       /\ k2.ctxtsk = k.ctxtsk /\ k2.obj = k.obj
  BY <1>5, <1>8, <1>9 DEF Unhooked, NewBlock
<1>11. Calm(k, k2)
  BY <1>2, <1>3, <1>10 DEF Calm
<1>. QED
  BY <1>1, <1>8, <1>10, <1>11

\* Calm steps follow one another.
LEMMA CalmTwice ==
  ASSUME NEW k, NEW k1, NEW k2, Calm(k, k1), Calm(k1, k2)
  PROVE  Calm(k, k2)
BY DEF Calm

\* A task that waited is no more waiting.
Freed(k, k2, t) ==
  /\ k2.tcb[t].state \in {"READY", "SUSPEND"}
  /\ \A u \in Task : u # t => k2.tcb[u] = k.tcb[u]

\* wait_release.
LEMMA ReleaseWait ==
  ASSUME NEW k, NEW L, NEW t \in Task, Links(k, L, {}), is_waiting(k.tcb[t].state),
         NEW k2, k2 = wait_release(k, t)
  PROVE  Links(k2, L, {}) /\ Calm(k, k2) /\ Freed(k, k2, t)
<1>1. PICK k1 : k1 = wait_cancel(k, t)
  OBVIOUS
<1>2. /\ Links(k1, L, {t}) /\ Calm(k, k1)
      /\ k1.tcb = [k.tcb EXCEPT ![t].wtmeb = FALSE] /\ k1.schedtsk # t
  BY <1>1, CancelWait
<1>3. /\ IsKernel(k) /\ k.tcb \in [Task -> TCBType] /\ k.tcb[t] \in TCBType
      /\ Sane(k.tcb[t])
  BY DEF Links, IsKernel, Blocks
<1>4. /\ ~k1.tcb[t].klockwait /\ k1.tcb[t].state = k.tcb[t].state
      /\ k1.tcb[t] \in TCBType /\ k1.tcb \in [Task -> TCBType] /\ k1.tcb[t].slicetime = 0
      /\ k1.tcb[t].suscnt = k.tcb[t].suscnt /\ ~k1.tcb[t].wtmeb
      /\ \A u \in Task : u # t => k1.tcb[u] = k.tcb[u]
  <2>1. ~k.tcb[t].klockwait
    BY <1>3 DEF Sane, is_waiting
  <2>2. k1.tcb[t].slicetime = 0 /\ k1.tcb \in [Task -> TCBType]
    BY <1>2 DEF Links, Blocks, IsKernel
  <2>. QED
    BY <1>2, <1>3, <2>1, <2>2 DEF TCBType
<1>5. k2 = make_non_wait(k1, t)
  BY <1>1 DEF wait_release
<1>6. CASE k1.tcb[t].state = "WAIT"
  <2>1. k2 = make_ready(k1, t)
    BY <1>5, <1>6 DEF make_non_wait
  <2>2. Links(k2, L, {}) /\ Calm(k1, k2) /\ Readied(k1, k2, t)
    BY <1>2, <1>4, <2>1, MakeRunnable, Zenon
  <2>3. Freed(k, k2, t)
    <3>1. k2.tcb[t] = [k1.tcb[t] EXCEPT !.state = "READY", !.slicecnt = 0]
          /\ \A u \in Task : u # t => k2.tcb[u] = k1.tcb[u]
      BY <1>4, <2>2 DEF Readied
    <3>2. k2.tcb[t].state = "READY"
      BY <1>4, <3>1 DEF TCBType
    <3>. QED
      BY <1>4, <3>1, <3>2 DEF Freed
  <2>. QED
    BY <1>2, <2>2, <2>3, CalmTwice
<1>7. CASE k1.tcb[t].state # "WAIT"
  <2>1. PICK c : c = [k1.tcb[t] EXCEPT !.state = "SUSPEND"]
    OBVIOUS
  <2>2. /\ c \in TCBType /\ c.klocked = k1.tcb[t].klocked /\ c.state = "SUSPEND"
        /\ ~c.klockwait /\ c.slicetime = 0 /\ c.suscnt = k.tcb[t].suscnt /\ ~c.wtmeb
    BY <1>4, <2>1 DEF TCBType, TState
  <2>3. k2 = [k1 EXCEPT !.tcb[t] = c]
    <3>1. IsKernel(k1)
      BY <1>2 DEF Links
    <3>. QED
      BY <1>5, <1>7, <2>1, <3>1 DEF make_non_wait, IsKernel
  <2>4. Links(k2, L, {t}) /\ NewBlock(k1, k2, t, c)
    <3>1. c \in TCBType /\ (c.klocked => k1.tcb[t].klocked) /\ c.slicetime = 0
      BY <2>2
    <3>. QED
      BY <1>2, <2>3, <3>1, SetUnlinked, Zenon
  <2>5. Detached(k2.tcb[t]) /\ k2.schedtsk # t
    <3>1. k.tcb[t].suscnt > 0
      BY <1>3, <1>4, <1>7 DEF Sane, is_waiting
    <3>. QED
      BY <1>2, <2>2, <2>4, <3>1 DEF NewBlock, Detached, is_waiting
  <2>6. Links(k2, L, {})
    BY <2>4, <2>5, Settle
  <2>7. \A u \in Task : k2.tcb[u] = IF u = t THEN c ELSE k1.tcb[u]
    BY <1>4, <2>4 DEF NewBlock
  <2>8. Calm(k1, k2)
    BY <1>4, <2>2, <2>4, <2>7 DEF Calm, NewBlock
  <2>9. Freed(k, k2, t)
    BY <1>4, <2>2, <2>7 DEF Freed
  <2>. QED
    BY <1>2, <2>6, <2>8, <2>9, CalmTwice
<1>. QED
  BY <1>6, <1>7

\* end_wait, of a task that does not wait.
LEMMA EndedNow ==
  ASSUME NEW k, NEW L, NEW t \in Task, Links(k, L, {}), ~is_waiting(k.tcb[t].state),
         NEW e \in WaitResult, NEW k2, k2 = end_wait(k, t, e)
  PROVE  Links(k2, L, {}) /\ Calm(k, k2)
         /\ \A u \in Task : u # t => k2.tcb[u] = k.tcb[u]
<1>1. PICK c : c = [k.tcb[t] EXCEPT !.tskwait = {}, !.wid = NoQueue, !.winfo = 0,
                                    !.nodiswai = FALSE, !.wercd = e]
  OBVIOUS
<1>2. /\ IsKernel(k) /\ k.tcb \in [Task -> TCBType] /\ k.tcb[t] \in TCBType
      /\ k.tcb[t].slicetime = 0
  BY DEF Links, IsKernel, Blocks
<1>3. /\ c \in TCBType /\ c.klocked = k.tcb[t].klocked /\ c.state = k.tcb[t].state
      /\ c.klockwait = k.tcb[t].klockwait /\ c.slicetime = 0
      /\ c.priority = k.tcb[t].priority /\ c.suscnt = k.tcb[t].suscnt
      /\ c.wtmeb = k.tcb[t].wtmeb
  BY <1>1, <1>2 DEF TCBType
<1>4. k2 = [k EXCEPT !.tcb[t] = c]
  BY <1>1, <1>2 DEF end_wait, IsKernel
<1>5. Links(k2, L, {}) /\ NewBlock(k, k2, t, c)
  <2>1. c.state \in {"SUSPEND", "WAITSUS"} => c.suscnt > 0
    BY <1>3 DEF Links, Blocks, Sane
  <2>. QED
    BY <1>3, <1>4, <2>1, SetLinked
<1>6. \A u \in Task : k2.tcb[u] = IF u = t THEN c ELSE k.tcb[u]
  BY <1>2, <1>5 DEF NewBlock
<1>. QED
  BY <1>2, <1>3, <1>5, <1>6 DEF Calm, NewBlock

\* A wait that ends with a result.
LEMMA WaitEnds ==
  ASSUME NEW k, NEW L, NEW t \in Task, Links(k, L, {}), is_waiting(k.tcb[t].state),
         NEW e \in WaitResult, NEW k2, k2 = end_wait(wait_release(k, t), t, e)
  PROVE  /\ Links(k2, L, {}) /\ Calm(k, k2)
         /\ \A u \in Task : u # t => k2.tcb[u] = k.tcb[u]
<1>1. PICK k1 : k1 = wait_release(k, t)
  OBVIOUS
<1>2. Links(k1, L, {}) /\ Calm(k, k1) /\ Freed(k, k1, t)
  BY <1>1, ReleaseWait, Zenon
<1>3. ~is_waiting(k1.tcb[t].state)
  BY <1>2 DEF Freed, is_waiting
<1>4. k2 = end_wait(k1, t, e)
  BY <1>1
<1>5. Links(k2, L, {}) /\ Calm(k1, k2) /\ \A u \in Task : u # t => k2.tcb[u] = k1.tcb[u]
  BY <1>2, <1>3, <1>4, EndedNow
<1>. QED
  BY <1>2, <1>5, CalmTwice DEF Freed
\* wait_delete ends the waits of the tasks in a queue.
LEMMA DeleteWaits ==
  ASSUME NEW k, NEW L, Links(k, L, {}), NEW w \in WaitQueue,
         \A u \in ToSet(k.wq[w]) : is_waiting(k.tcb[u].state),
         NEW k2, k2 = wait_delete(k, w)
  PROVE  Links(k2, L, {}) /\ Calm(k, k2)
<1>. DEFINE q == k.wq[w]
<1>1. /\ q \in Seq(Task) /\ Len(q) \in Nat /\ \A i \in 1 .. Len(q) : q[i] \in ToSet(q)
      /\ \A i, j \in 1 .. Len(q) : q[i] = q[j] => i = j
      /\ \A i \in 1 .. Len(q) : q[i] \in Task
  BY QueueElements DEF Links, WaitLinks, Queue, IsInjective
<1>2. PICK f : DeleteSteps(f, k, q, Len(q)) /\ k2 = f[Len(q)]
  BY <1>1, WaitDelete
<1>. DEFINE Fine(n) == /\ Links(f[n], L, {}) /\ Calm(k, f[n])
                       /\ \A i \in 1 .. Len(q) : i > n => f[n].tcb[q[i]] = k.tcb[q[i]]
            S == {n \in 0 .. Len(q) : ~Fine(n)}
<1>3. ASSUME S # {} PROVE FALSE
  <2>1. PICK n \in S : \A i \in S : n <= i
    <3>1. S \subseteq Nat
      BY <1>1
    <3>. HIDE DEF S
    <3>. QED
      BY <1>3, <3>1, LeastElement
  <2>2. CASE n = 0
    <3>1. f[0] = k
      BY <1>2 DEF DeleteSteps
    <3>2. Calm(k, k)
      BY DEF Calm
    <3>. QED
      BY <2>1, <2>2, <3>1, <3>2
  <2>3. CASE n # 0
    <3>1. n - 1 \in 0 .. Len(q) /\ n \in 1 .. Len(q) /\ ~(n <= n - 1) /\ n - 1 \in Int
      BY <1>1, <2>1, <2>3
    <3>2. Fine(n - 1)
      BY <2>1, <3>1
    <3>3. PICK m : m = n - 1
      OBVIOUS
    <3>4. PICK a : a = f[m]
      OBVIOUS
    <3>5. PICK b : b = f[n]
      OBVIOUS
    <3>6. /\ Links(a, L, {}) /\ Calm(k, a) /\ a.tcb[q[n]] = k.tcb[q[n]]
          /\ \A i \in 1 .. Len(q) : i > n => a.tcb[q[i]] = k.tcb[q[i]] /\ q[i] # q[n]
      BY <1>1, <3>1, <3>2, <3>3, <3>4
    <3>7. b = end_wait(wait_release(a, q[n]), q[n], "E_DLT")
      BY <1>2, <3>1, <3>3, <3>4, <3>5 DEF DeleteSteps
    <3>8. is_waiting(a.tcb[q[n]].state) /\ q[n] \in Task /\ "E_DLT" \in WaitResult
      BY <1>1, <3>1, <3>6 DEF WaitResult
    <3>9. /\ Links(b, L, {}) /\ Calm(a, b)
          /\ \A u \in Task : u # q[n] => b.tcb[u] = a.tcb[u]
      BY <3>6, <3>7, <3>8, WaitEnds
    <3>10. Calm(k, b)
      BY <3>6, <3>9, CalmTwice
    <3>11. \A i \in 1 .. Len(q) : i > n => b.tcb[q[i]] = k.tcb[q[i]]
      BY <1>1, <3>6, <3>9
    <3>. QED
      BY <2>1, <3>5, <3>9, <3>10, <3>11
  <2>. QED
    BY <2>2, <2>3
<1>4. Fine(Len(q))
  BY <1>1, <1>3
<1>. QED
  BY <1>2, <1>4

\* change_task_priority, of a task in whatever state.
LEMMA NewPriority ==
  ASSUME NEW k, NEW L, NEW t \in Task, Links(k, L, {}), NEW p \in Pri,
         NEW k2, k2 = change_task_priority(k, t, p)
  PROVE  /\ Links(k2, L, {}) /\ Calm(k, k2)
         /\ is_waiting(k.tcb[t].state) =>
              k2.tcb[t].state = k.tcb[t].state /\ k2.tcb[t].wid = k.tcb[t].wid
<1>1. CASE k.tcb[t].state = "READY"
  <2>1. PICK k1 : k1 = ready_queue_delete(k, t)
    OBVIOUS
  <2>2. Links(k1, L, {t}) /\ Calm(k, k1) /\ k1.tcb = [k.tcb EXCEPT ![t].klockwait = FALSE]
    BY <1>1, <2>1, DeleteReady
  <2>3. PICK c : c = [k1.tcb[t] EXCEPT !.priority = p]
    OBVIOUS
  <2>4. /\ IsKernel(k) /\ k.tcb \in [Task -> TCBType] /\ k.tcb[t] \in TCBType
        /\ IsKernel(k1) /\ k1.tcb \in [Task -> TCBType] /\ k1.tcb[t] \in TCBType
        /\ k1.tcb[t].slicetime = 0
    BY <2>2 DEF Links, IsKernel, Blocks
  <2>5. /\ k1.tcb[t].state = "READY" /\ ~k1.tcb[t].klockwait /\ ~k1.tcb[t].wtmeb
    <3>1. ~k.tcb[t].wtmeb
      BY <1>1 DEF Links, Blocks, Sane, is_waiting
    <3>. QED
      BY <1>1, <2>2, <2>4, <3>1 DEF TCBType
  <2>6. /\ c \in TCBType /\ (c.klocked => k1.tcb[t].klocked) /\ c.slicetime = 0
        /\ Runnable(c) /\ c.klocked = k1.tcb[t].klocked /\ ~c.klockwait /\ ~c.wtmeb
    BY <2>3, <2>4, <2>5 DEF TCBType, Runnable
  <2>7. PICK k3 : k3 = [k1 EXCEPT !.tcb[t] = c]
    OBVIOUS
  <2>8. Links(k3, L, {t}) /\ NewBlock(k1, k3, t, c)
    <3>1. c \in TCBType /\ (c.klocked => k1.tcb[t].klocked) /\ c.slicetime = 0
      BY <2>6
    <3>. QED
      BY <2>2, <2>7, <3>1, SetUnlinked, Zenon
  <2>9. PICK k4 : k4 = ready_queue_insert(k3, t)
    OBVIOUS
  <2>10. Runnable(k3.tcb[t]) /\ ~k3.tcb[t].wtmeb
    BY <2>6, <2>8 DEF NewBlock
  <2>11. /\ Links(k4, L, {}) /\ k4.tcb = [k3.tcb EXCEPT ![t].slicecnt = 0]
         /\ k4.ctxtsk = k3.ctxtsk /\ k4.obj = k3.obj
    BY <2>8, <2>9, <2>10, InsertLast
  <2>12. k2 = reschedule(k4)
    <3>1. [ready_queue_delete(k, t) EXCEPT !.tcb[t].priority = p] = k3
      BY <2>1, <2>3, <2>4, <2>7 DEF IsKernel
    <3>. QED
      BY <1>1, <2>9, <3>1 DEF change_task_priority
  <2>13. Links(k2, L, {}) /\ k2.tcb = k4.tcb /\ k2.ctxtsk = k4.ctxtsk /\ k2.obj = k4.obj
    <3>1. PICK s : s = ready_queue_top(k4)
      OBVIOUS
    <3>2. s \in Task \cup {NoTask} /\ Schedulable(k4, {}, s) /\ charge_preempted(k4) = k4
      BY <2>11, <3>1, TopRunnable, TopType, Uncharged
    <3>3. k2 = IF k4.schedtsk = s THEN k4 ELSE [k4 EXCEPT !.schedtsk = s]
      BY <2>12, <3>1, <3>2 DEF reschedule
    <3>4. CASE k4.schedtsk = s
      BY <2>11, <3>3, <3>4
    <3>5. CASE k4.schedtsk # s
      <4>1. k2 = [k4 EXCEPT !.schedtsk = s]
        BY <3>3, <3>5
      <4>. QED
        BY <2>11, <3>2, <4>1, SetSchedtsk
    <3>. QED
      BY <3>4, <3>5
  <2>14. Calm(k1, k2)
    <3>1. \A u \in Task : u # t => k2.tcb[u] = k1.tcb[u]
      BY <2>4, <2>8, <2>11, <2>13 DEF NewBlock
    <3>2. k2.tcb[t] = [c EXCEPT !.slicecnt = 0]
      BY <2>4, <2>8, <2>11, <2>13 DEF NewBlock
    <3>3. k2.tcb[t].klocked = k1.tcb[t].klocked /\ ~k2.tcb[t].klockwait
      BY <2>6, <3>2 DEF TCBType
    <3>. QED
      BY <2>8, <2>11, <2>13, <3>1, <3>3 DEF NewBlock, Calm
  <2>. QED
    BY <1>1, <2>2, <2>13, <2>14, CalmTwice DEF is_waiting
<1>2. CASE k.tcb[t].state # "READY"
  <2>1. PICK c : c = [k.tcb[t] EXCEPT !.priority = p]
    OBVIOUS
  <2>2. /\ IsKernel(k) /\ k.tcb \in [Task -> TCBType] /\ k.tcb[t] \in TCBType
        /\ k.tcb[t].slicetime = 0
    BY DEF Links, IsKernel, Blocks
  <2>3. k2 = [k EXCEPT !.tcb[t] = c]
    BY <1>2, <2>1, <2>2 DEF change_task_priority, IsKernel
  <2>4. /\ c \in TCBType /\ c.klocked = k.tcb[t].klocked /\ c.state = k.tcb[t].state
        /\ c.klockwait = k.tcb[t].klockwait /\ c.slicetime = 0 /\ c.wid = k.tcb[t].wid
        /\ ~Runnable(c) /\ c.suscnt = k.tcb[t].suscnt /\ c.wtmeb = k.tcb[t].wtmeb
    BY <1>2, <2>1, <2>2 DEF TCBType, Runnable
  <2>5. Links(k2, L, {}) /\ NewBlock(k, k2, t, c)
    <3>1. c.state \in {"SUSPEND", "WAITSUS"} => c.suscnt > 0
      BY <2>4 DEF Links, Blocks, Sane
    <3>. QED
      BY <2>3, <2>4, <3>1, SetLinked
  <2>6. \A u \in Task : k2.tcb[u] = IF u = t THEN c ELSE k.tcb[u]
    BY <2>2, <2>5 DEF NewBlock
  <2>. QED
    BY <2>4, <2>5, <2>6 DEF NewBlock, Calm
<1>. QED
  BY <1>1, <1>2

\* gcb_change_priority moves a task within the queue of its object.
LEMMA MoveInQueue ==
  ASSUME NEW k, NEW L, NEW t \in Task, Links(k, L, {}), NEW w \in WaitQueue,
         is_waiting(k.tcb[t].state), k.tcb[t].wid = w,
         NEW k2, k2 = gcb_change_priority(k, w, t)
  PROVE  Links(k2, L, {}) /\ Calm(k, k2)
<1>1. PICK k1 : k1 = QueRemove(k, t)
  OBVIOUS
<1>2. ~Runnable(k.tcb[t]) /\ Sane(k.tcb[t]) /\ k.tcb[t].state # "READY"
  BY DEF Links, Blocks, Runnable, is_waiting
<1>3. Links(k1, L, {t}) /\ Unhooked(k, k1, L, t)
  BY <1>1, <1>2, Unhook, UnhookOther, Zenon
<1>4. k1.tcb = k.tcb /\ k1.ctxtsk = k.ctxtsk /\ k1.obj = k.obj /\ k1.schedtsk # t
  BY <1>2, <1>3, TaskAssumption DEF Links, Schedulable, Unhooked
<1>5. /\ k1.wq[w] \in Queue /\ t \notin ToSet(k1.wq[w]) /\ k1.tcb \in [Task -> TCBType]
      /\ k2 = queue_insert_tpri(k1, w, t)
  BY <1>1, <1>3 DEF Links, WaitLinks, IsKernel, gcb_change_priority
<1>6. PICK q : k2 = PutQueue(k1, w, q) /\ Joined(k1, k1.wq[w], q, t, TRUE)
  BY <1>5, QueueInsertTpri
<1>7. /\ k2 = [k1 EXCEPT !.wq[w] = q] /\ q \in Queue /\ ToSet(q) = ToSet(k1.wq[w]) \cup {t}
  BY <1>6 DEF PutQueue, Joined
<1>8. ~Runnable(k1.tcb[t]) /\ Sane(k1.tcb[t]) /\ k1.tcb[t].state # "READY"
      /\ \A x \in WaitQueue : InWait(k1.tcb[t], L[t], x) <=> x = w
  BY <1>2, <1>4 DEF InWait, Sane
<1>9. /\ Links(k2, L, {}) /\ k2.tcb = k1.tcb /\ k2.ctxtsk = k1.ctxtsk /\ k2.obj = k1.obj
  BY <1>3, <1>4, <1>7, <1>8, HookWait
<1>. QED
  BY <1>4, <1>9 DEF Calm
\* suspend, of a task in whatever state.
LEMMA SuspendTask ==
  ASSUME NEW k, NEW L, NEW t \in Task, Links(k, L, {}), k.tcb[t].suscnt < MaxSus,
         NEW k2, k2 = suspend(k, t), task_alive(k.tcb[t].state)
  PROVE  Links(k2, L, {}) /\ Calm(k, k2)
<1>1. /\ IsKernel(k) /\ k.tcb \in [Task -> TCBType] /\ k.tcb[t] \in TCBType
      /\ k.tcb[t].slicetime = 0 /\ Sane(k.tcb[t]) /\ MaxSus \in Nat
  BY TaskAssumption DEF Links, IsKernel, Blocks
<1>2. PICK n : n = k.tcb[t].suscnt + 1
  OBVIOUS
<1>3. n \in 0 .. MaxSus /\ n > 0
  BY <1>1, <1>2 DEF TCBType
<1>4. PICK c0 : c0 = [k.tcb[t] EXCEPT !.suscnt = n]
  OBVIOUS
<1>5. /\ c0 \in TCBType /\ c0.suscnt = n /\ c0.state = k.tcb[t].state
      /\ c0.klocked = k.tcb[t].klocked /\ c0.klockwait = k.tcb[t].klockwait
      /\ c0.wid = k.tcb[t].wid /\ c0.slicetime = 0 /\ c0.priority = k.tcb[t].priority
      /\ c0.wtmeb = k.tcb[t].wtmeb
  BY <1>1, <1>3, <1>4 DEF TCBType
<1>6. PICK k1 : k1 = [k EXCEPT !.tcb[t] = c0]
  OBVIOUS
<1>7. Links(k1, L, {}) /\ NewBlock(k, k1, t, c0)
  BY <1>3, <1>5, <1>6, SetLinked
<1>8. [k EXCEPT !.tcb[t].suscnt = @ + 1] = k1
  BY <1>1, <1>2, <1>4, <1>6 DEF IsKernel
<1>9. Calm(k, k1) /\ IsKernel(k1) /\ k1.tcb \in [Task -> TCBType] /\ k1.tcb[t] = c0
  BY <1>1, <1>5, <1>7 DEF Calm, NewBlock, Links, IsKernel
<1>10. CASE k.tcb[t].state = "READY"
  <2>1. PICK k3 : k3 = make_non_ready(k1, t)
    OBVIOUS
  <2>2. /\ Links(k3, L, {t}) /\ Calm(k1, k3)
        /\ k3.tcb = [k1.tcb EXCEPT ![t].klockwait = FALSE] /\ k3.schedtsk # t
    BY <1>5, <1>7, <1>9, <1>10, <2>1, LeaveRunnable
  <2>3. PICK c : c = [k3.tcb[t] EXCEPT !.state = "SUSPEND"]
    OBVIOUS
  <2>4. IsKernel(k3) /\ k3.tcb \in [Task -> TCBType] /\ k3.tcb[t] \in TCBType
        /\ k3.tcb[t].slicetime = 0
    BY <2>2 DEF Links, IsKernel, Blocks
  <2>5. k3.tcb[t].suscnt = n /\ ~k3.tcb[t].klockwait /\ ~k3.tcb[t].wtmeb
    <3>1. ~k1.tcb[t].wtmeb
      BY <1>1, <1>5, <1>9, <1>10 DEF Sane, is_waiting
    <3>. QED
      BY <1>5, <1>9, <2>2, <3>1 DEF TCBType
  <2>6. /\ c \in TCBType /\ c.klocked = k3.tcb[t].klocked /\ c.state = "SUSPEND"
        /\ ~c.klockwait /\ c.suscnt = n /\ c.slicetime = 0 /\ ~c.wtmeb
    BY <2>3, <2>4, <2>5 DEF TCBType, TState
  <2>7. k2 = [k3 EXCEPT !.tcb[t] = c]
    <3>1. k2 = [k3 EXCEPT !.tcb[t].state = "SUSPEND"]
      BY <1>8, <1>10, <2>1 DEF suspend
    <3>. QED
      BY <2>3, <2>4, <3>1 DEF IsKernel
  <2>8. Links(k2, L, {t}) /\ NewBlock(k3, k2, t, c)
    <3>1. c \in TCBType /\ (c.klocked => k3.tcb[t].klocked) /\ c.slicetime = 0
      BY <2>6
    <3>. QED
      BY <2>2, <2>7, <3>1, SetUnlinked, Zenon
  <2>9. Detached(k2.tcb[t]) /\ k2.schedtsk # t
    BY <1>3, <2>2, <2>6, <2>8 DEF NewBlock, Detached, is_waiting
  <2>10. Links(k2, L, {})
    BY <2>8, <2>9, Settle
  <2>11. Calm(k3, k2)
    <3>1. \A u \in Task : k2.tcb[u] = IF u = t THEN c ELSE k3.tcb[u]
      BY <2>4, <2>8 DEF NewBlock
    <3>. QED
      BY <2>6, <2>8, <3>1 DEF NewBlock, Calm
  <2>. QED
    BY <1>9, <2>2, <2>10, <2>11, CalmTwice
<1>11. CASE k.tcb[t].state = "WAIT"
  <2>1. PICK c : c = [k1.tcb[t] EXCEPT !.state = "WAITSUS"]
    OBVIOUS
  <2>2. /\ c \in TCBType /\ c.klocked = c0.klocked /\ c.state = "WAITSUS"
        /\ c.klockwait = c0.klockwait /\ c.suscnt = n /\ c.slicetime = 0 /\ c.wid = c0.wid
        /\ is_waiting(c.state) /\ is_waiting(c0.state) /\ c0.state # "READY"
        /\ c.wtmeb = c0.wtmeb
    BY <1>5, <1>9, <1>11, <2>1 DEF TCBType, TState, is_waiting
  <2>3. k2 = [k1 EXCEPT !.tcb[t] = c]
    <3>1. k2 = [k1 EXCEPT !.tcb[t].state = "WAITSUS"]
      BY <1>8, <1>11 DEF suspend
    <3>. QED
      BY <1>9, <2>1, <3>1 DEF IsKernel
  <2>4. Links(k2, L, {}) /\ NewBlock(k1, k2, t, c)
    BY <1>3, <1>7, <1>9, <2>2, <2>3, SetLinked DEF Runnable
  <2>5. \A u \in Task : k2.tcb[u] = IF u = t THEN c ELSE k1.tcb[u]
    BY <1>9, <2>4 DEF NewBlock
  <2>6. Calm(k1, k2)
    BY <1>9, <2>2, <2>4, <2>5 DEF NewBlock, Calm
  <2>. QED
    BY <1>9, <2>4, <2>6, CalmTwice
<1>12. CASE k.tcb[t].state \notin {"READY", "WAIT"}
  <2>1. k2 = k1
    BY <1>8, <1>12 DEF suspend
  <2>. QED
    BY <1>7, <1>9, <2>1
<1>. QED
  BY <1>10, <1>11, <1>12

\* resume, of a suspended task.
LEMMA ResumeTask ==
  ASSUME NEW k, NEW L, NEW t \in Task, Links(k, L, {}), NEW n \in 0 .. MaxSus,
         k.tcb[t].state \in {"SUSPEND", "WAITSUS"},
         NEW k2, k2 = resume(k, t, n)
  PROVE  Links(k2, L, {}) /\ Calm(k, k2)
<1>1. /\ IsKernel(k) /\ k.tcb \in [Task -> TCBType] /\ k.tcb[t] \in TCBType
      /\ k.tcb[t].slicetime = 0 /\ Sane(k.tcb[t]) /\ MaxSus \in Nat
  BY TaskAssumption DEF Links, IsKernel, Blocks
<1>2. ~k.tcb[t].klockwait /\ k.tcb[t].state # "READY"
  BY <1>1 DEF Sane
<1>4. PICK c0 : c0 = [k.tcb[t] EXCEPT !.suscnt = n]
  OBVIOUS
<1>5. /\ c0 \in TCBType /\ c0.suscnt = n /\ c0.state = k.tcb[t].state
      /\ c0.klocked = k.tcb[t].klocked /\ c0.klockwait = k.tcb[t].klockwait
      /\ c0.wid = k.tcb[t].wid /\ c0.slicetime = 0 /\ c0.priority = k.tcb[t].priority
      /\ c0.wtmeb = k.tcb[t].wtmeb
  BY <1>1, <1>4 DEF TCBType
<1>6. PICK k1 : k1 = [k EXCEPT !.tcb[t] = c0]
  OBVIOUS
<1>7. [k EXCEPT !.tcb[t].suscnt = n] = k1
  BY <1>1, <1>4, <1>6 DEF IsKernel
<1>8. CASE n > 0
  <2>1. k2 = k1
    BY <1>7, <1>8 DEF resume
  <2>2. Links(k1, L, {}) /\ NewBlock(k, k1, t, c0)
    BY <1>5, <1>6, <1>8, SetLinked
  <2>3. \A u \in Task : k1.tcb[u] = IF u = t THEN c0 ELSE k.tcb[u]
    BY <1>1, <2>2 DEF NewBlock
  <2>4. Calm(k, k1)
    BY <1>5, <2>2, <2>3 DEF NewBlock, Calm
  <2>. QED
    BY <2>1, <2>2, <2>4
<1>9. CASE ~(n > 0) /\ k.tcb[t].state = "SUSPEND"
  <2>1. Detached(k.tcb[t])
    BY <1>1, <1>2, <1>9 DEF Detached, is_waiting, Sane
  <2>2. Links(k, L, {t})
    BY <2>1, Unsettle
  <2>3. Links(k1, L, {t}) /\ NewBlock(k, k1, t, c0)
    <3>1. c0 \in TCBType /\ (c0.klocked => k.tcb[t].klocked) /\ c0.slicetime = 0
      BY <1>5
    <3>. QED
      BY <1>6, <2>2, <3>1, SetUnlinked, Zenon
  <2>4. \A u \in Task : k1.tcb[u] = IF u = t THEN c0 ELSE k.tcb[u]
    BY <1>1, <2>3 DEF NewBlock
  <2>5. Calm(k, k1) /\ ~k1.tcb[t].klockwait /\ ~k1.tcb[t].wtmeb
    BY <1>2, <2>1, <1>5, <2>3, <2>4 DEF NewBlock, Calm, Detached
  <2>6. k2 = make_ready(k1, t)
    BY <1>7, <1>9 DEF resume
  <2>7. Links(k2, L, {}) /\ Calm(k1, k2)
    BY <2>3, <2>5, <2>6, MakeRunnable
  <2>. QED
    BY <2>5, <2>7, CalmTwice
<1>10. CASE ~(n > 0) /\ k.tcb[t].state = "WAITSUS"
  <2>1. PICK c : c = [c0 EXCEPT !.state = "WAIT"]
    OBVIOUS
  <2>2. /\ c \in TCBType /\ c.klocked = k.tcb[t].klocked /\ c.state = "WAIT"
        /\ c.klockwait = k.tcb[t].klockwait /\ c.slicetime = 0 /\ c.wid = k.tcb[t].wid
        /\ is_waiting(c.state) /\ is_waiting(k.tcb[t].state) /\ ~Runnable(c)
        /\ c.wtmeb = k.tcb[t].wtmeb
    BY <1>5, <1>10, <2>1 DEF TCBType, TState, is_waiting, Runnable
  <2>3. k2 = [k EXCEPT !.tcb[t] = c]
    <3>1. k2 = [k1 EXCEPT !.tcb[t].state = "WAIT"]
      BY <1>7, <1>10 DEF resume
    <3>. QED
      BY <1>1, <1>6, <2>1, <3>1 DEF IsKernel
  <2>4. Links(k2, L, {}) /\ NewBlock(k, k2, t, c)
    BY <1>2, <2>2, <2>3, SetLinked
  <2>5. \A u \in Task : k2.tcb[u] = IF u = t THEN c ELSE k.tcb[u]
    BY <1>1, <2>4 DEF NewBlock
  <2>. QED
    BY <2>2, <2>4, <2>5 DEF NewBlock, Calm
<1>. QED
  BY <1>8, <1>9, <1>10

-----------------------------------------------------------------------------
(* Changes that do not concern the links.                                   *)

\* The control blocks of the objects may change.
LEMMA SetObjectsLinked ==
  ASSUME NEW k, NEW L, NEW X, Links(k, L, X), NEW o, NEW k2, k2 = [k EXCEPT !.obj = o]
  PROVE  /\ Links(k2, L, X) /\ k2.obj = o
         /\ k2.tcb = k.tcb /\ k2.ctxtsk = k.ctxtsk /\ k2.schedtsk = k.schedtsk
         /\ k2.rq = k.rq /\ k2.wq = k.wq
<1>1. IsKernel(k)
  BY DEF Links
<1>2. /\ IsKernel(k2) /\ k2.obj = o
      /\ k2.tcb = k.tcb /\ k2.ctxtsk = k.ctxtsk /\ k2.schedtsk = k.schedtsk
      /\ k2.rq = k.rq /\ k2.wq = k.wq
  BY <1>1 DEF IsKernel
<1>. QED
  BY <1>2 DEF Links, ReadyLinks, WaitLinks, ReadyCache, LockTask, Schedulable, Blocks

\* The CPU context may change.
LEMMA SetContextLinked ==
  ASSUME NEW k, NEW L, NEW X, Links(k, L, X), NEW x \in Task \cup {NoTask},
         NEW k2, k2 = [k EXCEPT !.ctxtsk = x]
  PROVE  /\ Links(k2, L, X) /\ k2.ctxtsk = x
         /\ k2.tcb = k.tcb /\ k2.obj = k.obj /\ k2.schedtsk = k.schedtsk
<1>1. IsKernel(k)
  BY DEF Links
<1>2. /\ IsKernel(k2) /\ k2.ctxtsk = x
      /\ k2.tcb = k.tcb /\ k2.obj = k.obj /\ k2.schedtsk = k.schedtsk
      /\ k2.rq = k.rq /\ k2.wq = k.wq
  BY <1>1 DEF IsKernel
<1>. QED
  BY <1>2 DEF Links, ReadyLinks, WaitLinks, ReadyCache, LockTask, Schedulable, Blocks

\* A task that does not queue for a lock may turn to another.
LEMMA Relabel ==
  ASSUME NEW k, NEW L, NEW M, Links(k, L, {}),
         \A u \in Task : M[u] = L[u] \/ ~k.tcb[u].klockwait
  PROVE  Links(k, M, {})
<1>1. \A w \in WaitQueue : {u \in Task \ {} : InWait(k.tcb[u], M[u], w)}
                             = {u \in Task \ {} : InWait(k.tcb[u], L[u], w)}
  BY DEF InWait
<1>. QED
  BY <1>1 DEF Links, WaitLinks

-----------------------------------------------------------------------------
(* klock.c                                                                  *)

\* Nobody has a lock, or there are several.
Grantable(k) == SinglePool => \A u \in Task : ~k.tcb[u].klocked

\* A task that is linked nowhere gets the lock.
LEMMA SetHolder ==
  ASSUME NEW k, NEW L, NEW t \in Task, Links(k, L, {t}), Grantable(k), NEW c \in TCBType,
         c.slicetime = 0, NEW k2, k2 = [k EXCEPT !.tcb[t] = c]
  PROVE  Links(k2, L, {t}) /\ NewBlock(k, k2, t, c)
<1>1. IsKernel(k) /\ k.tcb \in [Task -> TCBType]
  BY DEF Links, IsKernel
<1>2. k2 = [k EXCEPT !.tcb = [k.tcb EXCEPT ![t] = c]]
  BY <1>1 DEF IsKernel
<1>3. /\ IsKernel(k2) /\ k2.tcb = [k.tcb EXCEPT ![t] = c]
      /\ k2.ctxtsk = k.ctxtsk /\ k2.obj = k.obj /\ k2.schedtsk = k.schedtsk
      /\ k2.wq = k.wq /\ k2.rq = k.rq
  <2>1. [k.tcb EXCEPT ![t] = c] \in [Task -> TCBType]
    BY <1>1
  <2>. QED
    BY <1>1, <1>2, <2>1 DEF IsKernel
<1>4. k2.tcb[t] = c /\ \A u \in Task : u # t => k2.tcb[u] = k.tcb[u]
  BY <1>1, <1>3
<1>5. ReadyLinks(k2, {t}) /\ WaitLinks(k2, L, {t})
  <2>1. \A p \in Pri : {u \in Task \ {t} : InReady(k2.tcb[u], p)}
                         = {u \in Task \ {t} : InReady(k.tcb[u], p)}
    BY <1>4
  <2>2. \A w \in WaitQueue : {u \in Task \ {t} : InWait(k2.tcb[u], L[u], w)}
                               = {u \in Task \ {t} : InWait(k.tcb[u], L[u], w)}
    BY <1>4
  <2>. QED
    BY <1>3, <2>1, <2>2 DEF Links, ReadyLinks, WaitLinks
<1>6. ReadyCache(k2)
  BY <1>3 DEF Links, ReadyCache
<1>7. LockTask(k2, {t})
  BY <1>3, <1>4 DEF Links, LockTask, Grantable
<1>8. /\ k2.schedtsk \in {t} \/ Schedulable(k2, {t}, k2.schedtsk)
      /\ Blocks(k2, {t})
  BY <1>3, <1>4 DEF Links, Schedulable, Blocks
<1>. QED
  BY <1>3, <1>4, <1>5, <1>6, <1>7, <1>8 DEF Links, NewBlock

\* ctxtsk takes or gives up the lock while its links stay.
Held(k, k2, t, b) ==
  /\ k2.tcb = [k.tcb EXCEPT ![t].klocked = b]
  /\ k2.rq = [k.rq EXCEPT !.klocktsk = IF b THEN t ELSE NoTask]
  /\ k2.wq = k.wq /\ k2.schedtsk = k.schedtsk /\ k2.ctxtsk = k.ctxtsk

\* get_lock, and the beginning of UnlockOBJ.
LEMMA SetHeld ==
  ASSUME NEW k, NEW L, NEW t \in Task, Links(k, L, {}), NEW b \in BOOLEAN,
         b => Runnable(k.tcb[t]) /\ Grantable(k), ~b => k.tcb[t].klocked,
         NEW k2, IsKernel(k2), Held(k, k2, t, b)
  PROVE  Links(k2, L, {})
<1>1. /\ IsKernel(k) /\ k.tcb \in [Task -> TCBType] /\ k.rq \in RQType /\ NoTask \notin Task
  BY TaskAssumption DEF Links, IsKernel
<1>2. /\ k2.rq.tskque = k.rq.tskque /\ k2.rq.bitmap = k.rq.bitmap
      /\ k2.rq.top_priority = k.rq.top_priority
      /\ k2.rq.klocktsk = IF b THEN t ELSE NoTask
  BY <1>1 DEF Held, RQType
<1>3. /\ \A u \in Task : u # t => k2.tcb[u] = k.tcb[u]
      /\ k2.tcb[t].klocked = b /\ k2.tcb[t].klockwait = k.tcb[t].klockwait
      /\ k2.tcb[t].state = k.tcb[t].state /\ k2.tcb[t].priority = k.tcb[t].priority
      /\ k2.tcb[t].wid = k.tcb[t].wid /\ k2.tcb[t].suscnt = k.tcb[t].suscnt
      /\ k2.tcb[t].slicetime = k.tcb[t].slicetime
  BY <1>1 DEF Held, TCBType
<1>4. \A u \in Task : /\ k2.tcb[u].state = k.tcb[u].state
                      /\ k2.tcb[u].klockwait = k.tcb[u].klockwait
                      /\ k2.tcb[u].priority = k.tcb[u].priority
                      /\ k2.tcb[u].wid = k.tcb[u].wid
                      /\ k2.tcb[u].suscnt = k.tcb[u].suscnt
                      /\ k2.tcb[u].slicetime = k.tcb[u].slicetime
                      /\ k2.tcb[u].klocked = IF u = t THEN b ELSE k.tcb[u].klocked
  BY <1>3
<1>5. ReadyLinks(k2, {}) /\ WaitLinks(k2, L, {})
  <2>1. \A p \in Pri : {u \in Task \ {} : InReady(k2.tcb[u], p)}
                         = {u \in Task \ {} : InReady(k.tcb[u], p)}
    BY <1>4 DEF InReady, Runnable
  <2>2. \A w \in WaitQueue : {u \in Task \ {} : InWait(k2.tcb[u], L[u], w)}
                               = {u \in Task \ {} : InWait(k.tcb[u], L[u], w)}
    BY <1>4 DEF InWait
  <2>. QED
    BY <1>2, <2>1, <2>2 DEF Links, ReadyLinks, WaitLinks, Held
<1>6. ReadyCache(k2)
  BY <1>2 DEF Links, ReadyCache
<1>7. \A u \in Task : Runnable(k2.tcb[u]) <=> Runnable(k.tcb[u])
  BY <1>4 DEF Runnable
<1>8. LockTask(k2, {})
  <2>1. CASE b
    BY <1>1, <1>2, <1>4, <1>7, <2>1 DEF LockTask, Grantable
  <2>2. CASE ~b
    <3>1. SinglePool => \A u \in Task : ~k2.tcb[u].klocked
      BY <1>4, <2>2 DEF Links, LockTask
    <3>. QED
      BY <1>2, <2>2, <3>1 DEF LockTask
  <2>. QED
    BY <2>1, <2>2
<1>9. Schedulable(k2, {}, k2.schedtsk)
  BY <1>7 DEF Links, Schedulable, Held
<1>10. Blocks(k2, {})
  <2>1. \A u \in Task : Sane(k.tcb[u]) => Sane(k2.tcb[u])
    <3>1. \A u \in Task : k2.tcb[u].wtmeb = k.tcb[u].wtmeb
      BY <1>1 DEF Held, TCBType
    <3>. QED
      BY <1>4, <3>1 DEF Sane, Runnable
  <2>. QED
    BY <1>4, <2>1 DEF Links, Blocks
<1>. QED
  BY <1>5, <1>6, <1>8, <1>9, <1>10 DEF Links

\* get_lock: ctxtsk takes the lock l.
Took(k, k2, t, l) ==
  /\ k2.tcb = [k.tcb EXCEPT ![t].klocked = TRUE]
  /\ k2.obj = [k.obj EXCEPT !.locked = @ \cup {l}]
  /\ k2.ctxtsk = k.ctxtsk

\* A free lock is taken.
LEMMA GetLock ==
  ASSUME NEW k, NEW L, NEW t \in Task, Links(k, L, {}), k.ctxtsk = t,
         Runnable(k.tcb[t]), Grantable(k), NEW l, NEW k2, k2 = get_lock(k, l)
  PROVE  Links(k2, L, {}) /\ Took(k, k2, t, l)
<1>1. IsKernel(k) /\ k.tcb \in [Task -> TCBType] /\ k.rq \in RQType
  BY DEF Links, IsKernel
<1>2. PICK o : o = [k.obj EXCEPT !.locked = @ \cup {l}]
  OBVIOUS
<1>3. PICK k1 : k1 = [k EXCEPT !.obj = o]
  OBVIOUS
<1>4. /\ Links(k1, L, {}) /\ k1.obj = o
      /\ k1.tcb = k.tcb /\ k1.ctxtsk = k.ctxtsk /\ k1.schedtsk = k.schedtsk
      /\ k1.rq = k.rq /\ k1.wq = k.wq
  BY <1>3, SetObjectsLinked
<1>5. PICK f : f = [k.tcb EXCEPT ![t].klocked = TRUE]
  OBVIOUS
<1>6. PICK r : r = [k.rq EXCEPT !.klocktsk = t]
  OBVIOUS
<1>7. f \in [Task -> TCBType] /\ r \in RQType
  <2>1. [k.tcb[t] EXCEPT !.klocked = TRUE] \in TCBType
    <3>1. k.tcb[t] \in TCBType
      BY <1>1
    <3>. QED
      BY <3>1 DEF TCBType
  <2>2. f \in [Task -> TCBType]
    <3>1. f = [k.tcb EXCEPT ![t] = [k.tcb[t] EXCEPT !.klocked = TRUE]]
      BY <1>1, <1>5
    <3>. QED
      BY <1>1, <2>1, <3>1
  <2>3. r \in RQType
    BY <1>1, <1>6 DEF RQType
  <2>. QED
    BY <2>2, <2>3
<1>8. k2 = [k EXCEPT !.obj = o, !.tcb = f, !.rq = r]
  BY <1>1, <1>2, <1>5, <1>6 DEF get_lock, IsKernel
<1>9. IsKernel(k2) /\ k2.obj = o /\ k2.tcb = f /\ k2.rq = r /\ k2.wq = k.wq
      /\ k2.schedtsk = k.schedtsk /\ k2.ctxtsk = k.ctxtsk
  BY <1>1, <1>7, <1>8 DEF IsKernel
<1>10. Held(k1, k2, t, TRUE)
  BY <1>4, <1>5, <1>6, <1>9 DEF Held
<1>11. Runnable(k1.tcb[t]) /\ Grantable(k1)
  BY <1>4 DEF Grantable
<1>12. Links(k2, L, {})
  BY <1>4, <1>9, <1>10, <1>11, SetHeld
<1>. QED
  BY <1>2, <1>5, <1>9, <1>12 DEF Took

\* queue_for_lock: ctxtsk queues.
Queues(k, k2, t) ==
  /\ k2.tcb = [k.tcb EXCEPT ![t].klockwait = TRUE]
  /\ k2.obj = k.obj /\ k2.ctxtsk = k.ctxtsk

\* A task that finds the lock taken joins its queue.
LEMMA QueueForLock ==
  ASSUME NEW k, NEW L, NEW t \in Task, Links(k, L, {}), k.ctxtsk = t,
         Runnable(k.tcb[t]), ~k.tcb[t].klocked, NEW l \in Lock, L[t] = l,
         NEW k2, k2 = queue_for_lock(k, l)
  PROVE  Links(k2, L, {}) /\ Queues(k, k2, t)
<1>1. PICK k1 : k1 = ready_queue_delete(k, t)
  OBVIOUS
<1>2. /\ Links(k1, L, {t})
      /\ k1.tcb = k.tcb /\ k1.ctxtsk = k.ctxtsk /\ k1.obj = k.obj
  BY <1>1, DeleteRunnable
<1>3. PICK s : s = ready_queue_top(k1)
  OBVIOUS
<1>4. s \in Task \cup {NoTask} /\ Schedulable(k1, {t}, s)
  BY <1>2, <1>3, TopRunnable, TopType
<1>5. PICK k0 : k0 = [k1 EXCEPT !.schedtsk = s]
  OBVIOUS
<1>6. /\ Links(k0, L, {t}) /\ k0.schedtsk = s
      /\ k0.tcb = k1.tcb /\ k0.ctxtsk = k1.ctxtsk /\ k0.obj = k1.obj
      /\ k0.rq = k1.rq /\ k0.wq = k1.wq
  BY <1>2, <1>4, <1>5, SetSchedtsk
<1>7. /\ IsKernel(k0) /\ k0.tcb \in [Task -> TCBType] /\ k0.tcb[t] \in TCBType
      /\ k0.tcb[t].slicetime = 0 /\ k0.wq \in [WaitQueue -> Seq(Task)]
      /\ IsKernel(k1)
  BY <1>2, <1>6 DEF Links, IsKernel, Blocks
<1>8. PICK c : c = [k0.tcb[t] EXCEPT !.klockwait = TRUE]
  OBVIOUS
<1>9. /\ c \in TCBType /\ c.klockwait /\ c.state = "READY" /\ ~c.klocked
      /\ c.slicetime = 0 /\ ~c.wtmeb
  <2>1. ~k.tcb[t].wtmeb
    BY DEF Links, Blocks, Sane, Runnable, is_waiting
  <2>. QED
    <3>1. k0.tcb[t] = k.tcb[t] /\ k.tcb[t].state = "READY" /\ ~k.tcb[t].klocked
      BY <1>2, <1>6 DEF Runnable
    <3>2. /\ c \in TCBType /\ c.state = k0.tcb[t].state
          /\ c.slicetime = k0.tcb[t].slicetime /\ c.wtmeb = k0.tcb[t].wtmeb
          /\ c.klockwait /\ c.klocked = k0.tcb[t].klocked
      BY <1>7, <1>8 DEF TCBType
    <3>. QED
      BY <1>7, <2>1, <3>1, <3>2
<1>10. PICK k3 : k3 = [k0 EXCEPT !.tcb[t] = c]
  OBVIOUS
<1>11. Links(k3, L, {t}) /\ NewBlock(k0, k3, t, c)
  <2>1. c \in TCBType /\ (c.klocked => k0.tcb[t].klocked) /\ c.slicetime = 0
    BY <1>9
  <2>. QED
    BY <1>6, <1>10, <2>1, SetUnlinked, Zenon
<1>12. k3.tcb[t] = c /\ k3.wq = k0.wq /\ k3.schedtsk = s /\ k3.obj = k0.obj
       /\ k3.ctxtsk = k0.ctxtsk /\ k3.tcb = [k0.tcb EXCEPT ![t] = c]
  BY <1>6, <1>11 DEF NewBlock
<1>13. l \in WaitQueue /\ NoTask \notin Task
  BY LockAssumption, TaskAssumption
<1>14. PICK q : q = Append(k3.wq[l], t)
  OBVIOUS
<1>15. q \in Queue /\ ToSet(q) = ToSet(k3.wq[l]) \cup {t}
  <2>1. k3.wq[l] \in Queue /\ t \notin ToSet(k3.wq[l])
    BY <1>11, <1>13 DEF Links, WaitLinks
  <2>. QED
    BY <1>14, <2>1, QueueAppend
<1>16. k2 = [k3 EXCEPT !.wq[l] = q]
  <2>1. k2 = [k1 EXCEPT !.tcb[t].klockwait = TRUE, !.wq[l] = Append(@, t), !.schedtsk = s]
    BY <1>1, <1>3 DEF queue_for_lock
  <2>2. k2 = [k1 EXCEPT !.tcb = [k1.tcb EXCEPT ![t] = c],
                        !.wq = [k1.wq EXCEPT ![l] = q], !.schedtsk = s]
    BY <1>6, <1>7, <1>8, <1>12, <1>14, <2>1 DEF IsKernel
  <2>3. [k3 EXCEPT !.wq[l] = q] = [k0 EXCEPT !.tcb = [k1.tcb EXCEPT ![t] = c],
                                             !.wq = [k1.wq EXCEPT ![l] = q]]
    BY <1>6, <1>7, <1>10, <1>12 DEF IsKernel
  <2>. QED
    BY <1>5, <1>7, <2>2, <2>3 DEF IsKernel
<1>17. s # t
  BY <1>4, <1>13 DEF Schedulable
<1>18. /\ ~Runnable(k3.tcb[t]) /\ Sane(k3.tcb[t])
       /\ \A x \in WaitQueue : InWait(k3.tcb[t], L[t], x) <=> x = l
  BY <1>9, <1>12 DEF Runnable, Sane, InWait, is_waiting
<1>19. /\ Links(k2, L, {})
       /\ k2.tcb = k3.tcb /\ k2.ctxtsk = k3.ctxtsk /\ k2.obj = k3.obj
  <2>1. k3.schedtsk # t /\ (k3.tcb[t].klocked => k3.tcb[t].state # "READY")
    BY <1>9, <1>12, <1>17
  <2>. QED
    BY <1>11, <1>13, <1>15, <1>16, <1>18, <2>1, HookWait
<1>20. k2.tcb = [k.tcb EXCEPT ![t].klockwait = TRUE]
  BY <1>2, <1>6, <1>8, <1>12, <1>19
<1>. QED
  BY <1>2, <1>6, <1>12, <1>19, <1>20 DEF Queues

\* One iteration of LockOBJ.
LEMMA LockObject ==
  ASSUME NEW k, NEW L, NEW t \in Task, Links(k, L, {}), k.ctxtsk = t,
         Runnable(k.tcb[t]), NEW l \in Lock, L[t] = l,
         ~k.tcb[t].klocked /\ lock_free(k, l) => Grantable(k),
         NEW k2, k2 = LockOBJ(k, l)
  PROVE  /\ Links(k2, L, {})
         /\ \/ k.tcb[t].klocked /\ k2 = k
            \/ ~k.tcb[t].klocked /\ lock_free(k, l) /\ Took(k, k2, t, l)
            \/ ~k.tcb[t].klocked /\ ~lock_free(k, l) /\ Queues(k, k2, t)
<1>1. CASE k.tcb[t].klocked
  BY <1>1 DEF LockOBJ
<1>2. CASE ~k.tcb[t].klocked /\ lock_free(k, l)
  <2>1. k2 = get_lock(k, l)
    BY <1>2 DEF LockOBJ
  <2>2. Links(k2, L, {}) /\ Took(k, k2, t, l)
    BY <1>2, <2>1, GetLock
  <2>. QED
    BY <1>2, <2>2
<1>3. CASE ~k.tcb[t].klocked /\ ~lock_free(k, l)
  <2>1. k2 = queue_for_lock(k, l)
    BY <1>3 DEF LockOBJ
  <2>2. Links(k2, L, {}) /\ Queues(k, k2, t)
    BY <1>3, <2>1, QueueForLock
  <2>. QED
    BY <1>3, <2>2
<1>. QED
  BY <1>1, <1>2, <1>3

\* The first of the queue of a lock is linked there only.
LEMMA LockQueueHead ==
  ASSUME NEW k, NEW L, Links(k, L, {}), NEW l \in Lock, k.wq[l] # <<>>,
         NEW h, h = Head(k.wq[l]), NEW k2, k2 = [k EXCEPT !.wq[l] = Tail(@)]
  PROVE  /\ h \in Task /\ k.tcb[h].klockwait /\ ~k.tcb[h].klocked /\ L[h] = l
         /\ k.tcb[h].state = "READY" /\ ~k.tcb[h].wtmeb
         /\ k2 = QueRemove(k, h)
<1>1. /\ IsKernel(k) /\ k.rq \in RQType /\ k.wq \in [WaitQueue -> Seq(Task)]
      /\ ReadyLinks(k, {}) /\ WaitLinks(k, L, {}) /\ Blocks(k, {}) /\ l \in WaitQueue
  BY LockAssumption DEF Links, IsKernel
<1>2. /\ k.wq[l] \in Queue
      /\ ToSet(k.wq[l]) = {u \in Task \ {} : InWait(k.tcb[u], L[u], l)}
  BY <1>1 DEF WaitLinks
<1>3. h \in Task /\ InWait(k.tcb[h], L[h], l)
  BY <1>2, QueueTail
<1>4. /\ k.tcb[h].klockwait /\ ~k.tcb[h].klocked /\ L[h] = l /\ k.tcb[h].state = "READY"
      /\ ~k.tcb[h].wtmeb
  BY <1>1, <1>3, LockAssumption DEF Blocks, Sane, InWait, is_waiting
<1>5. /\ \A p \in Pri : ~InReady(k.tcb[h], p)
      /\ \A w \in WaitQueue : w # l => ~InWait(k.tcb[h], L[h], w)
  BY <1>4 DEF InReady, Runnable, InWait, is_waiting
<1>6. [p \in Pri |-> QueueWithout(k.rq.tskque[p], h)] = k.rq.tskque
  <2>1. \A p \in Pri : QueueWithout(k.rq.tskque[p], h) = k.rq.tskque[p]
    BY <1>1, <1>3, <1>5, QueueRemoval DEF ReadyLinks
  <2>. QED
    BY <1>1, <2>1 DEF RQType
<1>7. [w \in WaitQueue |-> QueueWithout(k.wq[w], h)] = [k.wq EXCEPT ![l] = Tail(k.wq[l])]
  <2>1. \A w \in WaitQueue : w # l => QueueWithout(k.wq[w], h) = k.wq[w]
    BY <1>1, <1>3, <1>5, QueueRemoval DEF WaitLinks
  <2>2. QueueWithout(k.wq[l], h) = Tail(k.wq[l])
    BY <1>2, QueueHeadRemoved
  <2>. QED
    BY <1>1, <2>1, <2>2
<1>8. PICK f : f = [p \in Pri |-> QueueWithout(k.rq.tskque[p], h)]
  OBVIOUS
<1>9. PICK g : g = [w \in WaitQueue |-> QueueWithout(k.wq[w], h)]
  OBVIOUS
<1>10. QueRemove(k, h) = [k EXCEPT !.rq.tskque = f, !.wq = g]
  BY <1>8, <1>9 DEF QueRemove
<1>11. k2 = [k EXCEPT !.wq = g]
  BY <1>1, <1>7, <1>9 DEF IsKernel
<1>12. [k EXCEPT !.rq.tskque = f, !.wq = g] = [k EXCEPT !.wq = g]
  BY <1>1, <1>6, <1>8 DEF IsKernel, RQType
<1>. QED
  BY <1>3, <1>4, <1>10, <1>11, <1>12

\* UnlockOBJ frees the lock l, as nobody queues for it.
GivenBack(k, k2, L, t, l) ==
  /\ k2.obj = [k.obj EXCEPT !.locked = @ \ {l}] /\ k2.ctxtsk = k.ctxtsk
  /\ \A u \in Task : /\ k2.tcb[u].klocked <=> k.tcb[u].klocked /\ u # t
                     /\ k2.tcb[u].klockwait => k.tcb[u].klockwait
                     /\ L[u] = l => ~k.tcb[u].klockwait

\* UnlockOBJ hands the lock l over to the first that queues for it.
HandedOver(k, k2, L, t, l) ==
  /\ k2.obj = k.obj /\ k2.ctxtsk = k.ctxtsk
  /\ \E h \in Task :
       /\ h # t /\ k.tcb[h].klockwait /\ L[h] = l
       /\ \A u \in Task : /\ k2.tcb[u].klocked <=> u = h \/ (k.tcb[u].klocked /\ u # t)
                          /\ k2.tcb[u].klockwait => k.tcb[u].klockwait /\ u # h

\* UnlockOBJ of a task that has the lock; it may just have begun to wait.
LEMMA UnlockObject ==
  ASSUME NEW k, NEW L, NEW t \in Task, Links(k, L, {}), k.ctxtsk = t, k.tcb[t].klocked,
         NEW l \in Lock, NEW k2, k2 = UnlockOBJ(k, l)
  PROVE  /\ Links(k2, L, {})
         /\ GivenBack(k, k2, L, t, l) \/ HandedOver(k, k2, L, t, l)
<1>1. /\ IsKernel(k) /\ k.tcb \in [Task -> TCBType] /\ k.rq \in RQType
      /\ k.tcb[t] \in TCBType /\ l \in WaitQueue
  BY LockAssumption DEF Links, IsKernel
<1>2. PICK k1 : k1 = [k EXCEPT !.tcb[t].klocked = FALSE, !.rq.klocktsk = NoTask]
  OBVIOUS
<1>3. IsKernel(k1) /\ Held(k, k1, t, FALSE) /\ k1.obj = k.obj /\ k1.ctxtsk = k.ctxtsk
      /\ k1.tcb = [k.tcb EXCEPT ![t].klocked = FALSE]
  <2>1. PICK f : f = [k.tcb EXCEPT ![t].klocked = FALSE]
    OBVIOUS
  <2>2. PICK r : r = [k.rq EXCEPT !.klocktsk = NoTask]
    OBVIOUS
  <2>3. f \in [Task -> TCBType] /\ r \in RQType
    <3>1. [k.tcb[t] EXCEPT !.klocked = FALSE] \in TCBType
      BY <1>1 DEF TCBType
    <3>2. f = [k.tcb EXCEPT ![t] = [k.tcb[t] EXCEPT !.klocked = FALSE]]
      BY <1>1, <2>1
    <3>3. f \in [Task -> TCBType]
      BY <1>1, <3>1, <3>2
    <3>4. r \in RQType
      BY <1>1, <2>2 DEF RQType
    <3>. QED
      BY <3>3, <3>4
  <2>4. k1 = [k EXCEPT !.tcb = f, !.rq = r]
    BY <1>1, <1>2, <2>1, <2>2 DEF IsKernel
  <2>5. /\ IsKernel(k1) /\ k1.tcb = f /\ k1.rq = r /\ k1.obj = k.obj /\ k1.wq = k.wq
        /\ k1.ctxtsk = k.ctxtsk /\ k1.schedtsk = k.schedtsk
    BY <1>1, <2>3, <2>4 DEF IsKernel
  <2>. QED
    BY <2>1, <2>2, <2>5 DEF Held
<1>4. Links(k1, L, {})
  BY <1>3, SetHeld
<1>5. \A u \in Task : /\ k1.tcb[u].klocked <=> k.tcb[u].klocked /\ u # t
                      /\ k1.tcb[u].klockwait = k.tcb[u].klockwait
  BY <1>1, <1>3 DEF TCBType
<1>6. Grantable(k1) /\ ~k.tcb[t].klockwait
  BY <1>5 DEF Grantable, Links, LockTask, Blocks, Sane
<1>7. CASE k1.wq[l] = <<>>
  <2>1. PICK o : o = [k1.obj EXCEPT !.locked = @ \ {l}]
    OBVIOUS
  <2>2. PICK k3 : k3 = [k1 EXCEPT !.obj = o]
    OBVIOUS
  <2>3. /\ Links(k3, L, {}) /\ k3.obj = o /\ k3.tcb = k1.tcb /\ k3.ctxtsk = k1.ctxtsk
        /\ k3.schedtsk = k1.schedtsk
    BY <1>4, <2>2, SetObjectsLinked
  <2>4. PICK s : s = ready_queue_top(k3)
    OBVIOUS
  <2>5. s \in Task \cup {NoTask} /\ Schedulable(k3, {}, s)
    BY <2>3, <2>4, TopRunnable, TopType
  <2>6. k2 = [k3 EXCEPT !.schedtsk = s]
    <3>1. [k1 EXCEPT !.obj.locked = @ \ {l}] = k3
      BY <1>3, <2>1, <2>2 DEF IsKernel
    <3>2. k2 = [[k1 EXCEPT !.obj.locked = @ \ {l}]
                  EXCEPT !.schedtsk = ready_queue_top([k1 EXCEPT !.obj.locked = @ \ {l}])]
      BY <1>2, <1>7 DEF UnlockOBJ
    <3>. QED
      BY <2>4, <3>1, <3>2
  <2>7. Links(k2, L, {}) /\ k2.tcb = k3.tcb /\ k2.ctxtsk = k3.ctxtsk /\ k2.obj = k3.obj
    BY <2>3, <2>5, <2>6, SetSchedtsk
  <2>8. \A u \in Task : L[u] = l => ~k.tcb[u].klockwait
    <3>1. {u \in Task \ {} : InWait(k1.tcb[u], L[u], l)} = {}
      BY <1>1, <1>4, <1>7, EmptyQueue DEF Links, WaitLinks
    <3>. QED
      BY <1>5, <3>1 DEF InWait
  <2>9. GivenBack(k, k2, L, t, l)
    BY <1>3, <1>5, <2>1, <2>3, <2>7, <2>8 DEF GivenBack
  <2>. QED
    BY <2>7, <2>9
<1>8. CASE k1.wq[l] # <<>>
  <2>1. PICK h : h = Head(k1.wq[l])
    OBVIOUS
  <2>2. PICK k3 : k3 = [k1 EXCEPT !.wq[l] = Tail(@)]
    OBVIOUS
  <2>3. /\ h \in Task /\ k1.tcb[h].klockwait /\ ~k1.tcb[h].klocked /\ L[h] = l
        /\ k1.tcb[h].state = "READY" /\ ~k1.tcb[h].wtmeb
        /\ k3 = QueRemove(k1, h)
    BY <1>4, <1>8, <2>1, <2>2, LockQueueHead
  <2>4. ~Runnable(k1.tcb[h])
    BY <2>3 DEF Runnable
  <2>5. Links(k3, L, {h}) /\ Unhooked(k1, k3, L, h)
    BY <1>4, <2>3, <2>4, Unhook, UnhookOther, Zenon
  <2>6. /\ k3.tcb = k1.tcb /\ k3.ctxtsk = k1.ctxtsk /\ k3.obj = k1.obj
        /\ k3.tcb \in [Task -> TCBType] /\ k3.tcb[h] \in TCBType
        /\ k3.tcb[h].slicetime = 0 /\ Grantable(k3) /\ IsKernel(k3)
    BY <1>6, <2>3, <2>5 DEF Unhooked, Grantable, Links, IsKernel, Blocks
  <2>7. PICK c : c = [k3.tcb[h] EXCEPT !.klockwait = FALSE, !.klocked = TRUE]
    OBVIOUS
  <2>8. /\ c \in TCBType /\ c.klocked /\ ~c.klockwait /\ c.state = "READY"
        /\ c.slicetime = 0 /\ ~c.wtmeb
    <3>1. /\ c \in TCBType /\ c.klocked /\ ~c.klockwait
          /\ c.state = k3.tcb[h].state /\ c.slicetime = k3.tcb[h].slicetime
          /\ c.wtmeb = k3.tcb[h].wtmeb
      BY <2>6, <2>7 DEF TCBType
    <3>. QED
      BY <2>3, <2>6, <3>1
  <2>9. PICK k4 : k4 = [k3 EXCEPT !.tcb[h] = c]
    OBVIOUS
  <2>10. Links(k4, L, {h}) /\ NewBlock(k3, k4, h, c)
    BY <2>3, <2>5, <2>6, <2>8, <2>9, SetHolder, Zenon
  <2>11. Runnable(k4.tcb[h])
    BY <2>8, <2>10 DEF Runnable, NewBlock
  <2>12. PICK k5 : k5 = ready_queue_insert_top(k4, h)
    OBVIOUS
  <2>13. /\ Links(k5, L, {}) /\ k5.tcb = k4.tcb
         /\ k5.ctxtsk = k4.ctxtsk /\ k5.obj = k4.obj /\ k5.schedtsk = k4.schedtsk
    <3>1. Links(k4, L, {h}) /\ ~k4.tcb[h].wtmeb
      BY <2>8, <2>10 DEF NewBlock
    <3>. QED
      BY <2>3, <2>11, <2>12, <3>1, InsertFirst
  <2>14. PICK s : s = ready_queue_top(k5)
    OBVIOUS
  <2>15. s \in Task \cup {NoTask} /\ Schedulable(k5, {}, s)
    BY <2>13, <2>14, TopRunnable, TopType
  <2>16. k2 = [k5 EXCEPT !.schedtsk = s]
    <3>1. [k1 EXCEPT !.wq[l] = Tail(@), !.tcb[h].klockwait = FALSE,
                     !.tcb[h].klocked = TRUE] = k4
      <4>1. [k3 EXCEPT !.tcb[h].klockwait = FALSE, !.tcb[h].klocked = TRUE]
              = [k3 EXCEPT !.tcb[h] = c]
        <5>1. [k3.tcb EXCEPT ![h] = c]
                = [[k3.tcb EXCEPT ![h].klockwait = FALSE] EXCEPT ![h].klocked = TRUE]
          BY <2>3, <2>6, <2>7
        <5>. QED
          BY <2>3, <2>6, <5>1 DEF IsKernel
      <4>. QED
        BY <2>2, <2>9, <4>1
    <3>2. k2 = [ready_queue_insert_top(
                  [k1 EXCEPT !.wq[l] = Tail(@), !.tcb[h].klockwait = FALSE,
                             !.tcb[h].klocked = TRUE], h)
                EXCEPT !.schedtsk = ready_queue_top(ready_queue_insert_top(
                  [k1 EXCEPT !.wq[l] = Tail(@), !.tcb[h].klockwait = FALSE,
                             !.tcb[h].klocked = TRUE], h))]
      BY <1>2, <1>8, <2>1 DEF UnlockOBJ
    <3>. QED
      BY <2>12, <2>14, <3>1, <3>2
  <2>17. Links(k2, L, {}) /\ k2.tcb = k5.tcb /\ k2.ctxtsk = k5.ctxtsk /\ k2.obj = k5.obj
    BY <2>13, <2>15, <2>16, SetSchedtsk
  <2>18. /\ k2.obj = k.obj /\ k2.ctxtsk = k.ctxtsk
    BY <1>3, <2>6, <2>10, <2>13, <2>17 DEF NewBlock
  <2>19. \A u \in Task : k2.tcb[u] = IF u = h THEN c ELSE k1.tcb[u]
    BY <2>6, <2>10, <2>13, <2>17 DEF NewBlock
  <2>20. h # t /\ k.tcb[h].klockwait
    BY <1>5, <1>6, <2>3
  <2>21. HandedOver(k, k2, L, t, l)
    BY <1>5, <2>3, <2>8, <2>18, <2>19, <2>20 DEF HandedOver
  <2>. QED
    BY <2>17, <2>21
<1>. QED
  BY <1>7, <1>8

-----------------------------------------------------------------------------
(* Waits, the end of a task, the dispatcher and the system start.           *)

\* t has begun to wait for the object with the queue w.
Joining(k, t, w) == /\ k.tcb[t].state = "WAIT" /\ k.tcb[t].wid = w
                    /\ ~k.tcb[t].klockwait /\ k.schedtsk # t
                    /\ w \in WaitQueue \ Lock

\* It joins the queue.
LEMMA JoinWait ==
  ASSUME NEW k, NEW L, NEW t \in Task, Links(k, L, {t}), NEW w, Joining(k, t, w),
         NEW tpri \in BOOLEAN,
         NEW k2, k2 = wait_queue_insert(k, w, t, tpri)
  PROVE  Links(k2, L, {}) /\ k2.tcb = k.tcb /\ k2.ctxtsk = k.ctxtsk /\ k2.obj = k.obj
<1>0. /\ k.tcb[t].state = "WAIT" /\ k.tcb[t].wid = w /\ ~k.tcb[t].klockwait
      /\ k.schedtsk # t /\ w \in WaitQueue /\ w \notin Lock
  BY DEF Joining
<1>1. PICK q : q = k.wq[w]
  OBVIOUS
<1>2. q \in Queue /\ t \notin ToSet(q) /\ k.tcb \in [Task -> TCBType]
  BY <1>0, <1>1 DEF Links, WaitLinks, IsKernel
<1>3. \E q2 : k2 = PutQueue(k, w, q2) /\ Joined(k, q, q2, t, tpri)
  BY <1>0, <1>1, <1>2, WaitQueueInsert
<1>4. PICK q2 : k2 = PutQueue(k, w, q2) /\ Joined(k, q, q2, t, tpri)
  BY <1>3
<1>5. q2 \in Queue /\ ToSet(q2) = ToSet(k.wq[w]) \cup {t}
  BY <1>1, <1>4 DEF Joined
<1>6. k2 = [k EXCEPT !.wq[w] = q2]
  BY <1>4 DEF PutQueue
<1>7. /\ ~Runnable(k.tcb[t]) /\ Sane(k.tcb[t])
      /\ \A x \in WaitQueue : InWait(k.tcb[t], L[t], x) <=> x = w
  BY <1>0 DEF Runnable, Sane, InWait, is_waiting
<1>8. k.schedtsk # t /\ (k.tcb[t].klocked => k.tcb[t].state # "READY")
  BY <1>0
<1>9. /\ Links(k2, L, {})
      /\ k2.tcb = k.tcb /\ k2.ctxtsk = k.ctxtsk /\ k2.obj = k.obj
      /\ k2.schedtsk = k.schedtsk
  BY <1>0, <1>5, <1>6, <1>7, <1>8, HookWait
<1>. QED
  BY <1>9

\* gcb_make_wait of a runnable task, which may have the lock of its pool.
LEMMA BeginWait ==
  ASSUME NEW k, NEW L, NEW t \in Task, Links(k, L, {}), k.ctxtsk = t,
         Runnable(k.tcb[t]), NEW w \in WaitQueue, w \notin Lock,
         NEW tmout \in TMO, NEW tpri \in BOOLEAN,
         NEW k2, k2 = gcb_make_wait(k, {"MPF"}, w, tmout, tpri, FALSE)
  PROVE  Links(k2, L, {}) /\ Calm(k, k2)
<1>. DEFINE fac == {"MPF"}
<1>1. PICK k1 : k1 = make_non_ready(k, t)
  OBVIOUS
<1>2. k.tcb[t].state = "READY" /\ ~k.tcb[t].klockwait
  BY DEF Runnable
<1>3. /\ Links(k1, L, {t}) /\ Calm(k, k1)
      /\ k1.tcb = [k.tcb EXCEPT ![t].klockwait = FALSE] /\ k1.schedtsk # t
  BY <1>1, <1>2, LeaveRunnable
<1>4. /\ IsKernel(k1) /\ k1.tcb \in [Task -> TCBType] /\ k1.tcb[t] \in TCBType
      /\ k1.tcb[t].slicetime = 0 /\ ~k1.tcb[t].klockwait /\ k1.tcb[t].state = "READY"
      /\ k.tcb \in [Task -> TCBType]
  <2>1. /\ IsKernel(k1) /\ k1.tcb \in [Task -> TCBType] /\ k1.tcb[t].slicetime = 0
        /\ k.tcb \in [Task -> TCBType]
    BY <1>3 DEF Links, IsKernel, Blocks
  <2>. QED
    BY <1>2, <1>3, <2>1 DEF TCBType
<1>5. PICK c : c = Blocked(k1.tcb[t], fac, w, tmout, FALSE)
  OBVIOUS
<1>6. /\ c \in TCBType /\ c.klocked = k1.tcb[t].klocked /\ ~c.klockwait
      /\ c.state = "WAIT" /\ c.wid = w /\ c.slicetime = 0
  <2>1. PICK d : d = [k1.tcb[t] EXCEPT !.state = "WAIT", !.tskwait = fac, !.wid = w]
    OBVIOUS
  <2>2. "E_TMOUT" \in WaitResult /\ "WAIT" \in TState /\ fac \in SUBSET WaitFactor
    BY DEF WaitResult, TState, WaitFactor
  <2>3. /\ d \in TCBType /\ d.klocked = k1.tcb[t].klocked /\ ~d.klockwait
        /\ d.state = "WAIT" /\ d.wid = w /\ d.slicetime = 0
    <3>1. k1.tcb[t] \in TCBType /\ k1.tcb[t].slicetime = 0 /\ ~k1.tcb[t].klockwait
          /\ w \in WaitQueue
      BY <1>4
    <3>. QED
      BY <2>1, <2>2, <3>1 DEF TCBType
  <2>4. c = [d EXCEPT !.wercd = "E_TMOUT", !.nodiswai = FALSE,
                      !.wtmeb = (tmout # "TMO_FEVR")]
    BY <1>5, <2>1 DEF Blocked
  <2>. QED
    BY <2>2, <2>3, <2>4 DEF TCBType
<1>7. PICK k3 : k3 = [k1 EXCEPT !.tcb[t] = c]
  OBVIOUS
<1>8. make_wait(k, fac, w, tmout, FALSE) = k3
  <2>1. PICK d : d = [k1.tcb[t] EXCEPT !.state = "WAIT"]
    OBVIOUS
  <2>2. PICK kw : kw = [k1 EXCEPT !.tcb[t].state = "WAIT"]
    OBVIOUS
  <2>3. PICK e : e = [kw.tcb[t] EXCEPT !.tskwait = fac, !.wid = w,
                                       !.wercd = "E_TMOUT", !.nodiswai = FALSE,
                                       !.wtmeb = (tmout # "TMO_FEVR")]
    OBVIOUS
  <2>4. make_wait(k, fac, w, tmout, FALSE) = [kw EXCEPT !.tcb[t] = e]
    <3>1. make_wait(k, fac, w, tmout, FALSE)
            = [kw EXCEPT !.tcb[t] = [@ EXCEPT !.tskwait = fac, !.wid = w,
                                     !.wercd = "E_TMOUT", !.nodiswai = FALSE,
                                     !.wtmeb = (tmout # "TMO_FEVR")]]
      BY <1>1, <1>2, <2>2 DEF make_wait
    <3>2. [kw EXCEPT !.tcb[t] = [@ EXCEPT !.tskwait = fac, !.wid = w,
                                 !.wercd = "E_TMOUT", !.nodiswai = FALSE,
                                 !.wtmeb = (tmout # "TMO_FEVR")]] = [kw EXCEPT !.tcb[t] = e]
      BY <2>3
    <3>. QED
      BY <3>1, <3>2
  <2>5. kw = [k1 EXCEPT !.tcb[t] = d] /\ kw.tcb[t] = d
    BY <1>4, <2>1, <2>2 DEF IsKernel
  <2>6. c = e
    BY <1>5, <2>1, <2>3, <2>5 DEF Blocked
  <2>7. [kw.tcb EXCEPT ![t] = e] = [k1.tcb EXCEPT ![t] = c]
    <3>1. kw.tcb = [k1.tcb EXCEPT ![t] = d]
      BY <1>4, <2>5 DEF IsKernel
    <3>. QED
      BY <1>4, <2>6, <3>1
  <2>8. PICK f : f = [k1.tcb EXCEPT ![t] = c]
    OBVIOUS
  <2>9. make_wait(k, fac, w, tmout, FALSE) = [kw EXCEPT !.tcb = f] /\ k3 = [k1 EXCEPT !.tcb = f]
    BY <1>7, <2>4, <2>7, <2>8
  <2>10. [kw EXCEPT !.tcb = f] = [k1 EXCEPT !.tcb = f]
    BY <1>4, <2>5 DEF IsKernel
  <2>. QED
    BY <2>9, <2>10
<1>9. Links(k3, L, {t}) /\ NewBlock(k1, k3, t, c)
  <2>1. c \in TCBType /\ (c.klocked => k1.tcb[t].klocked) /\ c.slicetime = 0
    BY <1>6
  <2>. QED
    BY <1>3, <1>7, <2>1, SetUnlinked, Zenon
<1>10. k2 = wait_queue_insert(k3, w, t, tpri)
  BY <1>8 DEF gcb_make_wait
<1>15. /\ k3.tcb[t] = c /\ k3.tcb = [k1.tcb EXCEPT ![t] = c] /\ k3.schedtsk # t
       /\ k3.ctxtsk = k1.ctxtsk /\ k3.obj = k1.obj
  BY <1>3, <1>9 DEF NewBlock
<1>16. Joining(k3, t, w)
  BY <1>6, <1>15 DEF Joining
<1>17. Links(k2, L, {}) /\ k2.tcb = k3.tcb /\ k2.ctxtsk = k3.ctxtsk /\ k2.obj = k3.obj
  <2>1. Links(k3, L, {t})
    BY <1>9
  <2>2. PICK k4 : k4 = wait_queue_insert(k3, w, t, tpri)
    OBVIOUS
  <2>3. Links(k4, L, {}) /\ k4.tcb = k3.tcb /\ k4.ctxtsk = k3.ctxtsk /\ k4.obj = k3.obj
    BY <1>16, <2>1, <2>2, JoinWait
  <2>. QED
    BY <1>10, <2>2, <2>3
<1>18. \A u \in Task : k2.tcb[u] = IF u = t THEN c ELSE k1.tcb[u]
  BY <1>4, <1>15, <1>17
<1>19. Calm(k1, k2)
  BY <1>6, <1>15, <1>17, <1>18 DEF Calm
<1>. QED
  BY <1>3, <1>17, <1>19, CalmTwice

\* From k to k2 the task t ends; it gives nothing back.
Ended(k, k2, t) ==
  /\ k2.ctxtsk = k.ctxtsk /\ k2.obj = k.obj
  /\ \A u \in Task : /\ k2.tcb[u].klocked <=> k.tcb[u].klocked /\ u # t
                     /\ k2.tcb[u].klockwait => k.tcb[u].klockwait /\ u # t

\* _ter_tsk and make_dormant.
LEMMA EndTask ==
  ASSUME NEW k, NEW L, NEW t \in Task, Links(k, L, {}),
         NEW k2, k2 = make_dormant(_ter_tsk(k, t), t)
  PROVE  Links(k2, L, {}) /\ Ended(k, k2, t)
<1>1. PICK k1 : k1 = _ter_tsk(k, t)
  OBVIOUS
<1>2. Links(k1, L, {t}) /\ Calm(k, k1) /\ k1.schedtsk # t /\ ~k1.tcb[t].wtmeb
  <2>0. k.tcb \in [Task -> TCBType] /\ Sane(k.tcb[t]) /\ IsKernel(k)
    BY DEF Links, Blocks, IsKernel
  <2>1. CASE k.tcb[t].state = "READY"
    <3>1. k1 = make_non_ready(k, t)
      BY <1>1, <2>1 DEF _ter_tsk
    <3>2. /\ Links(k1, L, {t}) /\ Calm(k, k1)
          /\ k1.tcb = [k.tcb EXCEPT ![t].klockwait = FALSE] /\ k1.schedtsk # t
      BY <2>1, <3>1, LeaveRunnable
    <3>3. ~k.tcb[t].wtmeb
      BY <2>0, <2>1 DEF Sane, is_waiting
    <3>. QED
      BY <2>0, <3>2, <3>3 DEF TCBType
  <2>2. CASE is_waiting(k.tcb[t].state)
    <3>1. k1 = wait_cancel(k, t)
      BY <1>1, <2>2 DEF _ter_tsk, is_waiting
    <3>2. /\ Links(k1, L, {t}) /\ Calm(k, k1)
          /\ k1.tcb = [k.tcb EXCEPT ![t].wtmeb = FALSE] /\ k1.schedtsk # t
      BY <2>2, <3>1, CancelWait
    <3>. QED
      BY <2>0, <3>2 DEF TCBType
  <2>3. CASE k.tcb[t].state # "READY" /\ ~is_waiting(k.tcb[t].state)
    <3>1. k1 = k
      BY <1>1, <2>3 DEF _ter_tsk
    <3>2. Detached(k.tcb[t])
      BY <2>3 DEF Detached, Links, Blocks, Sane
    <3>. QED
      BY <3>1, <3>2, Unsettle DEF Calm, Detached
  <2>. QED
    BY <2>1, <2>2, <2>3
<1>3. IsKernel(k1) /\ k1.tcb \in [Task -> TCBType] /\ k1.tcb[t] \in TCBType
  BY <1>2 DEF Links, IsKernel
<1>4. PICK d : d = Dormant(k1.tcb[t])
  OBVIOUS
<1>5. d \in TCBType /\ ~d.klocked /\ ~d.klockwait /\ d.state = "DORMANT" /\ ~d.wtmeb
  BY <1>2, <1>3, <1>4, DormantBlock
<1>6. d.slicetime = 0
  BY <1>3, <1>4 DEF Dormant, TCBType
<1>7. k2 = [k1 EXCEPT !.tcb[t] = d]
  BY <1>1, <1>3, <1>4, MakeDormant DEF Put
<1>8. Links(k2, L, {t}) /\ NewBlock(k1, k2, t, d)
  <2>1. d \in TCBType /\ (d.klocked => k1.tcb[t].klocked) /\ d.slicetime = 0
    BY <1>5, <1>6
  <2>. QED
    BY <1>2, <1>7, <2>1, SetUnlinked, Zenon
<1>9. Detached(k2.tcb[t]) /\ k2.schedtsk # t
  BY <1>2, <1>5, <1>8 DEF Detached, NewBlock, is_waiting
<1>10. Links(k2, L, {})
  BY <1>8, <1>9, Settle
<1>11. \A u \in Task : k2.tcb[u] = IF u = t THEN d ELSE k1.tcb[u]
  BY <1>3, <1>8 DEF NewBlock
<1>. QED
  BY <1>2, <1>5, <1>8, <1>10, <1>11 DEF Ended, Calm, NewBlock

\* l_dispatch2
Dispatched(k) == [k EXCEPT !.ctxtsk = k.schedtsk, !.tcb[k.schedtsk].wercd = "none"]

\* The task that is dispatched leaves the call it was blocked in.
LEMMA Dispatch ==
  ASSUME NEW k, NEW L, Links(k, L, {}), k.schedtsk # NoTask,
         NEW k2, k2 = Dispatched(k)
  PROVE  /\ Links(k2, L, {}) /\ k2.obj = k.obj
         /\ \A u \in Task : /\ k2.tcb[u].klocked = k.tcb[u].klocked
                            /\ k2.tcb[u].klockwait = k.tcb[u].klockwait
<1>0. PICK t : t = k.schedtsk
  OBVIOUS
<1>1. /\ IsKernel(k) /\ k.tcb \in [Task -> TCBType] /\ t \in Task /\ k.tcb[t] \in TCBType
      /\ k.tcb[t].slicetime = 0 /\ Sane(k.tcb[t])
  BY <1>0 DEF Links, IsKernel, Blocks
<1>2. PICK c : c = [k.tcb[t] EXCEPT !.wercd = "none"]
  OBVIOUS
<1>3. /\ c \in TCBType /\ c.state = k.tcb[t].state /\ c.klockwait = k.tcb[t].klockwait
      /\ c.klocked = k.tcb[t].klocked /\ c.slicetime = 0 /\ c.wid = k.tcb[t].wid
      /\ c.priority = k.tcb[t].priority /\ c.suscnt = k.tcb[t].suscnt
      /\ c.wtmeb = k.tcb[t].wtmeb
  BY <1>1, <1>2 DEF TCBType, WaitResult
<1>4. PICK k1 : k1 = [k EXCEPT !.tcb[t] = c]
  OBVIOUS
<1>5. Links(k1, L, {}) /\ NewBlock(k, k1, t, c)
  <2>1. c.state \in {"SUSPEND", "WAITSUS"} => c.suscnt > 0
    BY <1>1, <1>3 DEF Sane
  <2>. QED
    BY <1>1, <1>3, <1>4, <2>1, SetLinked
<1>6. k2 = [k1 EXCEPT !.ctxtsk = t]
  BY <1>0, <1>1, <1>2, <1>4 DEF IsKernel, Dispatched
<1>7. /\ Links(k2, L, {}) /\ k2.ctxtsk = t
      /\ k2.tcb = k1.tcb /\ k2.obj = k1.obj /\ k2.schedtsk = k1.schedtsk
  <2>1. t \in Task \cup {NoTask} /\ Links(k1, L, {})
    BY <1>1, <1>5
  <2>2. PICK k4 : k4 = [k1 EXCEPT !.ctxtsk = t]
    OBVIOUS
  <2>3. /\ Links(k4, L, {}) /\ k4.ctxtsk = t
        /\ k4.tcb = k1.tcb /\ k4.obj = k1.obj /\ k4.schedtsk = k1.schedtsk
    BY <2>1, <2>2, SetContextLinked
  <2>. QED
    BY <1>6, <2>2, <2>3
<1>8. \A u \in Task : k2.tcb[u] = IF u = t THEN c ELSE k.tcb[u]
  BY <1>1, <1>5, <1>7 DEF NewBlock
<1>. QED
  BY <1>3, <1>5, <1>7, <1>8 DEF NewBlock

\* Without time slices the timer interrupt changes nothing.
LEMMA Tick ==
  ASSUME NEW k, NEW L, Links(k, L, {})
  PROVE  time_slice_tick(k) = k
<1>1. IsKernel(k) /\ \A u \in Task : k.tcb[u].slicetime = 0
  BY DEF Links, Blocks
<1>2. CASE k.ctxtsk = NoTask \/ k.schedtsk # k.ctxtsk
  BY <1>2 DEF time_slice_tick
<1>3. CASE k.ctxtsk # NoTask /\ k.schedtsk = k.ctxtsk
  <2>1. k.ctxtsk \in Task /\ k.tcb[k.ctxtsk].slicetime = 0
    BY <1>1, <1>3 DEF IsKernel
  <2>2. time_slice_schedule(k, k.ctxtsk) = k
    BY <1>3, <2>1 DEF time_slice_schedule
  <2>3. time_slice_tick(k) = [k EXCEPT !.schedtsk = k.ctxtsk]
    BY <1>3, <2>1, <2>2 DEF time_slice_tick
  <2>. QED
    BY <1>1, <1>3, <2>3 DEF IsKernel
<1>. QED
  BY <1>2, <1>3

\* tkstart.c: only the initial task is linked.
LEMMA StartLinks ==
  ASSUME NEW L, NEW ipri \in [Task -> Pri], NEW t \in Task,
         NEW k2, k2 = make_ready(create_all(task_initialize, Task, ipri), t)
  PROVE  /\ Links(k2, L, {})
         /\ \A u \in Task : ~k2.tcb[u].klocked /\ ~k2.tcb[u].klockwait
<1>1. PICK k : k = create_all(task_initialize, Task, ipri)
  OBVIOUS
<1>2. Booted(k, Task)
  BY <1>1, Boot
<1>3. \A u \in Task : k.tcb[u] = Created(ipri[u])
  BY <1>1 DEF create_all, task_initialize, Created
<1>4. \A u \in Task : /\ ~k.tcb[u].klocked /\ ~k.tcb[u].klockwait
                      /\ k.tcb[u].slicetime = 0 /\ k.tcb[u].state = "DORMANT"
                      /\ ~k.tcb[u].wtmeb
  <2>1. \A u \in Task : /\ ~k.tcb[u].klocked /\ ~k.tcb[u].klockwait
                        /\ k.tcb[u].state = "DORMANT"
    BY <1>3, CreatedBlock
  <2>2. \A u \in Task : k.tcb[u].slicetime = 0 /\ ~k.tcb[u].wtmeb
    BY <1>3 DEF Created, blank_tcb
  <2>. QED
    BY <2>1, <2>2
<1>5. /\ k.rq.bitmap = {} /\ k.rq.top_priority = NumPri /\ k.rq.klocktsk = NoTask
      /\ k.rq.tskque = [p \in Pri |-> <<>>] /\ k.schedtsk = NoTask
  BY <1>1 DEF create_all, task_initialize, ready_queue_initialize
<1>6. IsKernel(k) /\ k.wq = [w \in WaitQueue |-> <<>>]
  BY <1>2 DEF Booted, KInv, Queued
<1>7. /\ \A u \in Task : Sane(k.tcb[u]) /\ ~Runnable(k.tcb[u])
      /\ \A u \in Task, w \in WaitQueue : ~InWait(k.tcb[u], L[u], w)
  BY <1>4 DEF Sane, Runnable, InWait, is_waiting
<1>8. Links(k, L, {})
  <2>1. ReadyLinks(k, {}) /\ WaitLinks(k, L, {})
    BY <1>5, <1>6, <1>7, EmptyQueue DEF ReadyLinks, WaitLinks, InReady
  <2>2. ReadyCache(k) /\ LockTask(k, {}) /\ Schedulable(k, {}, k.schedtsk) /\ Blocks(k, {})
    BY <1>4, <1>5, <1>7 DEF ReadyCache, LockTask, Schedulable, Blocks
  <2>. QED
    BY <1>6, <2>1, <2>2 DEF Links
<1>9. Detached(k.tcb[t])
  BY <1>4 DEF Detached, is_waiting
<1>10. Links(k, L, {t}) /\ ~k.tcb[t].klockwait /\ ~k.tcb[t].wtmeb /\ k2 = make_ready(k, t)
  BY <1>1, <1>4, <1>8, <1>9, Unsettle
<1>11. Links(k2, L, {}) /\ Calm(k, k2)
  BY <1>10, MakeRunnable, Zenon
<1>. QED
  BY <1>4, <1>11 DEF Calm

-----------------------------------------------------------------------------
(* The locks of the pools.                                                  *)

CallType == [op : {"none", "cre", "del", "get", "rel"},
             at : {"none", "lock", "locked", "take", "wait", "free", "unlock"},
             m : Mpf \cup {NoMpf}, tmout : TMO, blf : Int, tpri : BOOLEAN]

MPFCBType == [mpfid : BOOLEAN, tpri : BOOLEAN, frbcnt : Int, unused : Int,
              freelist : Seq(Int)]

ObjType == [locked : SUBSET Lock, free : Seq(Mpf), mpf : [Mpf -> MPFCBType]]

LockOf(cl) == [u \in Task |-> MpfLock(cl[u].m)]

\* The code between LockOBJ and the end of UnlockOBJ.
Under(c) == c.at \notin {"none", "lock"}

\* A task with the call c and the block b.
TaskLocks(c, b, locked) ==
  /\ c.at = "none" <=> c = idle
  /\ c = idle <=> c.m \notin Mpf
  /\ b.klockwait => c.at = "lock" /\ MpfLock(c.m) \in locked
  /\ b.klocked => c # idle
  /\ Under(c) => b.klocked

OneHolder(k, cl) ==
  \A u, v \in Task : k.tcb[u].klocked /\ k.tcb[v].klocked /\ cl[u].m = cl[v].m => u = v

Taken(k, cl) ==
  \A m \in Mpf : MpfLock(m) \in k.obj.locked <=>
                   \E u \in Task : k.tcb[u].klocked /\ cl[u].m = m

\* Each lock has one holder while it is taken; nobody else is in the code it
\* protects, or queues for it while it is free.
Locks(k, cl) ==
  /\ cl \in [Task -> CallType]
  /\ k.obj \in ObjType
  /\ \A u \in Task : TaskLocks(cl[u], k.tcb[u], k.obj.locked)
  /\ OneHolder(k, cl)
  /\ Taken(k, cl)

KernelLocks(k, cl) == Links(k, LockOf(cl), {}) /\ Locks(k, cl)

\* The locks of different pools differ.
LEMMA LockNames ==
  /\ \A m \in Mpf : MpfLock(m) \in Lock /\ MpfLock(m) \in WaitQueue
  /\ \A m \in Mpf : MpfWait(m) \in WaitQueue /\ MpfWait(m) \notin Lock
  /\ \A m, n : MpfLock(m) = MpfLock(n) => m = n
  /\ idle \in CallType /\ idle.m \notin Mpf
<1>1. \A m, n : MpfLock(m) = MpfLock(n) => m = n
  BY DEF MpfLock
<1>2. \A m, n : MpfWait(m) # MpfLock(n)
  BY DEF MpfLock, MpfWait
<1>3. Lock = {MpfLock(m) : m \in Mpf} /\ WaitQueue = Lock \cup {MpfWait(m) : m \in Mpf}
  BY MempfixAssumption
<1>4. \A m \in Mpf : MpfWait(m) \notin Lock
  BY <1>2, <1>3, Zenon
<1>5. idle \in CallType /\ idle.m \notin Mpf
  BY MempfixAssumption DEF idle, CallType, TMO
<1>. QED
  BY <1>1, <1>3, <1>4, <1>5

\* Nobody gets a lock or gives one back, and nobody queues for one.
Quiet(k, k2) ==
  /\ k2.obj = k.obj
  /\ \A u \in Task : /\ k2.tcb[u].klocked = k.tcb[u].klocked
                     /\ k2.tcb[u].klockwait => k.tcb[u].klockwait

\* Where the locks stay with their holders.
LEMMA QuietLocks ==
  ASSUME NEW k, NEW k2, NEW cl, Locks(k, cl), Quiet(k, k2)
  PROVE  Locks(k2, cl)
<1>1. k2.obj = k.obj /\ \A u \in Task : /\ k2.tcb[u].klocked = k.tcb[u].klocked
                                        /\ k2.tcb[u].klockwait => k.tcb[u].klockwait
  BY DEF Quiet
<1>2. \A u \in Task : TaskLocks(cl[u], k2.tcb[u], k2.obj.locked)
  BY <1>1 DEF Locks, TaskLocks
<1>3. OneHolder(k2, cl) /\ Taken(k2, cl)
  BY <1>1 DEF Locks, OneHolder, Taken
<1>. QED
  BY <1>1, <1>2, <1>3 DEF Locks

\* The steps of the task layer are of that kind.
LEMMA CalmLocks ==
  ASSUME NEW k, NEW k2, NEW cl, Locks(k, cl), Calm(k, k2)
  PROVE  Locks(k2, cl)
<1>1. Quiet(k, k2)
  BY DEF Calm, Quiet
<1>. QED
  BY <1>1, QuietLocks

\* The task t goes on to d.
Moves(cl, cl2, t, d) == cl2 = [cl EXCEPT ![t] = d]

\* The control blocks of the pools become o.
Remade(k, k2, o) == k2 = [k EXCEPT !.obj = o]

\* The call c at another place.
At(c, a) == [c EXCEPT !.at = a]

\* The call c of t after LockOBJ; b tells whether it has the lock.
AtLock(c, b) == At(c, IF b THEN "locked" ELSE "lock")

\* A call between two of its steps.
LEMMA CallAt ==
  ASSUME NEW c \in CallType, NEW a \in {"lock", "locked", "take", "wait", "free", "unlock"},
         c.m \in Mpf, NEW d, d = At(c, a)
  PROVE  /\ d \in CallType /\ d.at = a /\ d.m = c.m /\ d.op = c.op /\ d.blf = c.blf
         /\ d # idle
<1>1. d \in CallType /\ d.at = a /\ d.m = c.m /\ d.op = c.op /\ d.blf = c.blf
  BY DEF CallType, At
<1>. QED
  BY <1>1, LockNames

\* With a single pool a lock that is free has no holder at all.
LEMMA FreeGrantable ==
  ASSUME NEW k, NEW cl, Locks(k, cl), NEW m \in Mpf, lock_free(k, MpfLock(m))
  PROVE  Grantable(k)
<1>1. SUFFICES ASSUME SinglePool, NEW u \in Task, k.tcb[u].klocked
               PROVE  FALSE
  BY DEF Grantable
<1>2. cl[u].m \in Mpf
  BY <1>1 DEF Locks, TaskLocks
<1>3. cl[u].m = m
  BY <1>1, <1>2 DEF SinglePool
<1>4. MpfLock(m) \in k.obj.locked
  BY <1>1, <1>3 DEF Locks, Taken
<1>. QED
  BY <1>4 DEF lock_free

\* LockOBJ for the call c, which begins or goes on.
LEMMA LockLocks ==
  ASSUME NEW k, NEW cl, KernelLocks(k, cl), NEW t \in Task, k.ctxtsk = t,
         Runnable(k.tcb[t]), NEW c \in CallType, c.m \in Mpf,
         cl[t] = idle \/ (cl[t].at = "lock" /\ cl[t].m = c.m),
         NEW k2, k2 = LockOBJ(k, MpfLock(c.m)),
         NEW cl2, Moves(cl, cl2, t, AtLock(c, k2.tcb[t].klocked))
  PROVE  /\ KernelLocks(k2, cl2) /\ k2.obj.free = k.obj.free /\ k2.obj.mpf = k.obj.mpf
         /\ k2.ctxtsk = t
<1>. DEFINE l == MpfLock(c.m)
<1>1. Links(k, LockOf(cl), {}) /\ Locks(k, cl) /\ cl \in [Task -> CallType]
  BY DEF KernelLocks, Locks
<1>2. PICK d : d = AtLock(c, k2.tcb[t].klocked)
  OBVIOUS
<1>3. /\ d \in CallType /\ d.m = c.m /\ d # idle
      /\ d.at = IF k2.tcb[t].klocked THEN "locked" ELSE "lock"
  BY <1>2, CallAt DEF AtLock
<1>4. cl2 = [cl EXCEPT ![t] = d] /\ cl2 \in [Task -> CallType] /\ cl2[t] = d
      /\ \A u \in Task : u # t => cl2[u] = cl[u]
  BY <1>1, <1>2, <1>3 DEF Moves
<1>5. \A u \in Task : LockOf(cl2)[u] = LockOf(cl)[u] \/ ~k.tcb[u].klockwait
  BY <1>4 DEF LockOf, Runnable
<1>6. PICK M : M = LockOf(cl2)
  OBVIOUS
<1>7. Links(k, M, {}) /\ M[t] = l
  <2>1. M[t] = l
    BY <1>3, <1>4, <1>6 DEF LockOf
  <2>2. Links(k, LockOf(cl2), {})
    BY <1>1, <1>5, Relabel, Zenon
  <2>. QED
    BY <1>6, <2>1, <2>2
<1>8. l \in Lock /\ (lock_free(k, l) => Grantable(k))
  BY <1>1, LockNames, FreeGrantable
<1>. HIDE DEF l
<1>9. k2 = LockOBJ(k, l)
  BY DEF l
<1>10. /\ Links(k2, M, {})
       /\ \/ k.tcb[t].klocked /\ k2 = k
          \/ ~k.tcb[t].klocked /\ lock_free(k, l) /\ Took(k, k2, t, l)
          \/ ~k.tcb[t].klocked /\ ~lock_free(k, l) /\ Queues(k, k2, t)
  BY <1>7, <1>8, <1>9, LockObject
<1>11. k.obj \in ObjType /\ k.tcb \in [Task -> TCBType] /\ k.tcb[t] \in TCBType
       /\ k.obj.locked \subseteq Lock
  BY <1>1 DEF Links, IsKernel, Locks, ObjType
<1>12. ~k.tcb[t].klockwait
  BY DEF Runnable
<1>13. \A u \in Task : TaskLocks(cl[u], k.tcb[u], k.obj.locked)
  BY <1>1 DEF Locks
<1>14. OneHolder(k, cl) /\ Taken(k, cl)
  BY <1>1 DEF Locks
<1>15. CASE k.tcb[t].klocked /\ k2 = k
  <2>1. cl[t].m = c.m /\ d.at = "locked"
    BY <1>3, <1>13, <1>15 DEF TaskLocks
  <2>2. \A u \in Task : TaskLocks(cl2[u], k2.tcb[u], k2.obj.locked)
    BY <1>3, <1>4, <1>12, <1>13, <1>15, <2>1 DEF TaskLocks, Under
  <2>3. \A u \in Task : cl2[u].m = cl[u].m
    BY <1>3, <1>4, <2>1
  <2>4. OneHolder(k2, cl2) /\ Taken(k2, cl2)
    BY <1>14, <1>15, <2>3 DEF OneHolder, Taken
  <2>. QED
    BY <1>4, <1>6, <1>10, <1>11, <1>15, <2>2, <2>4 DEF KernelLocks, Locks
<1>16. CASE ~k.tcb[t].klocked /\ lock_free(k, l) /\ Took(k, k2, t, l)
  <2>1. /\ k2.tcb = [k.tcb EXCEPT ![t].klocked = TRUE]
        /\ k2.obj = [k.obj EXCEPT !.locked = @ \cup {l}] /\ k2.ctxtsk = k.ctxtsk
    BY <1>16 DEF Took
  <2>2. /\ k2.tcb[t].klocked /\ k2.tcb[t].klockwait = k.tcb[t].klockwait
        /\ \A u \in Task : u # t => k2.tcb[u] = k.tcb[u]
    BY <1>11, <2>1 DEF TCBType
  <2>3. /\ k2.obj \in ObjType /\ k2.obj.locked = k.obj.locked \cup {l}
        /\ k2.obj.free = k.obj.free /\ k2.obj.mpf = k.obj.mpf
    BY <1>8, <1>11, <2>1 DEF ObjType
  <2>4. \A u \in Task : TaskLocks(cl2[u], k2.tcb[u], k2.obj.locked)
    <3>1. TaskLocks(d, k2.tcb[t], k2.obj.locked)
      BY <1>3, <1>12, <2>2, LockNames DEF TaskLocks, Under
    <3>2. \A u \in Task : u # t => TaskLocks(cl2[u], k2.tcb[u], k2.obj.locked)
      BY <1>4, <1>13, <2>2, <2>3 DEF TaskLocks
    <3>. QED
      BY <1>4, <3>1, <3>2
  <2>5. \A u \in Task : k.tcb[u].klocked => cl[u].m # c.m
    <3>1. c.m \in Mpf /\ MpfLock(c.m) \notin k.obj.locked
      BY <1>16 DEF lock_free, l
    <3>2. ASSUME NEW u \in Task, k.tcb[u].klocked, cl[u].m = c.m
          PROVE  FALSE
      BY <1>14, <3>1, <3>2 DEF Taken
    <3>. QED
      BY <3>2
  <2>6. OneHolder(k2, cl2)
    <3>1. \A u \in Task : u # t /\ k2.tcb[u].klocked => k.tcb[u].klocked /\ cl2[u].m = cl[u].m
      BY <1>4, <2>2
    <3>2. \A u \in Task : u # t /\ k2.tcb[u].klocked => cl2[u].m # cl2[t].m
      BY <1>3, <1>4, <2>5, <3>1
    <3>3. SUFFICES ASSUME NEW u \in Task, NEW v \in Task, k2.tcb[u].klocked,
                          k2.tcb[v].klocked, cl2[u].m = cl2[v].m
                   PROVE  u = v
      BY DEF OneHolder
    <3>4. CASE u = t \/ v = t
      BY <3>2, <3>3, <3>4
    <3>5. CASE u # t /\ v # t
      BY <1>14, <3>1, <3>3, <3>5 DEF OneHolder
    <3>. QED
      BY <3>4, <3>5
  <2>7. Taken(k2, cl2)
    <3>1. SUFFICES ASSUME NEW m \in Mpf
                   PROVE  MpfLock(m) \in k2.obj.locked <=>
                            \E u \in Task : k2.tcb[u].klocked /\ cl2[u].m = m
      BY DEF Taken
    <3>2. CASE m = c.m
      BY <1>3, <1>4, <2>2, <2>3, <3>2 DEF l
    <3>3. CASE m # c.m
      <4>1. MpfLock(m) # l
        BY <3>3, LockNames DEF l
      <4>2. \A u \in Task : k2.tcb[u].klocked /\ cl2[u].m = m <=> k.tcb[u].klocked /\ cl[u].m = m
        BY <1>3, <1>4, <1>16, <2>2, <3>3
      <4>. QED
        BY <1>14, <2>3, <4>1, <4>2 DEF Taken
    <3>. QED
      BY <3>2, <3>3
  <2>. QED
    BY <1>4, <1>6, <1>10, <2>1, <2>3, <2>4, <2>6, <2>7 DEF KernelLocks, Locks
<1>17. CASE ~k.tcb[t].klocked /\ ~lock_free(k, l) /\ Queues(k, k2, t)
  <2>1. /\ k2.tcb = [k.tcb EXCEPT ![t].klockwait = TRUE]
        /\ k2.obj = k.obj /\ k2.ctxtsk = k.ctxtsk
    BY <1>17 DEF Queues
  <2>2. /\ ~k2.tcb[t].klocked
        /\ \A u \in Task : u # t => k2.tcb[u] = k.tcb[u]
    BY <1>11, <1>17, <2>1 DEF TCBType
  <2>3. d.at = "lock" /\ MpfLock(d.m) \in k2.obj.locked
    BY <1>3, <1>17, <2>1, <2>2 DEF lock_free, l
  <2>4. \A u \in Task : TaskLocks(cl2[u], k2.tcb[u], k2.obj.locked)
    <3>1. TaskLocks(d, k2.tcb[t], k2.obj.locked)
      BY <1>3, <2>2, <2>3, LockNames DEF TaskLocks, Under
    <3>2. \A u \in Task : u # t => TaskLocks(cl2[u], k2.tcb[u], k2.obj.locked)
      BY <1>4, <1>13, <2>1, <2>2
    <3>. QED
      BY <1>4, <3>1, <3>2
  <2>5. \A u \in Task : k2.tcb[u].klocked <=> k.tcb[u].klocked
    BY <1>17, <2>2
  <2>6. \A u \in Task : k.tcb[u].klocked => cl2[u] = cl[u]
    BY <1>4, <1>17
  <2>7. OneHolder(k2, cl2) /\ Taken(k2, cl2)
    BY <1>14, <2>1, <2>5, <2>6 DEF OneHolder, Taken
  <2>. QED
    BY <1>4, <1>6, <1>10, <1>11, <2>1, <2>4, <2>7 DEF KernelLocks, Locks
<1>. QED
  BY <1>10, <1>15, <1>16, <1>17

\* A step of the holder t within its call, with the objects o.
LEMMA WithinLocks ==
  ASSUME NEW k, NEW cl, KernelLocks(k, cl), NEW t \in Task, k.tcb[t].klocked,
         NEW a \in {"locked", "take", "wait", "free", "unlock"},
         NEW o \in ObjType, o.locked = k.obj.locked,
         NEW k2, Remade(k, k2, o), NEW cl2, Moves(cl, cl2, t, At(cl[t], a))
  PROVE  KernelLocks(k2, cl2)
<1>1. Links(k, LockOf(cl), {}) /\ Locks(k, cl) /\ cl \in [Task -> CallType]
  BY DEF KernelLocks, Locks
<1>2. \A u \in Task : TaskLocks(cl[u], k.tcb[u], k.obj.locked)
  BY <1>1 DEF Locks
<1>3. OneHolder(k, cl) /\ Taken(k, cl)
  BY <1>1 DEF Locks
<1>4. cl[t].m \in Mpf /\ cl[t] \in CallType
  BY <1>1, <1>2 DEF TaskLocks
<1>5. PICK d : d = At(cl[t], a)
  OBVIOUS
<1>6. d \in CallType /\ d.at = a /\ d.m = cl[t].m /\ d # idle
  BY <1>4, <1>5, CallAt
<1>7. cl2 = [cl EXCEPT ![t] = d]
  BY <1>1, <1>5 DEF Moves
<1>8. /\ cl2 \in [Task -> CallType] /\ cl2[t] = d
      /\ \A u \in Task : u # t => cl2[u] = cl[u]
  BY <1>1, <1>6, <1>7
<1>9. \A u \in Task : cl2[u].m = cl[u].m
  BY <1>6, <1>8
<1>10. LockOf(cl2) = LockOf(cl)
  BY <1>9 DEF LockOf
<1>11. /\ Links(k2, LockOf(cl), {}) /\ k2.obj = o
       /\ k2.tcb = k.tcb /\ k2.ctxtsk = k.ctxtsk
  <2>1. PICK M : M = LockOf(cl)
    OBVIOUS
  <2>2. Links(k, M, {})
    BY <1>1, <2>1
  <2>3. /\ Links(k2, M, {}) /\ k2.obj = o
        /\ k2.tcb = k.tcb /\ k2.ctxtsk = k.ctxtsk /\ k2.schedtsk = k.schedtsk
        /\ k2.rq = k.rq /\ k2.wq = k.wq
    BY <2>2, SetObjectsLinked DEF Remade
  <2>. QED
    BY <2>1, <2>3
<1>12. ~k.tcb[t].klockwait
  BY <1>1 DEF Links, Blocks, Sane
<1>13. \A u \in Task : TaskLocks(cl2[u], k2.tcb[u], k2.obj.locked)
  <2>1. TaskLocks(d, k2.tcb[t], k2.obj.locked)
    BY <1>2, <1>4, <1>6, <1>11, <1>12 DEF TaskLocks, Under
  <2>2. \A u \in Task : u # t => TaskLocks(cl2[u], k2.tcb[u], k2.obj.locked)
    BY <1>2, <1>8, <1>11 DEF TaskLocks
  <2>. QED
    BY <1>8, <2>1, <2>2
<1>14. OneHolder(k2, cl2) /\ Taken(k2, cl2)
  BY <1>3, <1>9, <1>11 DEF OneHolder, Taken
<1>15. Locks(k2, cl2)
  BY <1>8, <1>11, <1>13, <1>14 DEF Locks
<1>. QED
  BY <1>10, <1>11, <1>15 DEF KernelLocks

\* A call begins with the code before LockOBJ, which makes the objects o.
LEMMA EnterLocks ==
  ASSUME NEW k, NEW cl, KernelLocks(k, cl), NEW t \in Task, Runnable(k.tcb[t]),
         cl[t] = idle, NEW d \in CallType, d.at = "lock", d.m \in Mpf,
         NEW k2, Links(k2, LockOf(cl), {}), k2.obj \in ObjType,
         k2.obj.locked = k.obj.locked, k2.tcb = k.tcb,
         NEW cl2, Moves(cl, cl2, t, d)
  PROVE  KernelLocks(k2, cl2)
<1>1. Links(k, LockOf(cl), {}) /\ Locks(k, cl) /\ cl \in [Task -> CallType]
  BY DEF KernelLocks, Locks
<1>2. \A u \in Task : TaskLocks(cl[u], k.tcb[u], k.obj.locked)
  BY <1>1 DEF Locks
<1>3. OneHolder(k, cl) /\ Taken(k, cl)
  BY <1>1 DEF Locks
<1>4. /\ cl2 \in [Task -> CallType] /\ cl2[t] = d
      /\ \A u \in Task : u # t => cl2[u] = cl[u]
  BY <1>1 DEF Moves
<1>5. ~k.tcb[t].klocked /\ ~k.tcb[t].klockwait
  BY <1>2 DEF TaskLocks, Runnable
<1>6. \A u \in Task : LockOf(cl2)[u] = LockOf(cl)[u] \/ ~k2.tcb[u].klockwait
  BY <1>4, <1>5 DEF LockOf
<1>7. Links(k2, LockOf(cl2), {})
  BY <1>6, Relabel, Zenon
<1>9. \A u \in Task : TaskLocks(cl2[u], k2.tcb[u], k2.obj.locked)
  <2>1. TaskLocks(d, k2.tcb[t], k2.obj.locked)
    BY <1>5, LockNames DEF TaskLocks, Under, idle
  <2>2. \A u \in Task : u # t => TaskLocks(cl2[u], k2.tcb[u], k2.obj.locked)
    BY <1>2, <1>4 DEF TaskLocks
  <2>. QED
    BY <1>4, <2>1, <2>2
<1>10. \A u \in Task : k.tcb[u].klocked => cl2[u] = cl[u]
  BY <1>4, <1>5
<1>11. OneHolder(k2, cl2) /\ Taken(k2, cl2)
  BY <1>3, <1>5, <1>10 DEF OneHolder, Taken
<1>12. Locks(k2, cl2)
  BY <1>4, <1>9, <1>11 DEF Locks
<1>. QED
  BY <1>7, <1>12 DEF KernelLocks

\* A task without the lock ends, and drops out of its call.
LEMMA EndLocks ==
  ASSUME NEW k, NEW cl, Locks(k, cl), NEW t \in Task, ~k.tcb[t].klocked,
         NEW k2, Links(k2, LockOf(cl), {}), Ended(k, k2, t),
         NEW cl2, Moves(cl, cl2, t, idle)
  PROVE  KernelLocks(k2, cl2)
<1>1. cl \in [Task -> CallType] /\ k.obj \in ObjType
  BY DEF Locks
<1>2. \A u \in Task : TaskLocks(cl[u], k.tcb[u], k.obj.locked)
  BY DEF Locks
<1>3. OneHolder(k, cl) /\ Taken(k, cl)
  BY DEF Locks
<1>4. /\ cl2 \in [Task -> CallType] /\ cl2[t] = idle
      /\ \A u \in Task : u # t => cl2[u] = cl[u]
  BY <1>1, LockNames DEF Moves
<1>5. /\ k2.obj = k.obj
      /\ \A u \in Task : /\ k2.tcb[u].klocked <=> k.tcb[u].klocked
                         /\ k2.tcb[u].klockwait => k.tcb[u].klockwait /\ u # t
  BY DEF Ended
<1>6. \A u \in Task : LockOf(cl2)[u] = LockOf(cl)[u] \/ ~k2.tcb[u].klockwait
  BY <1>4, <1>5 DEF LockOf
<1>7. Links(k2, LockOf(cl2), {})
  BY <1>6, Relabel, Zenon
<1>8. \A u \in Task : TaskLocks(cl2[u], k2.tcb[u], k2.obj.locked)
  <2>1. TaskLocks(idle, k2.tcb[t], k2.obj.locked)
    BY <1>5, LockNames DEF TaskLocks, Under, idle
  <2>2. \A u \in Task : u # t => TaskLocks(cl2[u], k2.tcb[u], k2.obj.locked)
    BY <1>2, <1>4, <1>5 DEF TaskLocks
  <2>. QED
    BY <1>4, <2>1, <2>2
<1>9. \A u \in Task : k.tcb[u].klocked => cl2[u] = cl[u]
  BY <1>4
<1>10. OneHolder(k2, cl2) /\ Taken(k2, cl2)
  BY <1>3, <1>5, <1>9 DEF OneHolder, Taken
<1>. QED
  BY <1>1, <1>4, <1>5, <1>7, <1>8, <1>10 DEF KernelLocks, Locks

\* UnlockOBJ at the end of the call of t.
LEMMA UnlockLocks ==
  ASSUME NEW k, NEW cl, KernelLocks(k, cl), NEW t \in Task, k.ctxtsk = t,
         k.tcb[t].klocked, NEW k2, k2 = UnlockOBJ(k, MpfLock(cl[t].m)),
         NEW cl2, Moves(cl, cl2, t, idle)
  PROVE  /\ KernelLocks(k2, cl2) /\ k2.obj.free = k.obj.free /\ k2.obj.mpf = k.obj.mpf
         /\ k2.ctxtsk = t
<1>. DEFINE l == MpfLock(cl[t].m)
<1>1. Links(k, LockOf(cl), {}) /\ Locks(k, cl) /\ cl \in [Task -> CallType]
      /\ k.obj \in ObjType
  BY DEF KernelLocks, Locks
<1>2. \A u \in Task : TaskLocks(cl[u], k.tcb[u], k.obj.locked)
  BY <1>1 DEF Locks
<1>3. OneHolder(k, cl) /\ Taken(k, cl)
  BY <1>1 DEF Locks
<1>4. cl[t].m \in Mpf /\ l \in Lock
  BY <1>2, LockNames DEF TaskLocks
<1>5. /\ cl2 \in [Task -> CallType] /\ cl2[t] = idle
      /\ \A u \in Task : u # t => cl2[u] = cl[u]
  BY <1>1, LockNames DEF Moves
<1>6. PICK M : M = LockOf(cl)
  OBVIOUS
<1>7. Links(k, M, {}) /\ \A u \in Task : M[u] = MpfLock(cl[u].m)
  BY <1>1, <1>6 DEF LockOf
<1>8. \A u \in Task : M[u] = l => cl[u].m = cl[t].m
  BY <1>7, LockNames
<1>. HIDE DEF l
<1>9. k2 = UnlockOBJ(k, l)
  BY DEF l
<1>10. /\ Links(k2, M, {})
       /\ GivenBack(k, k2, M, t, l) \/ HandedOver(k, k2, M, t, l)
  BY <1>4, <1>7, <1>9, UnlockObject
<1>11. ~k.tcb[t].klockwait
  BY <1>1 DEF Links, Blocks, Sane
<1>12. \A u \in Task : k2.tcb[u].klockwait => k.tcb[u].klockwait /\ u # t
  BY <1>10, <1>11 DEF GivenBack, HandedOver
<1>13. Links(k2, LockOf(cl2), {})
  <2>1. Links(k2, LockOf(cl), {})
    BY <1>6, <1>10
  <2>2. \A u \in Task : LockOf(cl2)[u] = LockOf(cl)[u] \/ ~k2.tcb[u].klockwait
    BY <1>5, <1>12 DEF LockOf
  <2>. QED
    BY <2>1, <2>2, Relabel, Zenon
<1>14. TaskLocks(idle, k2.tcb[t], k2.obj.locked)
  <2>1. ~k2.tcb[t].klocked
    BY <1>10 DEF GivenBack, HandedOver
  <2>. QED
    BY <1>12, <2>1, LockNames DEF TaskLocks, Under, idle
<1>15. CASE GivenBack(k, k2, M, t, l)
  <2>1. /\ k2.obj = [k.obj EXCEPT !.locked = @ \ {l}] /\ k2.ctxtsk = k.ctxtsk
        /\ \A u \in Task : /\ k2.tcb[u].klocked <=> k.tcb[u].klocked /\ u # t
                           /\ k2.tcb[u].klockwait => k.tcb[u].klockwait
                           /\ M[u] = l => ~k.tcb[u].klockwait
    BY <1>15 DEF GivenBack
  <2>2. /\ k2.obj \in ObjType /\ k2.obj.locked = k.obj.locked \ {l}
        /\ k2.obj.free = k.obj.free /\ k2.obj.mpf = k.obj.mpf
    <3>1. k.obj \in ObjType /\ k2.obj = [k.obj EXCEPT !.locked = @ \ {l}]
      BY <1>1, <2>1
    <3>. QED
      BY <3>1 DEF ObjType
  <2>3. \A u \in Task : TaskLocks(cl2[u], k2.tcb[u], k2.obj.locked)
    <3>1. \A u \in Task : u # t => TaskLocks(cl2[u], k2.tcb[u], k2.obj.locked)
      BY <1>2, <1>5, <1>7, <2>1, <2>2 DEF TaskLocks
    <3>. QED
      BY <1>5, <1>14, <3>1
  <2>4. \A u \in Task : k2.tcb[u].klocked => cl2[u] = cl[u] /\ cl[u].m # cl[t].m
    BY <1>3, <1>5, <2>1 DEF OneHolder
  <2>5. OneHolder(k2, cl2)
    BY <1>3, <2>1, <2>4 DEF OneHolder
  <2>6. Taken(k2, cl2)
    <3>1. SUFFICES ASSUME NEW m \in Mpf
                   PROVE  MpfLock(m) \in k2.obj.locked <=>
                            \E u \in Task : k2.tcb[u].klocked /\ cl2[u].m = m
      BY DEF Taken
    <3>2. CASE m = cl[t].m
      BY <2>2, <2>4, <3>2 DEF l
    <3>3. CASE m # cl[t].m
      <4>1. MpfLock(m) # l
        BY <3>3, LockNames DEF l
      <4>2. \A u \in Task : k2.tcb[u].klocked /\ cl2[u].m = m <=> k.tcb[u].klocked /\ cl[u].m = m
        BY <2>1, <2>4, <3>3
      <4>. QED
        BY <1>3, <2>2, <4>1, <4>2 DEF Taken
    <3>. QED
      BY <3>2, <3>3
  <2>. QED
    BY <1>5, <1>13, <2>1, <2>2, <2>3, <2>5, <2>6 DEF KernelLocks, Locks
<1>16. CASE HandedOver(k, k2, M, t, l)
  <2>1. k2.obj = k.obj /\ k2.ctxtsk = k.ctxtsk
    BY <1>16 DEF HandedOver
  <2>2. PICK h \in Task :
          /\ h # t /\ k.tcb[h].klockwait /\ M[h] = l
          /\ \A u \in Task : /\ k2.tcb[u].klocked <=> u = h \/ (k.tcb[u].klocked /\ u # t)
                             /\ k2.tcb[u].klockwait => k.tcb[u].klockwait /\ u # h
    BY <1>16 DEF HandedOver
  <2>3. cl[h].at = "lock" /\ cl[h].m = cl[t].m /\ cl2[h] = cl[h]
    BY <1>2, <1>5, <1>8, <2>2 DEF TaskLocks
  <2>4. \A u \in Task : TaskLocks(cl2[u], k2.tcb[u], k2.obj.locked)
    <3>1. TaskLocks(cl2[h], k2.tcb[h], k2.obj.locked)
      BY <1>2, <2>2, <2>3 DEF TaskLocks, Under
    <3>2. \A u \in Task : u # t /\ u # h => TaskLocks(cl2[u], k2.tcb[u], k2.obj.locked)
      BY <1>2, <1>5, <2>1, <2>2 DEF TaskLocks
    <3>. QED
      BY <1>5, <1>14, <3>1, <3>2
  <2>5. \A u \in Task : k2.tcb[u].klocked /\ u # h =>
                          k.tcb[u].klocked /\ cl2[u] = cl[u] /\ cl[u].m # cl[t].m
    BY <1>3, <1>5, <2>2 DEF OneHolder
  <2>6. OneHolder(k2, cl2)
    <3>1. SUFFICES ASSUME NEW u \in Task, NEW v \in Task, k2.tcb[u].klocked,
                          k2.tcb[v].klocked, cl2[u].m = cl2[v].m
                   PROVE  u = v
      BY DEF OneHolder
    <3>2. CASE u = h \/ v = h
      BY <2>3, <2>5, <3>1, <3>2
    <3>3. CASE u # h /\ v # h
      BY <1>3, <2>5, <3>1, <3>3 DEF OneHolder
    <3>. QED
      BY <3>2, <3>3
  <2>7. Taken(k2, cl2)
    <3>1. SUFFICES ASSUME NEW m \in Mpf
                   PROVE  MpfLock(m) \in k2.obj.locked <=>
                            \E u \in Task : k2.tcb[u].klocked /\ cl2[u].m = m
      BY DEF Taken
    <3>2. CASE m = cl[t].m
      <4>1. MpfLock(m) \in k.obj.locked
        BY <1>3, <3>2 DEF Taken
      <4>. QED
        BY <2>1, <2>2, <2>3, <3>2, <4>1
    <3>3. CASE m # cl[t].m
      <4>1. \A u \in Task : k2.tcb[u].klocked /\ cl2[u].m = m <=> k.tcb[u].klocked /\ cl[u].m = m
        BY <1>5, <2>2, <2>3, <2>5, <3>3
      <4>. QED
        BY <1>3, <2>1, <4>1 DEF Taken
    <3>. QED
      BY <3>2, <3>3
  <2>. QED
    BY <1>1, <1>5, <1>13, <2>1, <2>4, <2>6, <2>7 DEF KernelLocks, Locks
<1>. QED
  BY <1>10, <1>15, <1>16

=============================================================================
