-------------------------- MODULE TKSemaphoreProofs --------------------------
(***************************************************************************)
(* The invariants of TKSemaphore, for every number of tasks, priorities    *)
(* and semaphores.  IInv is the inductive invariant: the ready queue is    *)
(* right (KInv), every semaphore's queue holds just the tasks that wait    *)
(* for it, in order (Links), and no task waits for what is there           *)
(* (Settled).  In the middle of a call the tasks in X have left their      *)
(* queue and not yet changed state, and one semaphore may be unsettled     *)
(* until the loop over its queue has run.                                  *)
(***************************************************************************)
EXTENDS TKSemaphore, TKKernelLemmas

SemBlock == [exists : BOOLEAN, tpri : BOOLEAN, cnt : BOOLEAN, nodiswai : BOOLEAN,
             semcnt : Nat, maxsem : Nat]

\* A TCB is consistent in itself.
Fits(c) ==
  /\ c.state \in {"SUSPEND", "WAITSUS"} => c.suscnt > 0
  /\ c.wtmeb => is_waiting(c.state)
  /\ is_waiting(c.state) => c.wid \in Sem

\* u waits and is linked in a queue.
Stands(k, X, u) == u \notin X /\ is_waiting(k.tcb[u].state)

Waiting(k, X, s) == {u \in Task : Stands(k, X, u) /\ k.tcb[u].wid = s}

\* u asks for more than is there.
TooMuch(k, s, u) == k.tcb[u].winfo > k.obj[s].semcnt

QueueRight(k, X, s) ==
  /\ ToSet(k.wq[s]) = Waiting(k, X, s)
  /\ k.obj[s].tpri => Sorted(k, k.wq[s])
  /\ \A u \in ToSet(k.wq[s]) : k.obj[s].exists /\ k.tcb[u].winfo \in 1 .. k.obj[s].maxsem

Links(k, X) ==
  /\ KInv(k)
  /\ k.obj \in [Sem -> SemBlock]
  /\ \A u \in Task : Fits(k.tcb[u])
  /\ \A s \in Sem : k.obj[s].semcnt <= k.obj[s].maxsem /\ QueueRight(k, X, s)

Settled(k, s) ==
  /\ k.wq[s] # <<>> => TooMuch(k, s, Head(k.wq[s]))
  /\ k.obj[s].cnt => \A u \in ToSet(k.wq[s]) : TooMuch(k, s, u)

OthersSettled(k, s) == \A r \in Sem : r # s => Settled(k, r)

Good(k, X) == Links(k, X) /\ \A s \in Sem : Settled(k, s)

IInv == Good(Kernel, {})

-----------------------------------------------------------------------------
(* What the conditions depend on.                                          *)

\* What the lemmas take from Links.
LEMMA LinksFacts ==
  ASSUME NEW k, NEW X, Links(k, X)
  PROVE  /\ KInv(k) /\ Queued(k, {}) /\ IsKernel(k) /\ k.tcb \in [Task -> TCBType]
         /\ k.wq \in [Sem -> Seq(Task)] /\ k.obj \in [Sem -> SemBlock]
         /\ WaitQueue = Sem
         /\ \A s \in Sem : /\ k.wq[s] \in Queue /\ ToSet(k.wq[s]) \subseteq Task
                           /\ k.wq[s] # <<>> => Head(k.wq[s]) \in ToSet(k.wq[s])
                           /\ k.wq[s] = <<>> <=> ToSet(k.wq[s]) = {}
<1>1. KInv(k) /\ Queued(k, {}) /\ IsKernel(k) /\ k.obj \in [Sem -> SemBlock] /\ WaitsLinked(k)
  BY DEF Links, KInv, Queued
<1>2. WaitQueue = Sem
  BY SemAssumption
<1>3. k.tcb \in [Task -> TCBType] /\ k.wq \in [Sem -> Seq(Task)]
  BY <1>1, <1>2 DEF IsKernel
<1>4. \A s \in Sem : k.wq[s] \in Queue
  BY <1>1, <1>2 DEF WaitsLinked
<1>5. \A s \in Sem : /\ ToSet(k.wq[s]) \subseteq Task
                     /\ k.wq[s] # <<>> => Head(k.wq[s]) \in ToSet(k.wq[s])
                     /\ k.wq[s] = <<>> <=> ToSet(k.wq[s]) = {}
  <2>1. SUFFICES ASSUME NEW s \in Sem
                 PROVE  /\ ToSet(k.wq[s]) \subseteq Task
                        /\ k.wq[s] # <<>> => Head(k.wq[s]) \in ToSet(k.wq[s])
                        /\ k.wq[s] = <<>> <=> ToSet(k.wq[s]) = {}
    OBVIOUS
  <2>2. PICK q : q = k.wq[s]
    OBVIOUS
  <2>3. q \in Queue /\ q \in Seq(Task)
    BY <1>3, <1>4, <2>2
  <2>4. ToSet(q) \subseteq Task /\ (q = <<>> <=> ToSet(q) = {})
    BY <2>3, QueueElements
  <2>5. q # <<>> => Head(q) \in ToSet(q)
    BY <2>3, QueueTail
  <2>. QED
    BY <2>2, <2>4, <2>5
<1>. QED
  BY <1>1, <1>2, <1>3, <1>4, <1>5

\* A task of a queue.
LEMMA InQueue ==
  ASSUME NEW k, NEW X, Links(k, X), NEW s \in Sem, NEW u \in ToSet(k.wq[s])
  PROVE  /\ u \in Task /\ u \notin X /\ is_waiting(k.tcb[u].state) /\ k.tcb[u].wid = s
         /\ k.tcb[u].state # "READY" /\ k.obj[s].exists
         /\ k.tcb[u].winfo \in 1 .. k.obj[s].maxsem
         /\ k.tcb[u].winfo \in Nat
<1>1. /\ ToSet(k.wq[s]) = Waiting(k, X, s)
      /\ k.obj[s].exists /\ k.tcb[u].winfo \in 1 .. k.obj[s].maxsem
  BY DEF Links, QueueRight
<1>2. u \in Task /\ u \notin X /\ is_waiting(k.tcb[u].state) /\ k.tcb[u].wid = s
  BY <1>1 DEF Waiting, Stands
<1>3. k.tcb[u].state # "READY"
  BY <1>2 DEF is_waiting
<1>4. k.tcb[u].winfo \in Nat
  BY <1>2, LinksFacts DEF TCBType
<1>. QED
  BY <1>1, <1>2, <1>3, <1>4

\* A waiting task is in the queue of its semaphore, and in no other.
LEMMA WaitingQueued ==
  ASSUME NEW k, NEW X, Links(k, X), NEW t \in Task
  PROVE  /\ Stands(k, X, t) => k.tcb[t].wid \in Sem /\ t \in ToSet(k.wq[k.tcb[t].wid])
         /\ \A s \in Sem : t \in ToSet(k.wq[s]) => Stands(k, X, t) /\ k.tcb[t].wid = s
         /\ ~Stands(k, X, t) => Unqueued(k, t)
<1>1. \A s \in Sem : ToSet(k.wq[s]) = Waiting(k, X, s)
  BY DEF Links, QueueRight
<1>2. Fits(k.tcb[t]) /\ WaitQueue = Sem
  BY LinksFacts DEF Links
<1>. QED
  BY <1>1, <1>2 DEF Waiting, Stands, Fits, Unqueued

\* u waits in the queue of its semaphore before and after, or neither.
Steady(k, X, k2, Y, u) ==
  /\ Stands(k, X, u) <=> Stands(k2, Y, u)
  /\ Stands(k, X, u) => /\ k2.tcb[u].wid = k.tcb[u].wid
                        /\ k2.tcb[u].winfo = k.tcb[u].winfo
                        /\ k.obj[k.tcb[u].wid].tpri => k2.tcb[u].priority = k.tcb[u].priority

\* Slice counters do not matter.
LEMMA AlikeSteady ==
  ASSUME NEW k, NEW X, NEW k2, NEW Y, NEW u, u \in X <=> u \in Y,
         Alike(k2.tcb[u], k.tcb[u])
  PROVE  Steady(k, X, k2, Y, u) /\ (Fits(k.tcb[u]) => Fits(k2.tcb[u]))
BY DEF Alike, Steady, Stands, Fits, is_waiting

\* A step that leaves a queue and the tasks in it as they are.
LEMMA QueueSame ==
  ASSUME NEW k, NEW X, Links(k, X), NEW k2, NEW Y, NEW s \in Sem,
         \A u \in Task : (u \in ToSet(k.wq[s]) \/ u \in Waiting(k2, Y, s))
                           => Steady(k, X, k2, Y, u),
         k2.obj[s] = k.obj[s], k2.wq[s] = k.wq[s]
  PROVE  QueueRight(k2, Y, s) /\ (Settled(k, s) => Settled(k2, s))
<1>. DEFINE q == k.wq[s]
<1>1. q \in Queue /\ q \in Seq(Task) /\ ToSet(q) \subseteq Task /\ (q # <<>> => Head(q) \in ToSet(q))
  BY LinksFacts DEF Queue
<1>2. \A u \in ToSet(q) : /\ Stands(k, X, u) /\ k.tcb[u].wid = s
                          /\ Stands(k2, Y, u) /\ k2.tcb[u].wid = s
                          /\ k2.tcb[u].winfo = k.tcb[u].winfo
                          /\ k.obj[s].tpri => k2.tcb[u].priority = k.tcb[u].priority
  BY <1>1, WaitingQueued DEF Steady
<1>3. \A u \in Waiting(k2, Y, s) : u \in ToSet(q)
  <2>1. SUFFICES ASSUME NEW u \in Waiting(k2, Y, s) PROVE u \in ToSet(q)
    OBVIOUS
  <2>2. u \in Task /\ Stands(k2, Y, u) /\ k2.tcb[u].wid = s
    BY DEF Waiting
  <2>3. Stands(k, X, u) /\ k2.tcb[u].wid = k.tcb[u].wid
    BY <2>2 DEF Steady
  <2>. QED
    BY <2>2, <2>3, WaitingQueued
<1>4. ToSet(q) = Waiting(k2, Y, s)
  BY <1>1, <1>2, <1>3 DEF Waiting
<1>5. k.obj[s].tpri => Sorted(k2, q)
  BY <1>1, <1>2, SortedStays DEF Links, QueueRight
<1>6. \A u \in ToSet(q) : k2.obj[s].exists /\ k2.tcb[u].winfo \in 1 .. k2.obj[s].maxsem
  BY <1>2 DEF Links, QueueRight
<1>7. QueueRight(k2, Y, s)
  BY <1>4, <1>5, <1>6 DEF QueueRight
<1>8. \A u \in ToSet(q) : TooMuch(k, s, u) => TooMuch(k2, s, u)
  BY <1>2 DEF TooMuch
<1>9. Settled(k, s) => Settled(k2, s)
  BY <1>1, <1>8 DEF Settled
<1>. QED
  BY <1>7, <1>9

-----------------------------------------------------------------------------
(* Steps between kernel states.                                            *)

\* Same queues; the tasks change only what the queues do not depend on.
LEMMA Keep ==
  ASSUME NEW k, NEW X, Links(k, X), NEW k2, NEW Y, KInv(k2), k2.obj = k.obj, k2.wq = k.wq,
         \A u \in Task : Steady(k, X, k2, Y, u) /\ Fits(k2.tcb[u])
  PROVE  Links(k2, Y) /\ \A s \in Sem : Settled(k, s) => Settled(k2, s)
<1>1. \A s \in Sem : QueueRight(k2, Y, s) /\ (Settled(k, s) => Settled(k2, s))
  BY QueueSame
<1>. QED
  BY <1>1 DEF Links

\* Nothing but slice counters changes.
LEMMA KeepAlike ==
  ASSUME NEW k, NEW X, Links(k, X), NEW k2, KInv(k2), AllAlike(k, k2),
         k2.obj = k.obj, k2.wq = k.wq
  PROVE  Links(k2, X) /\ \A s \in Sem : Settled(k, s) => Settled(k2, s)
<1>1. \A u \in Task : Steady(k, X, k2, X, u) /\ Fits(k2.tcb[u])
  BY AlikeSteady DEF Links, AllAlike
<1>. QED
  BY <1>1, Keep

\* Only the TCB of t changes, in what its queue does not depend on.
LEMMA KeepTouch ==
  ASSUME NEW k, NEW X, Links(k, X), NEW k2, NEW Y, NEW t \in Task, KInv(k2), Touch(k, k2, t),
         \A u \in Task : u # t => (u \in X <=> u \in Y),
         Steady(k, X, k2, Y, t), Fits(k2.tcb[t])
  PROVE  Links(k2, Y) /\ \A s \in Sem : Settled(k, s) => Settled(k2, s)
<1>1. \A u \in Task : Steady(k, X, k2, Y, u) /\ Fits(k2.tcb[u])
  BY AlikeSteady DEF Links, Touch
<1>2. k2.obj = k.obj /\ k2.wq = k.wq
  BY DEF Touch, SameContext
<1>. QED
  BY <1>1, <1>2, Keep

\* The task t leaves the queue s, if it was in it.
LEMMA QueueLess ==
  ASSUME NEW k, NEW X, Links(k, X), NEW k2, NEW Y, NEW s \in Sem, NEW t \in Task,
         ~Stands(k2, Y, t),
         \A u \in Task : u # t => Steady(k, X, k2, Y, u),
         k2.obj[s] = k.obj[s], k2.wq[s] = QueueWithout(k.wq[s], t)
  PROVE  /\ QueueRight(k2, Y, s)
         /\ Settled(k, s) /\ (t \notin ToSet(k.wq[s]) \/ k.obj[s].cnt) => Settled(k2, s)
<1>. DEFINE q == k.wq[s]
            q2 == k2.wq[s]
<1>1. q \in Queue /\ q \in Seq(Task) /\ ToSet(q) \subseteq Task /\ (q # <<>> => Head(q) \in ToSet(q))
  BY LinksFacts DEF Queue
<1>2. q2 \in Queue /\ ToSet(q2) = ToSet(q) \ {t} /\ (t \notin ToSet(q) => q2 = q)
  BY <1>1, QueueRemoval
<1>3. q2 \in Seq(Task) /\ (q2 # <<>> => Head(q2) \in ToSet(q2))
  BY <1>2, QueueTail DEF Queue
<1>4. \A u \in ToSet(q2) : /\ Stands(k, X, u) /\ k.tcb[u].wid = s
                           /\ Stands(k2, Y, u) /\ k2.tcb[u].wid = s
                           /\ k2.tcb[u].winfo = k.tcb[u].winfo
                           /\ k.obj[s].tpri => k2.tcb[u].priority = k.tcb[u].priority
  BY <1>1, <1>2, WaitingQueued DEF Steady
<1>5. \A u \in Waiting(k2, Y, s) : u \in ToSet(q2)
  <2>1. SUFFICES ASSUME NEW u \in Waiting(k2, Y, s) PROVE u \in ToSet(q2)
    OBVIOUS
  <2>2. u \in Task /\ Stands(k2, Y, u) /\ k2.tcb[u].wid = s /\ u # t
    BY DEF Waiting
  <2>3. Stands(k, X, u) /\ k2.tcb[u].wid = k.tcb[u].wid
    BY <2>2 DEF Steady
  <2>. QED
    BY <1>2, <2>2, <2>3, WaitingQueued
<1>6. ToSet(q2) = Waiting(k2, Y, s)
  BY <1>1, <1>2, <1>4, <1>5 DEF Waiting
<1>7. k.obj[s].tpri => Sorted(k2, q2)
  <2>1. k.obj[s].tpri => Sorted(k, q2)
    BY <1>1, SortedWithout DEF Links, QueueRight
  <2>. QED
    BY <1>3, <1>4, <2>1, SortedStays
<1>8. \A u \in ToSet(q2) : k2.obj[s].exists /\ k2.tcb[u].winfo \in 1 .. k2.obj[s].maxsem
  BY <1>2, <1>4 DEF Links, QueueRight
<1>9. QueueRight(k2, Y, s)
  BY <1>6, <1>7, <1>8 DEF QueueRight
<1>10. \A u \in ToSet(q2) : TooMuch(k, s, u) => TooMuch(k2, s, u)
  BY <1>4 DEF TooMuch
<1>11. ASSUME Settled(k, s), t \notin ToSet(q) \/ k.obj[s].cnt PROVE Settled(k2, s)
  <2>1. CASE t \notin ToSet(q)
    BY <1>1, <1>2, <1>10, <1>11, <2>1 DEF Settled
  <2>2. CASE k.obj[s].cnt
    BY <1>2, <1>3, <1>10, <1>11, <2>2 DEF Settled
  <2>. QED
    BY <1>11, <2>1, <2>2
<1>. QED
  BY <1>9, <1>11

\* The task t stops waiting, or is in the middle of a call that will see to it.
LEMMA Leave ==
  ASSUME NEW k, NEW X, Links(k, X), NEW k2, NEW Y, NEW t \in Task, NEW c,
         KInv(k2), Unlink(k, k2, t, c), Fits(c), t \in Y \/ ~is_waiting(c.state),
         \A u \in Task : u # t => (u \in X <=> u \in Y)
  PROVE  /\ Links(k2, Y)
         /\ \A s \in Sem : Settled(k, s) /\ (t \notin ToSet(k.wq[s]) \/ k.obj[s].cnt)
                             => Settled(k2, s)
<1>1. /\ Alike(k2.tcb[t], c) /\ k2.obj = k.obj /\ k2.wq = WithoutTask(k.wq, t)
      /\ \A u \in Task : u # t => Alike(k2.tcb[u], k.tcb[u])
  BY DEF Unlink
<1>2. ~Stands(k2, Y, t) /\ Fits(k2.tcb[t])
  BY <1>1 DEF Alike, Stands, Fits, is_waiting
<1>3. \A u \in Task : u # t => Steady(k, X, k2, Y, u) /\ Fits(k2.tcb[u])
  BY <1>1, AlikeSteady DEF Links
<1>4. \A s \in Sem : k2.wq[s] = QueueWithout(k.wq[s], t)
  BY <1>1, LinksFacts DEF WithoutTask
<1>5. \A s \in Sem :
        /\ QueueRight(k2, Y, s)
        /\ Settled(k, s) /\ (t \notin ToSet(k.wq[s]) \/ k.obj[s].cnt) => Settled(k2, s)
  BY <1>1, <1>2, <1>3, <1>4, QueueLess
<1>. QED
  BY <1>1, <1>2, <1>3, <1>5 DEF Links

\* The task t, which was in no queue, joins the queue of s.
LEMMA Join ==
  ASSUME NEW k, NEW X, Links(k, X), NEW k2, NEW Y, NEW t \in Task, NEW s \in Sem,
         KInv(k2), k2.obj = k.obj, NEW q2, k2.wq = [k.wq EXCEPT ![s] = q2],
         ToSet(q2) = ToSet(k.wq[s]) \cup {t},
         \A u \in Task : u # t => Alike(k2.tcb[u], k.tcb[u]) /\ (u \in X <=> u \in Y),
         ~Stands(k, X, t), Stands(k2, Y, t), k2.tcb[t].wid = s, Fits(k2.tcb[t]),
         k.obj[s].exists, k2.tcb[t].winfo \in 1 .. k.obj[s].maxsem,
         k.obj[s].tpri => Sorted(k2, q2)
  PROVE  Links(k2, Y) /\ (OthersSettled(k, s) => OthersSettled(k2, s))
<1>1. \A u \in Task : u # t => Steady(k, X, k2, Y, u) /\ Fits(k2.tcb[u])
  BY AlikeSteady DEF Links
<1>2. k.wq \in [Sem -> Seq(Task)]
  BY LinksFacts
<1>3. ASSUME NEW r \in Sem, r # s
      PROVE  QueueRight(k2, Y, r) /\ (Settled(k, r) => Settled(k2, r))
  <2>1. k2.wq[r] = k.wq[r] /\ k2.obj[r] = k.obj[r]
    BY <1>2, <1>3
  <2>2. t \notin ToSet(k.wq[r]) /\ t \notin Waiting(k2, Y, r)
    BY <1>3, WaitingQueued DEF Waiting
  <2>3. \A u \in Task : (u \in ToSet(k.wq[r]) \/ u \in Waiting(k2, Y, r))
                          => Steady(k, X, k2, Y, u)
    BY <1>1, <2>2
  <2>. QED
    BY <2>1, <2>3, QueueSame
<1>4. QueueRight(k2, Y, s)
  <2>1. k2.wq[s] = q2
    BY <1>2
  <2>2. ToSet(k.wq[s]) \subseteq Task
    BY LinksFacts
  <2>3. \A u \in ToSet(k.wq[s]) : /\ u # t /\ u \in Task
                                  /\ Stands(k, X, u) /\ k.tcb[u].wid = s
    BY <2>2, WaitingQueued
  <2>4. \A u \in ToSet(k.wq[s]) : /\ Stands(k2, Y, u) /\ k2.tcb[u].wid = s
                                  /\ k2.tcb[u].winfo = k.tcb[u].winfo
    BY <1>1, <2>3 DEF Steady
  <2>5. \A u \in Waiting(k2, Y, s) : u \in ToSet(k.wq[s]) \cup {t}
    <3>1. SUFFICES ASSUME NEW u \in Waiting(k2, Y, s), u # t PROVE u \in ToSet(k.wq[s])
      OBVIOUS
    <3>2. u \in Task /\ Stands(k2, Y, u) /\ k2.tcb[u].wid = s
      BY DEF Waiting
    <3>3. Stands(k, X, u) /\ k2.tcb[u].wid = k.tcb[u].wid
      BY <1>1, <3>1, <3>2 DEF Steady
    <3>. QED
      BY <3>2, <3>3, WaitingQueued
  <2>6. ToSet(q2) = Waiting(k2, Y, s)
    BY <2>2, <2>4, <2>5 DEF Waiting
  <2>7. \A u \in ToSet(q2) : k2.obj[s].exists /\ k2.tcb[u].winfo \in 1 .. k2.obj[s].maxsem
    BY <2>4 DEF Links, QueueRight
  <2>. QED
    BY <2>1, <2>6, <2>7 DEF QueueRight
<1>5. \A r \in Sem : QueueRight(k2, Y, r)
  BY <1>3, <1>4
<1>6. Links(k2, Y)
  BY <1>1, <1>5 DEF Links
<1>. QED
  BY <1>3, <1>6 DEF OthersSettled

\* The control block of s is set to o.
PutSem(k, s, o) == [k EXCEPT !.obj[s] = o]

\* o may replace the control block of s: while tasks wait for it, only in its count.
Replaces(k, s, o) ==
  /\ o \in SemBlock /\ o.semcnt <= o.maxsem
  /\ k.wq[s] # <<>> => /\ o.exists /\ o.tpri = k.obj[s].tpri
                       /\ o.maxsem = k.obj[s].maxsem

\* The control block of s is written.
LEMMA SetSem ==
  ASSUME NEW k, NEW X, Links(k, X), NEW s \in Sem, NEW o, Replaces(k, s, o),
         NEW k2, k2 = PutSem(k, s, o)
  PROVE  /\ Links(k2, X) /\ (OthersSettled(k, s) => OthersSettled(k2, s))
         /\ k2.tcb = k.tcb /\ k2.wq = k.wq /\ k2.schedtsk = k.schedtsk
         /\ k2.ctxtsk = k.ctxtsk /\ k2.obj = [k.obj EXCEPT ![s] = o]
<1>. USE DEF Replaces
<1>. DEFINE ob == [k.obj EXCEPT ![s] = o]
<1>1. /\ KInv(k) /\ IsKernel(k) /\ k.obj \in [Sem -> SemBlock]
  BY LinksFacts
<1>2. k2 = [k EXCEPT !.obj = ob]
  BY <1>1 DEF PutSem
<1>. HIDE DEF ob
<1>3. KInv(k2) /\ k2.tcb = k.tcb /\ k2.wq = k.wq /\ k2.schedtsk = k.schedtsk
      /\ k2.ctxtsk = k.ctxtsk /\ k2.obj = ob
  BY <1>1, <1>2, SetObjects
<1>4. ob \in [Sem -> SemBlock] /\ ob[s] = o /\ \A r \in Sem : r # s => ob[r] = k.obj[r]
  BY <1>1 DEF ob
<1>5. \A u : Steady(k, X, k2, X, u)
  BY <1>3 DEF Steady, Stands
<1>6. \A r \in Sem : r # s => QueueRight(k2, X, r) /\ (Settled(k, r) => Settled(k2, r))
  <2>1. SUFFICES ASSUME NEW r \in Sem, r # s
                 PROVE  QueueRight(k2, X, r) /\ (Settled(k, r) => Settled(k2, r))
    OBVIOUS
  <2>2. k2.obj[r] = k.obj[r] /\ k2.wq[r] = k.wq[r]
    BY <1>3, <1>4, <2>1
  <2>3. \A u \in Task : (u \in ToSet(k.wq[r]) \/ u \in Waiting(k2, X, r))
                          => Steady(k, X, k2, X, u)
    BY <1>5
  <2>. QED
    BY <2>2, <2>3, QueueSame, Zenon
<1>7. QueueRight(k2, X, s)
  <2>1. QueueRight(k, X, s)
    BY DEF Links
  <2>2. Waiting(k2, X, s) = Waiting(k, X, s)
    BY <1>3 DEF Waiting, Stands
  <2>3. k.wq[s] = <<>> => Sorted(k2, k.wq[s]) /\ ToSet(k.wq[s]) = {}
    BY EmptyQueue DEF Sorted
  <2>4. Sorted(k, k.wq[s]) => Sorted(k2, k.wq[s])
    BY <1>3 DEF Sorted
  <2>. QED
    BY <1>3, <1>4, <2>1, <2>2, <2>3, <2>4 DEF QueueRight
<1>8. \A r \in Sem : k2.obj[r].semcnt <= k2.obj[r].maxsem /\ QueueRight(k2, X, r)
  BY <1>3, <1>4, <1>6, <1>7 DEF Links
<1>9. Links(k2, X)
  BY <1>3, <1>4, <1>8 DEF Links
<1>. QED
  BY <1>3, <1>6, <1>9 DEF OthersSettled, ob

-----------------------------------------------------------------------------
(* The loops over a wait queue.                                            *)

VisitStart(k) == [k |-> k, done |-> FALSE]

\* f is the run of the first m iterations of visit_queue.
VisitRun(f, k, s, q, skip, stop, m) ==
  f = [n \in 0 .. m |-> IF n = 0 THEN [k |-> k, done |-> FALSE]
                        ELSE visit(f[n - 1], s, q[n], skip, stop)]

\* What a run is, iteration by iteration.
VisitSteps(f, k, s, q, skip, stop, m) ==
  /\ f[0] = VisitStart(k)
  /\ \A n \in 1 .. m : f[n] = visit(f[n - 1], s, q[n], skip, stop)

\* visit_queue runs for every length of the queue.
LEMMA VisitRuns ==
  ASSUME NEW k, NEW s, NEW q, NEW skip, NEW stop, NEW m \in Nat
  PROVE  \E f : VisitRun(f, k, s, q, skip, stop, m)
<1>. DEFINE S == {n \in Nat : ~\E f : VisitRun(f, k, s, q, skip, stop, n)}
<1>1. SUFFICES ASSUME S # {} PROVE FALSE
  OBVIOUS
<1>2. PICK n \in S : \A i \in S : n <= i
  BY <1>1, LeastElement
<1>3. CASE n = 0
  <2>. DEFINE g == [i \in 0 .. 0 |-> [k |-> k, done |-> FALSE]]
  <2>1. VisitRun(g, k, s, q, skip, stop, 0)
    BY DEF VisitRun
  <2>. QED
    BY <1>2, <1>3, <2>1
<1>4. CASE n # 0
  <2>1. n - 1 \in Nat /\ ~(n <= n - 1) /\ n - 1 \notin S /\ n \in Nat
    BY <1>2, <1>4
  <2>2. PICK f : VisitRun(f, k, s, q, skip, stop, n - 1)
    BY <2>1
  <2>. DEFINE g == [i \in 0 .. n |-> IF i = n THEN visit(f[n - 1], s, q[n], skip, stop)
                                     ELSE f[i]]
              h == [i \in 0 .. n |-> IF i = 0 THEN [k |-> k, done |-> FALSE]
                                     ELSE visit(g[i - 1], s, q[i], skip, stop)]
  <2>3. ASSUME NEW i \in 0 .. n PROVE g[i] = h[i]
    <3>1. CASE i = n
      <4>1. n - 1 \in 0 .. n /\ n - 1 # n /\ n # 0
        BY <1>4, <2>1
      <4>. QED
        BY <3>1, <4>1
    <3>2. CASE i # n
      <4>1. i \in 0 .. n - 1
        BY <2>1, <3>2
      <4>2. f[i] = IF i = 0 THEN [k |-> k, done |-> FALSE]
                   ELSE visit(f[i - 1], s, q[i], skip, stop)
        BY <2>2, <4>1 DEF VisitRun
      <4>3. i # 0 => i - 1 \in 0 .. n /\ i - 1 # n
        BY <2>1, <4>1
      <4>. QED
        BY <3>2, <4>2, <4>3
    <3>. QED
      BY <3>1, <3>2
  <2>4. g = h
    BY <2>3
  <2>5. VisitRun(g, k, s, q, skip, stop, n)
    BY <2>4 DEF VisitRun
  <2>. QED
    BY <1>2, <2>5
<1>. QED
  BY <1>3, <1>4

\* The result of visit_queue is that of its last iteration.
LEMMA VisitQueue ==
  ASSUME NEW k, NEW s, NEW q, q = k.wq[s], Len(q) \in Nat, NEW skip, NEW stop
  PROVE  \E f : /\ VisitSteps(f, k, s, q, skip, stop, Len(q))
                /\ visit_queue(k, s, skip, stop) = f[Len(q)].k
<1>. DEFINE f == CHOOSE f : VisitRun(f, k, s, q, skip, stop, Len(q))
<1>1. VisitRun(f, k, s, q, skip, stop, Len(q))
  BY VisitRuns
<1>2. visit_queue(k, s, skip, stop) = f[Len(q)].k
  BY DEF visit_queue, VisitRun
<1>. HIDE DEF f
<1>3. VisitSteps(f, k, s, q, skip, stop, Len(q))
  <2>1. \A n \in 0 .. Len(q) : f[n] = IF n = 0 THEN [k |-> k, done |-> FALSE]
                                      ELSE visit(f[n - 1], s, q[n], skip, stop)
    BY <1>1 DEF VisitRun
  <2>2. 0 \in 0 .. Len(q) /\ \A n \in 1 .. Len(q) : n \in 0 .. Len(q) /\ n # 0
    OBVIOUS
  <2>. QED
    BY <2>1, <2>2 DEF VisitSteps, VisitStart
<1>. QED
  BY <1>2, <1>3

-----------------------------------------------------------------------------
(* A wait ends.                                                            *)

\* From k to k2 the wait of t has ended.
Freed(k, k2, X, t) ==
  /\ Links(k2, X) /\ k2.wq = WithoutTask(k.wq, t) /\ k2.obj = k.obj /\ k2.ctxtsk = k.ctxtsk
  /\ \A u \in Task : u # t => Alike(k2.tcb[u], k.tcb[u])
  /\ ~is_waiting(k2.tcb[t].state)
  /\ \A s \in Sem : Settled(k, s) /\ (t \notin ToSet(k.wq[s]) \/ k.obj[s].cnt)
                      => Settled(k2, s)

\* wait_release takes the task out of the queue it waits in.
LEMMA ReleaseFrees ==
  ASSUME NEW k, NEW X, Links(k, X), NEW t \in Task, is_waiting(k.tcb[t].state),
         NEW k2, k2 = wait_release(k, t)
  PROVE  Freed(k, k2, X, t) /\ k2.tcb[t].wid = k.tcb[t].wid /\ k2.tcb[t].state # "WAIT"
<1>. DEFINE c == Woken(Untimed(k.tcb[t]))
<1>1. KInv(k) /\ k.tcb[t] \in TCBType /\ Fits(k.tcb[t])
  BY LinksFacts DEF Links
<1>2. c.state = (IF k.tcb[t].state = "WAIT" THEN "READY" ELSE "SUSPEND")
      /\ c.suscnt = k.tcb[t].suscnt /\ ~c.wtmeb
  BY <1>1 DEF Woken, Untimed, TCBType
<1>3. Fits(c) /\ ~is_waiting(c.state)
  BY <1>1, <1>2 DEF Fits, is_waiting
<1>. HIDE DEF c
<1>4. KInv(k2) /\ Unlink(k, k2, t, c) /\ k2.tcb[t].wid = k.tcb[t].wid
      /\ k2.tcb[t].state # "WAIT" /\ ~is_waiting(k2.tcb[t].state)
  BY <1>1, WaitRelease DEF c, is_waiting
<1>5. /\ Links(k2, X)
      /\ \A s \in Sem : Settled(k, s) /\ (t \notin ToSet(k.wq[s]) \/ k.obj[s].cnt)
                          => Settled(k2, s)
  BY <1>3, <1>4, Leave
<1>. QED
  BY <1>4, <1>5 DEF Freed, Unlink

\* end_wait writes what the queues do not depend on any more.
LEMMA EndKeeps ==
  ASSUME NEW k, NEW X, Links(k, X), NEW t \in Task, ~is_waiting(k.tcb[t].state),
         NEW e \in WaitResult, NEW k2, k2 = end_wait(k, t, e)
  PROVE  /\ Links(k2, X) /\ Touch(k, k2, t) /\ k2.tcb[t].state = k.tcb[t].state
         /\ \A s \in Sem : Settled(k, s) => Settled(k2, s)
<1>1. KInv(k) /\ Fits(k.tcb[t])
  BY LinksFacts DEF Links
<1>2. /\ KInv(k2) /\ Touch(k, k2, t)
      /\ k2.tcb[t].state = k.tcb[t].state /\ k2.tcb[t].suscnt = k.tcb[t].suscnt
      /\ k2.tcb[t].wtmeb = k.tcb[t].wtmeb
  BY <1>1, EndWait
<1>3. Fits(k2.tcb[t]) /\ Steady(k, X, k2, X, t)
  BY <1>1, <1>2 DEF Fits, Steady, Stands
<1>. QED
  BY <1>2, <1>3, KeepTouch

\* Both together.
LEMMA EndWaitFrees ==
  ASSUME NEW k, NEW X, NEW t \in Task, NEW k1, Freed(k, k1, X, t),
         NEW e \in WaitResult, NEW k2, k2 = end_wait(k1, t, e)
  PROVE  Freed(k, k2, X, t)
<1>1. Links(k1, X) /\ ~is_waiting(k1.tcb[t].state)
  BY DEF Freed
<1>2. /\ Links(k2, X) /\ Touch(k1, k2, t) /\ k2.tcb[t].state = k1.tcb[t].state
      /\ \A s \in Sem : Settled(k1, s) => Settled(k2, s)
  BY <1>1, EndKeeps
<1>3. k2.wq = k1.wq /\ k2.obj = k1.obj /\ k2.ctxtsk = k1.ctxtsk
  BY <1>2 DEF Touch, SameContext
<1>4. \A u \in Task : u # t => Alike(k2.tcb[u], k.tcb[u])
  BY <1>2 DEF Touch, Freed, Alike
<1>. QED
  BY <1>1, <1>2, <1>3, <1>4 DEF Freed

\* The wait of t has ended with the units it asked for.
Served(k, k2, X, s, t) ==
  /\ Links(k2, X) /\ k2.ctxtsk = k.ctxtsk /\ (OthersSettled(k, s) => OthersSettled(k2, s))
  /\ k2.wq[s] = QueueWithout(k.wq[s], t)
  /\ \A u \in Task : u # t => Alike(k2.tcb[u], k.tcb[u])
  /\ k2.obj[s] = [k.obj[s] EXCEPT !.semcnt = @ - k.tcb[t].winfo]

\* The count pays for the wait that ends.
LEMMA GrantServes ==
  ASSUME NEW k, NEW X, Links(k, X), NEW s \in Sem, NEW t \in ToSet(k.wq[s]),
         ~TooMuch(k, s, t), NEW k2, k2 = grant(k, s, t)
  PROVE  Served(k, k2, X, s, t)
<1>. DEFINE k0 == wait_release(k, t)
            k1 == wait_release_ok(k, t)
            o == [k.obj[s] EXCEPT !.semcnt = @ - k.tcb[t].winfo]
<1>1. /\ t \in Task /\ is_waiting(k.tcb[t].state) /\ k.tcb[t].wid = s
      /\ k.tcb[t].winfo \in Nat /\ k.obj[s].exists
  BY InQueue
<1>2. k1 = end_wait(k0, t, "E_OK")
  BY DEF wait_release_ok
<1>3. k.obj[s] \in SemBlock /\ k.obj[s].semcnt <= k.obj[s].maxsem
      /\ k.wq \in [Sem -> Seq(Task)] /\ WaitQueue = Sem
  BY LinksFacts DEF Links
<1>4. /\ o \in SemBlock /\ o.semcnt <= o.maxsem
      /\ o.exists = k.obj[s].exists /\ o.tpri = k.obj[s].tpri /\ o.maxsem = k.obj[s].maxsem
  <2>1. /\ k.obj[s].semcnt \in Nat /\ k.obj[s].maxsem \in Nat
        /\ k.obj[s].semcnt - k.tcb[t].winfo \in Nat
        /\ k.obj[s].semcnt - k.tcb[t].winfo <= k.obj[s].maxsem
    BY <1>1, <1>3 DEF SemBlock, TooMuch
  <2>2. PICK n \in Nat : n = k.obj[s].semcnt - k.tcb[t].winfo
    BY <2>1
  <2>3. o = [k.obj[s] EXCEPT !.semcnt = n]
    BY <2>2
  <2>. HIDE DEF o
  <2>. QED
    BY <1>3, <2>1, <2>2, <2>3 DEF SemBlock
<1>5. Freed(k, k0, X, t)
  BY <1>1, ReleaseFrees
<1>. HIDE DEF k0, k1
<1>6. Freed(k, k1, X, t)
  <2>1. "E_OK" \in WaitResult
    BY DEF WaitResult
  <2>. QED
    BY <1>1, <1>2, <1>5, <2>1, EndWaitFrees
<1>7. k1.obj = k.obj /\ k1.wq = WithoutTask(k.wq, t) /\ Links(k1, X)
  BY <1>6 DEF Freed
<1>8. k2 = PutSem(k1, s, o)
  BY <1>7 DEF grant, PutSem, k1
<1>. HIDE DEF o
<1>9. /\ Links(k2, X) /\ (OthersSettled(k1, s) => OthersSettled(k2, s))
      /\ k2.tcb = k1.tcb /\ k2.wq = k1.wq /\ k2.ctxtsk = k1.ctxtsk
      /\ k2.obj = [k1.obj EXCEPT ![s] = o]
  <2>1. Replaces(k1, s, o)
    BY <1>1, <1>4, <1>7 DEF Replaces
  <2>. QED
    BY <1>7, <1>8, <2>1, SetSem
<1>10. OthersSettled(k, s) => OthersSettled(k1, s)
  <2>1. \A r \in Sem : r # s => t \notin ToSet(k.wq[r])
    BY <1>1, WaitingQueued
  <2>. QED
    BY <1>6, <2>1 DEF Freed, OthersSettled
<1>11. k2.wq[s] = QueueWithout(k.wq[s], t)
  BY <1>3, <1>7, <1>9 DEF WithoutTask
<1>12. k2.obj[s] = o
  BY <1>7, <1>9, LinksFacts
<1>. QED
  BY <1>6, <1>9, <1>10, <1>11, <1>12 DEF Freed, Served, o

-----------------------------------------------------------------------------
(* visit_queue settles the semaphore.                                      *)

\* The tasks in r are still to be visited, the others in the queue of s ask for
\* too much.
Passed(k, s, r) ==
  /\ ToSet(r) \subseteq ToSet(k.wq[s])
  /\ \A u \in ToSet(k.wq[s]) : u \in ToSet(r) \/ TooMuch(k, s, u)

\* After n iterations from the kernel k, whose queue of s was q, a is reached.
LoopInv(k, X, s, q, a, n) ==
  /\ a = [k |-> a.k, done |-> a.done] /\ a.done \in BOOLEAN
  /\ Links(a.k, X) /\ OthersSettled(a.k, s)
  /\ a.k.ctxtsk = k.ctxtsk /\ a.k.obj[s].cnt = k.obj[s].cnt
  /\ \A u \in Task : u \notin ToSet(q) => Alike(a.k.tcb[u], k.tcb[u])
  /\ a.done => Settled(a.k, s)
  /\ ~a.done => IF k.obj[s].cnt THEN Passed(a.k, s, From(q, n))
                ELSE a.k.wq[s] = From(q, n)

\* An iteration that passes a task over or ends the loop there.
LEMMA VisitRefused ==
  ASSUME NEW k, NEW X, NEW s \in Sem, NEW q \in Queue, NEW n \in 1 .. Len(q), NEW a,
         LoopInv(k, X, s, q, a, n - 1), ~a.done, TooMuch(a.k, s, q[n]),
         k.obj[s].cnt \in BOOLEAN, NEW b, b = [k |-> a.k, done |-> ~k.obj[s].cnt]
  PROVE  LoopInv(k, X, s, q, b, n)
<1>1. /\ Head(From(q, n - 1)) = q[n] /\ From(q, n - 1) # <<>>
      /\ ToSet(From(q, n)) = ToSet(From(q, n - 1)) \ {q[n]}
  BY QueueRestStep
<1>2. b.k = a.k /\ b.done = ~k.obj[s].cnt
  OBVIOUS
<1>3. CASE k.obj[s].cnt
  <2>1. Passed(a.k, s, From(q, n - 1))
    BY <1>3 DEF LoopInv
  <2>2. Passed(a.k, s, From(q, n))
    BY <1>1, <2>1 DEF Passed
  <2>. QED
    BY <1>2, <1>3, <2>2 DEF LoopInv
<1>4. CASE ~k.obj[s].cnt
  <2>1. a.k.wq[s] = From(q, n - 1) /\ ~a.k.obj[s].cnt
    BY <1>4 DEF LoopInv
  <2>2. Settled(a.k, s)
    BY <1>1, <2>1 DEF Settled
  <2>. QED
    BY <1>2, <1>4, <2>2 DEF LoopInv
<1>. QED
  BY <1>3, <1>4

\* An iteration that releases a task.
LEMMA VisitGranted ==
  ASSUME NEW k, NEW X, NEW s \in Sem, NEW q \in Queue, NEW n \in 1 .. Len(q), NEW a,
         LoopInv(k, X, s, q, a, n - 1), ~a.done, ~TooMuch(a.k, s, q[n]),
         k.obj[s].cnt \in BOOLEAN, NEW k1, k1 = grant(a.k, s, q[n]),
         NEW stop \in BOOLEAN, NEW b, b = [k |-> k1, done |-> stop /\ k1.obj[s].semcnt <= 0]
  PROVE  LoopInv(k, X, s, q, b, n)
<1>. DEFINE t == q[n]
<1>1. /\ t \in ToSet(From(q, n - 1)) /\ t \in ToSet(q) /\ t \in Task
      /\ QueueWithout(From(q, n - 1), t) = From(q, n)
      /\ ToSet(From(q, n)) = ToSet(From(q, n - 1)) \ {t}
  BY QueueRestStep
<1>2. b.k = k1 /\ b.done = (stop /\ k1.obj[s].semcnt <= 0) /\ b = [k |-> b.k, done |-> b.done]
      /\ b.done \in BOOLEAN
  OBVIOUS
<1>3. Links(a.k, X) /\ OthersSettled(a.k, s)
  BY DEF LoopInv
<1>4. t \in ToSet(a.k.wq[s])
  BY <1>1 DEF LoopInv, Passed
<1>. HIDE DEF t
<1>5. Served(a.k, k1, X, s, t)
  BY <1>3, <1>4, GrantServes DEF t
<1>6. /\ Links(k1, X) /\ OthersSettled(k1, s) /\ k1.ctxtsk = k.ctxtsk
      /\ \A u \in Task : u \notin ToSet(q) => Alike(k1.tcb[u], k.tcb[u])
  <2>1. Links(k1, X) /\ OthersSettled(k1, s) /\ k1.ctxtsk = k.ctxtsk
    BY <1>3, <1>5 DEF Served, LoopInv
  <2>2. ASSUME NEW u \in Task, u \notin ToSet(q) PROVE Alike(k1.tcb[u], k.tcb[u])
    <3>1. Alike(k1.tcb[u], a.k.tcb[u])
      BY <1>1, <1>5, <2>2 DEF Served
    <3>2. Alike(a.k.tcb[u], k.tcb[u])
      BY <2>2 DEF LoopInv
    <3>. QED
      BY <3>1, <3>2 DEF Alike
  <2>. QED
    BY <2>1, <2>2
<1>7. a.k.obj[s] \in SemBlock /\ a.k.tcb[t].winfo \in Nat /\ a.k.wq[s] \in Queue
  BY <1>3, <1>4, LinksFacts, InQueue
<1>8. /\ k1.obj[s].cnt = k.obj[s].cnt
      /\ k1.obj[s].semcnt = a.k.obj[s].semcnt - a.k.tcb[t].winfo
  BY <1>5, <1>7 DEF Served, SemBlock, LoopInv
<1>9. \A u \in ToSet(k1.wq[s]) : u \in Task /\ k1.tcb[u].winfo \in Nat /\ k1.tcb[u].winfo >= 1
  BY <1>6, InQueue
<1>10. ASSUME b.done PROVE Settled(k1, s)
  <2>1. k1.obj[s].semcnt \in Nat
    BY <1>6, LinksFacts DEF SemBlock
  <2>2. k1.obj[s].semcnt <= 0
    BY <1>2, <1>10
  <2>3. \A u \in ToSet(k1.wq[s]) : TooMuch(k1, s, u)
    BY <1>9, <2>1, <2>2 DEF TooMuch
  <2>. QED
    BY <1>6, <2>3, LinksFacts DEF Settled
<1>11. ASSUME ~b.done PROVE IF k.obj[s].cnt THEN Passed(k1, s, From(q, n))
                            ELSE k1.wq[s] = From(q, n)
  <2>1. CASE k.obj[s].cnt
    <3>1. Passed(a.k, s, From(q, n - 1))
      BY <2>1 DEF LoopInv
    <3>2. ToSet(k1.wq[s]) = ToSet(a.k.wq[s]) \ {t}
      BY <1>1, <1>5, <1>7, QueueRemoval DEF Served
    <3>3. ASSUME NEW u \in ToSet(k1.wq[s]), TooMuch(a.k, s, u) PROVE TooMuch(k1, s, u)
      <4>1. u # t /\ u \in Task /\ u \in ToSet(a.k.wq[s])
        BY <1>9, <3>2
      <4>2. k1.tcb[u].winfo = a.k.tcb[u].winfo /\ a.k.tcb[u].winfo \in Nat
        BY <1>3, <1>5, <4>1, InQueue DEF Served, Alike
      <4>3. a.k.obj[s].semcnt \in Nat
        BY <1>7 DEF SemBlock
      <4>. QED
        BY <1>7, <1>8, <3>3, <4>2, <4>3 DEF TooMuch
    <3>4. Passed(k1, s, From(q, n))
      BY <1>1, <3>1, <3>2, <3>3 DEF Passed
    <3>. QED
      BY <2>1, <3>4
  <2>2. CASE ~k.obj[s].cnt
    <3>1. a.k.wq[s] = From(q, n - 1)
      BY <2>2 DEF LoopInv
    <3>. QED
      BY <1>1, <1>5, <2>2, <3>1 DEF Served
  <2>. QED
    BY <2>1, <2>2
<1>. QED
  BY <1>2, <1>6, <1>8, <1>10, <1>11 DEF LoopInv

\* One iteration.
LEMMA VisitStep ==
  ASSUME NEW k, NEW X, NEW s \in Sem, NEW q \in Queue, NEW n \in 1 .. Len(q), NEW a,
         LoopInv(k, X, s, q, a, n - 1), k.obj[s].cnt \in BOOLEAN, NEW stop \in BOOLEAN,
         NEW b, b = visit(a, s, q[n], k.obj[s].cnt, stop)
  PROVE  LoopInv(k, X, s, q, b, n)
<1>1. a = [k |-> a.k, done |-> a.done] /\ a.done \in BOOLEAN
  BY DEF LoopInv
<1>2. CASE a.done
  <2>1. b = a
    BY <1>2 DEF visit
  <2>. QED
    BY <1>2, <2>1 DEF LoopInv
<1>3. CASE ~a.done
  <2>1. /\ a.k.obj[s].semcnt \in Nat /\ a.k.tcb[q[n]].winfo \in Nat
    <3>1. Links(a.k, X) /\ q[n] \in Task
      BY QueueRestStep DEF LoopInv
    <3>. QED
      BY <3>1, LinksFacts DEF SemBlock, TCBType
  <2>2. TooMuch(a.k, s, q[n]) <=> a.k.obj[s].semcnt < a.k.tcb[q[n]].winfo
    BY <2>1 DEF TooMuch
  <2>3. CASE TooMuch(a.k, s, q[n])
    <3>1. b = [a EXCEPT !.done = ~k.obj[s].cnt]
      BY <1>3, <2>2, <2>3 DEF visit
    <3>2. b = [k |-> a.k, done |-> ~k.obj[s].cnt]
      BY <1>1, <3>1
    <3>. QED
      BY <1>3, <2>3, <3>2, VisitRefused
  <2>4. CASE ~TooMuch(a.k, s, q[n])
    <3>1. PICK k1 : k1 = grant(a.k, s, q[n])
      OBVIOUS
    <3>2. b = [k |-> k1, done |-> stop /\ k1.obj[s].semcnt <= 0]
      BY <1>3, <2>2, <2>4, <3>1 DEF visit
    <3>. QED
      BY <1>3, <2>4, <3>1, <3>2, VisitGranted
  <2>. QED
    BY <2>3, <2>4
<1>. QED
  BY <1>1, <1>2, <1>3

\* The loop over the queue of s has run.
Looped(k, k2, X, s) ==
  /\ Good(k2, X) /\ k2.ctxtsk = k.ctxtsk
  /\ \A u \in Task : u \notin ToSet(k.wq[s]) => Alike(k2.tcb[u], k.tcb[u])

\* When it has, no task that waits could go on.
LEMMA VisitLoop ==
  ASSUME NEW k, NEW X, Links(k, X), NEW s \in Sem, OthersSettled(k, s),
         NEW stop \in BOOLEAN, NEW k2, k2 = visit_queue(k, s, k.obj[s].cnt, stop)
  PROVE  Looped(k, k2, X, s)
<1>. DEFINE q == k.wq[s]
<1>1. /\ q \in Queue /\ q \in Seq(Task) /\ Len(q) \in Nat
      /\ k.obj[s].cnt \in BOOLEAN
  BY LinksFacts, QueueElements DEF Queue, SemBlock
<1>2. PICK f : /\ VisitSteps(f, k, s, q, k.obj[s].cnt, stop, Len(q))
               /\ k2 = f[Len(q)].k
  BY <1>1, VisitQueue
<1>. DEFINE S == {n \in 0 .. Len(q) : ~LoopInv(k, X, s, q, f[n], n)}
<1>3. S = {}
  <2>1. SUFFICES ASSUME S # {} PROVE FALSE
    OBVIOUS
  <2>2. S \subseteq Nat
    BY <1>1
  <2>. HIDE DEF S
  <2>3. PICK n \in S : \A i \in S : n <= i
    BY <2>1, <2>2, LeastElement
  <2>4. n \in 0 .. Len(q) /\ ~LoopInv(k, X, s, q, f[n], n)
    BY <2>3 DEF S
  <2>5. CASE n = 0
    <3>1. f[0] = [k |-> k, done |-> FALSE]
      BY <1>2 DEF VisitSteps, VisitStart
    <3>2. From(q, 0) = q
      BY <1>1, FromSteps
    <3>3. LoopInv(k, X, s, q, f[0], 0)
      BY <3>1, <3>2 DEF LoopInv, Passed, Alike
    <3>. QED
      BY <2>4, <2>5, <3>3
  <2>6. CASE n # 0
    <3>1. n \in 1 .. Len(q) /\ n - 1 \in 0 .. Len(q) /\ ~(n <= n - 1)
      BY <1>1, <2>4, <2>6
    <3>2. LoopInv(k, X, s, q, f[n - 1], n - 1)
      BY <2>3, <3>1 DEF S
    <3>3. f[n] = visit(f[n - 1], s, q[n], k.obj[s].cnt, stop)
      BY <1>2, <3>1 DEF VisitSteps
    <3>. HIDE DEF q
    <3>4. LoopInv(k, X, s, q, f[n], n)
      BY <1>1, <3>1, <3>2, <3>3, VisitStep
    <3>. QED
      BY <2>4, <3>4
  <2>. QED
    BY <2>5, <2>6
<1>4. LoopInv(k, X, s, q, f[Len(q)], Len(q))
  BY <1>1, <1>3
<1>5. From(q, Len(q)) = <<>> /\ ToSet(<<>>) = {}
  BY <1>1, FromSteps, EmptyQueue
<1>6. Settled(k2, s)
  <2>1. CASE f[Len(q)].done
    BY <1>2, <1>4, <2>1 DEF LoopInv
  <2>2. CASE ~f[Len(q)].done
    <3>1. IF k.obj[s].cnt THEN Passed(k2, s, <<>>) ELSE k2.wq[s] = <<>>
      BY <1>2, <1>4, <1>5, <2>2 DEF LoopInv
    <3>2. k2.wq[s] # <<>> => Head(k2.wq[s]) \in ToSet(k2.wq[s])
      BY <1>2, <1>4, LinksFacts DEF LoopInv
    <3>3. k2.obj[s].cnt = k.obj[s].cnt
      BY <1>2, <1>4 DEF LoopInv
    <3>. QED
      BY <1>1, <1>5, <3>1, <3>2, <3>3 DEF Passed, Settled
  <2>. QED
    BY <2>1, <2>2
<1>. QED
  BY <1>2, <1>4, <1>6 DEF LoopInv, Looped, Good, OthersSettled

-----------------------------------------------------------------------------
(* wait_delete, the hooks, and the ends of waits they are run for.         *)

\* wait_delete frees the tasks in the queue one after the other.
LEMMA DeleteLoop ==
  ASSUME NEW k, NEW X, Links(k, X), NEW s \in Sem, OthersSettled(k, s),
         NEW k2, k2 = wait_delete(k, s)
  PROVE  Links(k2, X) /\ OthersSettled(k2, s) /\ k2.wq[s] = <<>>
<1>. DEFINE q == k.wq[s]
            Inv(a, n) == Links(a, X) /\ OthersSettled(a, s) /\ a.wq[s] = From(q, n)
<1>1. q \in Queue /\ q \in Seq(Task) /\ Len(q) \in Nat
  BY LinksFacts, QueueElements DEF Queue
<1>2. PICK f : DeleteSteps(f, k, q, Len(q)) /\ k2 = f[Len(q)]
  BY <1>1, WaitDelete
<1>. DEFINE S == {n \in 0 .. Len(q) : ~Inv(f[n], n)}
<1>3. S = {}
  <2>1. SUFFICES ASSUME S # {} PROVE FALSE
    OBVIOUS
  <2>2. S \subseteq Nat
    BY <1>1
  <2>. HIDE DEF S
  <2>3. PICK n \in S : \A i \in S : n <= i
    BY <2>1, <2>2, LeastElement
  <2>4. n \in 0 .. Len(q) /\ ~Inv(f[n], n)
    BY <2>3 DEF S
  <2>5. CASE n = 0
    <3>1. f[0] = k /\ From(q, 0) = q
      BY <1>1, <1>2, FromSteps DEF DeleteSteps
    <3>. QED
      BY <2>4, <2>5, <3>1
  <2>6. CASE n # 0
    <3>1. n \in 1 .. Len(q) /\ n - 1 \in 0 .. Len(q) /\ ~(n <= n - 1)
      BY <1>1, <2>4, <2>6
    <3>2. PICK a : a = f[n - 1]
      OBVIOUS
    <3>3. Links(a, X) /\ OthersSettled(a, s) /\ a.wq[s] = From(q, n - 1)
      BY <2>3, <3>1, <3>2 DEF S
    <3>4. PICK t : t = q[n]
      OBVIOUS
    <3>5. PICK b : b = wait_release(a, t)
      OBVIOUS
    <3>6. f[n] = end_wait(b, t, "E_DLT")
      BY <1>2, <3>1, <3>2, <3>4, <3>5 DEF DeleteSteps
    <3>7. t \in ToSet(a.wq[s]) /\ t \in Task /\ QueueWithout(a.wq[s], t) = From(q, n)
      BY <1>1, <3>1, <3>3, <3>4, QueueRestStep
    <3>8. is_waiting(a.tcb[t].state)
      BY <3>3, <3>7, InQueue
    <3>9. Freed(a, b, X, t)
      BY <3>3, <3>5, <3>7, <3>8, ReleaseFrees
    <3>10. Freed(a, f[n], X, t)
      <4>1. "E_DLT" \in WaitResult
        BY DEF WaitResult
      <4>. QED
        BY <3>6, <3>7, <3>9, <4>1, EndWaitFrees
    <3>11. f[n].wq[s] = From(q, n)
      BY <3>7, <3>10, LinksFacts DEF Freed, WithoutTask
    <3>12. \A r \in Sem : r # s => t \notin ToSet(a.wq[r])
      BY <3>3, <3>7, WaitingQueued
    <3>13. Links(f[n], X) /\ OthersSettled(f[n], s)
      BY <3>3, <3>10, <3>12 DEF Freed, OthersSettled
    <3>. QED
      BY <2>4, <3>11, <3>13
  <2>. QED
    BY <2>5, <2>6
<1>4. Inv(f[Len(q)], Len(q))
  BY <1>1, <1>3
<1>. QED
  BY <1>1, <1>2, <1>4, FromSteps

\* sem_rel_wai of a task that has left the queue.
LEMMA RelWaiHook ==
  ASSUME NEW k, NEW X, Links(k, X), NEW t \in Task, NEW s \in Sem, s = k.tcb[t].wid,
         OthersSettled(k, s), k.obj[s].cnt => Settled(k, s), t \notin ToSet(k.wq[s]),
         NEW k2, k2 = sem_rel_wai(k, t)
  PROVE  Good(k2, X) /\ k2.ctxtsk = k.ctxtsk /\ Alike(k2.tcb[t], k.tcb[t])
<1>1. k.obj[s].cnt \in BOOLEAN
  BY LinksFacts DEF SemBlock
<1>2. CASE k.obj[s].cnt
  <2>1. k2 = k
    BY <1>2 DEF sem_rel_wai, sem_chg_pri
  <2>. QED
    BY <1>2, <2>1 DEF Good, OthersSettled, Alike
<1>3. CASE ~k.obj[s].cnt
  <2>1. k2 = sem_release(k, s)
    BY <1>3 DEF sem_rel_wai, sem_chg_pri
  <2>2. k.obj[s].cnt = FALSE
    BY <1>1, <1>3
  <2>3. k2 = visit_queue(k, s, k.obj[s].cnt, FALSE)
    BY <2>1, <2>2 DEF sem_release
  <2>4. Looped(k, k2, X, s)
    BY <2>3, VisitLoop
  <2>. QED
    BY <2>4 DEF Looped
<1>. QED
  BY <1>2, <1>3

\* wait_release_ng and wait_release_tmout: the wait of t fails.
LEMMA WaitFails ==
  ASSUME NEW k, Good(k, {}), NEW t \in Task, is_waiting(k.tcb[t].state),
         NEW k1, k1 = wait_release(k, t), NEW k2, k2 = sem_rel_wai(k1, t),
         NEW e \in WaitResult, NEW k3, k3 = end_wait(k2, t, e)
  PROVE  Good(k3, {})
<1>1. Links(k, {}) /\ \A s \in Sem : Settled(k, s)
  BY DEF Good
<1>2. Freed(k, k1, {}, t) /\ k1.tcb[t].wid = k.tcb[t].wid
  BY <1>1, ReleaseFrees
<1>3. PICK s : s = k.tcb[t].wid
  OBVIOUS
<1>4. s \in Sem /\ \A r \in Sem : r # s => t \notin ToSet(k.wq[r])
  <2>1. Stands(k, {}, t)
    BY DEF Stands
  <2>. QED
    BY <1>1, <1>3, <2>1, WaitingQueued
<1>5. /\ Links(k1, {}) /\ OthersSettled(k1, s) /\ (k1.obj[s].cnt => Settled(k1, s))
      /\ ~is_waiting(k1.tcb[t].state)
  BY <1>1, <1>2, <1>4 DEF Freed, OthersSettled
<1>6. t \notin ToSet(k1.wq[s])
  BY <1>4, <1>5, InQueue
<1>7. Good(k2, {}) /\ Alike(k2.tcb[t], k1.tcb[t])
  BY <1>2, <1>3, <1>4, <1>5, <1>6, RelWaiHook
<1>8. Links(k2, {}) /\ ~is_waiting(k2.tcb[t].state)
  BY <1>5, <1>7 DEF Good, Alike
<1>9. Links(k3, {}) /\ \A r \in Sem : Settled(k2, r) => Settled(k3, r)
  BY <1>8, EndKeeps
<1>. QED
  BY <1>7, <1>9 DEF Good

\* The end of a task: make_dormant after the hook of what it waited for.
LEMMA TaskEnds ==
  ASSUME NEW k, Good(k, {}), NEW t \in Task, NEW k1, k1 = _ter_tsk(k, t),
         NEW k2, k2 = IF is_waiting(k.tcb[t].state) THEN sem_rel_wai(k1, t) ELSE k1,
         NEW k3, k3 = make_dormant(k2, t)
  PROVE  Good(k3, {})
<1>1. Links(k, {}) /\ KInv(k) /\ Fits(k.tcb[t]) /\ k.tcb[t] \in TCBType
  BY LinksFacts DEF Good, Links
<1>2. \A x : Stands(x, {}, t) <=> is_waiting(x.tcb[t].state)
  BY DEF Stands
<1>3. CASE ~is_waiting(k.tcb[t].state)
  <2>1. k2 = k1
    BY <1>3
  <2>2. KInv(k3) /\ Touch(k, k3, t) /\ k3.tcb[t].state = "DORMANT"
        /\ k3.tcb[t].wtmeb = k.tcb[t].wtmeb
    <3>1. CASE k.tcb[t].state = "READY"
      <4>1. k3 = make_dormant(make_non_ready(k, t), t)
        BY <2>1, <3>1 DEF _ter_tsk
      <4>. QED
        BY <1>1, <3>1, <4>1, EndReady
    <3>2. CASE k.tcb[t].state # "READY"
      <4>1. k3 = make_dormant(k, t)
        BY <1>3, <2>1, <3>2 DEF _ter_tsk
      <4>. QED
        BY <1>1, <3>2, <4>1, EndIdle
    <3>. QED
      BY <3>1, <3>2
  <2>3. Fits(k3.tcb[t]) /\ Steady(k, {}, k3, {}, t)
    BY <1>1, <1>2, <1>3, <2>2 DEF Fits, Steady, is_waiting
  <2>4. Links(k3, {}) /\ \A s \in Sem : Settled(k, s) => Settled(k3, s)
    BY <1>1, <2>2, <2>3, KeepTouch
  <2>. QED
    BY <2>4 DEF Good
<1>4. CASE is_waiting(k.tcb[t].state)
  <2>1. k.tcb[t].state # "READY" /\ k1 = wait_cancel(k, t) /\ k2 = sem_rel_wai(k1, t)
    BY <1>4 DEF _ter_tsk, is_waiting
  <2>. DEFINE c == Untimed(k.tcb[t])
  <2>2. c.state = k.tcb[t].state /\ c.suscnt = k.tcb[t].suscnt /\ c.wid = k.tcb[t].wid
        /\ ~c.wtmeb
    BY <1>1 DEF Untimed, TCBType
  <2>3. Fits(c)
    BY <1>1, <1>4, <2>2 DEF Fits
  <2>. HIDE DEF c
  <2>4. KInv(k1) /\ Unlink(k, k1, t, c) /\ Unqueued(k1, t)
    BY <1>1, <2>1, WaitCancel DEF c
  <2>5. /\ Links(k1, {t})
        /\ \A s \in Sem : Settled(k, s) /\ (t \notin ToSet(k.wq[s]) \/ k.obj[s].cnt)
                            => Settled(k1, s)
    BY <1>1, <2>3, <2>4, Leave
  <2>6. Alike(k1.tcb[t], c) /\ k1.obj = k.obj
    BY <2>4 DEF Unlink
  <2>7. PICK s : s = k.tcb[t].wid
    OBVIOUS
  <2>8. s \in Sem /\ \A r \in Sem : r # s => t \notin ToSet(k.wq[r])
    BY <1>1, <1>2, <1>4, <2>7, WaitingQueued
  <2>9. OthersSettled(k1, s) /\ (k1.obj[s].cnt => Settled(k1, s)) /\ s = k1.tcb[t].wid
    BY <2>2, <2>5, <2>6, <2>7, <2>8 DEF Good, OthersSettled, Alike
  <2>10. t \notin ToSet(k1.wq[s])
    BY <2>4, <2>8, SemAssumption DEF Unqueued
  <2>11. Good(k2, {t}) /\ Alike(k2.tcb[t], k1.tcb[t])
    BY <2>1, <2>5, <2>8, <2>9, <2>10, RelWaiHook
  <2>12. Links(k2, {t}) /\ KInv(k2) /\ k2.tcb[t].state # "READY" /\ ~k2.tcb[t].wtmeb
    BY <2>1, <2>2, <2>6, <2>11 DEF Good, Links, Alike
  <2>13. KInv(k3) /\ Touch(k2, k3, t) /\ k3.tcb[t].state = "DORMANT" /\ ~k3.tcb[t].wtmeb
    BY <2>12, EndIdle
  <2>14. Fits(k3.tcb[t]) /\ Steady(k2, {t}, k3, {}, t)
    BY <2>13 DEF Fits, Steady, Stands, is_waiting
  <2>15. Links(k3, {}) /\ \A r \in Sem : Settled(k2, r) => Settled(k3, r)
    BY <2>12, <2>13, <2>14, KeepTouch
  <2>. QED
    BY <2>11, <2>15 DEF Good
<1>. QED
  BY <1>3, <1>4

-----------------------------------------------------------------------------
(* Steps that leave the queues alone.                                      *)

\* The effect c on the TCB of t is on none of what its queue depends on.
LEMMA GoodEffect ==
  ASSUME NEW k, Good(k, {}), NEW t \in Task, NEW c, NEW k2, KInv(k2), Effect(k, k2, t, c),
         Fits(c), is_waiting(c.state) <=> is_waiting(k.tcb[t].state),
         is_waiting(c.state) => /\ c.wid = k.tcb[t].wid /\ c.winfo = k.tcb[t].winfo
                                /\ k.obj[k.tcb[t].wid].tpri => c.priority = k.tcb[t].priority
  PROVE  Good(k2, {})
<1>1. Touch(k, k2, t) /\ Alike(k2.tcb[t], c)
  BY EffectTouch
<1>2. Steady(k, {}, k2, {}, t) /\ Fits(k2.tcb[t])
  BY <1>1 DEF Alike, Steady, Stands, Fits, is_waiting
<1>3. Links(k2, {}) /\ \A s \in Sem : Settled(k, s) => Settled(k2, s)
  BY <1>1, <1>2, KeepTouch DEF Good
<1>. QED
  BY <1>3 DEF Good

\* A TCB is written in a field that no condition is about.
LEMMA GoodData ==
  ASSUME NEW k, Good(k, {}), NEW t \in Task, NEW c \in TCBType, Alike(c, [k.tcb[t] EXCEPT !.waitmask = c.waitmask]),
         NEW k2, k2 = [k EXCEPT !.tcb[t] = c]
  PROVE  Good(k2, {})
<1>1. KInv(k) /\ k.tcb[t] \in TCBType /\ ~k.tcb[t].klocked /\ ~k.tcb[t].klockwait
      /\ Fits(k.tcb[t])
  BY TaskBlock DEF Good, Links
<1>2. /\ c.state = k.tcb[t].state /\ c.priority = k.tcb[t].priority
      /\ c.suscnt = k.tcb[t].suscnt /\ c.wtmeb = k.tcb[t].wtmeb
      /\ c.wid = k.tcb[t].wid /\ c.winfo = k.tcb[t].winfo
      /\ ~c.klocked /\ ~c.klockwait
  BY <1>1 DEF Alike, TCBType
<1>3. KInv(k2) /\ Effect(k, k2, t, c)
  BY <1>1, <1>2, SetData
<1>4. Fits(c)
  BY <1>1, <1>2 DEF Fits
<1>. QED
  BY <1>2, <1>3, <1>4, GoodEffect

\* The context moves.
LEMMA GoodContext ==
  ASSUME NEW k, Good(k, {}), NEW x \in Task \cup {NoTask},
         NEW k2, k2 = [k EXCEPT !.ctxtsk = x]
  PROVE  Good(k2, {}) /\ k2.tcb = k.tcb
<1>1. KInv(k) /\ Links(k, {})
  BY DEF Good, Links
<1>2. KInv(k2) /\ k2.tcb = k.tcb /\ k2.wq = k.wq /\ k2.obj = k.obj
  BY <1>1, Retarget
<1>3. AllAlike(k, k2)
  BY <1>2 DEF AllAlike, Alike
<1>. QED
  BY <1>1, <1>2, <1>3, KeepAlike DEF Good

\* A call ends in k2.
LEMMA NextGood ==
  ASSUME NEW k2, Good(k2, {}), Becomes(k2)
  PROVE  IInv'
<1>1. IsKernel(k2)
  BY LinksFacts DEF Good
<1>2. Kernel' = k2
  BY <1>1, NextKernel
<1>. QED
  BY <1>2 DEF IInv

\* The kernel state of the specification.
LEMMA KernelFields ==
  /\ Kernel.tcb = tcb /\ Kernel.wq = wait_queue /\ Kernel.obj = objcb
  /\ Kernel.ctxtsk = ctxtsk /\ Kernel.schedtsk = schedtsk
BY DEF Kernel

\* What the invariant says of a task.
LEMMA TaskFacts ==
  ASSUME IInv, NEW t \in Task
  PROVE  /\ Good(Kernel, {}) /\ Links(Kernel, {}) /\ KInv(Kernel)
         /\ tcb[t] \in TCBType /\ Fits(tcb[t])
         /\ ~is_waiting(tcb[t].state) => Unqueued(Kernel, t)
<1>1. Good(Kernel, {}) /\ Links(Kernel, {}) /\ KInv(Kernel) /\ Kernel.tcb \in [Task -> TCBType]
  BY LinksFacts DEF IInv, Good
<1>2. Fits(Kernel.tcb[t])
  BY <1>1 DEF Links
<1>3. ~is_waiting(Kernel.tcb[t].state) => Unqueued(Kernel, t)
  BY <1>1, WaitingQueued DEF Stands
<1>. QED
  BY <1>1, <1>2, <1>3, KernelFields

-----------------------------------------------------------------------------
(* The calls of the task layer.                                            *)

\* tk_sta_tsk.
LEMMA StartTask ==
  ASSUME IInv, NEW t \in Task, tk_sta_tsk(t)
  PROVE  IInv'
<1>1. /\ Good(Kernel, {}) /\ KInv(Kernel) /\ tcb[t] \in TCBType /\ Fits(tcb[t])
      /\ tcb[t].state = "DORMANT"
  BY TaskFacts DEF tk_sta_tsk
<1>2. Unqueued(Kernel, t) /\ Kernel.tcb = tcb
  BY <1>1, TaskFacts, KernelFields DEF is_waiting
<1>. DEFINE c == [tcb[t] EXCEPT !.state = "READY"]
<1>3. PICK k2 : k2 = make_ready(Kernel, t)
  OBVIOUS
<1>4. Becomes(k2)
  BY <1>3 DEF tk_sta_tsk
<1>5. c.state = "READY" /\ c.wtmeb = tcb[t].wtmeb
  BY <1>1 DEF TCBType
<1>6. Fits(c) /\ ~is_waiting(c.state) /\ ~is_waiting(tcb[t].state)
  BY <1>1, <1>5 DEF Fits, is_waiting
<1>7. KInv(k2) /\ Effect(Kernel, k2, t, c)
  BY <1>1, <1>2, <1>3, MakeReady
<1>. HIDE DEF c
<1>8. Good(k2, {})
  BY <1>1, <1>2, <1>6, <1>7, GoodEffect
<1>. QED
  BY <1>4, <1>8, NextGood

\* tk_ter_tsk of another task.
LEMMA TerminateTask ==
  ASSUME IInv, NEW t \in Task, tk_ter_tsk(t, left(t))
  PROVE  IInv'
<1>1. Good(Kernel, {}) /\ Kernel.tcb = tcb
  BY TaskFacts, KernelFields
<1>2. PICK k1 : k1 = _ter_tsk(Kernel, t)
  OBVIOUS
<1>3. PICK k2 : k2 = IF is_waiting(Kernel.tcb[t].state) THEN sem_rel_wai(k1, t) ELSE k1
  OBVIOUS
<1>4. left(t) = k2
  BY <1>1, <1>2, <1>3 DEF left
<1>5. PICK k3 : k3 = make_dormant(k2, t)
  OBVIOUS
<1>6. Becomes(k3)
  BY <1>4, <1>5 DEF tk_ter_tsk, END_CRITICAL_SECTION
<1>7. Good(k3, {})
  BY <1>1, <1>2, <1>3, <1>5, TaskEnds
<1>. QED
  BY <1>6, <1>7, NextGood

\* tk_ext_tsk of the running task.
LEMMA ExitTask ==
  ASSUME IInv, tk_ext_tsk(left(ctxtsk))
  PROVE  IInv'
<1>1. PICK t \in Task : t = ctxtsk
  <2>1. ctxtsk # NoTask
    BY DEF tk_ext_tsk, in_task
  <2>2. IsKernel(Kernel)
    BY LinksFacts DEF IInv, Good
  <2>. QED
    BY <2>1, <2>2, KernelFields DEF IsKernel
<1>2. Good(Kernel, {}) /\ Kernel.tcb = tcb
  BY <1>1, TaskFacts, KernelFields
<1>3. PICK k1 : k1 = _ter_tsk(Kernel, t)
  OBVIOUS
<1>4. PICK k2 : k2 = IF is_waiting(Kernel.tcb[t].state) THEN sem_rel_wai(k1, t) ELSE k1
  OBVIOUS
<1>5. left(ctxtsk) = k2
  BY <1>1, <1>2, <1>3, <1>4 DEF left
<1>6. PICK k3 : k3 = make_dormant(k2, t)
  OBVIOUS
<1>7. Good(k3, {})
  BY <1>2, <1>3, <1>4, <1>6, TaskEnds
<1>8. PICK k4 : k4 = [k3 EXCEPT !.ctxtsk = NoTask]
  OBVIOUS
<1>9. Becomes(k4)
  BY <1>1, <1>5, <1>6, <1>8 DEF tk_ext_tsk, force_dispatch
<1>10. Good(k4, {})
  BY <1>7, <1>8, GoodContext
<1>. QED
  BY <1>9, <1>10, NextGood

\* The end of a wait without the units it was for, as the kernel does it.
LEMMA ReleasedGood ==
  ASSUME IInv, NEW t \in Task, is_waiting(tcb[t].state), NEW e \in WaitResult
  PROVE  Good(end_wait(released(t), t, e), {})
<1>1. Good(Kernel, {}) /\ is_waiting(Kernel.tcb[t].state)
  BY TaskFacts, KernelFields
<1>2. PICK k1 : k1 = wait_release(Kernel, t)
  OBVIOUS
<1>3. PICK k2 : k2 = sem_rel_wai(k1, t)
  OBVIOUS
<1>4. PICK k3 : k3 = end_wait(k2, t, e)
  OBVIOUS
<1>5. Good(k3, {})
  BY <1>1, <1>2, <1>3, <1>4, WaitFails
<1>6. k3 = end_wait(released(t), t, e)
  BY <1>2, <1>3, <1>4 DEF released
<1>. QED
  BY <1>5, <1>6

\* tk_rel_wai.
LEMMA ReleaseWait ==
  ASSUME IInv, NEW t \in Task, tk_rel_wai(t, released(t))
  PROVE  IInv'
<1>1. is_waiting(tcb[t].state) /\ Becomes(end_wait(released(t), t, "E_RLWAI"))
  BY DEF tk_rel_wai
<1>2. "E_RLWAI" \in WaitResult
  BY DEF WaitResult
<1>3. PICK e \in WaitResult : e = "E_RLWAI"
  BY <1>2
<1>4. Good(end_wait(released(t), t, e), {})
  BY <1>1, ReleasedGood
<1>. QED
  BY <1>1, <1>3, <1>4, NextGood

\* A timeout.
LEMMA WaitTimesOut ==
  ASSUME IInv, NEW t \in Task, timer_handler_event(t, released(t))
  PROVE  IInv'
<1>1. tcb[t].wtmeb /\ Becomes(end_wait(released(t), t, tcb[t].wercd))
  BY DEF timer_handler_event
<1>2. is_waiting(tcb[t].state) /\ tcb[t].wercd \in WaitResult
  BY <1>1, TaskFacts DEF Fits, TCBType
<1>3. Good(end_wait(released(t), t, tcb[t].wercd), {})
  BY <1>2, ReleasedGood
<1>. QED
  BY <1>1, <1>3, NextGood

\* The mask of wait prohibitions of t is set.
LEMMA GoodMask ==
  ASSUME NEW k, Good(k, {}), NEW t \in Task, NEW m \in SUBSET WaitFactor,
         NEW k2, k2 = [k EXCEPT !.tcb[t].waitmask = m]
  PROVE  Good(k2, {})
<1>1. k.tcb[t] \in TCBType
  BY LinksFacts DEF Good
<1>. DEFINE c == [k.tcb[t] EXCEPT !.waitmask = m]
<1>2. c \in TCBType /\ Alike(c, [k.tcb[t] EXCEPT !.waitmask = c.waitmask])
  BY <1>1 DEF TCBType, Alike
<1>3. k2 = [k EXCEPT !.tcb[t] = c]
  OBVIOUS
<1>. HIDE DEF c
<1>. QED
  BY <1>2, <1>3, GoodData

\* tk_dis_wai.
LEMMA DisableWait ==
  ASSUME IInv, NEW t \in Task, tk_dis_wai(t, {"SEM"}, released(t))
  PROVE  IInv'
<1>1. {"SEM"} \in SUBSET WaitFactor /\ "E_DISWAI" \in WaitResult
  BY DEF WaitFactor, WaitResult
<1>2. PICK k : /\ \/ k = Kernel
                  \/ is_waiting(tcb[t].state) /\ k = end_wait(released(t), t, "E_DISWAI")
               /\ Becomes([k EXCEPT !.tcb[t].waitmask = {"SEM"}])
  BY DEF tk_dis_wai
<1>3. Good(k, {})
  <2>1. CASE k = Kernel
    BY <2>1, TaskFacts
  <2>2. CASE is_waiting(tcb[t].state) /\ k = end_wait(released(t), t, "E_DISWAI")
    BY <1>1, <2>2, ReleasedGood
  <2>. QED
    BY <1>2, <2>1, <2>2
<1>4. PICK k2 : k2 = [k EXCEPT !.tcb[t].waitmask = {"SEM"}]
  OBVIOUS
<1>5. Good(k2, {})
  BY <1>1, <1>3, <1>4, GoodMask
<1>. QED
  BY <1>2, <1>4, <1>5, NextGood

\* tk_ena_wai.
LEMMA EnableWait ==
  ASSUME IInv, NEW t \in Task, tk_ena_wai(t)
  PROVE  IInv'
<1>1. Good(Kernel, {}) /\ {} \in SUBSET WaitFactor
  BY TaskFacts
<1>2. PICK k2 : k2 = [Kernel EXCEPT !.tcb[t].waitmask = {}]
  OBVIOUS
<1>3. Becomes(k2)
  BY <1>2 DEF tk_ena_wai
<1>4. Good(k2, {})
  BY <1>1, <1>2, GoodMask
<1>. QED
  BY <1>3, <1>4, NextGood

\* tk_sus_tsk: a waiting task waits on.
LEMMA SuspendTask ==
  ASSUME IInv, NEW t \in Task, tk_sus_tsk(t)
  PROVE  IInv'
<1>1. /\ Good(Kernel, {}) /\ KInv(Kernel) /\ tcb[t] \in TCBType /\ Fits(tcb[t])
      /\ Kernel.tcb = tcb
      /\ task_alive(tcb[t].state) /\ tcb[t].suscnt < MaxSus
  BY TaskFacts, KernelFields DEF tk_sus_tsk
<1>2. PICK k2 : k2 = suspend(Kernel, t)
  OBVIOUS
<1>3. Becomes(k2)
  BY <1>2 DEF tk_sus_tsk
<1>4. PICK c : c = SuspendedMore(Kernel.tcb[t])
  OBVIOUS
<1>5. /\ c.wtmeb = tcb[t].wtmeb /\ c.wid = tcb[t].wid /\ c.winfo = tcb[t].winfo
      /\ c.priority = tcb[t].priority
  BY <1>1, <1>4 DEF SuspendedMore, TCBType
<1>6. /\ KInv(k2) /\ Effect(Kernel, k2, t, c) /\ c.suscnt > 0
      /\ is_waiting(c.state) <=> is_waiting(tcb[t].state)
  BY <1>1, <1>2, <1>4, Suspend
<1>7. Fits(c)
  BY <1>1, <1>5, <1>6 DEF Fits
<1>8. Good(k2, {})
  BY <1>1, <1>5, <1>6, <1>7, GoodEffect
<1>. QED
  BY <1>3, <1>8, NextGood

\* tk_rsm_tsk: with the last resume a task is READY again, or goes on waiting.
LEMMA ResumeTask ==
  ASSUME IInv, NEW t \in Task, tk_rsm_tsk(t)
  PROVE  IInv'
<1>1. /\ Good(Kernel, {}) /\ KInv(Kernel) /\ tcb[t] \in TCBType /\ Fits(tcb[t])
      /\ Kernel.tcb = tcb /\ tcb[t].state \in {"SUSPEND", "WAITSUS"}
      /\ ~is_waiting(tcb[t].state) => Unqueued(Kernel, t)
  BY TaskFacts, KernelFields DEF tk_rsm_tsk
<1>2. tcb[t].suscnt \in Nat /\ tcb[t].suscnt > 0
  BY <1>1, TaskAssumption DEF TCBType, Fits
<1>3. PICK n \in Nat : n = tcb[t].suscnt - 1
  BY <1>2
<1>4. n < tcb[t].suscnt
  BY <1>2, <1>3
<1>5. PICK k2 : k2 = resume(Kernel, t, n)
  OBVIOUS
<1>6. Becomes(k2)
  BY <1>3, <1>5 DEF tk_rsm_tsk
<1>7. PICK c : c = ResumedTo(Kernel.tcb[t], n)
  OBVIOUS
<1>8. /\ c.wtmeb = tcb[t].wtmeb /\ c.wid = tcb[t].wid /\ c.winfo = tcb[t].winfo
      /\ c.priority = tcb[t].priority
  BY <1>1, <1>7 DEF ResumedTo, TCBType
<1>9. tcb[t].state = "SUSPEND" => Unqueued(Kernel, t)
  BY <1>1 DEF is_waiting
<1>10. /\ KInv(k2) /\ Effect(Kernel, k2, t, c) /\ c.suscnt = n
       /\ is_waiting(c.state) <=> is_waiting(tcb[t].state)
       /\ c.state \in {"SUSPEND", "WAITSUS"} <=> n > 0
  BY <1>1, <1>4, <1>5, <1>7, <1>9, Resume
<1>11. Fits(c)
  BY <1>1, <1>8, <1>10 DEF Fits
<1>12. Good(k2, {})
  BY <1>1, <1>8, <1>10, <1>11, GoodEffect
<1>. QED
  BY <1>6, <1>12, NextGood

-----------------------------------------------------------------------------
(* The dispatcher and the timer interrupt.                                 *)

\* The steps of the dispatcher and of timer_handler, but for the timeouts.
LEMMA SystemStep ==
  ASSUME IInv, \/ dispatch_entry \/ dispatch_save \/ dispatch_to
               \/ timer_handler_begin \/ timer_handler_end
  PROVE  IInv'
<1>1. Good(Kernel, {}) /\ Links(Kernel, {}) /\ KInv(Kernel) /\ IsKernel(Kernel)
      /\ Kernel.tcb \in [Task -> TCBType] /\ Kernel.schedtsk = schedtsk
  BY LinksFacts, KernelFields DEF IInv, Good
<1>2. CASE dispatch_entry \/ timer_handler_end
  BY <1>2 DEF dispatch_entry, timer_handler_end, kernvars, IInv, Kernel
<1>3. CASE dispatch_save
  <2>1. PICK k2 : k2 = [Kernel EXCEPT !.ctxtsk = NoTask]
    OBVIOUS
  <2>2. Becomes(k2)
    BY <1>3, <2>1 DEF dispatch_save, force_dispatch
  <2>3. Good(k2, {})
    BY <1>1, <2>1, GoodContext
  <2>. QED
    BY <2>2, <2>3, NextGood
<1>4. CASE dispatch_to
  <2>1. PICK t \in Task : t = schedtsk
    BY <1>1, <1>4 DEF dispatch_to, IsKernel
  <2>2. PICK k1 : k1 = [Kernel EXCEPT !.ctxtsk = t]
    OBVIOUS
  <2>3. Good(k1, {}) /\ k1.tcb = Kernel.tcb
    BY <1>1, <2>2, GoodContext
  <2>4. PICK c : c = [k1.tcb[t] EXCEPT !.wercd = "none"]
    OBVIOUS
  <2>5. k1.tcb[t] \in TCBType /\ "none" \in WaitResult
    BY <1>1, <2>3 DEF WaitResult
  <2>6. c \in TCBType /\ Alike(c, [k1.tcb[t] EXCEPT !.waitmask = c.waitmask])
    BY <2>4, <2>5 DEF TCBType, Alike
  <2>7. PICK k2 : k2 = [k1 EXCEPT !.tcb[t] = c]
    OBVIOUS
  <2>8. Good(k2, {})
    BY <2>3, <2>6, <2>7, GoodData
  <2>9. k2 = [Kernel EXCEPT !.ctxtsk = t, !.tcb[t].wercd = "none"]
    BY <2>2, <2>4, <2>7 DEF Kernel
  <2>10. Becomes(k2)
    BY <1>4, <2>1, <2>9 DEF dispatch_to
  <2>. QED
    BY <2>8, <2>10, NextGood
<1>5. CASE timer_handler_begin
  <2>1. PICK k2 : k2 = time_slice_tick(Kernel)
    OBVIOUS
  <2>2. Becomes(k2)
    BY <1>5, <2>1 DEF timer_handler_begin
  <2>3. KInv(k2) /\ AllAlike(Kernel, k2) /\ k2.obj = Kernel.obj /\ k2.wq = Kernel.wq
    BY <1>1, <2>1, TimeSliceTick DEF SameContext
  <2>4. Links(k2, {}) /\ \A s \in Sem : Settled(Kernel, s) => Settled(k2, s)
    BY <1>1, <2>3, KeepAlike
  <2>5. Good(k2, {})
    BY <1>1, <2>4 DEF Good
  <2>. QED
    BY <2>2, <2>5, NextGood
<1>. QED
  BY <1>2, <1>3, <1>4, <1>5

-----------------------------------------------------------------------------
(* The calls of semaphore.c.                                               *)

\* The control block of a semaphore that has just been created.
Fresh(atr, isemcnt, maxsem) ==
  [exists |-> TRUE, tpri |-> atr.tpri, cnt |-> atr.cnt, nodiswai |-> atr.nodiswai,
   semcnt |-> isemcnt, maxsem |-> maxsem]

\* What the invariant says of a semaphore.
LEMMA SemFacts ==
  ASSUME IInv, NEW s \in Sem
  PROVE  /\ Good(Kernel, {}) /\ Links(Kernel, {}) /\ KInv(Kernel)
         /\ OthersSettled(Kernel, s) /\ Settled(Kernel, s)
         /\ objcb[s] \in SemBlock /\ objcb[s].semcnt <= objcb[s].maxsem
         /\ Kernel.obj = objcb /\ Kernel.tcb = tcb
         /\ ~objcb[s].exists => Kernel.wq[s] = <<>>
<1>1. /\ Good(Kernel, {}) /\ Links(Kernel, {}) /\ KInv(Kernel) /\ Kernel.obj \in [Sem -> SemBlock]
      /\ \A r \in Sem : Settled(Kernel, r)
  BY LinksFacts DEF IInv, Good
<1>2. Kernel.obj[s].semcnt <= Kernel.obj[s].maxsem
  BY <1>1 DEF Links
<1>3. ~Kernel.obj[s].exists => Kernel.wq[s] = <<>>
  <2>1. Kernel.wq[s] = <<>> <=> ToSet(Kernel.wq[s]) = {}
    BY <1>1, LinksFacts
  <2>. QED
    BY <1>1, <2>1, InQueue
<1>. QED
  BY <1>1, <1>2, <1>3, KernelFields DEF OthersSettled

\* One settled semaphore and the others are all.
LEMMA AllSettled ==
  ASSUME NEW k, NEW X, Links(k, X), NEW s \in Sem, OthersSettled(k, s), Settled(k, s)
  PROVE  Good(k, X)
BY DEF Good, OthersSettled

\* An empty queue is settled.
LEMMA EmptySettled ==
  ASSUME NEW k, NEW s, k.wq[s] = <<>>
  PROVE  Settled(k, s)
BY EmptyQueue DEF Settled

\* tk_cre_sem.
LEMMA CreateSem ==
  ASSUME IInv, NEW s \in Sem, NEW a \in SemAtr, NEW i \in 0 .. MaxSem,
         tk_cre_sem(s, a, i, MaxSem)
  PROVE  IInv'
<1>1. /\ Links(Kernel, {}) /\ OthersSettled(Kernel, s) /\ Kernel.wq[s] = <<>>
  BY SemFacts DEF tk_cre_sem
<1>2. PICK o : o = Fresh(a, i, MaxSem)
  OBVIOUS
<1>3. o \in SemBlock /\ o.semcnt <= o.maxsem
  BY <1>2, SemAssumption DEF Fresh, SemBlock
<1>4. PICK k2 : k2 = PutSem(Kernel, s, o)
  OBVIOUS
<1>5. Becomes(k2)
  BY <1>2, <1>4 DEF tk_cre_sem, PutSem, Fresh
<1>6. Links(k2, {}) /\ OthersSettled(k2, s) /\ k2.wq = Kernel.wq
  <2>1. Replaces(Kernel, s, o)
    BY <1>1, <1>3 DEF Replaces
  <2>2. Links(k2, {}) /\ (OthersSettled(Kernel, s) => OthersSettled(k2, s))
    BY <1>1, <1>4, <2>1, SetSem
  <2>3. k2.wq = Kernel.wq
    BY <1>4 DEF PutSem, Kernel
  <2>. QED
    BY <1>1, <2>2, <2>3
<1>7. Good(k2, {})
  BY <1>1, <1>6, EmptySettled, AllSettled
<1>. QED
  BY <1>5, <1>7, NextGood

\* tk_del_sem.
LEMMA DeleteSem ==
  ASSUME IInv, NEW s \in Sem, tk_del_sem(s)
  PROVE  IInv'
<1>1. Links(Kernel, {}) /\ OthersSettled(Kernel, s)
  BY SemFacts
<1>2. PICK k1 : k1 = wait_delete(Kernel, s)
  OBVIOUS
<1>3. Links(k1, {}) /\ OthersSettled(k1, s) /\ k1.wq[s] = <<>>
  BY <1>1, <1>2, DeleteLoop
<1>4. PICK o : o = free_semcb
  OBVIOUS
<1>5. o \in SemBlock /\ o.semcnt <= o.maxsem
  BY <1>4 DEF free_semcb, SemBlock
<1>6. PICK k2 : k2 = PutSem(k1, s, o)
  OBVIOUS
<1>7. Becomes(k2)
  BY <1>2, <1>4, <1>6 DEF tk_del_sem, PutSem
<1>8. Links(k2, {}) /\ OthersSettled(k2, s) /\ k2.wq = k1.wq
  <2>1. Replaces(k1, s, o)
    BY <1>3, <1>5 DEF Replaces
  <2>2. Links(k2, {}) /\ (OthersSettled(k1, s) => OthersSettled(k2, s))
    BY <1>3, <1>6, <2>1, SetSem
  <2>3. k2.wq = k1.wq
    <3>1. IsKernel(k1)
      BY <1>3, LinksFacts
    <3>. QED
      BY <1>6, <3>1 DEF PutSem, IsKernel
  <2>. QED
    BY <1>3, <2>2, <2>3
<1>9. Good(k2, {})
  BY <1>3, <1>8, EmptySettled, AllSettled
<1>. QED
  BY <1>7, <1>9, NextGood

\* The control block with another count.
Counting(o, n) == [o EXCEPT !.semcnt = n]

\* It is still one.
LEMMA CountSem ==
  ASSUME NEW o \in SemBlock, NEW n \in Nat, n <= o.maxsem, NEW b, b = Counting(o, n)
  PROVE  /\ b \in SemBlock /\ b.semcnt <= b.maxsem /\ b.exists = o.exists
         /\ b.tpri = o.tpri /\ b.cnt = o.cnt /\ b.maxsem = o.maxsem /\ b.semcnt = n
BY DEF Counting, SemBlock

\* tk_sig_sem.
LEMMA SignalSem ==
  ASSUME IInv, NEW s \in Sem, NEW cnt \in 1 .. MaxSem, tk_sig_sem(s, cnt)
  PROVE  IInv'
<1>1. /\ Links(Kernel, {}) /\ OthersSettled(Kernel, s) /\ Kernel.obj = objcb
      /\ objcb[s] \in SemBlock /\ objcb[s].exists
      /\ cnt <= objcb[s].maxsem - objcb[s].semcnt
  BY SemFacts DEF tk_sig_sem
<1>2. PICK n \in Nat : n = objcb[s].semcnt + cnt
  BY <1>1, SemAssumption DEF SemBlock
<1>3. n <= objcb[s].maxsem
  BY <1>1, <1>2, SemAssumption DEF SemBlock
<1>4. PICK o : o = Counting(objcb[s], n)
  OBVIOUS
<1>5. /\ o \in SemBlock /\ o.semcnt <= o.maxsem /\ o.exists
      /\ o.tpri = Kernel.obj[s].tpri /\ o.maxsem = Kernel.obj[s].maxsem
  BY <1>1, <1>3, <1>4, CountSem
<1>6. PICK k1 : k1 = PutSem(Kernel, s, o)
  OBVIOUS
<1>7. Links(k1, {}) /\ OthersSettled(k1, s)
  <2>1. Replaces(Kernel, s, o)
    BY <1>5 DEF Replaces
  <2>. QED
    BY <1>1, <1>6, <2>1, SetSem
<1>8. k1 = [Kernel EXCEPT !.obj[s].semcnt = @ + cnt]
  BY <1>1, <1>2, <1>4, <1>6 DEF PutSem, Counting
<1>9. PICK stop \in BOOLEAN : stop = TRUE
  OBVIOUS
<1>10. PICK k2 : k2 = visit_queue(k1, s, k1.obj[s].cnt, stop)
  OBVIOUS
<1>11. Becomes(k2)
  BY <1>8, <1>9, <1>10 DEF tk_sig_sem, signal_loop
<1>12. Good(k2, {})
  BY <1>7, <1>10, VisitLoop DEF Looped
<1>. QED
  BY <1>11, <1>12, NextGood

\* t may not take n units: it is not its turn, or there are not as many.
Refused(k, s, t, n) ==
  ~(/\ \/ k.obj[s].cnt
       \/ gcb_top_of_wait_queue(k, s, t, k.obj[s].tpri) = t
    /\ k.obj[s].semcnt >= n)

\* The TCB c, asking for n units.
Asking(c, n) == [c EXCEPT !.winfo = n]

\* From k to k2 the task t has joined the queue of s, which is now q, for n units.
Enqueued(k, k2, s, t, n, q) ==
  /\ KInv(k2) /\ k2.obj = k.obj /\ k2.wq = [k.wq EXCEPT ![s] = q]
  /\ Joined(k, k.wq[s], q, t, k.obj[s].tpri)
  /\ \A u \in Task : u # t => Alike(k2.tcb[u], k.tcb[u])
  /\ Alike(k2.tcb[t], Asking(k.tcb[t], n))

\* A task that waits, but is in no queue, is put into one.
LEMMA Enqueue ==
  ASSUME NEW k, NEW t \in Task, Links(k, {t}), k.tcb[t].state = "WAIT", NEW s \in Sem,
         NEW n \in Nat,
         NEW k1, k1 = wait_queue_insert(k, s, t, k.obj[s].tpri),
         NEW k2, k2 = Put(k1, t, Asking(k1.tcb[t], n))
  PROVE  \E q : Enqueued(k, k2, s, t, n, q)
<1>1. KInv(k) /\ k.obj[s].tpri \in BOOLEAN /\ s \in WaitQueue /\ k.tcb[t] \in TCBType
  BY LinksFacts DEF SemBlock
<1>2. t \notin ToSet(k.wq[s]) /\ k.tcb[t].state # "READY"
  BY InQueue
<1>3. PICK q : Requeued(k, k1, s, q) /\ Joined(k, k.wq[s], q, t, k.obj[s].tpri)
  BY <1>1, <1>2, QueueUp
<1>4. PICK c : c = Asking(k.tcb[t], n)
  OBVIOUS
<1>5. c \in TCBType /\ c.state = "WAIT" /\ ~c.klocked /\ ~c.klockwait
  <2>1. ~k.tcb[t].klocked /\ ~k.tcb[t].klockwait
    BY <1>1, TaskBlock
  <2>. QED
    BY <1>1, <1>4, <2>1 DEF Asking, TCBType
<1>6. /\ KInv(k1) /\ k1.tcb[t].state = "WAIT" /\ k2 = [k1 EXCEPT !.tcb[t] = c]
  BY <1>3, <1>4 DEF Requeued, Put
<1>7. KInv(k2) /\ Effect(k1, k2, t, c)
  BY <1>5, <1>6, SetData
<1>8. Touch(k1, k2, t) /\ Alike(k2.tcb[t], c)
  BY <1>7, EffectTouch
<1>9. k2.obj = k.obj /\ k2.wq = [k.wq EXCEPT ![s] = q]
  BY <1>3, <1>8 DEF Requeued, Touch, SameContext
<1>10. \A u \in Task : u # t => Alike(k2.tcb[u], k.tcb[u])
  BY <1>3, <1>8 DEF Requeued, Touch
<1>11. Enqueued(k, k2, s, t, n, q)
  BY <1>3, <1>4, <1>7, <1>8, <1>9, <1>10 DEF Enqueued
<1>. QED
  BY <1>11

\* With its request refused, the semaphore stays settled.
LEMMA EnqueuedGood ==
  ASSUME NEW k, NEW t \in Task, Links(k, {t}), NEW s \in Sem,
         k.tcb[t].state = "WAIT", k.tcb[t].wid = s, Fits(k.tcb[t]),
         Settled(k, s), OthersSettled(k, s),
         k.obj[s].exists, NEW n \in 1 .. k.obj[s].maxsem, n \in Nat, Refused(k, s, t, n),
         NEW k2, NEW q, Enqueued(k, k2, s, t, n, q)
  PROVE  Good(k2, {})
<1>1. PICK r : r = k.wq[s]
  OBVIOUS
<1>2. /\ r \in Queue /\ r \in Seq(Task) /\ ToSet(r) \subseteq Task /\ k.wq \in [Sem -> Seq(Task)]
      /\ k.tcb[t] \in TCBType /\ k.obj[s].semcnt \in Nat /\ t \notin ToSet(r)
      /\ r # <<>> => Head(r) \in ToSet(r)
  BY <1>1, LinksFacts, InQueue DEF SemBlock, Queue
<1>3. /\ KInv(k2) /\ k2.obj = k.obj /\ k2.wq = [k.wq EXCEPT ![s] = q]
      /\ \A u \in Task : u # t => Alike(k2.tcb[u], k.tcb[u])
      /\ Alike(k2.tcb[t], Asking(k.tcb[t], n))
  BY DEF Enqueued
<1>4. /\ q \in Queue /\ ToSet(q) = ToSet(r) \cup {t} /\ q # <<>>
      /\ k.obj[s].tpri /\ Sorted(k, r) => Sorted(k, q)
      /\ Head(q) = IF ComesFirst(k, r, t, k.obj[s].tpri) THEN t ELSE Head(r)
  BY <1>1 DEF Enqueued, Joined
<1>5. /\ k2.tcb[t].state = "WAIT" /\ k2.tcb[t].wid = s /\ k2.tcb[t].winfo = n
      /\ k2.tcb[t].priority = k.tcb[t].priority /\ k2.tcb[t].wtmeb = k.tcb[t].wtmeb
  BY <1>2, <1>3 DEF Alike, Asking, TCBType
<1>6. ~Stands(k, {t}, t) /\ Stands(k2, {}, t) /\ Fits(k2.tcb[t])
  BY <1>5 DEF Stands, Fits, is_waiting
<1>7. k.obj[s].tpri => Sorted(k2, q)
  <2>1. k.obj[s].tpri => Sorted(k, q)
    BY <1>1, <1>4 DEF Links, QueueRight
  <2>2. q \in Seq(Task) /\ ToSet(q) \subseteq Task
    BY <1>2, <1>4 DEF Queue
  <2>3. \A u \in ToSet(q) : k2.tcb[u].priority = k.tcb[u].priority
    BY <1>3, <1>5, <2>2 DEF Alike
  <2>. QED
    BY <2>1, <2>2, <2>3, SortedStays
<1>8. Links(k2, {}) /\ (OthersSettled(k, s) => OthersSettled(k2, s))
  <2>1. ToSet(q) = ToSet(k.wq[s]) \cup {t}
    BY <1>1, <1>4
  <2>2. k2.tcb[t].winfo \in 1 .. k.obj[s].maxsem
    BY <1>5
  <2>3. \A u \in Task : u # t => Alike(k2.tcb[u], k.tcb[u]) /\ (u \in {t} <=> u \in {})
    BY <1>3
  <2>4. k2.obj = k.obj /\ k2.wq = [k.wq EXCEPT ![s] = q] /\ k2.tcb[t].wid = s
    BY <1>3, <1>5
  <2>. QED
    BY <1>3, <1>6, <1>7, <2>1, <2>2, <2>3, <2>4, Join
<1>9. \A u \in ToSet(r) : TooMuch(k, s, u) => TooMuch(k2, s, u)
  <2>1. SUFFICES ASSUME NEW u \in ToSet(r) PROVE TooMuch(k, s, u) => TooMuch(k2, s, u)
    OBVIOUS
  <2>2. u \in Task /\ u # t
    BY <1>2
  <2>3. k2.tcb[u].winfo = k.tcb[u].winfo
    BY <1>3, <2>2 DEF Alike
  <2>. QED
    BY <1>3, <2>3 DEF TooMuch
<1>10. k2.wq[s] = q
  BY <1>2, <1>3
<1>11. CASE k.obj[s].semcnt < n
  <2>1. TooMuch(k2, s, t)
    BY <1>2, <1>3, <1>5, <1>11 DEF TooMuch
  <2>2. r = <<>> => ComesFirst(k, r, t, k.obj[s].tpri)
    BY DEF ComesFirst
  <2>3. TooMuch(k2, s, Head(q))
    BY <1>1, <1>2, <1>4, <1>9, <2>1, <2>2 DEF Settled
  <2>4. k.obj[s].cnt => \A u \in ToSet(q) : TooMuch(k2, s, u)
    BY <1>1, <1>4, <1>9, <2>1 DEF Settled
  <2>5. Settled(k2, s)
    BY <1>3, <1>10, <2>3, <2>4 DEF Settled
  <2>. QED
    BY <1>8, <2>5, AllSettled
<1>12. CASE ~(k.obj[s].semcnt < n)
  <2>1. ~k.obj[s].cnt /\ gcb_top_of_wait_queue(k, s, t, k.obj[s].tpri) # t
    BY <1>2, <1>12 DEF Refused
  <2>2. r # <<>> /\ ~(k.obj[s].tpri /\ k.tcb[t].priority < k.tcb[Head(r)].priority)
    BY <1>1, <2>1 DEF gcb_top_of_wait_queue
  <2>3. ~ComesFirst(k, r, t, k.obj[s].tpri)
    BY <2>2 DEF ComesFirst
  <2>4. TooMuch(k2, s, Head(q))
    BY <1>1, <1>2, <1>4, <1>9, <2>2, <2>3 DEF Settled
  <2>5. Settled(k2, s)
    BY <1>3, <1>10, <2>1, <2>4 DEF Settled
  <2>. QED
    BY <1>8, <2>5, AllSettled
<1>. QED
  BY <1>11, <1>12

\* The task that makes a blocking call is running.
LEMMA CallerFacts ==
  ASSUME IInv, CHECK_DISPATCH
  PROVE  ctxtsk \in Task /\ tcb[ctxtsk].state = "READY"
<1>1. ctxtsk # NoTask /\ ctxtsk = schedtsk
  BY DEF CHECK_DISPATCH, in_task, DDS_ENABLE, DDS_DISABLE
<1>2. Queued(Kernel, {}) /\ KInv(Kernel)
  BY LinksFacts DEF IInv, Good
<1>3. schedtsk = ready_queue_top(Kernel)
  BY <1>2, KernelFields DEF KInv
<1>4. schedtsk \in Task /\ Kernel.tcb[schedtsk].state = "READY"
  BY <1>1, <1>2, <1>3, Top
<1>. QED
  BY <1>1, <1>4, KernelFields

\* A running task whose request is refused waits for it.
LEMMA BlockedGood ==
  ASSUME NEW k, Good(k, {}), NEW t \in Task, k.ctxtsk = t, k.tcb[t].state = "READY",
         NEW s \in Sem, k.obj[s].exists, NEW n \in 1 .. k.obj[s].maxsem, n \in Nat,
         Refused(k, s, t, n), NEW fac \in SUBSET WaitFactor, NEW tmout \in TMO,
         NEW k1, k1 = make_wait(k, fac, s, tmout, k.obj[s].nodiswai),
         NEW k2, k2 = wait_queue_insert(k1, s, t, k.obj[s].tpri),
         NEW k3, k3 = Put(k2, t, Asking(k2.tcb[t], n))
  PROVE  Good(k3, {})
<1>1. /\ Links(k, {}) /\ KInv(k) /\ k.tcb[t] \in TCBType /\ Settled(k, s) /\ OthersSettled(k, s)
      /\ k.obj[s].nodiswai \in BOOLEAN /\ s \in WaitQueue \cup {NoQueue}
      /\ ToSet(k.wq[s]) \subseteq Task
      /\ k.wq[s] # <<>> => Head(k.wq[s]) \in ToSet(k.wq[s])
  BY LinksFacts DEF Good, OthersSettled, SemBlock
<1>2. PICK c : c = Blocked(k.tcb[t], fac, s, tmout, k.obj[s].nodiswai)
  OBVIOUS
<1>3. c.wid = s
  BY <1>1, <1>2 DEF Blocked, TCBType
<1>4. /\ KInv(k1) /\ Effect(k, k1, t, c) /\ c.state = "WAIT" /\ c.priority = k.tcb[t].priority
  BY <1>1, <1>2, MakeWait
<1>5. Touch(k, k1, t) /\ Alike(k1.tcb[t], c)
  BY <1>4, EffectTouch
<1>6. k1.wq = k.wq /\ k1.obj = k.obj
  BY <1>5 DEF Touch, SameContext
<1>7. k1.tcb[t].state = "WAIT" /\ k1.tcb[t].wid = s /\ k1.tcb[t].priority = k.tcb[t].priority
  BY <1>3, <1>4, <1>5 DEF Alike
<1>8. Fits(k1.tcb[t]) /\ Steady(k, {}, k1, {t}, t)
  BY <1>7 DEF Fits, Steady, Stands, is_waiting
<1>9. Links(k1, {t}) /\ \A r \in Sem : Settled(k, r) => Settled(k1, r)
  <2>1. \A u \in Task : u # t => (u \in {} <=> u \in {t})
    OBVIOUS
  <2>. QED
    BY <1>1, <1>4, <1>5, <1>8, <2>1, KeepTouch
<1>10. Settled(k1, s) /\ OthersSettled(k1, s)
  BY <1>1, <1>9 DEF OthersSettled
<1>11. Refused(k1, s, t, n)
  <2>1. k1.wq[s] # <<>> => k1.tcb[Head(k1.wq[s])].priority = k.tcb[Head(k.wq[s])].priority
    <3>1. \A u \in Task : k1.tcb[u].priority = k.tcb[u].priority
      BY <1>5, <1>7 DEF Touch, Alike
    <3>2. k.wq[s] # <<>> => Head(k.wq[s]) \in Task
      BY <1>1
    <3>. QED
      BY <1>6, <3>1, <3>2
  <2>2. gcb_top_of_wait_queue(k1, s, t, k1.obj[s].tpri)
          = gcb_top_of_wait_queue(k, s, t, k.obj[s].tpri)
    BY <1>6, <1>7, <2>1 DEF gcb_top_of_wait_queue
  <2>. QED
    BY <1>6, <2>2 DEF Refused
<1>12. PICK q : Enqueued(k1, k3, s, t, n, q)
  <2>1. k2 = wait_queue_insert(k1, s, t, k1.obj[s].tpri)
    BY <1>6
  <2>. QED
    BY <1>7, <1>9, <2>1, Enqueue
<1>13. k1.obj[s].exists /\ n \in 1 .. k1.obj[s].maxsem
  BY <1>6
<1>. QED
  BY <1>7, <1>8, <1>9, <1>10, <1>11, <1>12, <1>13, EnqueuedGood

\* Units that are there are taken.
LEMMA TakenGood ==
  ASSUME NEW k, Good(k, {}), NEW s \in Sem, NEW n \in Nat, k.obj[s].semcnt >= n,
         NEW k2, k2 = PutSem(k, s, Counting(k.obj[s], k.obj[s].semcnt - n))
  PROVE  Good(k2, {})
<1>1. /\ Links(k, {}) /\ Settled(k, s) /\ OthersSettled(k, s) /\ k.obj[s] \in SemBlock
      /\ k.obj[s].semcnt <= k.obj[s].maxsem
      /\ ToSet(k.wq[s]) \subseteq Task /\ k.obj \in [Sem -> SemBlock]
      /\ k.wq[s] # <<>> => Head(k.wq[s]) \in ToSet(k.wq[s])
  <2>1. Links(k, {}) /\ Settled(k, s) /\ OthersSettled(k, s)
    BY DEF Good, OthersSettled
  <2>2. k.obj[s].semcnt <= k.obj[s].maxsem
    BY <2>1 DEF Links
  <2>. QED
    BY <2>1, <2>2, LinksFacts
<1>2. PICK m \in Nat : m = k.obj[s].semcnt - n /\ m <= k.obj[s].semcnt
  <2>1. k.obj[s].semcnt \in Nat
    BY <1>1 DEF SemBlock
  <2>2. k.obj[s].semcnt - n \in Nat /\ k.obj[s].semcnt - n <= k.obj[s].semcnt
    BY <2>1
  <2>. QED
    BY <2>2
<1>3. m <= k.obj[s].maxsem
  BY <1>1, <1>2 DEF SemBlock
<1>4. PICK o : o = Counting(k.obj[s], m)
  OBVIOUS
<1>5. /\ o \in SemBlock /\ o.semcnt <= o.maxsem /\ o.exists = k.obj[s].exists
      /\ o.tpri = k.obj[s].tpri /\ o.cnt = k.obj[s].cnt /\ o.maxsem = k.obj[s].maxsem
      /\ o.semcnt = m
  BY <1>1, <1>3, <1>4, CountSem
<1>6. Replaces(k, s, o)
  <2>1. k.wq[s] # <<>> => k.obj[s].exists
    BY <1>1, InQueue
  <2>. QED
    BY <1>5, <2>1 DEF Replaces
<1>7. k2 = PutSem(k, s, o)
  BY <1>2, <1>4
<1>8. Links(k2, {}) /\ (OthersSettled(k, s) => OthersSettled(k2, s))
  BY <1>1, <1>6, <1>7, SetSem
<1>9. k2.tcb = k.tcb /\ k2.wq = k.wq /\ k2.obj[s] = o
  <2>1. IsKernel(k)
    BY <1>1, LinksFacts
  <2>. QED
    BY <1>1, <1>7, <2>1 DEF PutSem, IsKernel
<1>10. \A u \in ToSet(k.wq[s]) : TooMuch(k, s, u) => TooMuch(k2, s, u)
  <2>1. SUFFICES ASSUME NEW u \in ToSet(k.wq[s]), TooMuch(k, s, u) PROVE TooMuch(k2, s, u)
    OBVIOUS
  <2>2. k.tcb[u].winfo \in Nat
    BY <1>1, InQueue
  <2>. QED
    BY <1>1, <1>2, <1>5, <1>9, <2>1, <2>2 DEF TooMuch, SemBlock
<1>11. Settled(k2, s)
  BY <1>1, <1>5, <1>9, <1>10 DEF Settled
<1>. QED
  BY <1>1, <1>8, <1>11, AllSettled

\* tk_wai_sem.
LEMMA WaitSem ==
  ASSUME IInv, NEW s \in Sem, NEW cnt \in 1 .. MaxSem, NEW tmout \in SemTmo,
         tk_wai_sem(s, cnt, tmout)
  PROVE  IInv'
<1>1. PICK t : t = ctxtsk
  OBVIOUS
<1>2. t \in Task /\ tcb[t].state = "READY"
  BY <1>1, CallerFacts DEF tk_wai_sem
<1>3. /\ Good(Kernel, {}) /\ Kernel.ctxtsk = t /\ Kernel.tcb = tcb /\ Kernel.obj = objcb
      /\ objcb[s] \in SemBlock /\ objcb[s].exists /\ cnt <= objcb[s].maxsem /\ cnt \in Nat
      /\ cnt \in 1 .. objcb[s].maxsem /\ tmout \in TMO
  BY <1>1, SemFacts, KernelFields, SemAssumption DEF tk_wai_sem, SemBlock
<1>4. CASE ~Refused(Kernel, s, t, cnt)
  <2>1. PICK k2 : k2 = PutSem(Kernel, s, Counting(Kernel.obj[s], Kernel.obj[s].semcnt - cnt))
    OBVIOUS
  <2>2. Kernel.obj[s].semcnt >= cnt
    BY <1>4 DEF Refused
  <2>3. k2 = [Kernel EXCEPT !.obj[s].semcnt = @ - cnt]
    BY <1>3, <2>1 DEF PutSem, Counting
  <2>4. Becomes(k2)
    BY <1>1, <1>3, <1>4, <2>3 DEF tk_wai_sem, Refused, END_CRITICAL_SECTION
  <2>5. Good(k2, {})
    BY <1>3, <2>1, <2>2, TakenGood
  <2>. QED
    BY <2>4, <2>5, NextGood
<1>5. CASE Refused(Kernel, s, t, cnt) /\ tmout = "TMO_POL"
  <2>1. Becomes(Kernel)
    BY <1>1, <1>3, <1>5 DEF tk_wai_sem, Refused, END_CRITICAL_SECTION
  <2>. QED
    BY <1>3, <2>1, NextGood
<1>6. CASE Refused(Kernel, s, t, cnt) /\ tmout # "TMO_POL"
  <2>1. PICK k1 : k1 = make_wait(Kernel, {"SEM"}, s, tmout, Kernel.obj[s].nodiswai)
    OBVIOUS
  <2>2. PICK k2 : k2 = wait_queue_insert(k1, s, t, Kernel.obj[s].tpri)
    OBVIOUS
  <2>3. PICK k3 : k3 = Put(k2, t, Asking(k2.tcb[t], cnt))
    OBVIOUS
  <2>4. ~is_diswai(Kernel, t, {"SEM"}, objcb[s].nodiswai)
    BY <1>1 DEF tk_wai_sem
  <2>5. gcb_make_wait_with_diswai(Kernel, {"SEM"}, s, tmout, objcb[s].tpri, objcb[s].nodiswai)
          = k2
    BY <1>3, <1>6, <2>1, <2>2, <2>4 DEF gcb_make_wait_with_diswai, gcb_make_wait
  <2>6. k3 = [k2 EXCEPT !.tcb[t].winfo = cnt]
    BY <2>3 DEF Put, Asking
  <2>7. Becomes(k3)
    BY <1>1, <1>3, <1>6, <2>5, <2>6 DEF tk_wai_sem, Refused, END_CRITICAL_SECTION
  <2>8. {"SEM"} \in SUBSET WaitFactor
    BY DEF WaitFactor
  <2>9. Good(k3, {})
    BY <1>2, <1>3, <1>6, <2>1, <2>2, <2>3, <2>8, BlockedGood
  <2>. QED
    BY <2>7, <2>9, NextGood
<1>. QED
  BY <1>4, <1>5, <1>6

\* The TCB c differs from d in nothing a wait for a semaphore depends on but its priority.
SameWait(c, d) ==
  /\ c.state = d.state /\ c.wid = d.wid /\ c.winfo = d.winfo
  /\ c.wtmeb = d.wtmeb /\ c.suscnt = d.suscnt

\* From k to k2 the waiting task t has got its place in the queue of s again.
Reordered(k, k2, s) ==
  /\ Links(k2, {}) /\ OthersSettled(k2, s) /\ k2.obj = k.obj
  /\ k.obj[s].cnt => Settled(k2, s)

\* A waiting task that has got another priority leaves the queue and joins it again.
LEMMA Reorder ==
  ASSUME NEW k, Good(k, {}), NEW t \in Task, is_waiting(k.tcb[t].state),
         NEW s \in Sem, s = k.tcb[t].wid,
         NEW k1, NEW c, KInv(k1), Effect(k, k1, t, c), SameWait(c, k.tcb[t]),
         NEW k2, k2 = QueRemove(k1, t),
         NEW k3, k3 = queue_insert_tpri(k2, s, t)
  PROVE  Reordered(k, k3, s)
<1>1. /\ Links(k, {}) /\ t \in ToSet(k.wq[s]) /\ Fits(k.tcb[t]) /\ Settled(k, s)
      /\ \A r \in Sem : r # s => Settled(k, r) /\ t \notin ToSet(k.wq[r])
      /\ s \in WaitQueue
  <2>1. Links(k, {}) /\ \A r \in Sem : Settled(k, r)
    BY DEF Good
  <2>2. Stands(k, {}, t)
    BY DEF Stands
  <2>3. t \in ToSet(k.wq[s]) /\ \A r \in Sem : t \in ToSet(k.wq[r]) => k.tcb[t].wid = r
    BY <2>1, <2>2, WaitingQueued
  <2>4. Fits(k.tcb[t])
    BY <2>1 DEF Links
  <2>5. s \in WaitQueue
    BY <2>1, LinksFacts
  <2>. QED
    BY <2>1, <2>3, <2>4, <2>5
<1>2. k1.tcb[t].state # "READY" /\ SameWait(k1.tcb[t], k.tcb[t])
  <2>1. Alike(k1.tcb[t], c)
    BY EffectTouch
  <2>. QED
    BY <2>1 DEF SameWait, Alike, is_waiting
<1>3. PICK d : d = k1.tcb[t]
  OBVIOUS
<1>4. KInv(k2) /\ Unlink(k1, k2, t, d) /\ Unqueued(k2, t) /\ k2.tcb = k1.tcb
  BY <1>2, <1>3, QueRemoveWaiting
<1>5. Unlink(k, k2, t, d)
  BY <1>4, UnlinkEffect
<1>6. Fits(d) /\ SameWait(d, k.tcb[t])
  BY <1>1, <1>2, <1>3 DEF Fits, SameWait
<1>7. /\ Links(k2, {t})
      /\ \A r \in Sem : Settled(k, r) /\ (t \notin ToSet(k.wq[r]) \/ k.obj[r].cnt)
                          => Settled(k2, r)
  <2>1. \A u \in Task : u # t => (u \in {} <=> u \in {t})
    OBVIOUS
  <2>2. t \in {t} \/ ~is_waiting(d.state)
    OBVIOUS
  <2>. QED
    BY <1>1, <1>4, <1>5, <1>6, <2>1, <2>2, Leave
<1>8. OthersSettled(k2, s) /\ (k.obj[s].cnt => Settled(k2, s))
  BY <1>1, <1>7 DEF OthersSettled
<1>9. k2.obj = k.obj /\ k2.tcb[t] = d /\ t \notin ToSet(k2.wq[s])
  BY <1>1, <1>3, <1>4, <1>5 DEF Unlink, Unqueued
<1>10. PICK yes \in BOOLEAN : yes = TRUE
  OBVIOUS
<1>11. k3 = wait_queue_insert(k2, s, t, yes)
  BY <1>10 DEF wait_queue_insert
<1>12. PICK q : Requeued(k2, k3, s, q) /\ Joined(k2, k2.wq[s], q, t, yes)
  BY <1>1, <1>2, <1>3, <1>4, <1>9, <1>11, QueueUp
<1>13. /\ KInv(k3) /\ k3.tcb = k2.tcb /\ k3.obj = k2.obj
       /\ k3.wq = [k2.wq EXCEPT ![s] = q]
       /\ q \in Queue /\ ToSet(q) = ToSet(k2.wq[s]) \cup {t} /\ q # <<>>
       /\ Sorted(k2, k2.wq[s]) => Sorted(k2, q)
  BY <1>10, <1>12 DEF Requeued, Joined
<1>14. /\ k3.tcb[t].wid = s /\ Fits(k3.tcb[t]) /\ is_waiting(k3.tcb[t].state)
       /\ k3.tcb[t].winfo = k.tcb[t].winfo
  BY <1>6, <1>9, <1>13 DEF SameWait
<1>15. ~Stands(k2, {t}, t) /\ Stands(k3, {}, t)
  BY <1>14 DEF Stands
<1>16. k2.obj[s].tpri => Sorted(k3, q)
  <2>1. k2.obj[s].tpri => Sorted(k2, k2.wq[s])
    BY <1>7 DEF Links, QueueRight
  <2>. QED
    BY <1>13, <2>1 DEF Sorted
<1>17. k2.obj[s].exists /\ k3.tcb[t].winfo \in 1 .. k2.obj[s].maxsem
  BY <1>1, <1>9, <1>14, InQueue
<1>18. Links(k3, {}) /\ (OthersSettled(k2, s) => OthersSettled(k3, s))
  <2>1. \A u \in Task : u # t => Alike(k3.tcb[u], k2.tcb[u]) /\ (u \in {t} <=> u \in {})
    BY <1>13 DEF Alike
  <2>. QED
    BY <1>7, <1>13, <1>14, <1>15, <1>16, <1>17, <2>1, Join
<1>19. ASSUME k.obj[s].cnt PROVE Settled(k3, s)
  <2>1. k3.wq[s] = q
    BY <1>7, <1>13, LinksFacts
  <2>2. TooMuch(k3, s, t)
    BY <1>1, <1>9, <1>13, <1>14, <1>19 DEF Settled, TooMuch
  <2>3. \A u \in ToSet(k2.wq[s]) : TooMuch(k3, s, u)
    BY <1>8, <1>9, <1>13, <1>19 DEF Settled, TooMuch
  <2>4. Head(q) \in ToSet(q)
    BY <1>13, QueueTail
  <2>. QED
    BY <1>13, <2>1, <2>2, <2>3, <2>4 DEF Settled
<1>. QED
  BY <1>8, <1>9, <1>13, <1>18, <1>19 DEF Reordered

\* What tk_chg_pri leaves in the TCB of a task, as far as waits depend on it.
LEMMA RepriFacts ==
  ASSUME NEW c \in TCBType, NEW p \in Pri, NEW d, d = Reprioritised(c, p)
  PROVE  SameWait(d, c) /\ d.priority = p
BY DEF Reprioritised, SameWait, TCBType

\* tk_chg_pri: a task that waits in priority order changes its place, and the tasks
\* that can go on then are let go.
LEMMA ChangePriority ==
  ASSUME IInv, NEW t \in Task, NEW p \in Pri, tk_chg_pri_sem(t, p)
  PROVE  IInv'
<1>1. /\ Good(Kernel, {}) /\ KInv(Kernel) /\ tcb[t] \in TCBType /\ Fits(tcb[t])
      /\ Kernel.tcb = tcb /\ Kernel.obj = objcb
  BY TaskFacts, KernelFields
<1>2. PICK c : c = Reprioritised(Kernel.tcb[t], p)
  OBVIOUS
<1>3. PICK k1 : k1 = change_task_priority([Kernel EXCEPT !.tcb[t].bpriority = p], t, p)
  OBVIOUS
<1>4. KInv(k1) /\ Effect(Kernel, k1, t, c)
  BY <1>1, <1>2, <1>3, ChangeTaskPriority
<1>5. SameWait(c, tcb[t])
  BY <1>1, <1>2, RepriFacts
<1>6. /\ Becomes(IF is_waiting(tcb[t].state)
                 THEN sem_chg_pri_hook(k1, t, tcb[t].priority) ELSE k1)
  BY <1>3 DEF tk_chg_pri_sem
<1>7. k1.tcb[t].wid = tcb[t].wid /\ k1.obj = objcb
  <2>1. Alike(k1.tcb[t], c) /\ Touch(Kernel, k1, t)
    BY <1>4, EffectTouch
  <2>. QED
    BY <1>1, <1>5, <2>1 DEF Alike, SameWait, Touch, SameContext
<1>8. PICK s : s = tcb[t].wid
  OBVIOUS
<1>9. CASE ~(is_waiting(tcb[t].state) /\ objcb[s].tpri)
  <2>1. Becomes(k1)
    BY <1>6, <1>7, <1>8, <1>9 DEF sem_chg_pri_hook
  <2>2. Fits(c)
    BY <1>1, <1>5 DEF Fits, SameWait
  <2>3. /\ is_waiting(c.state) <=> is_waiting(Kernel.tcb[t].state)
        /\ is_waiting(c.state) =>
             /\ c.wid = Kernel.tcb[t].wid /\ c.winfo = Kernel.tcb[t].winfo
             /\ Kernel.obj[Kernel.tcb[t].wid].tpri => c.priority = Kernel.tcb[t].priority
    BY <1>1, <1>5, <1>8, <1>9 DEF SameWait
  <2>4. Good(k1, {})
    BY <1>1, <1>4, <2>2, <2>3, GoodEffect
  <2>. QED
    BY <2>1, <2>4, NextGood
<1>10. CASE is_waiting(tcb[t].state) /\ objcb[s].tpri
  <2>1. s \in Sem
    BY <1>1, <1>8, <1>10 DEF Fits
  <2>2. PICK k2 : k2 = QueRemove(k1, t)
    OBVIOUS
  <2>3. PICK k3 : k3 = queue_insert_tpri(k2, s, t)
    OBVIOUS
  <2>4. tcb[t].priority >= 0
    BY <1>1, TaskAssumption DEF TCBType, Pri
  <2>5. Becomes(IF objcb[s].cnt THEN k3 ELSE sem_release(k3, s))
    BY <1>6, <1>7, <1>8, <1>10, <2>2, <2>3, <2>4
       DEF sem_chg_pri_hook, sem_chg_pri, gcb_change_priority
  <2>6. Reordered(Kernel, k3, s)
    BY <1>1, <1>4, <1>5, <1>8, <1>10, <2>1, <2>2, <2>3, Reorder
  <2>7. /\ Links(k3, {}) /\ OthersSettled(k3, s) /\ k3.obj = objcb
        /\ objcb[s].cnt => Settled(k3, s)
    BY <1>1, <2>6 DEF Reordered
  <2>8. CASE objcb[s].cnt
    <3>1. Becomes(k3)
      BY <2>5, <2>8
    <3>2. Good(k3, {})
      BY <2>1, <2>7, <2>8, AllSettled
    <3>. QED
      BY <3>1, <3>2, NextGood
  <2>9. CASE ~objcb[s].cnt
    <3>1. k3.obj[s].cnt = FALSE
      BY <2>1, <2>7, <2>9, LinksFacts DEF SemBlock
    <3>2. PICK k4 : k4 = visit_queue(k3, s, k3.obj[s].cnt, FALSE)
      OBVIOUS
    <3>3. Becomes(k4)
      BY <2>5, <2>9, <3>1, <3>2 DEF sem_release
    <3>4. Looped(k3, k4, {}, s)
      BY <2>1, <2>7, <3>2, VisitLoop
    <3>5. Good(k4, {})
      BY <3>4 DEF Looped
    <3>. QED
      BY <3>3, <3>5, NextGood
  <2>. QED
    BY <2>8, <2>9
<1>. QED
  BY <1>9, <1>10

-----------------------------------------------------------------------------
(* The inductive invariant.                                                *)

\* After the boot there is no semaphore, and nobody waits.
LEMMA Start ==
  ASSUME SemInit
  PROVE  IInv
<1>. DEFINE blank == [s \in Sem |-> free_semcb]
<1>1. InitTask \in Task /\ InitPri \in [Task -> Pri] /\ WaitQueue = Sem
  BY SemAssumption
<1>2. PICK created \in SUBSET Task : created = Task
  OBVIOUS
<1>3. PICK k0 : k0 = create_all(task_initialize, created, InitPri)
  OBVIOUS
<1>4. PICK k1 : k1 = make_ready(k0, InitTask)
  OBVIOUS
<1>ob. PICK ob : ob = blank
  OBVIOUS
<1>5. PICK k2 : k2 = [k1 EXCEPT !.obj = ob]
  OBVIOUS
<1>6. /\ tcb = k1.tcb /\ ready_queue = k1.rq /\ wait_queue = k1.wq
      /\ schedtsk = k1.schedtsk /\ ctxtsk = k1.ctxtsk /\ objcb = ob
  BY <1>2, <1>3, <1>4, <1>ob DEF SemInit, t_kernel_main
<1>. HIDE DEF blank
<1>7. Booted(k0, created)
  BY <1>1, <1>3, Boot
<1>8. /\ KInv(k0) /\ k0.wq = [w \in WaitQueue |-> <<>>] /\ Unqueued(k0, InitTask)
      /\ \A u \in Task : k0.tcb[u].state = "DORMANT" /\ k0.tcb[u].suscnt = 0 /\ ~k0.tcb[u].wtmeb
  BY <1>1, <1>2, <1>7 DEF Booted
<1>9. PICK c : c = [k0.tcb[InitTask] EXCEPT !.state = "READY"]
  OBVIOUS
<1>10. c.state = "READY" /\ ~c.wtmeb
  BY <1>1, <1>8, <1>9, TaskBlock DEF TCBType
<1>11. KInv(k1) /\ Effect(k0, k1, InitTask, c)
  BY <1>1, <1>4, <1>8, <1>9, MakeReady
<1>12. Touch(k0, k1, InitTask) /\ Alike(k1.tcb[InitTask], c)
  BY <1>1, <1>11, EffectTouch
<1>13. \A u \in Task : /\ k1.tcb[u].state \in {"READY", "DORMANT"}
                       /\ ~k1.tcb[u].wtmeb
  <2>1. SUFFICES ASSUME NEW u \in Task
                 PROVE  k1.tcb[u].state \in {"READY", "DORMANT"} /\ ~k1.tcb[u].wtmeb
    OBVIOUS
  <2>2. CASE u = InitTask
    BY <1>10, <1>12, <2>2 DEF Alike
  <2>3. CASE u # InitTask
    BY <1>8, <1>12, <2>3 DEF Touch, Alike
  <2>. QED
    BY <2>2, <2>3
<1>14. KInv(k2) /\ k2.tcb = k1.tcb /\ k2.wq = k1.wq /\ k2.obj = ob
  <2>1. KInv(k1) /\ IsKernel(k1)
    BY <1>11 DEF KInv, Queued
  <2>2. KInv(k2)
    BY <1>5, <2>1, SetObjects
  <2>3. k2.tcb = k1.tcb /\ k2.wq = k1.wq /\ k2.obj = ob
    BY <1>5, <2>1 DEF IsKernel
  <2>. QED
    BY <2>2, <2>3
<1>15. Kernel = k2
  BY <1>5, <1>6, <1>11 DEF Kernel, KInv, Queued, IsKernel
<1>16. \A s \in Sem : k2.wq[s] = <<>>
  BY <1>1, <1>8, <1>12, <1>14 DEF Touch, SameContext
<1>17. \A u \in Task : Fits(k2.tcb[u]) /\ ~is_waiting(k2.tcb[u].state)
  BY <1>13, <1>14 DEF Fits, is_waiting
<1>18. ob \in [Sem -> SemBlock] /\ \A s \in Sem : ob[s].semcnt <= ob[s].maxsem
  BY <1>ob DEF blank, free_semcb, SemBlock
<1>19. \A s \in Sem : QueueRight(k2, {}, s)
  <2>1. SUFFICES ASSUME NEW s \in Sem PROVE QueueRight(k2, {}, s)
    OBVIOUS
  <2>2. k2.wq[s] = <<>> /\ ToSet(<<>>) = {}
    BY <1>16, EmptyQueue
  <2>3. Waiting(k2, {}, s) = {}
    BY <1>17 DEF Waiting, Stands
  <2>4. Sorted(k2, <<>>)
    BY DEF Sorted
  <2>. QED
    BY <2>2, <2>3, <2>4 DEF QueueRight
<1>20. Links(k2, {})
  BY <1>14, <1>17, <1>18, <1>19 DEF Links
<1>21. \A s \in Sem : Settled(k2, s)
  BY <1>16, EmptySettled
<1>. QED
  BY <1>15, <1>20, <1>21 DEF IInv, Good

\* Every step keeps the invariant.
LEMMA Inductive ==
  ASSUME IInv, [SemNext]_vars
  PROVE  IInv'
<1>1. CASE SemCalls
  BY <1>1, CreateSem, DeleteSem, SignalSem, WaitSem DEF SemCalls
<1>2. CASE SemTaskCalls
  <2>1. Disturbed \subseteq Task
    BY SemAssumption
  <2>2. CASE \E t \in Task : \/ tk_sta_tsk(t)
                             \/ tk_ter_tsk(t, left(t))
                             \/ tk_rel_wai(t, released(t))
                             \/ \E p \in Pri : tk_chg_pri_sem(t, p)
    BY <2>2, StartTask, TerminateTask, ReleaseWait, ChangePriority
  <2>3. CASE \E t \in Disturbed : \/ tk_sus_tsk(t) \/ tk_rsm_tsk(t)
                                  \/ tk_dis_wai(t, {"SEM"}, released(t))
                                  \/ tk_ena_wai(t)
    BY <2>1, <2>3, SuspendTask, ResumeTask, DisableWait, EnableWait
  <2>4. CASE tk_ext_tsk(left(ctxtsk))
    BY <2>4, ExitTask
  <2>. QED
    BY <1>2, <2>2, <2>3, <2>4 DEF SemTaskCalls
<1>3. CASE SemSystem
  BY <1>3, SystemStep, WaitTimesOut DEF SemSystem
<1>4. CASE UNCHANGED vars
  BY <1>4 DEF vars, kernvars, sysvars, IInv, Kernel
<1>. QED
  BY <1>1, <1>2, <1>3, <1>4 DEF SemNext

\* The invariant behind the theorems below: between any two critical sections the
\* ready queue is right, the wait queues agree with the TCBs, and no task waits for
\* units that it could have.
THEOREM Invariance == SemSpec => []IInv
<1>1. SemInit => IInv
  BY Start
<1>2. IInv /\ [SemNext]_vars => IInv'
  BY Inductive
<1>. QED
  BY <1>1, <1>2, PTL DEF SemSpec

-----------------------------------------------------------------------------
(* The theorems.                                                           *)

\* A task is linked in the queue of the semaphore it waits for, once, and in no
\* other, in priority order with TA_TPRI; tk_del_sem leaves no task behind.
THEOREM QueuesConsistent == SemSpec => []SemQueuesMatchStates
<1>1. IInv => SemQueuesMatchStates
  <2>. SUFFICES ASSUME IInv, NEW s \in Sem, NEW q, q = wait_queue[s]
                PROVE  /\ IsInjective(q)
                       /\ ToSet(q) = {t \in Task : is_waiting(tcb[t].state) /\ tcb[t].wid = s}
                       /\ \A i, j \in DOMAIN q :
                            objcb[s].tpri /\ i < j => tcb[q[i]].priority <= tcb[q[j]].priority
                       /\ \A t \in ToSet(q) :
                            objcb[s].exists /\ tcb[t].winfo \in 1 .. objcb[s].maxsem
    BY DEF SemQueuesMatchStates
  <2>1. Links(Kernel, {}) /\ q = Kernel.wq[s] /\ Kernel.tcb = tcb /\ Kernel.obj = objcb
    BY KernelFields DEF IInv, Good
  <2>2. q \in Queue /\ QueueRight(Kernel, {}, s)
    BY <2>1, LinksFacts DEF Links
  <2>3. IsInjective(q)
    BY <2>2 DEF Queue
  <2>4. ToSet(q) = {t \in Task : is_waiting(tcb[t].state) /\ tcb[t].wid = s}
    BY <2>1, <2>2 DEF QueueRight, Waiting, Stands
  <2>5. \A i, j \in DOMAIN q :
          objcb[s].tpri /\ i < j => tcb[q[i]].priority <= tcb[q[j]].priority
    BY <2>1, <2>2 DEF QueueRight, Sorted
  <2>6. \A t \in ToSet(q) : objcb[s].exists /\ tcb[t].winfo \in 1 .. objcb[s].maxsem
    BY <2>1, <2>2 DEF QueueRight
  <2>. QED
    BY <2>3, <2>4, <2>5, <2>6
<1>. QED
  BY <1>1, Invariance, PTL

\* However a call, a timeout or the end of a task changes a semaphore's count or
\* queue, those who can go on then have been let go when it returns.
THEOREM NobodyWaitsInVain == SemSpec => []NoGrantableWaiter
<1>1. IInv => NoGrantableWaiter
  <2>. SUFFICES ASSUME IInv, NEW s \in Sem, NEW q, q = wait_queue[s], NEW i \in DOMAIN q,
                       objcb[s].cnt \/ i = 1
                PROVE  tcb[q[i]].winfo > objcb[s].semcnt
    BY DEF NoGrantableWaiter
  <2>1. /\ Links(Kernel, {}) /\ Settled(Kernel, s) /\ q = Kernel.wq[s]
        /\ Kernel.tcb = tcb /\ Kernel.obj = objcb
    BY KernelFields DEF IInv, Good
  <2>2. q \in Seq(Task) /\ q \in Queue
    BY <2>1, LinksFacts DEF Queue
  <2>3. q[i] \in ToSet(q)
    BY <2>2, QueueElements
  <2>4. q # <<>> /\ (i = 1 => q[i] = Head(q))
    BY <2>2
  <2>5. TooMuch(Kernel, s, q[i])
    BY <2>1, <2>3, <2>4 DEF Settled
  <2>. QED
    BY <2>1, <2>5 DEF TooMuch
<1>. QED
  BY <1>1, Invariance, PTL

\* Over all interleavings of signals, waits and withdrawals the count of a semaphore
\* is never negative and never above its maximum.
THEOREM CountWithinLimits == SemSpec => [](\A s \in Sem : objcb[s].semcnt \in 0 .. objcb[s].maxsem)
<1>1. IInv => \A s \in Sem : objcb[s].semcnt \in 0 .. objcb[s].maxsem
  BY SemFacts DEF SemBlock
<1>. QED
  BY <1>1, Invariance, PTL

\* With semaphores, too, the ready queue holds just the READY tasks and schedtsk is
\* its top: a task that a semaphore blocks or lets go is unlinked or linked.
THEOREM ReadyQueueRight == SemSpec => []KInv(Kernel)
<1>1. IInv => KInv(Kernel)
  BY DEF IInv, Good, Links
<1>. QED
  BY <1>1, Invariance, PTL

=============================================================================
