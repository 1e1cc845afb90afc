------------------------------- MODULE TKKLock -------------------------------
(***************************************************************************)
(* klock.c: the kernel (object) lock, which protects service calls that    *)
(* are too long for one critical section.                                  *)
(*                                                                         *)
(* A task that finds the lock taken leaves the ready queue for the queue   *)
(* of the lock but stays in state READY.  Whoever ends it, suspends it or  *)
(* changes its priority takes it out of that queue without giving it the   *)
(* lock, so LockOBJ tries again whenever the task runs.                    *)
(***************************************************************************)
EXTENDS TKTaskCalls

CONSTANT Lock    \* the OBJLOCKs; each has its wtskq among the wait queues

ASSUME LockAssumption == Lock \subseteq WaitQueue

\* objcb.locked is the set of the locks whose wtskq.next is not NULL.
lock_free(k, l) == l \notin k.obj.locked

\* QueInsert links before its second argument, here the first of the queue.
ready_queue_insert_top(k, t) ==
  LET p == k.tcb[t].priority IN
  [k EXCEPT !.rq.tskque[p] = <<t>> \o @,
            !.rq.bitmap = @ \cup {p},
            !.rq.klocktsk = IF k.tcb[t].klocked THEN t ELSE @,
            !.rq.top_priority = IF p < @ THEN p ELSE @]

get_lock(k, l) == [k EXCEPT !.obj.locked = @ \cup {l},
                            !.tcb[k.ctxtsk].klocked = TRUE,
                            !.rq.klocktsk = k.ctxtsk]

queue_for_lock(k, l) ==
  LET k1 == ready_queue_delete(k, k.ctxtsk)
  IN [k1 EXCEPT !.tcb[k.ctxtsk].klockwait = TRUE,
                !.wq[l] = Append(@, k.ctxtsk),
                !.schedtsk = ready_queue_top(k1)]

\* One iteration of the loop; it ends when klocked has been set, here or by the
\* task that unlocked.
LockOBJ(k, l) ==
  IF k.tcb[k.ctxtsk].klocked THEN k
  ELSE IF lock_free(k, l) THEN get_lock(k, l)
  ELSE queue_for_lock(k, l)

UnlockOBJ(k, l) ==
  LET k1 == [k EXCEPT !.tcb[k.ctxtsk].klocked = FALSE, !.rq.klocktsk = NoTask]
      q  == k1.wq[l]
      k2 == IF q = <<>> THEN [k1 EXCEPT !.obj.locked = @ \ {l}]
            ELSE ready_queue_insert_top(
                   [k1 EXCEPT !.wq[l] = Tail(@),
                              !.tcb[Head(q)].klockwait = FALSE,
                              !.tcb[Head(q)].klocked = TRUE], Head(q))
  IN [k2 EXCEPT !.schedtsk = ready_queue_top(k2)]

=============================================================================
