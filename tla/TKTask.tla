------------------------------- MODULE TKTask -------------------------------
(***************************************************************************)
(* The task layer of the T-Kernel nucleus: ready_queue.h, task.c and       *)
(* wait.c of kernel/tkernel/src.                                           *)
(*                                                                         *)
(* Every service call of the kernel is one critical section (interrupts    *)
(* are disabled from BEGIN_ to END_CRITICAL_SECTION), so a call is one     *)
(* action.  Inside a call the C functions run one after the other; here    *)
(* each of them is an operator from a kernel state to a kernel state, so   *)
(* that a call composes them in the order of the source.  A kernel state   *)
(* is a record k with the fields                                           *)
(*   tcb       the task control blocks                                     *)
(*   rq        struct ready_queue                                          *)
(*   wq        the wait queues of all objects                              *)
(*   schedtsk  the task that should run                                    *)
(*   ctxtsk    the task that holds the CPU context                         *)
(*   obj       the control blocks of the synchronisation objects, whose    *)
(*             content is up to the modules that extend this one           *)
(***************************************************************************)
EXTENDS Integers, Sequences, FiniteSets, SequencesExt

CONSTANTS
  Task,        \* the TCBs of tcb_table
  NoTask,      \* the NULL TCB pointer
  NumPri,      \* NUM_PRI: internal priorities are 0 .. NumPri-1, 0 highest
  WaitQueue,   \* the wait queues of the kernel objects
  NoQueue,     \* a task waits in no object's queue (sleep, task event)
  MaxWup,      \* INT_MAX as the limit of wupcnt
  MaxSus,      \* INT_MAX as the limit of suscnt
  Event,       \* task events (1..8 in the source)
  Slices       \* slice times, in units of TIMER_PERIOD; 0 is "no time slice"

ASSUME TaskAssumption ==
  /\ NoTask \notin Task
  /\ NumPri \in Nat \ {0}
  /\ NoQueue \notin WaitQueue
  /\ MaxWup \in Nat
  /\ MaxSus \in Nat
  /\ Slices \subseteq Nat

VARIABLES
  tcb,                \* task.c: tcb_table
  ready_queue,        \* task.c: ready_queue
  wait_queue,         \* GCB.wait_queue (and further queues) of every object
  schedtsk,           \* task.c: schedtsk
  ctxtsk,             \* task.c: ctxtsk
  dispatch_disabled,  \* task.c: dispatch_disabled
  free_tcb,           \* task.c: free_tcb
  in_timer,           \* timer_handler is between its first and last line
  objcb               \* control blocks of the objects

kernvars == <<tcb, ready_queue, wait_queue, schedtsk, ctxtsk, objcb>>
sysvars  == <<dispatch_disabled, free_tcb, in_timer>>
vars     == <<kernvars, sysvars>>

Pri == 0 .. (NumPri - 1)

DDS_ENABLE           == 0
DDS_DISABLE_IMPLICIT == 1
DDS_DISABLE          == 2

\* TSTAT; TS_WAITSUS is the bitwise or of TS_WAIT and TS_SUSPEND.
TState == {"NONEXIST", "READY", "WAIT", "SUSPEND", "WAITSUS", "DORMANT"}

task_alive(s) == s \in {"READY", "WAIT", "SUSPEND", "WAITSUS"}
is_waiting(s) == s \in {"WAIT", "WAITSUS"}      \* (state & TS_WAIT) != 0

\* What a task can wait for (TTW_), in the modules that use TCBType: to be woken up,
\* a semaphore, a block of a fixed-size pool, its events.
WaitFactor == {"SLP", "SEM", "MPF"} \cup Event

\* The results of a wait.
WaitResult == {"none", "E_OK", "E_TMOUT", "E_RLWAI", "E_DISWAI", "E_DLT"}

\* The task control block, as far as calls of the task layer and semaphores use it;
\* winfo is the number of units asked for.
TCBType ==
  [state : TState, priority : Pri, bpriority : Pri, ipriority : Pri,
   wupcnt : 0 .. MaxWup, suscnt : 0 .. MaxSus, tskevt : SUBSET Event,
   waitmask : SUBSET WaitFactor, nodiswai : BOOLEAN, tskwait : SUBSET WaitFactor,
   wid : WaitQueue \cup {NoQueue}, winfo : Nat, wercd : WaitResult,
   wtmeb : BOOLEAN, slicetime : Nat, slicecnt : Nat,
   klocked : BOOLEAN, klockwait : BOOLEAN]

\* Timeout arguments: polling, for ever, or some finite time.
TMO == {"TMO_POL", "TMO_FEVR", "finite"}

Kernel == [tcb |-> tcb, rq |-> ready_queue, wq |-> wait_queue,
           schedtsk |-> schedtsk, ctxtsk |-> ctxtsk, obj |-> objcb]

\* The critical section ends with the kernel in state k.
Becomes(k) == /\ tcb' = k.tcb
              /\ ready_queue' = k.rq
              /\ wait_queue' = k.wq
              /\ schedtsk' = k.schedtsk
              /\ ctxtsk' = k.ctxtsk
              /\ objcb' = k.obj

-----------------------------------------------------------------------------
(* queue.h *)

QueueWithout(q, t) ==
  IF t \in ToSet(q) THEN RemoveAt(q, CHOOSE i \in DOMAIN q : q[i] = t) ELSE q

\* QueRemove(&tcb->tskque): a TCB has one link field, so the removal takes it
\* out of whichever queue it is linked in.
QueRemove(k, t) ==
  [k EXCEPT !.rq.tskque = [p \in Pri |-> QueueWithout(@[p], t)],
            !.wq = [w \in WaitQueue |-> QueueWithout(@[w], t)]]

-----------------------------------------------------------------------------
(* ready_queue.h *)

ready_queue_initialize ==
  [top_priority |-> NumPri, tskque |-> [p \in Pri |-> <<>>],
   bitmap |-> {}, klocktsk |-> NoTask]

\* With top_priority = NUM_PRI the code reads the 'null' field behind tskque.
ready_queue_top(k) ==
  IF k.rq.klocktsk # NoTask THEN k.rq.klocktsk
  ELSE IF k.rq.top_priority = NumPri THEN NoTask
  ELSE Head(k.rq.tskque[k.rq.top_priority])

\* Slip: a task of the same priority counts as higher.
raises_top_or_equals(k, t) == k.tcb[t].priority <= k.rq.top_priority

\* The return value of ready_queue_insert.
raises_top(k, t) == k.tcb[t].priority < k.rq.top_priority

\* Slip: linked at the head of the queue.
ready_queue_insert_at_head(k, t) ==
  LET p == k.tcb[t].priority IN
  [k EXCEPT !.tcb[t].slicecnt = 0,
            !.rq.tskque[p] = <<t>> \o @,
            !.rq.bitmap = @ \cup {p},
            !.rq.klocktsk = IF k.tcb[t].klocked THEN t ELSE @,
            !.rq.top_priority = IF p < @ THEN p ELSE @]

ready_queue_insert(k, t) ==
  LET p == k.tcb[t].priority IN
  [k EXCEPT !.tcb[t].slicecnt = 0,
            !.rq.tskque[p] = Append(@, t),
            !.rq.bitmap = @ \cup {p},
            !.rq.klocktsk = IF k.tcb[t].klocked THEN t ELSE @,
            !.rq.top_priority = IF p < @ THEN p ELSE @]

\* BitSearch1_w from bit 'from': the first set bit, or NUM_PRI.
first_priority(bitmap, from) ==
  IF \E q \in bitmap : q >= from
  THEN CHOOSE q \in bitmap : q >= from /\ \A r \in bitmap : r >= from => q <= r
  ELSE NumPri

\* Slip: the bit of a queue that has become empty stays set.
ready_queue_delete_marked(k, t) ==
  LET p  == k.tcb[t].priority
      k1 == QueRemove(k, t)
  IN IF k1.rq.tskque[p] # <<>> \/ k1.rq.top_priority # p THEN k1
     ELSE [k1 EXCEPT !.rq.top_priority = first_priority(k1.rq.bitmap \ {p}, p)]

\* Slip: a task that queues for the kernel lock is treated like any other.
ready_queue_delete_unlocked(k, t) ==
  LET p  == k.tcb[t].priority
      k1 == [QueRemove(k, t) EXCEPT !.rq.klocktsk = IF @ = t THEN NoTask ELSE @]
      bm == k1.rq.bitmap \ {p}
  IN IF k1.rq.tskque[p] # <<>> THEN k1
     ELSE [k1 EXCEPT !.rq.bitmap = bm,
                     !.rq.top_priority = IF p # @ THEN @
                                         ELSE first_priority(bm, p)]

ready_queue_delete(k, t) ==
  LET p  == k.tcb[t].priority
      k1 == [QueRemove(k, t) EXCEPT !.rq.klocktsk = IF @ = t THEN NoTask ELSE @]
      bm == k1.rq.bitmap \ {p}
  IN IF k.tcb[t].klockwait THEN [k1 EXCEPT !.tcb[t].klockwait = FALSE]
     ELSE IF k1.rq.tskque[p] # <<>> THEN k1
     ELSE [k1 EXCEPT !.rq.bitmap = bm,
                     !.rq.top_priority = IF p # @ THEN @
                                         ELSE first_priority(bm, p)]

ready_queue_rotate(k, p) ==
  LET q == k.rq.tskque[p] IN
  IF q = <<>> THEN k
  ELSE [k EXCEPT !.rq.tskque[p] = Append(Tail(q), Head(q)),
                 !.tcb[Head(q)].slicecnt = 0]

ready_queue_move_last(k, t) ==
  [QueRemove(k, t) EXCEPT !.rq.tskque[k.tcb[t].priority] = Append(@, t),
                          !.tcb[t].slicecnt = 0]

-----------------------------------------------------------------------------
(* task.c *)

time_slice_schedule(k, t) ==
  IF t = NoTask THEN k
  ELSE IF k.tcb[t].slicetime = 0 THEN k
  ELSE IF k.tcb[t].slicecnt + 1 > k.tcb[t].slicetime
       THEN ready_queue_move_last(k, t)
       ELSE [k EXCEPT !.tcb[t].slicecnt = @ + 1]

\* A task that loses the CPU to another is charged one TIMER_PERIOD.
charge_preempted(k) ==
  IF k.schedtsk = k.ctxtsk THEN time_slice_schedule(k, k.schedtsk) ELSE k

reschedule(k) ==
  LET toptsk == ready_queue_top(k) IN
  IF k.schedtsk = toptsk THEN k
  ELSE [charge_preempted(k) EXCEPT !.schedtsk = toptsk]

\* Slip: a task that becomes ready never preempts.
make_ready_unpreempting(k, t) ==
  ready_queue_insert([k EXCEPT !.tcb[t].state = "READY"], t)

\* Slip: a task that is preempted is not charged.
make_ready_uncharged(k, t) ==
  LET k1 == ready_queue_insert([k EXCEPT !.tcb[t].state = "READY"], t) IN
  IF raises_top(k, t) THEN [k1 EXCEPT !.schedtsk = t] ELSE k1

make_ready(k, t) ==
  LET k1 == ready_queue_insert([k EXCEPT !.tcb[t].state = "READY"], t) IN
  IF raises_top(k, t) THEN [charge_preempted(k1) EXCEPT !.schedtsk = t] ELSE k1

make_non_ready(k, t) ==
  LET k1 == ready_queue_delete(k, t) IN
  IF k1.schedtsk = t THEN [k1 EXCEPT !.schedtsk = ready_queue_top(k1)] ELSE k1

\* Up to the call of chg_pri_hook: for a waiting task the module of the object
\* it waits for applies the hook to the result.
change_task_priority(k, t, priority) ==
  IF k.tcb[t].state = "READY"
  THEN reschedule(ready_queue_insert(
         [ready_queue_delete(k, t) EXCEPT !.tcb[t].priority = priority], t))
  ELSE [k EXCEPT !.tcb[t].priority = priority]

rotate_ready_queue(k, p) == reschedule(ready_queue_rotate(k, p))

rotate_ready_queue_run(k) ==
  IF k.schedtsk = NoTask THEN k
  ELSE rotate_ready_queue(k, k.rq.top_priority)

\* The wait specification, wait object and error area of a TCB keep stale
\* values in the source after the wait; they are reset here because nothing
\* reads them before the next wait sets them.
make_dormant(k, t) ==
  [k EXCEPT !.tcb[t] =
     [@ EXCEPT !.state = "DORMANT", !.priority = k.tcb[t].ipriority,
               !.bpriority = k.tcb[t].ipriority, !.wupcnt = 0, !.suscnt = 0,
               !.waitmask = {}, !.nodiswai = FALSE, !.klockwait = FALSE,
               !.klocked = FALSE, !.slicetime = 0, !.tskevt = {},
               !.tskwait = {}, !.wid = NoQueue, !.winfo = 0, !.wercd = "none"]]

-----------------------------------------------------------------------------
(* wait.c, wait.h *)

make_non_wait(k, t) ==
  IF k.tcb[t].state = "WAIT" THEN make_ready(k, t)
  ELSE [k EXCEPT !.tcb[t].state = "SUSPEND"]

timer_delete(k, t) == [k EXCEPT !.tcb[t].wtmeb = FALSE]

\* Slip: the timeout stays registered.
wait_cancel_timed(k, t) == QueRemove(k, t)

wait_cancel(k, t) == QueRemove(timer_delete(k, t), t)

wait_release(k, t) == make_non_wait(wait_cancel(k, t), t)

\* Writing *wercd; the wait specification is not looked at any more.
\* wait_release_ng and wait_release_tmout are wait_release, rel_wai_hook, which
\* still sees the wait specification, and end_wait.
end_wait(k, t, ercd) ==
  [k EXCEPT !.tcb[t] = [@ EXCEPT !.tskwait = {}, !.wid = NoQueue, !.winfo = 0,
                                 !.nodiswai = FALSE, !.wercd = ercd]]

wait_release_ok(k, t) == end_wait(wait_release(k, t), t, "E_OK")

wait_delete(k, w) ==
  LET q == k.wq[w]
      freed[n \in 0 .. Len(q)] ==
        IF n = 0 THEN k
        ELSE end_wait(wait_release(freed[n - 1], q[n]), q[n], "E_DLT")
  IN freed[Len(q)]

\* ctxtsk->wspec, wid and wercd are set by the caller just before make_wait;
\* winfo (what the task asks the object for) by the callers that use it.
make_wait(k, tskwait, wid, tmout, nodiswai) ==
  LET t  == k.ctxtsk
      k1 == CASE k.tcb[t].state = "READY" ->
                   [make_non_ready(k, t) EXCEPT !.tcb[t].state = "WAIT"]
              [] k.tcb[t].state = "SUSPEND" ->
                   [k EXCEPT !.tcb[t].state = "WAITSUS"]
              [] OTHER -> k
  IN [k1 EXCEPT !.tcb[t] = [@ EXCEPT !.tskwait = tskwait, !.wid = wid,
                                     !.wercd = "E_TMOUT", !.nodiswai = nodiswai,
                                     !.wtmeb = (tmout # "TMO_FEVR")]]

\* Before the first task in the queue whose priority is lower.
queue_insert_tpri(k, w, t) ==
  LET q == k.wq[w]
      lower == {i \in DOMAIN q : k.tcb[q[i]].priority > k.tcb[t].priority}
      pos == IF lower = {} THEN Len(q) + 1
             ELSE CHOOSE i \in lower : \A j \in lower : i <= j
  IN [k EXCEPT !.wq[w] = InsertAt(q, pos, t)]

\* The position in the wait queue: by priority with TA_TPRI, else at the end.
wait_queue_insert(k, w, t, tpri) ==
  IF tpri THEN queue_insert_tpri(k, w, t)
  ELSE [k EXCEPT !.wq[w] = Append(@, t)]

gcb_make_wait(k, tskwait, w, tmout, tpri, nodiswai) ==
  wait_queue_insert(make_wait(k, tskwait, w, tmout, nodiswai), w, k.ctxtsk, tpri)

is_diswai(k, t, tskwait, nodiswai) ==
  k.tcb[t].waitmask \cap tskwait # {} /\ ~nodiswai

\* The caller does not get here with TMO_POL and a wait: it returns E_TMOUT.
gcb_make_wait_with_diswai(k, tskwait, w, tmout, tpri, nodiswai) ==
  IF is_diswai(k, k.ctxtsk, tskwait, nodiswai) \/ tmout = "TMO_POL" THEN k
  ELSE gcb_make_wait(k, tskwait, w, tmout, tpri, nodiswai)

gcb_change_priority(k, w, t) == queue_insert_tpri(QueRemove(k, t), w, t)

\* The head of w if t were to queue up, t itself when it would come first.
gcb_top_of_wait_queue(k, w, t, tpri) ==
  IF k.wq[w] = <<>> THEN t
  ELSE LET q == Head(k.wq[w]) IN
       IF tpri /\ k.tcb[t].priority < k.tcb[q].priority THEN t ELSE q

=============================================================================
