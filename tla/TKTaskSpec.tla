----------------------------- MODULE TKTaskSpec -----------------------------
(***************************************************************************)
(* The task layer on its own: tasks that are created, started, suspended,  *)
(* put to sleep, given task events, preempted and time sliced, with no     *)
(* synchronisation object to wait for (WaitQueue is empty).                *)
(***************************************************************************)
EXTENDS TKTaskCalls

CONSTANTS
  InitTask,    \* the TCB the initial task gets: the head of free_tcb
  FreeList,    \* the other TCBs, in the order of free_tcb
  InitPri,     \* the priority of the initial task
  WaitMasks,   \* the arguments of tk_dis_wai that are tried
  EventSets    \* the wait patterns of tk_wai_tev that are tried

ASSUME SpecAssumption ==
  /\ InitTask \in Task
  /\ InitPri \in Pri
  /\ FreeList \in Seq(Task)
  /\ Task = {InitTask} \cup ToSet(FreeList)
  /\ InitTask \notin ToSet(FreeList)
  /\ \A i, j \in DOMAIN FreeList : i # j => FreeList[i] # FreeList[j]
  /\ WaitQueue = {}
  /\ \A m \in WaitMasks : m \subseteq {"SLP"} \cup Event
  /\ \A e \in EventSets : e # {} /\ e \subseteq Event
  /\ "SLP" \notin Event

TaskInit == t_kernel_main(InitTask, {InitTask}, FreeList,
                          [t \in Task |-> InitPri], <<>>)

Lifecycle ==
  \/ \E p \in Pri : tk_cre_tsk(p)
  \/ \E t \in Task : tk_del_tsk(t) \/ tk_sta_tsk(t)
                     \/ tk_ter_tsk(t, _ter_tsk(Kernel, t))
  \/ tk_ext_tsk(_ter_tsk(Kernel, ctxtsk))
  \/ tk_exd_tsk(_ter_tsk(Kernel, ctxtsk))

Scheduling ==
  \/ \E t \in Task, p \in Pri : tk_chg_pri(t, p)
  \/ \E p \in Pri : tk_rot_rdq(p)
  \/ tk_rot_rdq_run
  \/ \E t \in Task, s \in Slices : tk_chg_slt(t, s)
  \/ tk_dis_dsp
  \/ tk_ena_dsp

Synchronising ==
  \/ \E t \in Task : \/ tk_sus_tsk(t) \/ tk_rsm_tsk(t) \/ tk_frsm_tsk(t)
                     \/ tk_wup_tsk(t) \/ tk_can_wup(t)
                     \/ tk_rel_wai(t, wait_release(Kernel, t)) \/ tk_ena_wai(t)
  \/ \E t \in Task, m \in WaitMasks : tk_dis_wai(t, m, wait_release(Kernel, t))
  \/ \E t \in Task, e \in Event : tk_sig_tev(t, e)
  \/ \E tmout \in TMO : tk_slp_tsk(tmout)
  \/ \E e \in EventSets, tmout \in TMO : tk_wai_tev(e, tmout)

Dispatcher == dispatch_entry \/ dispatch_save \/ dispatch_to

Timer == \/ timer_handler_begin
         \/ \E t \in Task : timer_handler_event(t, wait_release(Kernel, t))
         \/ timer_handler_end

TaskNext == Lifecycle \/ Scheduling \/ Synchronising \/ Dispatcher \/ Timer

TaskSpec == TaskInit /\ [][TaskNext]_vars

-----------------------------------------------------------------------------
(* What holds between any two critical sections.                           *)

\* Types of all variables of the task layer.
TypeOK ==
  /\ tcb \in [Task -> TCBType]
  /\ ready_queue \in [top_priority : 0 .. NumPri, tskque : [Pri -> Seq(Task)],
                      bitmap : SUBSET Pri, klocktsk : Task \cup {NoTask}]
  /\ wait_queue \in [WaitQueue -> Seq(Task)]
  /\ schedtsk \in Task \cup {NoTask}
  /\ ctxtsk \in Task \cup {NoTask}
  /\ dispatch_disabled \in {DDS_ENABLE, DDS_DISABLE_IMPLICIT, DDS_DISABLE}
  /\ free_tcb \in Seq(Task)
  /\ in_timer \in BOOLEAN
  /\ objcb = <<>>

\* Every READY task is linked exactly once, in the task queue of its current
\* priority, and nothing else is linked there; every unregistered TCB is linked
\* exactly once in free_tcb.  (A TCB has a single link field, so inserting a
\* TCB that is still linked elsewhere would corrupt both lists.)
QueuesMatchStates ==
  /\ \A p \in Pri : /\ IsInjective(ready_queue.tskque[p])
                    /\ ToSet(ready_queue.tskque[p]) =
                         {t \in Task : tcb[t].state = "READY" /\ tcb[t].priority = p}
  /\ IsInjective(free_tcb)
  /\ ToSet(free_tcb) = {t \in Task : tcb[t].state = "NONEXIST"}

\* The bitmap and top_priority caches agree with the task queues.
CachesMatchQueues ==
  /\ ready_queue.bitmap = {p \in Pri : ready_queue.tskque[p] # <<>>}
  /\ \A p \in ready_queue.bitmap : ready_queue.top_priority <= p
  /\ ready_queue.top_priority \in ready_queue.bitmap \cup {NumPri}

\* schedtsk, which the calls update step by step, is the task ready_queue_top
\* would select from scratch.
SchedtskIsTop == schedtsk = ready_queue_top(Kernel)

\* The promise of the scheduler to its users: a task that executes, with
\* dispatching enabled, is READY and no READY task has a higher priority.
RunningIsHighest ==
  in_task /\ dispatch_disabled = DDS_ENABLE =>
    /\ tcb[ctxtsk].state = "READY"
    /\ \A t \in Task : tcb[t].state = "READY" =>
                         tcb[ctxtsk].priority <= tcb[t].priority

\* wait.c: during a call ctxtsk may be in any state an interrupt handler has put it in,
\* but not in WAIT state.  After tk_dis_dsp it stays READY, whatever handlers do, so
\* that tk_ena_dsp returns to a task that may run.
ContextMayRun ==
  /\ ctxtsk # NoTask /\ dispatch_disabled # DDS_DISABLE_IMPLICIT =>
       tcb[ctxtsk].state \in {"READY", "SUSPEND"}
  /\ dispatch_disabled = DDS_DISABLE =>
       ctxtsk # NoTask /\ tcb[ctxtsk].state = "READY"

\* The two halves of a task's state are kept apart by calls that change one of them
\* while the other changes too: a task is suspended exactly while resume requests are
\* outstanding, whatever happens to its wait; and a timeout is registered only while
\* it waits: no call that ends a wait leaves an event behind that would end a later one.
WaitAndSuspendAgree ==
  \A t \in Task :
    /\ tcb[t].suscnt > 0 <=> tcb[t].state \in {"SUSPEND", "WAITSUS"}
    /\ tcb[t].wtmeb => is_waiting(tcb[t].state)

\* No wakeup, event or wait prohibition is missed: a task does not sleep with
\* a wakeup request counted, nor wait for an event that is pending, nor in a
\* wait that is disabled.
NoMissedWakeup ==
  \A t \in Task : is_waiting(tcb[t].state) =>
    /\ tcb[t].tskwait # {}
    /\ tcb[t].tskwait = {"SLP"} => tcb[t].wupcnt = 0
    /\ tcb[t].tskwait \cap tcb[t].tskevt = {}
    /\ tcb[t].tskwait \cap tcb[t].waitmask = {}

\* A step preserves the order of two tasks of one priority, unless one of them
\* is put at the end of its queue: a rotation, an expired time slice, a
\* tk_chg_pri, or a suspension that has ended.  So no preemption, wakeup of a
\* third task or timer tick reorders tasks of equal priority.
Before(t, u) ==
  LET q == ready_queue.tskque[tcb[t].priority] IN
  \E i, j \in DOMAIN q : i < j /\ q[i] = t /\ q[j] = u

FifoWithinPriority ==
  [][\A t, u \in Task :
       Before(t, u) /\ tcb'[u].priority = tcb'[t].priority
                    /\ tcb'[t].state = "READY" /\ tcb'[u].state = "READY" =>
         \/ Before(t, u)'
         \/ Last(ready_queue'.tskque[tcb'[t].priority]) = t]_vars

=============================================================================
