---------------------------- MODULE TKTaskProofs ----------------------------
(***************************************************************************)
(* The invariants of TKTaskSpec, for every number of tasks and priorities. *)
(* IInv is the inductive invariant: the ready queue and schedtsk are right *)
(* (KInv), every TCB is consistent in itself (TaskOK), ctxtsk is in a      *)
(* state that agrees with dispatch_disabled (CtxInv), and free_tcb links   *)
(* the unregistered tasks (FreeInv).                                       *)
(***************************************************************************)
EXTENDS TKTaskSpec, TKKernelLemmas

TaskOK(c) ==
  /\ c.suscnt > 0 <=> c.state \in {"SUSPEND", "WAITSUS"}
  /\ c.wtmeb => is_waiting(c.state)
  /\ ~c.nodiswai
  /\ is_waiting(c.state) =>
       /\ c.tskwait # {}
       /\ c.tskwait = {"SLP"} => c.wupcnt = 0
       /\ c.tskwait \cap c.tskevt = {}
       /\ c.tskwait \cap c.waitmask = {}

TasksOK(k) == \A t \in Task : TaskOK(k.tcb[t])

CtxInv(k, dd) ==
  /\ k.ctxtsk = NoTask => dd = DDS_DISABLE_IMPLICIT
  /\ dd = DDS_DISABLE => k.tcb[k.ctxtsk].state = "READY"
  /\ dd # DDS_DISABLE_IMPLICIT => k.tcb[k.ctxtsk].state \in {"READY", "SUSPEND"}

FreeInv(k, fl) ==
  fl \in Queue /\ ToSet(fl) = {t \in Task : k.tcb[t].state = "NONEXIST"}

SysInv(k, dd) ==
  /\ KInv(k) /\ TasksOK(k) /\ CtxInv(k, dd) /\ k.obj = <<>>
  /\ dd \in {DDS_ENABLE, DDS_DISABLE_IMPLICIT, DDS_DISABLE}

IInv == /\ SysInv(Kernel, dispatch_disabled)
        /\ FreeInv(Kernel, free_tcb)
        /\ in_timer \in BOOLEAN

\* There is no object to queue for.
LEMMA NothingQueued ==
  ASSUME NEW k, NEW t
  PROVE  Unqueued(k, t)
BY SpecAssumption DEF Unqueued

-----------------------------------------------------------------------------
(* Steps between kernel states.                                            *)

\* Slice counters do not matter for the consistency of a TCB.
LEMMA AlikeOK ==
  ASSUME NEW c, NEW d, Alike(c, d), TaskOK(d)
  PROVE  TaskOK(c)
BY DEF Alike, TaskOK, is_waiting

\* One TCB changes, and stays consistent.
LEMMA OneTask ==
  ASSUME NEW k, NEW dd, SysInv(k, dd), NEW t \in Task,
         NEW k2, KInv(k2), Touch(k, k2, t), TaskOK(k2.tcb[t]),
         NEW dd2, dd2 = dd \/ dd2 = DDS_DISABLE_IMPLICIT,
         k.ctxtsk = t /\ dd2 # DDS_DISABLE_IMPLICIT =>
           /\ k2.tcb[t].state \in {"READY", "SUSPEND"}
           /\ dd = DDS_DISABLE => k2.tcb[t].state = "READY"
  PROVE  SysInv(k2, dd2)
<1>1. TasksOK(k2)
  BY AlikeOK DEF TasksOK, SysInv, Touch
<1>2. dd2 \in {DDS_ENABLE, DDS_DISABLE_IMPLICIT, DDS_DISABLE}
  BY DEF SysInv
<1>3. CtxInv(k2, dd2)
  <2>1. k2.ctxtsk = k.ctxtsk /\ k.ctxtsk \in Task \cup {NoTask}
    BY DEF Touch, SameContext, SysInv, KInv, Queued, IsKernel
  <2>2. DDS_DISABLE # DDS_DISABLE_IMPLICIT
    BY DEF DDS_DISABLE, DDS_DISABLE_IMPLICIT
  <2>3. CASE dd2 = DDS_DISABLE_IMPLICIT
    BY <2>2, <2>3 DEF CtxInv
  <2>4. CASE dd2 = dd /\ dd # DDS_DISABLE_IMPLICIT
    <3>1. k.ctxtsk # NoTask
      BY <2>4 DEF SysInv, CtxInv
    <3>2. k.ctxtsk # t => k2.tcb[k.ctxtsk].state = k.tcb[k.ctxtsk].state
      BY <2>1, <3>1 DEF Touch, Alike
    <3>. QED
      BY <2>1, <2>4, <3>1, <3>2 DEF SysInv, CtxInv
  <2>. QED
    BY <2>3, <2>4
<1>. QED
  BY <1>1, <1>2, <1>3 DEF SysInv, Touch, SameContext

\* The registered tasks stay the same.
LEMMA FreeSame ==
  ASSUME NEW k, NEW fl, FreeInv(k, fl), NEW t \in Task, NEW k2, Touch(k, k2, t),
         k2.tcb[t].state = "NONEXIST" <=> k.tcb[t].state = "NONEXIST"
  PROVE  FreeInv(k2, fl)
BY DEF FreeInv, Touch, Alike

\* Nothing but slice counters and the queues changes.
LEMMA NoTaskChanged ==
  ASSUME NEW k, NEW dd, SysInv(k, dd), NEW fl, FreeInv(k, fl),
         NEW k2, KInv(k2), AllAlike(k, k2), SameContext(k, k2)
  PROVE  SysInv(k2, dd) /\ FreeInv(k2, fl)
<1>1. TasksOK(k2)
  BY AlikeOK DEF TasksOK, SysInv, AllAlike
<1>2. FreeInv(k2, fl)
  BY DEF FreeInv, AllAlike, Alike
<1>3. CtxInv(k2, dd)
  <2>1. k2.ctxtsk = k.ctxtsk /\ k.ctxtsk \in Task \cup {NoTask}
    BY DEF SameContext, SysInv, KInv, Queued, IsKernel
  <2>2. k.ctxtsk # NoTask => k2.tcb[k.ctxtsk].state = k.tcb[k.ctxtsk].state
    BY <2>1 DEF AllAlike, Alike
  <2>3. DDS_DISABLE # DDS_DISABLE_IMPLICIT
    BY DEF DDS_DISABLE, DDS_DISABLE_IMPLICIT
  <2>. QED
    BY <2>1, <2>2, <2>3 DEF SysInv, CtxInv
<1>. QED
  BY <1>1, <1>2, <1>3 DEF SysInv, SameContext

\* The end of a critical section that touches one task and registers none.
LEMMA TaskStep ==
  ASSUME IInv, NEW t \in Task, NEW k2, KInv(k2), Touch(Kernel, k2, t),
         Becomes(k2), TaskOK(k2.tcb[t]),
         k2.tcb[t].state = "NONEXIST" <=> tcb[t].state = "NONEXIST",
         dispatch_disabled' \in {dispatch_disabled, DDS_DISABLE_IMPLICIT},
         ctxtsk = t /\ dispatch_disabled' # DDS_DISABLE_IMPLICIT =>
           /\ k2.tcb[t].state \in {"READY", "SUSPEND"}
           /\ dispatch_disabled = DDS_DISABLE => k2.tcb[t].state = "READY",
         UNCHANGED <<free_tcb, in_timer>>
  PROVE  IInv'
<1>. DEFINE k == Kernel
            dd == dispatch_disabled
            dd2 == dispatch_disabled'
            fl == free_tcb
<1>1. k.ctxtsk = ctxtsk /\ k.tcb = tcb
  BY DEF Kernel
<1>2. SysInv(k, dd) /\ FreeInv(k, fl) /\ in_timer \in BOOLEAN
  BY DEF IInv
<1>3. dd2 = dd \/ dd2 = DDS_DISABLE_IMPLICIT
  OBVIOUS
<1>4. k.ctxtsk = t /\ dd2 # DDS_DISABLE_IMPLICIT =>
           /\ k2.tcb[t].state \in {"READY", "SUSPEND"}
           /\ dd = DDS_DISABLE => k2.tcb[t].state = "READY"
  BY <1>1
<1>. HIDE DEF k, dd, dd2, fl
<1>5. Touch(k, k2, t)
  BY DEF k
<1>6. SysInv(k2, dd2)
  BY <1>2, <1>3, <1>4, <1>5, OneTask
<1>7. FreeInv(k2, fl)
  BY <1>1, <1>2, <1>5, FreeSame
<1>8. Kernel' = k2
  BY NextKernel DEF KInv, Queued
<1>. QED
  BY <1>2, <1>6, <1>7, <1>8 DEF IInv, dd2, fl

\* The same, of a critical section that changes no TCB.
LEMMA QueueStep ==
  ASSUME IInv, NEW k2, KInv(k2), AllAlike(Kernel, k2), SameContext(Kernel, k2),
         Becomes(k2), UNCHANGED <<dispatch_disabled, free_tcb>>, in_timer' \in BOOLEAN
  PROVE  IInv'
<1>1. SysInv(Kernel, dispatch_disabled) /\ FreeInv(Kernel, free_tcb)
  BY DEF IInv
<1>2. SysInv(k2, dispatch_disabled) /\ FreeInv(k2, free_tcb)
  BY <1>1, NoTaskChanged
<1>3. Kernel' = k2
  BY NextKernel DEF KInv, Queued
<1>. QED
  BY <1>2, <1>3 DEF IInv

\* What the invariant says of a task.
LEMMA TaskFacts ==
  ASSUME IInv, NEW t \in Task
  PROVE  /\ KInv(Kernel) /\ IsKernel(Kernel)
         /\ Kernel.tcb = tcb /\ tcb \in [Task -> TCBType]
         /\ tcb[t] \in TCBType /\ TaskOK(tcb[t])
         /\ ~tcb[t].klocked /\ ~tcb[t].klockwait
         /\ t # NoTask
<1>1. KInv(Kernel) /\ IsKernel(Kernel) /\ Kernel.tcb = tcb
  BY DEF IInv, SysInv, KInv, Queued, Kernel
<1>2. tcb \in [Task -> TCBType]
  BY <1>1 DEF IsKernel
<1>3. ~tcb[t].klocked /\ ~tcb[t].klockwait
  BY <1>1 DEF KInv, Queued
<1>4. TaskOK(tcb[t])
  BY <1>1 DEF IInv, SysInv, TasksOK
<1>. QED
  BY <1>1, <1>2, <1>3, <1>4, TaskAssumption

\* What the invariant says of the context.
LEMMA ContextFacts ==
  ASSUME IInv
  PROVE  /\ schedtsk = ready_queue_top(Kernel)
         /\ schedtsk \in Task \cup {NoTask} /\ ctxtsk \in Task \cup {NoTask}
         /\ schedtsk # NoTask => tcb[schedtsk].state = "READY"
         /\ CtxInv(Kernel, dispatch_disabled)
         /\ dispatch_disabled # DDS_DISABLE_IMPLICIT =>
              ctxtsk \in Task /\ tcb[ctxtsk].state \in {"READY", "SUSPEND"}
         /\ dispatch_disabled = DDS_DISABLE => tcb[ctxtsk].state = "READY"
         /\ dispatch_disabled \in {DDS_ENABLE, DDS_DISABLE_IMPLICIT, DDS_DISABLE}
<1>1. /\ Kernel.schedtsk = schedtsk /\ Kernel.ctxtsk = ctxtsk /\ Kernel.tcb = tcb
      /\ Queued(Kernel, {}) /\ schedtsk = ready_queue_top(Kernel)
      /\ CtxInv(Kernel, dispatch_disabled) /\ IsKernel(Kernel)
      /\ dispatch_disabled \in {DDS_ENABLE, DDS_DISABLE_IMPLICIT, DDS_DISABLE}
  BY DEF IInv, SysInv, KInv, Queued, Kernel
<1>2. ctxtsk \in Task \cup {NoTask}
  BY <1>1 DEF IsKernel
<1>3. schedtsk \in Task \cup {NoTask} /\ (schedtsk # NoTask => tcb[schedtsk].state = "READY")
  BY <1>1, Top
<1>. QED
  BY <1>1, <1>2, <1>3 DEF CtxInv

\* A call that sets other fields of a TCB than its state and priority.
LEMMA SetStep ==
  ASSUME IInv, NEW t \in Task, NEW c \in TCBType, ~c.klocked, ~c.klockwait,
         c.state = tcb[t].state, c.priority = tcb[t].priority, TaskOK(c),
         Becomes([Kernel EXCEPT !.tcb[t] = c]), UNCHANGED sysvars
  PROVE  IInv'
<1>. DEFINE k2 == [Kernel EXCEPT !.tcb[t] = c]
<1>1. KInv(Kernel) /\ Kernel.tcb = tcb
  BY TaskFacts
<1>2. k2 = [Kernel EXCEPT !.tcb[t] = c] /\ Becomes(k2)
  OBVIOUS
<1>. HIDE DEF k2
<1>3. KInv(k2) /\ Effect(Kernel, k2, t, c)
  BY <1>1, <1>2, SetData
<1>4. Touch(Kernel, k2, t) /\ Alike(k2.tcb[t], c)
  BY <1>3, EffectTouch
<1>5. TaskOK(k2.tcb[t]) /\ k2.tcb[t].state = tcb[t].state
  BY <1>4, AlikeOK DEF Alike
<1>6. UNCHANGED <<dispatch_disabled, free_tcb, in_timer>>
  BY DEF sysvars
<1>7. ctxtsk = t /\ dispatch_disabled' # DDS_DISABLE_IMPLICIT =>
        /\ k2.tcb[t].state \in {"READY", "SUSPEND"}
        /\ dispatch_disabled = DDS_DISABLE => k2.tcb[t].state = "READY"
  BY <1>5, <1>6, ContextFacts
<1>. QED
  BY <1>2, <1>3, <1>4, <1>5, <1>6, <1>7, TaskStep

-----------------------------------------------------------------------------
(* task_manage.c                                                           *)

\* tk_chg_slt writes the slice time only.
LEMMA ChangeSliceTime ==
  ASSUME IInv, NEW t \in Task, NEW s \in Slices, tk_chg_slt(t, s)
  PROVE  IInv'
<1>. DEFINE c == [tcb[t] EXCEPT !.slicetime = s]
<1>1. /\ tcb[t] \in TCBType /\ TaskOK(tcb[t]) /\ ~tcb[t].klocked /\ ~tcb[t].klockwait
      /\ s \in Nat
  BY TaskFacts, TaskAssumption
<1>2. /\ c \in TCBType /\ c.state = tcb[t].state /\ c.priority = tcb[t].priority
      /\ ~c.klocked /\ ~c.klockwait /\ Alike(c, tcb[t])
  BY <1>1 DEF TCBType, Alike
<1>3. Becomes([Kernel EXCEPT !.tcb[t] = c])
  BY DEF tk_chg_slt, Kernel
<1>. HIDE DEF c
<1>4. UNCHANGED sysvars
  BY DEF tk_chg_slt
<1>. QED
  BY <1>1, <1>2, <1>3, <1>4, AlikeOK, SetStep

\* tk_ena_wai clears the wait prohibitions, which can only help a wait.
LEMMA EnableWait ==
  ASSUME IInv, NEW t \in Task, tk_ena_wai(t)
  PROVE  IInv'
<1>. DEFINE c == [tcb[t] EXCEPT !.waitmask = {}]
<1>1. tcb[t] \in TCBType /\ TaskOK(tcb[t]) /\ ~tcb[t].klocked /\ ~tcb[t].klockwait
  BY TaskFacts
<1>2. /\ c \in TCBType /\ c.state = tcb[t].state /\ c.priority = tcb[t].priority
      /\ ~c.klocked /\ ~c.klockwait
  BY <1>1 DEF TCBType
<1>3. TaskOK(c)
  BY <1>1 DEF TCBType, TaskOK
<1>4. Becomes([Kernel EXCEPT !.tcb[t] = c]) /\ UNCHANGED sysvars
  BY DEF tk_ena_wai, Kernel
<1>. HIDE DEF c
<1>. QED
  BY <1>1, <1>2, <1>3, <1>4, SetStep

\* A READY task changes queues, a waiting one has no hook to run.
LEMMA ChangePriority ==
  ASSUME IInv, NEW t \in Task, NEW p \in Pri, tk_chg_pri(t, p)
  PROVE  IInv'
<1>. DEFINE c == Reprioritised(tcb[t], p)
            k2 == change_task_priority([Kernel EXCEPT !.tcb[t].bpriority = p], t, p)
<1>1. KInv(Kernel) /\ Kernel.tcb = tcb /\ tcb[t] \in TCBType /\ TaskOK(tcb[t])
  BY TaskFacts
<1>2. Becomes(k2) /\ UNCHANGED sysvars
  BY <1>1 DEF tk_chg_pri, Kernel
<1>3. k2 = change_task_priority([Kernel EXCEPT !.tcb[t].bpriority = p], t, p)
  OBVIOUS
<1>4. TaskOK(c)
  BY <1>1 DEF Reprioritised, TCBType, TaskOK
<1>5. c = Reprioritised(Kernel.tcb[t], p)
  BY <1>1
<1>. HIDE DEF c, k2
<1>6. KInv(k2) /\ Effect(Kernel, k2, t, c) /\ c.state = tcb[t].state
  BY <1>1, <1>3, <1>5, ChangeTaskPriority
<1>7. Touch(Kernel, k2, t) /\ Alike(k2.tcb[t], c)
  BY <1>6, EffectTouch
<1>8. TaskOK(k2.tcb[t]) /\ k2.tcb[t].state = tcb[t].state
  BY <1>4, <1>6, <1>7, AlikeOK DEF Alike
<1>9. UNCHANGED <<dispatch_disabled, free_tcb, in_timer>>
  BY <1>2 DEF sysvars
<1>10. ctxtsk = t /\ dispatch_disabled' # DDS_DISABLE_IMPLICIT =>
        /\ k2.tcb[t].state \in {"READY", "SUSPEND"}
        /\ dispatch_disabled = DDS_DISABLE => k2.tcb[t].state = "READY"
  BY <1>8, <1>9, ContextFacts
<1>. QED
  BY <1>2, <1>6, <1>7, <1>8, <1>9, <1>10, TaskStep

\* A call that has the effect c on the TCB of t.
LEMMA EffectStep ==
  ASSUME IInv, NEW t \in Task, NEW c, NEW k2, KInv(k2), Effect(Kernel, k2, t, c),
         Becomes(k2), TaskOK(c), c.state # "NONEXIST", tcb[t].state # "NONEXIST",
         t = ctxtsk /\ dispatch_disabled # DDS_DISABLE_IMPLICIT =>
           /\ c.state \in {"READY", "SUSPEND"}
           /\ dispatch_disabled = DDS_DISABLE => c.state = "READY",
         UNCHANGED sysvars
  PROVE  IInv'
<1>1. Touch(Kernel, k2, t) /\ Alike(k2.tcb[t], c)
  BY EffectTouch
<1>2. TaskOK(k2.tcb[t]) /\ k2.tcb[t].state = c.state
  BY <1>1, AlikeOK DEF Alike
<1>3. UNCHANGED <<dispatch_disabled, free_tcb, in_timer>>
  BY DEF sysvars
<1>. QED
  BY <1>1, <1>2, <1>3, TaskStep

\* tk_rot_rdq permutes one task queue.
LEMMA RotateStep ==
  ASSUME IInv, NEW p \in Pri, tk_rot_rdq(p)
  PROVE  IInv'
<1>. DEFINE k2 == rotate_ready_queue(Kernel, p)
<1>1. KInv(Kernel) /\ k2 = rotate_ready_queue(Kernel, p)
  BY DEF IInv, SysInv
<1>2. Becomes(k2) /\ UNCHANGED <<dispatch_disabled, free_tcb, in_timer>>
  BY DEF tk_rot_rdq, sysvars
<1>. HIDE DEF k2
<1>3. KInv(k2) /\ AllAlike(Kernel, k2) /\ SameContext(Kernel, k2)
  BY <1>1, RotateReadyQueue
<1>. QED
  BY <1>2, <1>3, QueueStep DEF IInv

\* tk_rot_rdq with TPRI_RUN permutes the queue of a priority in range.
LEMMA RotateRunStep ==
  ASSUME IInv, tk_rot_rdq_run
  PROVE  IInv'
<1>. DEFINE k2 == IF in_task THEN rotate_ready_queue(Kernel, tcb[ctxtsk].priority)
                  ELSE rotate_ready_queue_run(Kernel)
<1>1. KInv(Kernel) /\ Queued(Kernel, {}) /\ schedtsk = Kernel.schedtsk
      /\ schedtsk = ready_queue_top(Kernel) /\ ready_queue.top_priority = Kernel.rq.top_priority
  BY DEF IInv, SysInv, KInv, Kernel
<1>2. Becomes(k2) /\ UNCHANGED <<dispatch_disabled, free_tcb, in_timer>>
  BY DEF tk_rot_rdq_run, sysvars
<1>3. \/ k2 = Kernel
      \/ \E p \in Pri : k2 = rotate_ready_queue(Kernel, p)
  <2>1. CASE in_task
    <3>1. ctxtsk \in Task
      BY <2>1, ContextFacts DEF in_task, DDS_ENABLE, DDS_DISABLE, DDS_DISABLE_IMPLICIT
    <3>2. tcb[ctxtsk].priority \in Pri
      BY <3>1, TaskFacts DEF TCBType
    <3>. QED
      BY <2>1, <3>2
  <2>2. CASE ~in_task /\ schedtsk = NoTask
    BY <1>1, <2>2 DEF rotate_ready_queue_run
  <2>3. CASE ~in_task /\ schedtsk # NoTask
    <3>1. Kernel.rq.top_priority \in Pri
      BY <1>1, <2>3, Top
    <3>2. k2 = rotate_ready_queue(Kernel, Kernel.rq.top_priority)
      BY <1>1, <2>3 DEF rotate_ready_queue_run
    <3>. QED
      BY <3>1, <3>2
  <2>. QED
    BY <2>1, <2>2, <2>3
<1>. HIDE DEF k2
<1>4. KInv(k2) /\ AllAlike(Kernel, k2) /\ SameContext(Kernel, k2)
  <2>1. CASE k2 = Kernel
    BY <1>1, <2>1 DEF AllAlike, Alike, SameContext
  <2>2. CASE \E p \in Pri : k2 = rotate_ready_queue(Kernel, p)
    BY <1>1, <2>2, RotateReadyQueue
  <2>. QED
    BY <1>3, <2>1, <2>2
<1>. QED
  BY <1>2, <1>4, QueueStep DEF IInv

\* tk_sta_tsk queues a DORMANT task, which was linked nowhere.
LEMMA StartTask ==
  ASSUME IInv, NEW t \in Task, tk_sta_tsk(t)
  PROVE  IInv'
<1>. DEFINE k2 == make_ready(Kernel, t)
            c == [tcb[t] EXCEPT !.state = "READY"]
<1>1. /\ KInv(Kernel) /\ Kernel.tcb = tcb /\ tcb[t] \in TCBType /\ TaskOK(tcb[t])
      /\ tcb[t].state = "DORMANT"
  BY TaskFacts DEF tk_sta_tsk
<1>2. Becomes(k2) /\ UNCHANGED sysvars /\ k2 = make_ready(Kernel, t)
  BY DEF tk_sta_tsk
<1>3. TaskOK(c) /\ c.state = "READY"
  BY <1>1 DEF TaskOK, TCBType, is_waiting
<1>4. KInv(k2) /\ Effect(Kernel, k2, t, c)
  BY <1>1, NothingQueued, MakeReady
<1>. HIDE DEF c, k2
<1>. QED
  BY <1>1, <1>2, <1>3, <1>4, EffectStep

-----------------------------------------------------------------------------
(* task_sync.c: suspension.                                                *)

\* tk_sus_tsk takes a READY task out, but never one that tk_dis_dsp protects.
LEMMA SuspendTask ==
  ASSUME IInv, NEW t \in Task, tk_sus_tsk(t)
  PROVE  IInv'
<1>. DEFINE c == SuspendedMore(tcb[t])
            k2 == suspend(Kernel, t)
<1>1. /\ KInv(Kernel) /\ Kernel.tcb = tcb /\ tcb[t] \in TCBType /\ TaskOK(tcb[t])
      /\ task_alive(tcb[t].state) /\ tcb[t].suscnt < MaxSus
      /\ ~(t = ctxtsk /\ dispatch_disabled >= DDS_DISABLE)
  BY TaskFacts DEF tk_sus_tsk
<1>2. Becomes(k2) /\ UNCHANGED sysvars /\ k2 = suspend(Kernel, t)
  BY DEF tk_sus_tsk
<1>3. c = SuspendedMore(Kernel.tcb[t])
  BY <1>1
<1>4. /\ c.wtmeb = tcb[t].wtmeb /\ c.nodiswai = tcb[t].nodiswai
      /\ c.tskwait = tcb[t].tskwait /\ c.wupcnt = tcb[t].wupcnt
      /\ c.tskevt = tcb[t].tskevt /\ c.waitmask = tcb[t].waitmask
  BY <1>1 DEF SuspendedMore, TCBType
<1>. HIDE DEF c, k2
<1>5. /\ KInv(k2) /\ Effect(Kernel, k2, t, c) /\ c.suscnt > 0
      /\ c.state \in {"SUSPEND", "WAITSUS"}
      /\ is_waiting(c.state) <=> is_waiting(tcb[t].state)
  BY <1>1, <1>2, <1>3, Suspend
<1>6. TaskOK(c) /\ c.state # "NONEXIST"
  BY <1>1, <1>4, <1>5 DEF TaskOK
<1>7. tcb[t].state # "NONEXIST"
  BY <1>1 DEF task_alive
<1>8. t = ctxtsk /\ dispatch_disabled # DDS_DISABLE_IMPLICIT =>
        c.state = "SUSPEND" /\ dispatch_disabled # DDS_DISABLE
  BY <1>1, <1>5, ContextFacts DEF is_waiting, DDS_DISABLE
<1>. QED
  BY <1>2, <1>5, <1>6, <1>7, <1>8, EffectStep

\* resume: the count goes down, and at 0 the suspension ends.
LEMMA ResumeTask ==
  ASSUME IInv, NEW t \in Task, NEW n \in Nat, n < tcb[t].suscnt,
         tcb[t].state \in {"SUSPEND", "WAITSUS"},
         Becomes(resume(Kernel, t, n)), UNCHANGED sysvars
  PROVE  IInv'
<1>. DEFINE c == ResumedTo(tcb[t], n)
            k2 == resume(Kernel, t, n)
<1>1. KInv(Kernel) /\ Kernel.tcb = tcb /\ tcb[t] \in TCBType /\ TaskOK(tcb[t])
  BY TaskFacts
<1>2. Becomes(k2) /\ k2 = resume(Kernel, t, n) /\ c = ResumedTo(Kernel.tcb[t], n)
  BY <1>1
<1>3. /\ c.wtmeb = tcb[t].wtmeb /\ c.nodiswai = tcb[t].nodiswai
      /\ c.tskwait = tcb[t].tskwait /\ c.wupcnt = tcb[t].wupcnt
      /\ c.tskevt = tcb[t].tskevt /\ c.waitmask = tcb[t].waitmask
  BY <1>1 DEF ResumedTo, TCBType
<1>. HIDE DEF c, k2
<1>4. Unqueued(Kernel, t)
  BY NothingQueued
<1>5. /\ KInv(k2) /\ Effect(Kernel, k2, t, c) /\ c.suscnt = n
      /\ c.state = Resumed(tcb[t].state, n)
      /\ is_waiting(c.state) <=> is_waiting(tcb[t].state)
      /\ c.state \in {"SUSPEND", "WAITSUS"} <=> n > 0
  BY <1>1, <1>2, <1>4, Resume
<1>6. TaskOK(c) /\ c.state # "NONEXIST"
  BY <1>1, <1>3, <1>5 DEF TaskOK, Resumed
<1>7. t = ctxtsk /\ dispatch_disabled # DDS_DISABLE_IMPLICIT =>
        c.state \in {"READY", "SUSPEND"} /\ dispatch_disabled # DDS_DISABLE
  BY <1>5, ContextFacts DEF Resumed
<1>. QED
  BY <1>2, <1>5, <1>6, <1>7, EffectStep

\* Both resume calls leave fewer suspensions than there were.
LEMMA ResumeStep ==
  ASSUME IInv, NEW t \in Task, tk_rsm_tsk(t) \/ tk_frsm_tsk(t)
  PROVE  IInv'
<1>1. tcb[t].state \in {"SUSPEND", "WAITSUS"}
  BY DEF tk_rsm_tsk, tk_frsm_tsk
<1>2. tcb[t].suscnt \in Nat /\ tcb[t].suscnt > 0
  BY <1>1, TaskFacts, TaskAssumption DEF TCBType, TaskOK
<1>3. \E n \in Nat : n < tcb[t].suscnt /\ Becomes(resume(Kernel, t, n))
  <2>1. CASE tk_rsm_tsk(t)
    BY <1>2, <2>1 DEF tk_rsm_tsk
  <2>2. CASE tk_frsm_tsk(t)
    BY <1>2, <2>2 DEF tk_frsm_tsk
  <2>. QED
    BY <2>1, <2>2
<1>4. UNCHANGED sysvars
  BY DEF tk_rsm_tsk, tk_frsm_tsk
<1>. QED
  BY <1>1, <1>3, <1>4, ResumeTask

-----------------------------------------------------------------------------
(* wait.c: the end of a wait.                                              *)

\* There is no queue of an object to leave.
LEMMA UnlinkTouch ==
  ASSUME NEW k, NEW k2, IsKernel(k), IsKernel(k2), NEW t \in Task, NEW c,
         Unlink(k, k2, t, c)
  PROVE  Effect(k, k2, t, c)
<1>1. k2.wq = k.wq
  BY SpecAssumption DEF IsKernel
<1>. QED
  BY <1>1 DEF Unlink, Effect, SameContext

\* A wait has ended: t is READY or SUSPENDed, nothing is left of the wait.
Released(k, k2, t) ==
  /\ KInv(k2) /\ Touch(k, k2, t)
  /\ k2.tcb[t].state = IF k.tcb[t].state = "WAIT" THEN "READY" ELSE "SUSPEND"
  /\ k2.tcb[t].suscnt = k.tcb[t].suscnt
  /\ ~k2.tcb[t].wtmeb /\ ~k2.tcb[t].nodiswai

\* The end of a wait, and the reset of the wait specification.
LEMMA EndOfWait ==
  ASSUME NEW k, KInv(k), NEW t \in Task, is_waiting(k.tcb[t].state),
         NEW ercd \in WaitResult,
         NEW k2, k2 = end_wait(wait_release(k, t), t, ercd)
  PROVE  Released(k, k2, t)
<1>. DEFINE k1 == wait_release(k, t)
            c == Woken(Untimed(k.tcb[t]))
<1>1. k1 = wait_release(k, t) /\ k2 = end_wait(k1, t, ercd)
  OBVIOUS
<1>. HIDE DEF k1, c
<1>2. /\ KInv(k1) /\ Unlink(k, k1, t, c)
      /\ k1.tcb[t].state = IF k.tcb[t].state = "WAIT" THEN "READY" ELSE "SUSPEND"
      /\ k1.tcb[t].suscnt = k.tcb[t].suscnt /\ ~k1.tcb[t].wtmeb
  BY <1>1, WaitRelease DEF c
<1>3. IsKernel(k) /\ IsKernel(k1)
  BY <1>2, TaskBlock
<1>4. Effect(k, k1, t, c)
  BY <1>2, <1>3, UnlinkTouch
<1>5. Touch(k, k1, t)
  BY <1>4, EffectTouch
<1>6. /\ KInv(k2) /\ Touch(k1, k2, t) /\ k2.tcb[t].state = k1.tcb[t].state
      /\ k2.tcb[t].suscnt = k1.tcb[t].suscnt /\ k2.tcb[t].wtmeb = k1.tcb[t].wtmeb
      /\ ~k2.tcb[t].nodiswai
  BY <1>1, <1>2, EndWait
<1>7. Touch(k, k2, t)
  BY <1>5, <1>6, TouchTwice
<1>. QED
  BY <1>2, <1>6, <1>7 DEF Released

\* The state of a task whose wait has ended is consistent.
LEMMA ReleasedOK ==
  ASSUME NEW k, NEW t, NEW k2, is_waiting(k.tcb[t].state), TaskOK(k.tcb[t]),
         Released(k, k2, t)
  PROVE  TaskOK(k2.tcb[t]) /\ k2.tcb[t].state \in {"READY", "SUSPEND"}
BY DEF TaskOK, Released, is_waiting

\* A call that ends a wait.
LEMMA ReleaseStep ==
  ASSUME IInv, NEW t \in Task, is_waiting(tcb[t].state), NEW k2, Becomes(k2),
         Released(Kernel, k2, t), UNCHANGED sysvars
  PROVE  IInv'
<1>1. Kernel.tcb = tcb /\ TaskOK(tcb[t])
  BY TaskFacts
<1>2. TaskOK(k2.tcb[t]) /\ k2.tcb[t].state \in {"READY", "SUSPEND"}
  BY <1>1, ReleasedOK
<1>3. KInv(k2) /\ Touch(Kernel, k2, t)
  BY DEF Released
<1>4. UNCHANGED <<dispatch_disabled, free_tcb, in_timer>>
  BY DEF sysvars
<1>5. ctxtsk = t => dispatch_disabled = DDS_DISABLE_IMPLICIT
  BY ContextFacts DEF is_waiting
<1>6. k2.tcb[t].state # "NONEXIST" /\ tcb[t].state # "NONEXIST"
  BY <1>2 DEF is_waiting
<1>. QED
  BY <1>2, <1>3, <1>4, <1>5, <1>6, TaskStep

\* tk_rel_wai ends a wait.
LEMMA ReleaseWait ==
  ASSUME IInv, NEW t \in Task, tk_rel_wai(t, wait_release(Kernel, t))
  PROVE  IInv'
<1>. DEFINE k2 == end_wait(wait_release(Kernel, t), t, "E_RLWAI")
<1>1. KInv(Kernel) /\ Kernel.tcb = tcb
  BY TaskFacts
<1>2. is_waiting(tcb[t].state) /\ Becomes(k2) /\ UNCHANGED sysvars
  BY DEF tk_rel_wai
<1>3. Released(Kernel, k2, t)
  BY <1>1, <1>2, EndOfWait DEF WaitResult
<1>. QED
  BY <1>2, <1>3, ReleaseStep

\* timer_handler ends a wait by timeout.
LEMMA TimerEvent ==
  ASSUME IInv, NEW t \in Task, timer_handler_event(t, wait_release(Kernel, t))
  PROVE  IInv'
<1>. DEFINE k2 == end_wait(wait_release(Kernel, t), t, tcb[t].wercd)
<1>1. KInv(Kernel) /\ Kernel.tcb = tcb /\ tcb[t] \in TCBType /\ TaskOK(tcb[t])
  BY TaskFacts
<1>2. is_waiting(tcb[t].state)
  BY <1>1 DEF timer_handler_event, TaskOK
<1>3. Becomes(k2) /\ UNCHANGED sysvars
  BY DEF timer_handler_event
<1>4. tcb[t].wercd \in WaitResult
  BY <1>1 DEF TCBType
<1>5. Released(Kernel, k2, t)
  BY <1>1, <1>2, <1>4, EndOfWait
<1>. QED
  BY <1>2, <1>3, <1>5, ReleaseStep

\* tk_dis_wai ends a wait that the new mask prohibits.
LEMMA DisableWait ==
  ASSUME IInv, NEW t \in Task, NEW m \in WaitMasks,
         tk_dis_wai(t, m, wait_release(Kernel, t))
  PROVE  IInv'
<1>. DEFINE waiting == is_waiting(tcb[t].state) /\ tcb[t].tskwait \cap m # {}
                       /\ ~tcb[t].nodiswai
            k1 == end_wait(wait_release(Kernel, t), t, "E_DISWAI")
            c == [k1.tcb[t] EXCEPT !.waitmask = m]
            k2 == [k1 EXCEPT !.tcb[t] = c]
<1>1. /\ KInv(Kernel) /\ Kernel.tcb = tcb /\ tcb[t] \in TCBType /\ TaskOK(tcb[t])
      /\ ~tcb[t].klocked /\ ~tcb[t].klockwait
  BY TaskFacts
<1>2. UNCHANGED sysvars
  BY DEF tk_dis_wai
<1>3. CASE ~waiting
  <2>. DEFINE d == [tcb[t] EXCEPT !.waitmask = m]
  <2>1. /\ d \in TCBType /\ d.state = tcb[t].state /\ d.priority = tcb[t].priority
        /\ ~d.klocked /\ ~d.klockwait
    BY <1>1, SpecAssumption DEF TCBType, WaitFactor
  <2>2. TaskOK(d)
    BY <1>1, <1>3 DEF TCBType, TaskOK
  <2>3. Becomes([Kernel EXCEPT !.tcb[t] = d])
    BY <1>1, <1>3 DEF tk_dis_wai
  <2>. HIDE DEF d
  <2>. QED
    BY <1>2, <2>1, <2>2, <2>3, SetStep
<1>4. CASE waiting
  <2>1. Becomes(k2)
    BY <1>4 DEF tk_dis_wai
  <2>2. k1 = end_wait(wait_release(Kernel, t), t, "E_DISWAI") /\ k2 = [k1 EXCEPT !.tcb[t] = c]
    OBVIOUS
  <2>3. c = [k1.tcb[t] EXCEPT !.waitmask = m]
    OBVIOUS
  <2>. HIDE DEF k1, k2, c
  <2>4. Released(Kernel, k1, t)
    BY <1>1, <1>4, <2>2, EndOfWait DEF WaitResult
  <2>5. /\ KInv(k1) /\ Touch(Kernel, k1, t) /\ k1.tcb[t] \in TCBType
        /\ ~k1.tcb[t].klocked /\ ~k1.tcb[t].klockwait
    BY <2>4 DEF Released, KInv, Queued, IsKernel
  <2>6. /\ c \in TCBType /\ ~c.klocked /\ ~c.klockwait /\ c.state = k1.tcb[t].state
        /\ c.priority = k1.tcb[t].priority /\ c.suscnt = k1.tcb[t].suscnt
        /\ c.wtmeb = k1.tcb[t].wtmeb /\ c.nodiswai = k1.tcb[t].nodiswai
    BY <2>3, <2>5, SpecAssumption DEF TCBType, WaitFactor
  <2>7. KInv(k2) /\ Effect(k1, k2, t, c)
    BY <2>2, <2>5, <2>6, SetData
  <2>8. Touch(k1, k2, t) /\ Alike(k2.tcb[t], c)
    BY <2>7, EffectTouch
  <2>9. Touch(Kernel, k2, t)
    BY <2>5, <2>8, TouchTwice
  <2>10. Released(Kernel, k2, t)
    BY <2>4, <2>6, <2>7, <2>8, <2>9 DEF Released, Alike
  <2>. QED
    BY <1>2, <1>4, <2>1, <2>10, ReleaseStep
<1>. QED
  BY <1>3, <1>4

-----------------------------------------------------------------------------
(* task_sync.c: wakeups and events.                                        *)

\* tk_wup_tsk ends a sleep or counts, and a task that sleeps has a count of 0.
LEMMA WakeupTask ==
  ASSUME IInv, NEW t \in Task, tk_wup_tsk(t)
  PROVE  IInv'
<1>. DEFINE sleeping == is_waiting(tcb[t].state) /\ tcb[t].tskwait = {"SLP"}
            c == [tcb[t] EXCEPT !.wupcnt = @ + 1]
            k2 == end_wait(wait_release(Kernel, t), t, "E_OK")
<1>1. /\ KInv(Kernel) /\ Kernel.tcb = tcb
      /\ tcb[t] \in TCBType /\ TaskOK(tcb[t]) /\ ~tcb[t].klocked /\ ~tcb[t].klockwait
  BY TaskFacts
<1>2. /\ UNCHANGED sysvars
      /\ sleeping \/ tcb[t].wupcnt < MaxWup
      /\ Becomes(IF sleeping THEN k2 ELSE [Kernel EXCEPT !.tcb[t] = c])
  BY <1>1 DEF tk_wup_tsk, wait_release_ok, Kernel
<1>3. CASE sleeping
  <2>1. Released(Kernel, k2, t)
    BY <1>1, <1>3, EndOfWait DEF WaitResult
  <2>. HIDE DEF k2
  <2>. QED
    BY <1>2, <1>3, <2>1, ReleaseStep
<1>4. CASE ~sleeping
  <2>1. tcb[t].wupcnt + 1 \in 0 .. MaxWup
    BY <1>1, <1>2, <1>4, TaskAssumption DEF TCBType
  <2>2. /\ c \in TCBType /\ c.state = tcb[t].state /\ c.priority = tcb[t].priority
        /\ ~c.klocked /\ ~c.klockwait
    BY <1>1, <2>1 DEF TCBType
  <2>3. TaskOK(c)
    BY <1>1, <1>4 DEF TCBType, TaskOK
  <2>. HIDE DEF c
  <2>. QED
    BY <1>2, <1>4, <2>2, <2>3, SetStep
<1>. QED
  BY <1>3, <1>4

\* tk_can_wup resets the count.
LEMMA CancelWakeup ==
  ASSUME IInv, NEW t \in Task, tk_can_wup(t)
  PROVE  IInv'
<1>. DEFINE c == [tcb[t] EXCEPT !.wupcnt = 0]
<1>1. tcb[t] \in TCBType /\ TaskOK(tcb[t]) /\ ~tcb[t].klocked /\ ~tcb[t].klockwait
  BY TaskFacts
<1>2. /\ c \in TCBType /\ c.state = tcb[t].state /\ c.priority = tcb[t].priority
      /\ ~c.klocked /\ ~c.klockwait
  BY <1>1, TaskAssumption DEF TCBType
<1>3. TaskOK(c)
  BY <1>1 DEF TCBType, TaskOK
<1>4. Becomes([Kernel EXCEPT !.tcb[t] = c]) /\ UNCHANGED sysvars
  BY DEF tk_can_wup, Kernel
<1>. HIDE DEF c
<1>. QED
  BY <1>1, <1>2, <1>3, <1>4, SetStep

\* tk_sig_tev ends a wait for the event or makes it pending.
LEMMA SignalEvent ==
  ASSUME IInv, NEW t \in Task, NEW e \in Event, tk_sig_tev(t, e)
  PROVE  IInv'
<1>. DEFINE waiting == is_waiting(tcb[t].state) /\ e \in tcb[t].tskwait
            c == [tcb[t] EXCEPT !.tskevt = @ \cup {e}]
            k2 == end_wait(wait_release(Kernel, t), t, "E_OK")
<1>1. /\ KInv(Kernel) /\ Kernel.tcb = tcb
      /\ tcb[t] \in TCBType /\ TaskOK(tcb[t]) /\ ~tcb[t].klocked /\ ~tcb[t].klockwait
  BY TaskFacts
<1>2. /\ UNCHANGED sysvars
      /\ Becomes(IF waiting THEN k2 ELSE [Kernel EXCEPT !.tcb[t] = c])
  BY <1>1 DEF tk_sig_tev, wait_release_ok, Kernel
<1>3. CASE waiting
  <2>1. Released(Kernel, k2, t)
    BY <1>1, <1>3, EndOfWait DEF WaitResult
  <2>. HIDE DEF k2
  <2>. QED
    BY <1>2, <1>3, <2>1, ReleaseStep
<1>4. CASE ~waiting
  <2>1. /\ c \in TCBType /\ c.state = tcb[t].state /\ c.priority = tcb[t].priority
        /\ ~c.klocked /\ ~c.klockwait
    BY <1>1 DEF TCBType
  <2>2. TaskOK(c)
    BY <1>1, <1>4 DEF TCBType, TaskOK
  <2>. HIDE DEF c
  <2>. QED
    BY <1>2, <1>4, <2>1, <2>2, SetStep
<1>. QED
  BY <1>3, <1>4

\* A call of a running task with dispatching enabled that goes to sleep.
LEMMA SleepStep ==
  ASSUME IInv, CHECK_DISPATCH, NEW fac \in SUBSET ({"SLP"} \cup Event), fac # {},
         fac = {"SLP"} => tcb[ctxtsk].wupcnt = 0,
         fac \cap tcb[ctxtsk].tskevt = {}, fac \cap tcb[ctxtsk].waitmask = {},
         NEW tmout \in TMO,
         END_CRITICAL_SECTION(make_wait(Kernel, fac, NoQueue, tmout, FALSE))
  PROVE  IInv'
<1>. DEFINE t == ctxtsk
            none == NoQueue
            no == FALSE
            c == Blocked(tcb[t], fac, NoQueue, tmout, FALSE)
            k2 == make_wait(Kernel, fac, NoQueue, tmout, FALSE)
<1>1. /\ t = schedtsk /\ t \in Task /\ tcb[t].state = "READY"
      /\ dispatch_disabled = DDS_ENABLE
  BY ContextFacts DEF CHECK_DISPATCH, in_task, DDS_ENABLE, DDS_DISABLE, DDS_DISABLE_IMPLICIT
<1>2. /\ KInv(Kernel) /\ Kernel.tcb = tcb /\ tcb[t] \in TCBType /\ TaskOK(tcb[t])
      /\ Kernel.ctxtsk = t
  BY <1>1, TaskFacts DEF Kernel
<1>3. k2 = make_wait(Kernel, fac, NoQueue, tmout, FALSE) /\ END_CRITICAL_SECTION(k2)
  OBVIOUS
<1>4. TaskOK(c)
  BY <1>1, <1>2 DEF TCBType, TaskOK, is_waiting, Blocked
<1>5. /\ c = Blocked(Kernel.tcb[t], fac, none, tmout, no)
      /\ k2 = make_wait(Kernel, fac, none, tmout, no)
      /\ fac \in SUBSET WaitFactor /\ none \in WaitQueue \cup {NoQueue} /\ no \in BOOLEAN
      /\ Kernel.tcb[t].state = "READY"
  BY <1>1, <1>2 DEF WaitFactor
<1>. HIDE DEF t, none, no, c, k2
<1>6. KInv(k2) /\ Effect(Kernel, k2, t, c) /\ c.state = "WAIT"
  BY <1>1, <1>2, <1>5, MakeWait
<1>. USE DEF t
<1>7. Touch(Kernel, k2, t) /\ Alike(k2.tcb[t], c)
  BY <1>1, <1>6, EffectTouch
<1>8. TaskOK(k2.tcb[t]) /\ k2.tcb[t].state = "WAIT"
  BY <1>4, <1>6, <1>7, AlikeOK DEF Alike
<1>9. k2.ctxtsk = t /\ k2.schedtsk # t
  <2>1. k2.ctxtsk = t
    BY <1>2, <1>7 DEF Touch, SameContext
  <2>2. k2.schedtsk # NoTask => k2.tcb[k2.schedtsk].state = "READY"
    BY <1>6, Top DEF KInv
  <2>3. t # NoTask
    BY <1>1, TaskAssumption
  <2>. QED
    BY <1>8, <2>1, <2>2, <2>3
<1>10. dispatch_disabled' = DDS_DISABLE_IMPLICIT
  BY <1>1, <1>3, <1>9 DEF END_CRITICAL_SECTION
<1>11. Becomes(k2) /\ UNCHANGED <<free_tcb, in_timer>>
  BY <1>3 DEF END_CRITICAL_SECTION
<1>. QED
  BY <1>1, <1>6, <1>7, <1>8, <1>10, <1>11, TaskStep

\* A call of a running task, with dispatching enabled, that goes on.
LEMMA GoOnStep ==
  ASSUME IInv, CHECK_DISPATCH, NEW c \in TCBType, ~c.klocked, ~c.klockwait,
         c.state = tcb[ctxtsk].state, c.priority = tcb[ctxtsk].priority, TaskOK(c),
         END_CRITICAL_SECTION([Kernel EXCEPT !.tcb[ctxtsk] = c])
  PROVE  IInv'
<1>. DEFINE k2 == [Kernel EXCEPT !.tcb[ctxtsk] = c]
<1>1. /\ ctxtsk = schedtsk /\ ctxtsk \in Task /\ dispatch_disabled = DDS_ENABLE
  BY ContextFacts DEF CHECK_DISPATCH, in_task, DDS_ENABLE, DDS_DISABLE, DDS_DISABLE_IMPLICIT
<1>2. k2.ctxtsk = k2.schedtsk
  BY <1>1 DEF Kernel
<1>3. Becomes(k2) /\ UNCHANGED sysvars
  BY <1>1, <1>2 DEF END_CRITICAL_SECTION, sysvars
<1>. HIDE DEF k2
<1>4. Becomes([Kernel EXCEPT !.tcb[ctxtsk] = c])
  BY <1>3 DEF k2
<1>. QED
  BY <1>1, <1>3, <1>4, SetStep

\* tk_slp_tsk sleeps only with no wakeup counted and sleep not prohibited.
LEMMA Sleep ==
  ASSUME IInv, NEW tmout \in TMO, tk_slp_tsk(tmout)
  PROVE  IInv'
<1>. DEFINE t == ctxtsk
            c == [tcb[t] EXCEPT !.wupcnt = @ - 1]
<1>1. t \in Task
  BY ContextFacts DEF tk_slp_tsk, CHECK_DISPATCH, in_task, DDS_ENABLE, DDS_DISABLE_IMPLICIT
<1>2. /\ IsKernel(Kernel) /\ Kernel.tcb = tcb
      /\ tcb \in [Task -> TCBType] /\ tcb[t] \in TCBType /\ TaskOK(tcb[t])
      /\ ~tcb[t].klocked /\ ~tcb[t].klockwait
  BY <1>1, TaskFacts
<1>3. CASE tcb[t].wupcnt > 0
  <2>1. END_CRITICAL_SECTION([Kernel EXCEPT !.tcb[t] = c])
    BY <1>2, <1>3 DEF tk_slp_tsk
  <2>2. tcb[t].wupcnt - 1 \in 0 .. MaxWup
    BY <1>2, <1>3, TaskAssumption DEF TCBType
  <2>3. /\ c \in TCBType /\ c.state = tcb[t].state /\ c.priority = tcb[t].priority
        /\ ~c.klocked /\ ~c.klockwait
    BY <1>2, <2>2 DEF TCBType
  <2>4. TaskOK(c)
    <3>1. is_waiting(tcb[t].state) => tcb[t].tskwait # {"SLP"}
      BY <1>2, <1>3, TaskAssumption DEF TaskOK, TCBType
    <3>. QED
      BY <1>2, <3>1 DEF TCBType, TaskOK
  <2>. HIDE DEF c
  <2>. QED
    BY <2>1, <2>3, <2>4, GoOnStep DEF tk_slp_tsk
<1>4. CASE ~(tcb[t].wupcnt > 0) /\ tmout = "TMO_POL"
  <2>1. END_CRITICAL_SECTION(Kernel)
    BY <1>4 DEF tk_slp_tsk
  <2>2. Kernel = [Kernel EXCEPT !.tcb[t] = tcb[t]]
    BY <1>1, <1>2 DEF IsKernel
  <2>. QED
    BY <1>2, <2>1, <2>2, GoOnStep DEF tk_slp_tsk
<1>5. CASE ~(tcb[t].wupcnt > 0) /\ tmout # "TMO_POL"
  <2>. DEFINE fac == {"SLP"}
  <2>1. END_CRITICAL_SECTION(make_wait(Kernel, fac, NoQueue, tmout, FALSE))
    BY <1>5 DEF tk_slp_tsk
  <2>2. tcb[t].wupcnt = 0
    BY <1>2, <1>5, TaskAssumption DEF TCBType
  <2>3. fac \cap tcb[t].tskevt = {} /\ fac \cap tcb[t].waitmask = {}
    BY <1>2, SpecAssumption DEF TCBType, tk_slp_tsk
  <2>4. fac \in SUBSET ({"SLP"} \cup Event) /\ fac # {} /\ CHECK_DISPATCH
    BY DEF tk_slp_tsk
  <2>. HIDE DEF fac
  <2>. QED
    BY <2>1, <2>2, <2>3, <2>4, SleepStep
<1>. QED
  BY <1>3, <1>4, <1>5

\* tk_wai_tev waits only when none of its events is pending.
LEMMA WaitEvent ==
  ASSUME IInv, NEW e \in EventSets, NEW tmout \in TMO, tk_wai_tev(e, tmout)
  PROVE  IInv'
<1>. DEFINE t == ctxtsk
            c == [tcb[t] EXCEPT !.tskevt = @ \ e]
            pending == tcb[t].tskevt \cap e # {}
<1>1. t \in Task
  BY ContextFacts DEF tk_wai_tev, CHECK_DISPATCH, in_task, DDS_ENABLE, DDS_DISABLE_IMPLICIT
<1>2. /\ IsKernel(Kernel) /\ Kernel.tcb = tcb
      /\ tcb \in [Task -> TCBType] /\ tcb[t] \in TCBType /\ TaskOK(tcb[t])
      /\ ~tcb[t].klocked /\ ~tcb[t].klockwait
  BY <1>1, TaskFacts
<1>3. CASE pending
  <2>1. END_CRITICAL_SECTION([Kernel EXCEPT !.tcb[t] = c])
    BY <1>2, <1>3 DEF tk_wai_tev
  <2>2. /\ c \in TCBType /\ c.state = tcb[t].state /\ c.priority = tcb[t].priority
        /\ ~c.klocked /\ ~c.klockwait
    BY <1>2 DEF TCBType
  <2>3. TaskOK(c)
    BY <1>2 DEF TCBType, TaskOK
  <2>. HIDE DEF c
  <2>. QED
    BY <2>1, <2>2, <2>3, GoOnStep DEF tk_wai_tev
<1>4. CASE ~pending /\ tmout = "TMO_POL"
  <2>1. END_CRITICAL_SECTION(Kernel)
    BY <1>4 DEF tk_wai_tev
  <2>2. Kernel = [Kernel EXCEPT !.tcb[t] = tcb[t]]
    BY <1>1, <1>2 DEF IsKernel
  <2>. QED
    BY <1>2, <2>1, <2>2, GoOnStep DEF tk_wai_tev
<1>5. CASE ~pending /\ tmout # "TMO_POL"
  <2>1. END_CRITICAL_SECTION(make_wait(Kernel, e, NoQueue, tmout, FALSE))
    BY <1>5 DEF tk_wai_tev
  <2>2. /\ e \in SUBSET ({"SLP"} \cup Event) /\ e # {} /\ e # {"SLP"}
    BY SpecAssumption
  <2>3. e \cap tcb[t].tskevt = {} /\ e \cap tcb[t].waitmask = {} /\ CHECK_DISPATCH
    BY <1>5 DEF tk_wai_tev
  <2>. QED
    BY <2>1, <2>2, <2>3, SleepStep
<1>. QED
  BY <1>3, <1>4, <1>5

-----------------------------------------------------------------------------
(* The dispatcher and the timer interrupt.                                 *)

\* A critical section that touches one task and passes the context to x.
LEMMA SwitchStep ==
  ASSUME IInv, NEW t \in Task, NEW k1, KInv(k1), Touch(Kernel, k1, t), TaskOK(k1.tcb[t]),
         NEW x \in Task \cup {NoTask}, Becomes([k1 EXCEPT !.ctxtsk = x]),
         dispatch_disabled' \in {DDS_ENABLE, DDS_DISABLE_IMPLICIT},
         dispatch_disabled' = DDS_ENABLE => x # NoTask /\ k1.tcb[x].state = "READY",
         FreeInv(k1, free_tcb'), UNCHANGED in_timer
  PROVE  IInv'
<1>. DEFINE k2 == [k1 EXCEPT !.ctxtsk = x]
<1>1. k2 = [k1 EXCEPT !.ctxtsk = x] /\ Becomes(k2)
  OBVIOUS
<1>. HIDE DEF k2
<1>2. KInv(k2) /\ k2.tcb = k1.tcb /\ k2.ctxtsk = x /\ k2.obj = k1.obj
  BY <1>1, Retarget
<1>3. TasksOK(k1)
  BY AlikeOK DEF TasksOK, Touch, IInv, SysInv
<1>4. CtxInv(k2, dispatch_disabled')
  BY <1>2 DEF CtxInv, DDS_ENABLE, DDS_DISABLE, DDS_DISABLE_IMPLICIT
<1>5. SysInv(k2, dispatch_disabled')
  BY <1>2, <1>3, <1>4 DEF IInv, SysInv, TasksOK, Touch, SameContext
<1>6. FreeInv(k2, free_tcb')
  BY <1>2 DEF FreeInv
<1>7. Kernel' = k2
  BY <1>1, <1>2, NextKernel DEF KInv, Queued
<1>. QED
  BY <1>5, <1>6, <1>7 DEF IInv

\* Every step that changes dispatch_disabled alone.
LEMMA DisableStep ==
  ASSUME IInv, UNCHANGED <<kernvars, free_tcb, in_timer>>,
         \/ dispatch_disabled' = DDS_DISABLE_IMPLICIT
         \/ dispatch_disabled' \in {DDS_ENABLE, DDS_DISABLE} /\ in_task
  PROVE  IInv'
<1>1. Kernel' = Kernel
  BY DEF kernvars, Kernel
<1>2. /\ Kernel.tcb = tcb /\ Kernel.ctxtsk = ctxtsk /\ CtxInv(Kernel, dispatch_disabled)
  BY ContextFacts DEF Kernel
<1>3. in_task => ctxtsk # NoTask /\ tcb[ctxtsk].state = "READY"
  BY ContextFacts DEF in_task
<1>4. CtxInv(Kernel, dispatch_disabled')
  BY <1>2, <1>3 DEF CtxInv, DDS_ENABLE, DDS_DISABLE, DDS_DISABLE_IMPLICIT
<1>5. SysInv(Kernel, dispatch_disabled')
  BY <1>4 DEF IInv, SysInv
<1>. QED
  BY <1>1, <1>5 DEF IInv

\* The dispatcher gives up the context and takes on schedtsk.
LEMMA DispatcherStep ==
  ASSUME IInv, Dispatcher
  PROVE  IInv'
<1>1. CASE dispatch_entry
  BY <1>1, DisableStep DEF dispatch_entry
<1>2. CASE dispatch_save
  <2>1. /\ ctxtsk \in Task /\ KInv(Kernel) /\ TaskOK(Kernel.tcb[ctxtsk])
    BY <1>2, ContextFacts, TaskFacts DEF dispatch_save
  <2>2. Touch(Kernel, Kernel, ctxtsk)
    BY DEF Touch, Alike, SameContext
  <2>3. Becomes([Kernel EXCEPT !.ctxtsk = NoTask]) /\ UNCHANGED sysvars
    BY <1>2 DEF dispatch_save, force_dispatch
  <2>4. FreeInv(Kernel, free_tcb') /\ dispatch_disabled' = DDS_DISABLE_IMPLICIT
        /\ in_timer' = in_timer
    BY <1>2, <2>3 DEF dispatch_save, IInv, sysvars
  <2>. QED
    BY <2>1, <2>2, <2>3, <2>4, SwitchStep DEF DDS_ENABLE, DDS_DISABLE_IMPLICIT
<1>3. CASE dispatch_to
  <2>. DEFINE t == schedtsk
              c == [tcb[t] EXCEPT !.wercd = "none"]
              k1 == [Kernel EXCEPT !.tcb[t] = c]
  <2>1. t \in Task /\ tcb[t].state = "READY"
    BY <1>3, ContextFacts DEF dispatch_to
  <2>2. /\ KInv(Kernel) /\ Kernel.tcb = tcb /\ IsKernel(Kernel)
        /\ tcb[t] \in TCBType /\ TaskOK(tcb[t])
        /\ ~tcb[t].klocked /\ ~tcb[t].klockwait
    BY <2>1, TaskFacts
  <2>3. /\ c \in TCBType /\ ~c.klocked /\ ~c.klockwait /\ c.state = "READY"
        /\ c.priority = tcb[t].priority /\ Alike(c, tcb[t])
    BY <2>1, <2>2 DEF TCBType, WaitFactor, WaitResult, Alike
  <2>4. Becomes([k1 EXCEPT !.ctxtsk = t])
    BY <1>3, <2>2 DEF dispatch_to, Kernel
  <2>5. k1 = [Kernel EXCEPT !.tcb[t] = c]
    OBVIOUS
  <2>. HIDE DEF c, k1, t
  <2>6. KInv(k1) /\ Effect(Kernel, k1, t, c)
    BY <2>1, <2>2, <2>3, <2>5, SetData
  <2>7. Touch(Kernel, k1, t) /\ Alike(k1.tcb[t], c)
    BY <2>1, <2>6, EffectTouch
  <2>8. TaskOK(k1.tcb[t]) /\ k1.tcb[t].state = "READY"
    BY <2>2, <2>3, <2>7, AlikeOK DEF Alike
  <2>9. FreeInv(k1, free_tcb)
    BY <2>1, <2>2, <2>7, <2>8, FreeSame DEF IInv
  <2>10. /\ dispatch_disabled' = DDS_ENABLE /\ free_tcb' = free_tcb /\ in_timer' = in_timer
         /\ t # NoTask /\ t \in Task \cup {NoTask}
    BY <1>3, <2>1, TaskAssumption DEF dispatch_to
  <2>. QED
    BY <2>1, <2>4, <2>6, <2>7, <2>8, <2>9, <2>10, SwitchStep
<1>. QED
  BY <1>1, <1>2, <1>3 DEF Dispatcher

\* timer_handler charges the running task and ends waits.
LEMMA TimerStep ==
  ASSUME IInv, Timer
  PROVE  IInv'
<1>1. CASE timer_handler_begin
  <2>. DEFINE k2 == time_slice_tick(Kernel)
  <2>1. k2 = time_slice_tick(Kernel) /\ Becomes(k2) /\ KInv(Kernel)
        /\ UNCHANGED <<dispatch_disabled, free_tcb>> /\ in_timer' \in BOOLEAN
    BY <1>1 DEF timer_handler_begin, IInv, SysInv
  <2>. HIDE DEF k2
  <2>2. KInv(k2) /\ AllAlike(Kernel, k2) /\ SameContext(Kernel, k2)
    BY <2>1, TimeSliceTick
  <2>. QED
    BY <2>1, <2>2, QueueStep
<1>2. CASE \E t \in Task : timer_handler_event(t, wait_release(Kernel, t))
  BY <1>2, TimerEvent
<1>3. CASE timer_handler_end
  BY <1>3 DEF timer_handler_end, kernvars, IInv, Kernel
<1>. QED
  BY <1>1, <1>2, <1>3 DEF Timer

-----------------------------------------------------------------------------
(* The life of a task.                                                     *)

\* make_dormant leaves a consistent TCB, if no timeout is registered.
LEMMA DormantOK ==
  ASSUME NEW c \in TCBType, ~c.wtmeb, NEW d, d = Dormant(c)
  PROVE  /\ d \in TCBType /\ ~d.klocked /\ ~d.klockwait /\ d.state = "DORMANT"
         /\ TaskOK(d)
<1>1. /\ d \in TCBType /\ ~d.klocked /\ ~d.klockwait /\ d.state = "DORMANT"
      /\ d.suscnt = 0 /\ d.wtmeb = c.wtmeb /\ ~d.nodiswai
  BY DormantBlock
<1>. QED
  BY <1>1 DEF TaskOK, is_waiting

\* A free TCB is consistent.
LEMMA BlankOK ==
  /\ blank_tcb(0) \in TCBType /\ TaskOK(blank_tcb(0))
  /\ ~blank_tcb(0).klocked /\ ~blank_tcb(0).klockwait
  /\ blank_tcb(0).state = "NONEXIST"
<1>. DEFINE b == blank_tcb(0)
<1>1. 0 \in Pri /\ b = blank_tcb(0)
  BY TaskAssumption DEF Pri
<1>. HIDE DEF b
<1>2. /\ b \in TCBType /\ ~b.klocked /\ ~b.klockwait /\ b.state = "NONEXIST"
      /\ b.suscnt = 0 /\ ~b.wtmeb /\ ~b.nodiswai
  BY <1>1, BlankBlock
<1>. QED
  BY <1>1, <1>2 DEF TaskOK, is_waiting

\* Only t becomes unregistered.
LEMMA FreeMore ==
  ASSUME NEW k, NEW fl, FreeInv(k, fl), NEW t \in Task, k.tcb[t].state # "NONEXIST",
         NEW k2, Touch(k, k2, t), k2.tcb[t].state = "NONEXIST"
  PROVE  FreeInv(k2, Append(fl, t))
<1>1. fl \in Queue /\ t \notin ToSet(fl)
  BY DEF FreeInv
<1>2. Append(fl, t) \in Queue /\ ToSet(Append(fl, t)) = ToSet(fl) \cup {t}
  BY <1>1, QueueAppend
<1>3. \A u \in Task : u # t => k2.tcb[u].state = k.tcb[u].state
  BY DEF Touch, Alike
<1>. QED
  BY <1>2, <1>3 DEF FreeInv

\* Only the head of free_tcb becomes registered.
LEMMA FreeLess ==
  ASSUME NEW k, NEW fl, FreeInv(k, fl), fl # <<>>,
         NEW k2, Touch(k, k2, Head(fl)), k2.tcb[Head(fl)].state # "NONEXIST"
  PROVE  FreeInv(k2, Tail(fl))
<1>1. /\ Head(fl) \in ToSet(fl) /\ Tail(fl) \in Queue
      /\ ToSet(Tail(fl)) = ToSet(fl) \ {Head(fl)}
  BY QueueTail DEF FreeInv
<1>2. \A u \in Task : u # Head(fl) => k2.tcb[u].state = k.tcb[u].state
  BY DEF Touch, Alike
<1>. QED
  BY <1>1, <1>2 DEF FreeInv

\* The TCB of a task that is not READY becomes one that is not READY either.
LEMMA ReplaceTask ==
  ASSUME NEW k, KInv(k), NEW t \in Task, k.tcb[t].state # "READY",
         NEW c \in TCBType, ~c.klocked, ~c.klockwait, c.state # "READY", TaskOK(c),
         NEW k2, k2 = Put(k, t, c)
  PROVE  KInv(k2) /\ Touch(k, k2, t) /\ TaskOK(k2.tcb[t]) /\ k2.tcb[t].state = c.state
<1>1. KInv(k2) /\ Effect(k, k2, t, c)
  BY SetData DEF Put
<1>2. Touch(k, k2, t) /\ Alike(k2.tcb[t], c)
  BY <1>1, EffectTouch
<1>. QED
  BY <1>1, <1>2, AlikeOK DEF Alike

\* tk_cre_tsk takes the TCB at the head of free_tcb.
LEMMA CreateTask ==
  ASSUME IInv, NEW p \in Pri, tk_cre_tsk(p)
  PROVE  IInv'
<1>. DEFINE t == Head(free_tcb)
            c == [tcb[t] EXCEPT !.ipriority = p]
            d == Dormant(c)
            k0 == [Kernel EXCEPT !.tcb[t] = c]
            k2 == [Kernel EXCEPT !.tcb[t] = d]
<1>1. free_tcb # <<>> /\ FreeInv(Kernel, free_tcb) /\ in_task
  BY DEF tk_cre_tsk, IInv
<1>2. t \in Task /\ Kernel.tcb[t].state = "NONEXIST"
  BY <1>1, QueueTail DEF FreeInv
<1>3. /\ KInv(Kernel) /\ IsKernel(Kernel) /\ Kernel.tcb = tcb
      /\ tcb \in [Task -> TCBType] /\ tcb[t] \in TCBType /\ TaskOK(tcb[t])
      /\ t # NoTask
  BY <1>2, TaskFacts
<1>4. c \in TCBType /\ ~c.wtmeb
  BY <1>2, <1>3 DEF TCBType, TaskOK, is_waiting
<1>5. IsKernel(k0) /\ k0.tcb[t] = c /\ k2 = [k0 EXCEPT !.tcb[t] = d]
  BY <1>2, <1>3, <1>4 DEF IsKernel
<1>6. Becomes(make_dormant(k0, t))
  BY DEF tk_cre_tsk, Kernel
<1>7. k2 = Put(Kernel, t, d) /\ d = Dormant(c)
  BY DEF Put
<1>. HIDE DEF c, d, k2
<1>8. Becomes(k2)
  <2>1. IsKernel(k0) /\ d = Dormant(k0.tcb[t])
    BY <1>5, <1>7
  <2>. HIDE DEF k0
  <2>2. make_dormant(k0, t) = Put(k0, t, d)
    BY <1>2, <2>1, MakeDormant
  <2>. QED
    BY <1>5, <1>6, <2>2 DEF Put
<1>. HIDE DEF k0
<1>9. /\ d \in TCBType /\ ~d.klocked /\ ~d.klockwait /\ d.state = "DORMANT" /\ TaskOK(d)
  BY <1>4, <1>7, DormantOK
<1>10. /\ KInv(k2) /\ Touch(Kernel, k2, t) /\ TaskOK(k2.tcb[t])
       /\ k2.tcb[t].state = "DORMANT"
  BY <1>2, <1>3, <1>7, <1>9, ReplaceTask
<1>11. FreeInv(k2, Tail(free_tcb))
  BY <1>1, <1>10, FreeLess
<1>12. /\ SysInv(Kernel, dispatch_disabled) /\ Kernel.ctxtsk = ctxtsk
       /\ in_timer \in BOOLEAN
  BY DEF IInv, Kernel
<1>13. ctxtsk = t => dispatch_disabled = DDS_DISABLE_IMPLICIT
  BY <1>2, <1>3, ContextFacts
<1>14. SysInv(k2, dispatch_disabled)
  BY <1>2, <1>10, <1>12, <1>13, OneTask
<1>15. Kernel' = k2
  BY <1>8, <1>10, NextKernel DEF KInv, Queued
<1>. QED
  BY <1>11, <1>12, <1>14, <1>15 DEF tk_cre_tsk, IInv

\* tk_del_tsk gives the TCB of a DORMANT task back to free_tcb.
LEMMA DeleteTask ==
  ASSUME IInv, NEW t \in Task, tk_del_tsk(t)
  PROVE  IInv'
<1>. DEFINE c == blank_tcb(0)
            k2 == _del_tsk(Kernel, t)
<1>1. tcb[t].state = "DORMANT" /\ Becomes(k2) /\ free_tcb' = Append(free_tcb, t)
  BY DEF tk_del_tsk
<1>2. KInv(Kernel) /\ Kernel.tcb = tcb /\ Kernel.tcb[t].state # "READY"
  BY <1>1, TaskFacts
<1>3. /\ k2 = Put(Kernel, t, c) /\ c \in TCBType /\ TaskOK(c)
      /\ ~c.klocked /\ ~c.klockwait /\ c.state = "NONEXIST"
  BY BlankOK DEF _del_tsk, Put
<1>. HIDE DEF c, k2
<1>4. /\ KInv(k2) /\ Touch(Kernel, k2, t) /\ TaskOK(k2.tcb[t])
      /\ k2.tcb[t].state = "NONEXIST"
  BY <1>1, <1>2, <1>3, ReplaceTask
<1>5. FreeInv(k2, free_tcb')
  BY <1>1, <1>2, <1>4, FreeMore DEF IInv
<1>6. /\ SysInv(Kernel, dispatch_disabled) /\ Kernel.ctxtsk = ctxtsk
      /\ in_timer \in BOOLEAN
  BY DEF IInv, Kernel
<1>7. ctxtsk = t => dispatch_disabled = DDS_DISABLE_IMPLICIT
  BY <1>1, ContextFacts
<1>8. SysInv(k2, dispatch_disabled)
  BY <1>4, <1>6, <1>7, OneTask
<1>9. Kernel' = k2
  BY <1>1, <1>4, NextKernel DEF KInv, Queued
<1>. QED
  BY <1>5, <1>6, <1>8, <1>9 DEF tk_del_tsk, IInv

\* _ter_tsk takes the task out of the ready queue or ends its wait.
LEMMA TakenOut ==
  ASSUME IInv, NEW t \in Task, task_alive(tcb[t].state),
         NEW k1, k1 = _ter_tsk(Kernel, t)
  PROVE  /\ IsKernel(k1) /\ k1.tcb[t] \in TCBType /\ ~k1.tcb[t].wtmeb
         /\ IF tcb[t].state = "READY" THEN k1 = make_non_ready(Kernel, t)
            ELSE KInv(k1) /\ Touch(Kernel, k1, t) /\ k1.tcb[t].state # "READY"
<1>1. KInv(Kernel) /\ IsKernel(Kernel) /\ Kernel.tcb = tcb /\ tcb[t] \in TCBType /\ TaskOK(tcb[t])
  BY TaskFacts
<1>2. CASE tcb[t].state = "READY"
  <2>1. k1 = make_non_ready(Kernel, t)
    BY <1>1, <1>2 DEF _ter_tsk
  <2>2. Queued(k1, {t}) /\ k1.tcb = tcb
    BY <1>1, <1>2, <2>1, MakeNonReady
  <2>3. ~tcb[t].wtmeb
    BY <1>1, <1>2 DEF TaskOK, is_waiting
  <2>. QED
    BY <1>1, <1>2, <2>1, <2>2, <2>3 DEF Queued
<1>3. CASE is_waiting(tcb[t].state)
  <2>. DEFINE c == Untimed(tcb[t])
  <2>1. tcb[t].state # "READY"
    BY <1>3 DEF is_waiting
  <2>2. k1 = wait_cancel(Kernel, t)
    BY <1>1, <1>3, <2>1 DEF _ter_tsk
  <2>3. c.state = tcb[t].state /\ ~c.wtmeb /\ c = Untimed(Kernel.tcb[t])
    BY <1>1 DEF TCBType, Untimed
  <2>. HIDE DEF c
  <2>4. KInv(k1) /\ Unlink(Kernel, k1, t, c)
    BY <1>1, <2>1, <2>2, <2>3, WaitCancel
  <2>5. IsKernel(k1) /\ k1.tcb[t] \in TCBType
    BY <2>4, TaskBlock
  <2>6. Effect(Kernel, k1, t, c)
    BY <1>1, <2>4, <2>5, UnlinkTouch
  <2>7. Touch(Kernel, k1, t) /\ Alike(k1.tcb[t], c)
    BY <2>6, EffectTouch
  <2>. QED
    BY <2>1, <2>3, <2>4, <2>5, <2>7 DEF Alike
<1>4. CASE tcb[t].state = "SUSPEND"
  <2>1. k1 = Kernel /\ ~tcb[t].wtmeb
    BY <1>1, <1>4 DEF _ter_tsk, is_waiting, TaskOK
  <2>2. Touch(Kernel, Kernel, t)
    BY DEF Touch, Alike, SameContext
  <2>. QED
    BY <1>1, <1>4, <2>1, <2>2
<1>. QED
  BY <1>2, <1>3, <1>4 DEF task_alive, is_waiting

\* The TCB of a task that is taken out becomes c.
LEMMA EndTask ==
  ASSUME IInv, NEW t \in Task, task_alive(tcb[t].state),
         NEW k1, k1 = _ter_tsk(Kernel, t),
         NEW c \in TCBType, ~c.klocked, ~c.klockwait, c.state # "READY", TaskOK(c),
         NEW k2, k2 = Put(k1, t, c)
  PROVE  /\ KInv(k2) /\ Touch(Kernel, k2, t) /\ TaskOK(k2.tcb[t])
         /\ k2.tcb[t].state = c.state
<1>1. KInv(Kernel) /\ Kernel.tcb = tcb /\ IsKernel(Kernel)
  BY TaskFacts
<1>2. CASE tcb[t].state = "READY"
  <2>1. k1 = make_non_ready(Kernel, t) /\ Kernel.tcb[t].state = "READY"
    BY <1>1, <1>2, TakenOut
  <2>2. KInv(k2) /\ Effect(Kernel, k2, t, c)
    BY <1>1, <2>1, LeaveReady DEF Put
  <2>3. Touch(Kernel, k2, t) /\ Alike(k2.tcb[t], c)
    BY <2>2, EffectTouch
  <2>. QED
    BY <2>2, <2>3, AlikeOK DEF Alike
<1>3. CASE tcb[t].state # "READY"
  <2>1. KInv(k1) /\ Touch(Kernel, k1, t) /\ k1.tcb[t].state # "READY"
    BY <1>3, TakenOut
  <2>2. /\ KInv(k2) /\ Touch(k1, k2, t) /\ TaskOK(k2.tcb[t])
        /\ k2.tcb[t].state = c.state
    BY <2>1, ReplaceTask
  <2>3. Touch(Kernel, k2, t)
    BY <2>1, <2>2, TouchTwice
  <2>. QED
    BY <2>2, <2>3
<1>. QED
  BY <1>2, <1>3

\* A task is taken out and becomes DORMANT.
LEMMA EndDormant ==
  ASSUME IInv, NEW t \in Task, task_alive(tcb[t].state),
         NEW k2, k2 = make_dormant(_ter_tsk(Kernel, t), t)
  PROVE  /\ KInv(k2) /\ Touch(Kernel, k2, t) /\ TaskOK(k2.tcb[t])
         /\ k2.tcb[t].state = "DORMANT"
<1>. DEFINE k1 == _ter_tsk(Kernel, t)
            d == Dormant(k1.tcb[t])
<1>1. k1 = _ter_tsk(Kernel, t) /\ d = Dormant(k1.tcb[t])
  OBVIOUS
<1>2. k2 = make_dormant(k1, t)
  OBVIOUS
<1>. HIDE DEF k1, d
<1>3. IsKernel(k1) /\ k1.tcb[t] \in TCBType /\ ~k1.tcb[t].wtmeb
  BY <1>1, TakenOut
<1>4. /\ d \in TCBType /\ ~d.klocked /\ ~d.klockwait /\ d.state = "DORMANT" /\ TaskOK(d)
  BY <1>1, <1>3, DormantOK
<1>5. k2 = Put(k1, t, d)
  BY <1>1, <1>2, <1>3, MakeDormant
<1>6. /\ KInv(k2) /\ Touch(Kernel, k2, t) /\ TaskOK(k2.tcb[t])
      /\ k2.tcb[t].state = d.state
  BY <1>1, <1>4, <1>5, EndTask
<1>. QED
  BY <1>4, <1>6

\* tk_ter_tsk takes a task out of whatever it is in.
LEMMA TerminateTask ==
  ASSUME IInv, NEW t \in Task, tk_ter_tsk(t, _ter_tsk(Kernel, t))
  PROVE  IInv'
<1>. DEFINE k2 == make_dormant(_ter_tsk(Kernel, t), t)
<1>1. task_alive(tcb[t].state) /\ t # ctxtsk /\ END_CRITICAL_SECTION(k2)
  BY DEF tk_ter_tsk
<1>2. k2 = make_dormant(_ter_tsk(Kernel, t), t)
  OBVIOUS
<1>. HIDE DEF k2
<1>3. /\ KInv(k2) /\ Touch(Kernel, k2, t) /\ TaskOK(k2.tcb[t])
      /\ k2.tcb[t].state = "DORMANT"
  BY <1>1, <1>2, EndDormant
<1>4. /\ Becomes(k2) /\ UNCHANGED <<free_tcb, in_timer>>
      /\ dispatch_disabled' \in {dispatch_disabled, DDS_DISABLE_IMPLICIT}
  BY <1>1 DEF END_CRITICAL_SECTION
<1>5. tcb[t].state # "NONEXIST"
  BY <1>1 DEF task_alive
<1>. QED
  BY <1>1, <1>3, <1>4, <1>5, TaskStep

\* A task that executes is READY.
LEMMA InTask ==
  ASSUME IInv, in_task
  PROVE  ctxtsk \in Task /\ tcb[ctxtsk].state = "READY"
BY ContextFacts DEF in_task, DDS_ENABLE, DDS_DISABLE, DDS_DISABLE_IMPLICIT

\* tk_ext_tsk ends the calling task and gives up its context.
LEMMA ExitTask ==
  ASSUME IInv, tk_ext_tsk(_ter_tsk(Kernel, ctxtsk))
  PROVE  IInv'
<1>. DEFINE t == ctxtsk
            k2 == make_dormant(_ter_tsk(Kernel, t), t)
<1>1. t \in Task /\ tcb[t].state = "READY" /\ task_alive(tcb[t].state)
  BY InTask DEF tk_ext_tsk, task_alive
<1>2. /\ Becomes([k2 EXCEPT !.ctxtsk = NoTask]) /\ UNCHANGED <<free_tcb, in_timer>>
      /\ dispatch_disabled' = DDS_DISABLE_IMPLICIT
  BY DEF tk_ext_tsk, force_dispatch
<1>3. k2 = make_dormant(_ter_tsk(Kernel, t), t)
  OBVIOUS
<1>. HIDE DEF k2, t
<1>4. /\ KInv(k2) /\ Touch(Kernel, k2, t) /\ TaskOK(k2.tcb[t])
      /\ k2.tcb[t].state = "DORMANT"
  BY <1>1, <1>3, EndDormant
<1>5. FreeInv(Kernel, free_tcb) /\ Kernel.tcb = tcb
  BY DEF IInv, Kernel
<1>6. FreeInv(k2, free_tcb')
  BY <1>1, <1>2, <1>4, <1>5, FreeSame
<1>. QED
  BY <1>1, <1>2, <1>4, <1>6, SwitchStep DEF DDS_ENABLE, DDS_DISABLE_IMPLICIT

\* tk_exd_tsk also gives its TCB back to free_tcb.
LEMMA ExitDeleteTask ==
  ASSUME IInv, tk_exd_tsk(_ter_tsk(Kernel, ctxtsk))
  PROVE  IInv'
<1>. DEFINE t == ctxtsk
            c == blank_tcb(0)
            k1 == _ter_tsk(Kernel, t)
            k2 == Put(k1, t, c)
<1>1. t \in Task /\ tcb[t].state = "READY" /\ task_alive(tcb[t].state)
  BY InTask DEF tk_exd_tsk, task_alive
<1>2. /\ Becomes([k2 EXCEPT !.ctxtsk = NoTask]) /\ UNCHANGED in_timer
      /\ free_tcb' = Append(free_tcb, t) /\ dispatch_disabled' = DDS_DISABLE_IMPLICIT
  BY DEF tk_exd_tsk, force_dispatch, _del_tsk, Put
<1>3. /\ k1 = _ter_tsk(Kernel, t) /\ k2 = Put(k1, t, c)
      /\ c \in TCBType /\ TaskOK(c) /\ ~c.klocked /\ ~c.klockwait /\ c.state = "NONEXIST"
  BY BlankOK
<1>. HIDE DEF k2, k1, c, t
<1>4. /\ KInv(k2) /\ Touch(Kernel, k2, t) /\ TaskOK(k2.tcb[t])
      /\ k2.tcb[t].state = "NONEXIST"
  BY <1>1, <1>3, EndTask
<1>5. /\ FreeInv(Kernel, free_tcb) /\ Kernel.tcb = tcb /\ Kernel.tcb[t].state # "NONEXIST"
  BY <1>1 DEF IInv, Kernel
<1>6. FreeInv(k2, free_tcb')
  BY <1>1, <1>2, <1>4, <1>5, FreeMore
<1>. QED
  BY <1>1, <1>2, <1>4, <1>6, SwitchStep DEF DDS_ENABLE, DDS_DISABLE_IMPLICIT

-----------------------------------------------------------------------------
(* The order of the READY tasks.                                           *)

\* A step rearranges the task queues by moving, adding or removing one task.
QueuesKept == Arranged(ready_queue.tskque, ready_queue'.tskque)

\* A step that leaves the ready queue alone.
LEMMA KeptSame ==
  ASSUME UNCHANGED ready_queue
  PROVE  QueuesKept
BY ArrangedSame DEF QueuesKept

\* A critical section that ends in k2.
LEMMA KeptBy ==
  ASSUME NEW k2, Becomes(k2), Arranged(Kernel.rq.tskque, k2.rq.tskque)
  PROVE  QueuesKept
BY DEF QueuesKept, Becomes, Kernel

\* The end of a wait, and the reset of the wait specification.
LEMMA EndOfWaitQueues ==
  ASSUME NEW k, KInv(k), NEW t \in Task, is_waiting(k.tcb[t].state),
         NEW ercd \in WaitResult,
         NEW k2, k2 = end_wait(wait_release(k, t), t, ercd)
  PROVE  IsKernel(k2) /\ Arranged(k.rq.tskque, k2.rq.tskque)
<1>. DEFINE k1 == wait_release(k, t)
<1>1. k1 = wait_release(k, t) /\ k2 = end_wait(k1, t, ercd)
  OBVIOUS
<1>. HIDE DEF k1
<1>2. KInv(k1) /\ Arranged(k.rq.tskque, k1.rq.tskque)
  BY <1>1, WaitReleaseQueues
<1>3. KInv(k2)
  BY <1>1, <1>2, EndWait
<1>4. IsKernel(k1) /\ IsKernel(k2)
  BY <1>2, <1>3, TaskBlock
<1>5. k2.rq = k1.rq
  BY <1>1, <1>4 DEF end_wait, IsKernel
<1>. QED
  BY <1>2, <1>4, <1>5

\* The calls that end a wait.
LEMMA ReleaseKept ==
  ASSUME IInv, NEW t \in Task, is_waiting(tcb[t].state), NEW ercd \in WaitResult,
         Becomes(end_wait(wait_release(Kernel, t), t, ercd))
  PROVE  QueuesKept
<1>1. KInv(Kernel) /\ Kernel.tcb = tcb
  BY TaskFacts
<1>2. PICK k2 : k2 = end_wait(wait_release(Kernel, t), t, ercd)
  OBVIOUS
<1>3. Arranged(Kernel.rq.tskque, k2.rq.tskque)
  BY <1>1, <1>2, EndOfWaitQueues
<1>. QED
  BY <1>2, <1>3, KeptBy

\* tk_rel_wai, timer_handler, tk_wup_tsk and tk_sig_tev.
LEMMA ReleasesKept ==
  ASSUME IInv, NEW t \in Task,
         \/ tk_rel_wai(t, wait_release(Kernel, t))
         \/ timer_handler_event(t, wait_release(Kernel, t))
         \/ tk_wup_tsk(t)
         \/ \E e \in Event : tk_sig_tev(t, e)
  PROVE  QueuesKept
<1>1. tcb[t] \in TCBType /\ TaskOK(tcb[t])
  BY TaskFacts
<1>2. CASE tk_rel_wai(t, wait_release(Kernel, t))
  BY <1>2, ReleaseKept DEF tk_rel_wai, WaitResult
<1>3. CASE timer_handler_event(t, wait_release(Kernel, t))
  BY <1>1, <1>3, ReleaseKept DEF timer_handler_event, TaskOK, TCBType
<1>4. CASE tk_wup_tsk(t)
  <2>1. CASE is_waiting(tcb[t].state) /\ tcb[t].tskwait = {"SLP"}
    BY <1>4, <2>1, ReleaseKept DEF tk_wup_tsk, wait_release_ok, WaitResult
  <2>2. CASE ~(is_waiting(tcb[t].state) /\ tcb[t].tskwait = {"SLP"})
    BY <1>4, <2>2, KeptSame DEF tk_wup_tsk, Becomes, Kernel
  <2>. QED
    BY <2>1, <2>2
<1>5. ASSUME NEW e \in Event, tk_sig_tev(t, e)
      PROVE  QueuesKept
  <2>1. CASE is_waiting(tcb[t].state) /\ e \in tcb[t].tskwait
    BY <1>5, <2>1, ReleaseKept DEF tk_sig_tev, wait_release_ok, WaitResult
  <2>2. CASE ~(is_waiting(tcb[t].state) /\ e \in tcb[t].tskwait)
    BY <1>5, <2>2, KeptSame DEF tk_sig_tev, Becomes, Kernel
  <2>. QED
    BY <2>1, <2>2
<1>. QED
  BY <1>2, <1>3, <1>4, <1>5

\* tk_dis_wai.
LEMMA DisableKept ==
  ASSUME IInv, NEW t \in Task, NEW m, tk_dis_wai(t, m, wait_release(Kernel, t))
  PROVE  QueuesKept
<1>. DEFINE waiting == is_waiting(tcb[t].state) /\ tcb[t].tskwait \cap m # {}
                       /\ ~tcb[t].nodiswai
            k1 == end_wait(wait_release(Kernel, t), t, "E_DISWAI")
<1>1. KInv(Kernel) /\ Kernel.tcb = tcb
  BY TaskFacts
<1>2. CASE ~waiting
  BY <1>2, KeptSame DEF tk_dis_wai, Becomes, Kernel
<1>3. CASE waiting
  <2>1. Becomes([k1 EXCEPT !.tcb[t].waitmask = m])
    BY <1>3 DEF tk_dis_wai
  <2>2. k1 = end_wait(wait_release(Kernel, t), t, "E_DISWAI")
    OBVIOUS
  <2>3. PICK k2 : k2 = [k1 EXCEPT !.tcb[t].waitmask = m]
    OBVIOUS
  <2>. HIDE DEF k1
  <2>4. IsKernel(k1) /\ Arranged(Kernel.rq.tskque, k1.rq.tskque)
    BY <1>1, <1>3, <2>2, EndOfWaitQueues DEF WaitResult
  <2>5. k2.rq = k1.rq
    BY <2>3, <2>4 DEF IsKernel
  <2>. QED
    BY <2>1, <2>3, <2>4, <2>5, KeptBy
<1>. QED
  BY <1>2, <1>3

\* tk_sus_tsk, tk_rsm_tsk and tk_frsm_tsk.
LEMMA SuspensionsKept ==
  ASSUME IInv, NEW t \in Task, tk_sus_tsk(t) \/ tk_rsm_tsk(t) \/ tk_frsm_tsk(t)
  PROVE  QueuesKept
<1>1. /\ KInv(Kernel) /\ Kernel.tcb = tcb /\ Unqueued(Kernel, t)
      /\ tcb[t] \in TCBType /\ TaskOK(tcb[t])
  BY TaskFacts, NothingQueued
<1>2. CASE tk_sus_tsk(t)
  <2>1. PICK k2 : k2 = suspend(Kernel, t)
    OBVIOUS
  <2>2. Becomes(k2) /\ tcb[t].suscnt < MaxSus
    BY <1>2, <2>1 DEF tk_sus_tsk
  <2>3. Arranged(Kernel.rq.tskque, k2.rq.tskque)
    BY <1>1, <2>1, <2>2, SuspendQueues
  <2>. QED
    BY <2>2, <2>3, KeptBy
<1>3. CASE tk_rsm_tsk(t) \/ tk_frsm_tsk(t)
  <2>1. tcb[t].state \in {"SUSPEND", "WAITSUS"}
    BY <1>3 DEF tk_rsm_tsk, tk_frsm_tsk
  <2>2. tcb[t].suscnt \in Nat /\ tcb[t].suscnt > 0
    BY <1>1, <2>1, TaskAssumption DEF TCBType, TaskOK
  <2>3. PICK n \in Nat : n < tcb[t].suscnt /\ Becomes(resume(Kernel, t, n))
    <3>1. CASE tk_rsm_tsk(t)
      BY <2>2, <3>1 DEF tk_rsm_tsk
    <3>2. CASE tk_frsm_tsk(t)
      BY <2>2, <3>2 DEF tk_frsm_tsk
    <3>. QED
      BY <1>3, <3>1, <3>2
  <2>4. PICK k2 : k2 = resume(Kernel, t, n)
    OBVIOUS
  <2>5. Arranged(Kernel.rq.tskque, k2.rq.tskque)
    BY <1>1, <2>1, <2>3, <2>4, ResumeQueues
  <2>. QED
    BY <2>3, <2>4, <2>5, KeptBy
<1>. QED
  BY <1>2, <1>3

\* tk_slp_tsk and tk_wai_tev.
LEMMA SleepsKept ==
  ASSUME IInv, \/ \E tmout \in TMO : tk_slp_tsk(tmout)
               \/ \E e \in EventSets, tmout \in TMO : tk_wai_tev(e, tmout)
  PROVE  QueuesKept
<1>1. /\ ctxtsk = schedtsk /\ ctxtsk \in Task /\ tcb[ctxtsk].state = "READY"
  <2>1. CHECK_DISPATCH
    BY DEF tk_slp_tsk, tk_wai_tev
  <2>2. in_task /\ ctxtsk = schedtsk
    BY <2>1 DEF CHECK_DISPATCH, in_task, DDS_ENABLE, DDS_DISABLE
  <2>. QED
    BY <2>2, InTask
<1>2. /\ KInv(Kernel) /\ Kernel.tcb = tcb /\ Kernel.ctxtsk = ctxtsk
  BY <1>1, TaskFacts DEF Kernel
<1>3. \/ UNCHANGED ready_queue
      \/ \E fac, tmout : Becomes(make_wait(Kernel, fac, NoQueue, tmout, FALSE))
  <2>1. ASSUME NEW tmout \in TMO, tk_slp_tsk(tmout)
        PROVE  \/ UNCHANGED ready_queue
               \/ Becomes(make_wait(Kernel, {"SLP"}, NoQueue, tmout, FALSE))
    <3>1. CASE tcb[ctxtsk].wupcnt > 0 \/ tmout = "TMO_POL"
      BY <2>1, <3>1 DEF tk_slp_tsk, END_CRITICAL_SECTION, Becomes, Kernel
    <3>2. CASE ~(tcb[ctxtsk].wupcnt > 0 \/ tmout = "TMO_POL")
      BY <2>1, <3>2 DEF tk_slp_tsk, END_CRITICAL_SECTION
    <3>. QED
      BY <3>1, <3>2
  <2>2. ASSUME NEW e \in EventSets, NEW tmout \in TMO, tk_wai_tev(e, tmout)
        PROVE  \/ UNCHANGED ready_queue
               \/ Becomes(make_wait(Kernel, e, NoQueue, tmout, FALSE))
    <3>1. CASE tcb[ctxtsk].tskevt \cap e # {} \/ tmout = "TMO_POL"
      BY <2>2, <3>1 DEF tk_wai_tev, END_CRITICAL_SECTION, Becomes, Kernel
    <3>2. CASE ~(tcb[ctxtsk].tskevt \cap e # {} \/ tmout = "TMO_POL")
      BY <2>2, <3>2 DEF tk_wai_tev, END_CRITICAL_SECTION
    <3>. QED
      BY <3>1, <3>2
  <2>. QED
    BY <2>1, <2>2
<1>4. ASSUME NEW fac, NEW tmout, Becomes(make_wait(Kernel, fac, NoQueue, tmout, FALSE))
      PROVE  QueuesKept
  <2>1. PICK w, no, k2 : /\ w = NoQueue /\ no = FALSE
                         /\ k2 = make_wait(Kernel, fac, w, tmout, no)
    OBVIOUS
  <2>2. Arranged(Kernel.rq.tskque, k2.rq.tskque)
    BY <1>1, <1>2, <2>1, MakeWaitQueues
  <2>. QED
    BY <1>4, <2>1, <2>2, KeptBy
<1>. QED
  BY <1>3, <1>4, KeptSame

\* tk_chg_pri and tk_rot_rdq.
LEMMA SchedulingKept ==
  ASSUME IInv, Scheduling
  PROVE  QueuesKept
<1>1. KInv(Kernel) /\ Queued(Kernel, {}) /\ schedtsk = Kernel.schedtsk
      /\ schedtsk = ready_queue_top(Kernel)
  BY DEF IInv, SysInv, KInv, Kernel
<1>2. ASSUME NEW t \in Task, NEW p \in Pri, tk_chg_pri(t, p)
      PROVE  QueuesKept
  <2>1. PICK k2 : k2 = change_task_priority([Kernel EXCEPT !.tcb[t].bpriority = p], t, p)
    OBVIOUS
  <2>2. Becomes(k2)
    BY <1>2, <2>1 DEF tk_chg_pri
  <2>3. Arranged(Kernel.rq.tskque, k2.rq.tskque)
    BY <1>1, <2>1, ChangePriorityQueues
  <2>. QED
    BY <2>2, <2>3, KeptBy
<1>3. ASSUME NEW p \in Pri, Becomes(rotate_ready_queue(Kernel, p))
      PROVE  QueuesKept
  <2>1. PICK k2 : k2 = rotate_ready_queue(Kernel, p)
    OBVIOUS
  <2>2. Arranged(Kernel.rq.tskque, k2.rq.tskque)
    BY <1>1, <2>1, RotateQueues
  <2>. QED
    BY <1>3, <2>1, <2>2, KeptBy
<1>4. CASE tk_rot_rdq_run
  <2>1. CASE in_task
    <3>1. ctxtsk \in Task /\ tcb[ctxtsk].priority \in Pri
      BY <2>1, InTask, TaskFacts DEF TCBType
    <3>. QED
      BY <1>3, <1>4, <2>1, <3>1 DEF tk_rot_rdq_run
  <2>2. CASE ~in_task /\ schedtsk = NoTask
    <3>1. Becomes(Kernel)
      BY <1>1, <1>4, <2>2 DEF tk_rot_rdq_run, rotate_ready_queue_run
    <3>. QED
      BY <3>1, KeptSame DEF Becomes, Kernel
  <2>3. CASE ~in_task /\ schedtsk # NoTask
    <3>1. Kernel.rq.top_priority \in Pri
      BY <1>1, <2>3, Top
    <3>2. Becomes(rotate_ready_queue(Kernel, Kernel.rq.top_priority))
      BY <1>1, <1>4, <2>3 DEF tk_rot_rdq_run, rotate_ready_queue_run
    <3>. QED
      BY <1>3, <3>1, <3>2
  <2>. QED
    BY <2>1, <2>2, <2>3
<1>5. ASSUME NEW p \in Pri, tk_rot_rdq(p)
      PROVE  QueuesKept
  BY <1>3, <1>5 DEF tk_rot_rdq
<1>6. ASSUME NEW t \in Task, NEW s \in Slices, tk_chg_slt(t, s)
      PROVE  QueuesKept
  BY <1>6, KeptSame DEF tk_chg_slt, Becomes, Kernel
<1>7. CASE tk_dis_dsp \/ tk_ena_dsp
  BY <1>7, KeptSame DEF tk_dis_dsp, tk_ena_dsp, kernvars
<1>. QED
  BY <1>2, <1>4, <1>5, <1>6, <1>7 DEF Scheduling

\* The end of a task leaves only a task that is taken out.
LEMMA EndKept ==
  ASSUME IInv, NEW t \in Task, NEW k1, k1 = _ter_tsk(Kernel, t),
         NEW c, NEW k2, k2 = [k1 EXCEPT !.tcb[t] = c] \/ k2 = make_dormant(k1, t),
         Becomes(k2) \/ Becomes(force_dispatch(k2))
  PROVE  QueuesKept
<1>1. KInv(Kernel)
  BY TaskFacts
<1>2. IsKernel(k1) /\ Arranged(Kernel.rq.tskque, k1.rq.tskque)
  BY <1>1, TerminateQueues
<1>3. k2.rq = k1.rq /\ force_dispatch(k2).rq = k1.rq
  BY <1>2 DEF IsKernel, force_dispatch, make_dormant
<1>4. PICK k3 : Becomes(k3) /\ (k3 = k2 \/ k3 = force_dispatch(k2))
  OBVIOUS
<1>5. Arranged(Kernel.rq.tskque, k3.rq.tskque)
  BY <1>2, <1>3, <1>4
<1>. QED
  BY <1>4, <1>5, KeptBy

\* The calls that create, start, end and delete tasks.
LEMMA LifecycleKept ==
  ASSUME IInv, Lifecycle
  PROVE  QueuesKept
<1>1. ASSUME NEW p \in Pri, tk_cre_tsk(p)
      PROVE  QueuesKept
  BY <1>1, KeptSame DEF tk_cre_tsk, make_dormant, Becomes, Kernel
<1>2. ASSUME NEW t \in Task, tk_del_tsk(t)
      PROVE  QueuesKept
  BY <1>2, KeptSame DEF tk_del_tsk, _del_tsk, Becomes, Kernel
<1>3. ASSUME NEW t \in Task, tk_sta_tsk(t)
      PROVE  QueuesKept
  <2>1. PICK k2 : k2 = make_ready(Kernel, t)
    OBVIOUS
  <2>2. Becomes(k2) /\ KInv(Kernel) /\ Kernel.tcb[t].state # "READY" /\ Unqueued(Kernel, t)
    BY <1>3, <2>1, TaskFacts, NothingQueued DEF tk_sta_tsk
  <2>3. Arranged(Kernel.rq.tskque, k2.rq.tskque)
    BY <2>1, <2>2, MakeReadyQueues
  <2>. QED
    BY <2>2, <2>3, KeptBy
<1>4. ASSUME NEW t \in Task, tk_ter_tsk(t, _ter_tsk(Kernel, t))
      PROVE  QueuesKept
  <2>1. PICK k1 : k1 = _ter_tsk(Kernel, t)
    OBVIOUS
  <2>2. PICK k2 : k2 = make_dormant(k1, t)
    OBVIOUS
  <2>3. Becomes(k2)
    BY <1>4, <2>1, <2>2 DEF tk_ter_tsk, END_CRITICAL_SECTION
  <2>. QED
    BY <2>1, <2>2, <2>3, EndKept
<1>5. CASE tk_ext_tsk(_ter_tsk(Kernel, ctxtsk)) \/ tk_exd_tsk(_ter_tsk(Kernel, ctxtsk))
  <2>1. PICK t \in Task : t = ctxtsk
    BY <1>5, InTask DEF tk_ext_tsk, tk_exd_tsk
  <2>2. PICK k1 : k1 = _ter_tsk(Kernel, t)
    OBVIOUS
  <2>3. PICK c, k2 : /\ k2 = [k1 EXCEPT !.tcb[t] = c] \/ k2 = make_dormant(k1, t)
                     /\ Becomes(force_dispatch(k2))
    BY <1>5, <2>1, <2>2 DEF tk_ext_tsk, tk_exd_tsk, _del_tsk
  <2>. QED
    BY <2>2, <2>3, EndKept
<1>. QED
  BY <1>1, <1>2, <1>3, <1>4, <1>5 DEF Lifecycle

\* Every step.
LEMMA StepKept ==
  ASSUME IInv, [TaskNext]_vars
  PROVE  QueuesKept
<1>1. CASE Synchronising
  <2>1. CASE \E t \in Task : tk_sus_tsk(t) \/ tk_rsm_tsk(t) \/ tk_frsm_tsk(t)
    BY <2>1, SuspensionsKept
  <2>2. CASE \E t \in Task : \/ tk_rel_wai(t, wait_release(Kernel, t)) \/ tk_wup_tsk(t)
                             \/ \E e \in Event : tk_sig_tev(t, e)
    BY <2>2, ReleasesKept
  <2>3. CASE \E t \in Task : tk_can_wup(t) \/ tk_ena_wai(t)
    BY <2>3, KeptSame DEF tk_can_wup, tk_ena_wai, Becomes, Kernel
  <2>4. CASE \E t \in Task, m \in WaitMasks : tk_dis_wai(t, m, wait_release(Kernel, t))
    BY <2>4, DisableKept
  <2>5. CASE \/ \E tmout \in TMO : tk_slp_tsk(tmout)
             \/ \E e \in EventSets, tmout \in TMO : tk_wai_tev(e, tmout)
    BY <2>5, SleepsKept
  <2>. QED
    BY <1>1, <2>1, <2>2, <2>3, <2>4, <2>5 DEF Synchronising
<1>2. CASE Dispatcher
  <2>1. UNCHANGED ready_queue
    BY <1>2 DEF Dispatcher, dispatch_entry, dispatch_save, dispatch_to, force_dispatch,
       kernvars, Becomes, Kernel
  <2>. QED
    BY <2>1, KeptSame
<1>3. CASE Timer
  <2>1. CASE timer_handler_begin
    <3>1. PICK k2 : k2 = time_slice_tick(Kernel)
      OBVIOUS
    <3>2. Becomes(k2) /\ KInv(Kernel)
      BY <2>1, <3>1 DEF timer_handler_begin, IInv, SysInv
    <3>3. Arranged(Kernel.rq.tskque, k2.rq.tskque)
      BY <3>1, <3>2, TickQueues
    <3>. QED
      BY <3>2, <3>3, KeptBy
  <2>2. CASE \E t \in Task : timer_handler_event(t, wait_release(Kernel, t))
    BY <2>2, ReleasesKept
  <2>3. CASE timer_handler_end
    BY <2>3, KeptSame DEF timer_handler_end, kernvars
  <2>. QED
    BY <1>3, <2>1, <2>2, <2>3 DEF Timer
<1>4. CASE UNCHANGED vars
  BY <1>4, KeptSame DEF vars, kernvars
<1>. QED
  BY <1>1, <1>2, <1>3, <1>4, LifecycleKept, SchedulingKept DEF TaskNext

-----------------------------------------------------------------------------
(* The inductive invariant.                                                *)

\* After the boot nothing is queued but the initial task.
LEMMA Start ==
  ASSUME TaskInit
  PROVE  IInv
<1>. DEFINE ipri == [u \in Task |-> InitPri]
            created == {InitTask}
            k0 == create_all(task_initialize, created, ipri)
            k2 == make_ready(k0, InitTask)
            d == [k0.tcb[InitTask] EXCEPT !.state = "READY"]
<1>1. InitTask \in Task /\ InitPri \in Pri /\ created \in SUBSET Task
  BY SpecAssumption
<1>2. ipri \in [Task -> Pri] /\ k0 = create_all(task_initialize, created, ipri)
  BY <1>1
<1>3. k2 = make_ready(k0, InitTask)
  OBVIOUS
<1>4. /\ tcb = k2.tcb /\ ready_queue = k2.rq /\ wait_queue = k2.wq
      /\ schedtsk = k2.schedtsk /\ ctxtsk = k2.ctxtsk /\ objcb = <<>>
      /\ free_tcb = FreeList /\ dispatch_disabled = DDS_DISABLE_IMPLICIT
      /\ in_timer = FALSE
  BY DEF TaskInit, t_kernel_main
<1>. HIDE DEF k0, k2, ipri, created
<1>5. Booted(k0, created) /\ k0.obj = <<>>
  BY <1>1, <1>2, Boot
<1>. USE DEF created, Booted
<1>6. \A u \in Task : TaskOK(k0.tcb[u])
  BY <1>5 DEF TaskOK, is_waiting
<1>7. k0.tcb[InitTask].state # "READY" /\ k0.tcb[InitTask] \in TCBType
  BY <1>1, <1>5, TaskBlock
<1>8. KInv(k2) /\ Effect(k0, k2, InitTask, d)
  BY <1>1, <1>3, <1>5, <1>7, NothingQueued, MakeReady
<1>9. /\ TaskOK(d) /\ d.state = "READY"
  BY <1>1, <1>5, <1>6, <1>7 DEF TCBType, TaskOK, is_waiting
<1>. HIDE DEF d
<1>10. Touch(k0, k2, InitTask) /\ Alike(k2.tcb[InitTask], d)
  BY <1>1, <1>8, EffectTouch
<1>11. TasksOK(k2)
  <2>1. TaskOK(k2.tcb[InitTask])
    BY <1>9, <1>10, AlikeOK
  <2>. QED
    BY <1>6, <1>10, <2>1, AlikeOK DEF TasksOK, Touch
<1>12. k2.ctxtsk = NoTask /\ k2.obj = <<>> /\ IsKernel(k2)
  BY <1>5, <1>8, <1>10 DEF Touch, SameContext, KInv, Queued
<1>13. Kernel = k2
  BY <1>4, <1>12 DEF Kernel, IsKernel
<1>14. FreeInv(k2, FreeList)
  <2>1. \A u \in Task : k2.tcb[u].state = IF u = InitTask THEN "READY" ELSE "NONEXIST"
    BY <1>5, <1>9, <1>10 DEF Touch, Alike
  <2>2. FreeList \in Queue
    BY SpecAssumption DEF Queue, IsInjective
  <2>3. ToSet(FreeList) = Task \ {InitTask}
    BY SpecAssumption
  <2>. QED
    BY <2>1, <2>2, <2>3 DEF FreeInv
<1>15. CtxInv(k2, DDS_DISABLE_IMPLICIT)
  BY DEF CtxInv, DDS_DISABLE, DDS_DISABLE_IMPLICIT
<1>. QED
  BY <1>4, <1>8, <1>11, <1>12, <1>13, <1>14, <1>15 DEF IInv, SysInv

\* Every step keeps the invariant.
LEMMA Inductive ==
  ASSUME IInv, [TaskNext]_vars
  PROVE  IInv'
<1>1. CASE Lifecycle
  BY <1>1, CreateTask, DeleteTask, StartTask, TerminateTask, ExitTask, ExitDeleteTask
     DEF Lifecycle
<1>2. CASE Scheduling
  <2>1. CASE \E t \in Task, p \in Pri : tk_chg_pri(t, p)
    BY <2>1, ChangePriority
  <2>2. CASE (\E p \in Pri : tk_rot_rdq(p)) \/ tk_rot_rdq_run
    BY <2>2, RotateStep, RotateRunStep
  <2>3. CASE \E t \in Task, s \in Slices : tk_chg_slt(t, s)
    BY <2>3, ChangeSliceTime
  <2>4. CASE tk_dis_dsp \/ tk_ena_dsp
    BY <2>4, DisableStep DEF tk_dis_dsp, tk_ena_dsp
  <2>. QED
    BY <1>2, <2>1, <2>2, <2>3, <2>4 DEF Scheduling
<1>3. CASE Synchronising
  <2>1. CASE \E t \in Task : \/ tk_sus_tsk(t) \/ tk_rsm_tsk(t) \/ tk_frsm_tsk(t)
                             \/ tk_wup_tsk(t) \/ tk_can_wup(t)
                             \/ tk_rel_wai(t, wait_release(Kernel, t)) \/ tk_ena_wai(t)
    BY <2>1, SuspendTask, ResumeStep, WakeupTask, CancelWakeup, ReleaseWait, EnableWait
  <2>2. CASE \E t \in Task, m \in WaitMasks : tk_dis_wai(t, m, wait_release(Kernel, t))
    BY <2>2, DisableWait
  <2>3. CASE \E t \in Task, e \in Event : tk_sig_tev(t, e)
    BY <2>3, SignalEvent
  <2>4. CASE \E tmout \in TMO : tk_slp_tsk(tmout)
    BY <2>4, Sleep
  <2>5. CASE \E e \in EventSets, tmout \in TMO : tk_wai_tev(e, tmout)
    BY <2>5, WaitEvent
  <2>. QED
    BY <1>3, <2>1, <2>2, <2>3, <2>4, <2>5 DEF Synchronising
<1>4. CASE Dispatcher
  BY <1>4, DispatcherStep
<1>5. CASE Timer
  BY <1>5, TimerStep
<1>6. CASE UNCHANGED vars
  BY <1>6 DEF vars, kernvars, sysvars, IInv, Kernel
<1>. QED
  BY <1>1, <1>2, <1>3, <1>4, <1>5, <1>6 DEF TaskNext

\* The invariant behind all the theorems below: between any two critical
\* sections the ready queue, the TCBs, the context and free_tcb are consistent.
THEOREM Invariance == TaskSpec => []IInv
<1>1. TaskInit => IInv
  BY Start
<1>2. IInv /\ [TaskNext]_vars => IInv'
  BY Inductive
<1>. QED
  BY <1>1, <1>2, PTL DEF TaskSpec

-----------------------------------------------------------------------------
(* The theorems.                                                           *)

\* The variables of the task layer keep their types; in particular the counts
\* of wakeup and suspend requests stay within their limits.
THEOREM TypeCorrect == TaskSpec => []TypeOK
<1>1. IInv => TypeOK
  BY DEF IInv, SysInv, KInv, Queued, FreeInv, Queue, IsKernel, RQType, Kernel, TypeOK
<1>. QED
  BY <1>1, Invariance, PTL

\* A TCB is linked where its state says, and nowhere else: no call inserts a
\* TCB that is linked in another queue, or leaves one behind.
THEOREM QueuesConsistent == TaskSpec => []QueuesMatchStates
<1>1. IInv => QueuesMatchStates
  <2>. SUFFICES ASSUME IInv PROVE QueuesMatchStates
    OBVIOUS
  <2>1. Queued(Kernel, {}) /\ FreeInv(Kernel, free_tcb) /\ Kernel.tcb = tcb
        /\ Kernel.rq = ready_queue
    BY DEF IInv, SysInv, KInv, Kernel
  <2>. QED
    BY <2>1 DEF Queued, ReadyAt, FreeInv, Queue, QueuesMatchStates
<1>. QED
  BY <1>1, Invariance, PTL

\* The caches that ready_queue_insert, ready_queue_delete and the rotations
\* update incrementally agree with the queues.
THEOREM CachesConsistent == TaskSpec => []CachesMatchQueues
<1>1. IInv => CachesMatchQueues
  BY DEF IInv, SysInv, KInv, Queued, Kernel, CachesMatchQueues
<1>. QED
  BY <1>1, Invariance, PTL

\* make_ready, make_non_ready, reschedule and timer_handler, which each update
\* schedtsk for a case of their own, always leave the top of the ready queue.
THEOREM SchedtskSelected == TaskSpec => []SchedtskIsTop
<1>1. IInv => SchedtskIsTop
  BY DEF IInv, SysInv, KInv, Kernel, SchedtskIsTop
<1>. QED
  BY <1>1, Invariance, PTL

\* Strict priority scheduling: no READY task has a higher priority than the
\* task that executes while dispatching is enabled.
THEOREM HighestRuns == TaskSpec => []RunningIsHighest
<1>1. IInv => RunningIsHighest
  <2>. SUFFICES ASSUME IInv, in_task, dispatch_disabled = DDS_ENABLE
                PROVE  /\ tcb[ctxtsk].state = "READY"
                       /\ \A t \in Task : tcb[t].state = "READY" =>
                                            tcb[ctxtsk].priority <= tcb[t].priority
    BY DEF RunningIsHighest
  <2>1. ctxtsk = schedtsk /\ ctxtsk # NoTask
    BY DEF in_task, DDS_ENABLE, DDS_DISABLE
  <2>2. Queued(Kernel, {}) /\ schedtsk = ready_queue_top(Kernel) /\ Kernel.tcb = tcb
    BY DEF IInv, SysInv, KInv, Kernel
  <2>. QED
    BY <2>1, <2>2, Top
<1>. QED
  BY <1>1, Invariance, PTL

\* tk_sus_tsk, tk_rsm_tsk and tk_frsm_tsk nest, whatever happens to the task's
\* wait in between; and every way out of a wait (a wakeup, an event, tk_rel_wai,
\* tk_dis_wai, the timeout, the end of the task) takes the timeout back.
THEOREM WaitAndSuspendConsistent == TaskSpec => []WaitAndSuspendAgree
<1>1. IInv => WaitAndSuspendAgree
  BY DEF IInv, SysInv, TasksOK, TaskOK, Kernel, WaitAndSuspendAgree
<1>. QED
  BY <1>1, Invariance, PTL

\* After tk_dis_dsp handlers cannot take the CPU from the caller, and no call executes
\* in a task that is waiting, so make_wait need not expect it.
THEOREM CallerMayRun == TaskSpec => []ContextMayRun
<1>1. IInv => ContextMayRun
  <2>. SUFFICES ASSUME IInv PROVE ContextMayRun
    OBVIOUS
  <2>. QED
    BY ContextFacts, TaskAssumption
       DEF ContextMayRun, DDS_DISABLE, DDS_DISABLE_IMPLICIT
<1>. QED
  BY <1>1, Invariance, PTL

\* A task never sleeps over a wakeup, an event or a wait prohibition.
THEOREM NothingMissed == TaskSpec => []NoMissedWakeup
<1>1. IInv => NoMissedWakeup
  BY DEF IInv, SysInv, TasksOK, TaskOK, Kernel, NoMissedWakeup
<1>. QED
  BY <1>1, Invariance, PTL

\* The step property of FifoWithinPriority.
FifoStep ==
  \A t, u \in Task :
    Before(t, u) /\ tcb'[u].priority = tcb'[t].priority
                 /\ tcb'[t].state = "READY" /\ tcb'[u].state = "READY" =>
      \/ Before(t, u)'
      \/ Last(ready_queue'.tskque[tcb'[t].priority]) = t

\* Rearranged queues give that, in kernel states that are consistent.
LEMMA OrderStep ==
  ASSUME NEW k, NEW k2, Queued(k, {}), Queued(k2, {}),
         Arranged(k.rq.tskque, k2.rq.tskque),
         NEW t \in Task, NEW u \in Task,
         NEW p, p = k.tcb[t].priority, NEW p2, p2 = k2.tcb[t].priority,
         Precedes(k.rq.tskque[p], t, u), k2.tcb[u].priority = p2,
         k2.tcb[t].state = "READY", k2.tcb[u].state = "READY"
  PROVE  Precedes(k2.rq.tskque[p2], t, u) \/ Last(k2.rq.tskque[p2]) = t
<1>. DEFINE f == k.rq.tskque
            g == k2.rq.tskque
<1>1. p \in Pri /\ p2 \in Pri
  <2>1. IsKernel(k) /\ IsKernel(k2)
    BY QueuedKernel
  <2>2. k.tcb[t] \in TCBType /\ k2.tcb[t] \in TCBType
    BY <2>1 DEF IsKernel
  <2>. QED
    BY <2>2 DEF TCBType
<1>2. f[p] \in Queue /\ g[p2] \in Queue
  BY <1>1, QueuedKernel
<1>3. t \in ToSet(g[p2]) /\ u \in ToSet(g[p2])
  BY <1>1, ReadyInQueue
<1>4. /\ \A r \in Pri : t \in ToSet(f[r]) => r = p
      /\ \A r \in Pri : u \in ToSet(f[r]) => r = k.tcb[u].priority
  BY ReadyInQueue
<1>. HIDE DEF f, g
<1>5. Precedes(f[p], t, u) /\ Arranged(f, g)
  BY DEF f, g
<1>6. t # u /\ t \in ToSet(f[p]) /\ u \in ToSet(f[p])
  BY <1>2, <1>5, PrecedesOther
<1>7. p2 = p
  <2>1. PICK x : \A r \in Pri : ToSet(g[r]) \subseteq ToSet(f[r]) \cup {x}
    BY <1>5 DEF Arranged
  <2>. QED
    BY <1>1, <1>3, <1>4, <1>6, <2>1
<1>8. Orderly(f[p], g[p])
  BY <1>1, <1>5 DEF Arranged
<1>9. Precedes(g[p], t, u) \/ Last(g[p]) = t
  BY <1>3, <1>5, <1>7, <1>8 DEF Orderly, OrderKept
<1>. QED
  BY <1>7, <1>9 DEF f, g

\* A step that keeps the queues keeps the order of two READY tasks.
LEMMA FifoKept ==
  ASSUME IInv, IInv', QueuesKept
  PROVE  FifoStep
<1>1. SUFFICES ASSUME NEW t \in Task, NEW u \in Task, Before(t, u),
                      tcb'[u].priority = tcb'[t].priority,
                      tcb'[t].state = "READY", tcb'[u].state = "READY"
               PROVE  \/ Before(t, u)'
                      \/ Last(ready_queue'.tskque[tcb'[t].priority]) = t
  BY DEF FifoStep
<1>2. Queued(Kernel, {}) /\ Queued(Kernel', {})
  BY DEF IInv, SysInv, KInv
<1>3. /\ Kernel.tcb = tcb /\ Kernel.rq = ready_queue
      /\ Kernel'.tcb = tcb' /\ Kernel'.rq = ready_queue'
  BY DEF Kernel
<1>4. PICK k, k2 : k = Kernel /\ k2 = Kernel'
  OBVIOUS
<1>5. PICK p, p2 : p = k.tcb[t].priority /\ p2 = k2.tcb[t].priority
  OBVIOUS
<1>6. Precedes(k.rq.tskque[p], t, u)
  BY <1>1, <1>3, <1>4, <1>5 DEF Before, Precedes
<1>7. Queued(k, {}) /\ Queued(k2, {}) /\ Arranged(k.rq.tskque, k2.rq.tskque)
  BY <1>2, <1>3, <1>4 DEF QueuesKept
<1>8. k2.tcb[u].priority = p2 /\ k2.tcb[t].state = "READY" /\ k2.tcb[u].state = "READY"
  BY <1>1, <1>3, <1>4, <1>5
<1>9. Precedes(k2.rq.tskque[p2], t, u) \/ Last(k2.rq.tskque[p2]) = t
  BY <1>5, <1>6, <1>7, <1>8, OrderStep
<1>10. k2.rq.tskque[p2] = ready_queue'.tskque[tcb'[t].priority]
  BY <1>3, <1>4, <1>5
<1>. QED
  BY <1>9, <1>10 DEF Before, Precedes

\* No step reorders two READY tasks of one priority, unless it puts the one that
\* was before the other at the end of their queue.
THEOREM OrderPreserved == TaskSpec => FifoWithinPriority
<1>1. IInv /\ IInv' /\ [TaskNext]_vars => FifoStep
  BY StepKept, FifoKept
<1>2. TaskSpec => []IInv
  BY Invariance
<1>3. FifoWithinPriority <=> [][FifoStep]_vars
  BY PTL DEF FifoWithinPriority, FifoStep
<1>. QED
  BY <1>1, <1>2, <1>3, PTL DEF TaskSpec

=============================================================================
