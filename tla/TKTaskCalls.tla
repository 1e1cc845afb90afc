----------------------------- MODULE TKTaskCalls -----------------------------
(***************************************************************************)
(* The service calls of task_manage.c and task_sync.c, the dispatcher and  *)
(* the timer interrupt, as actions.                                        *)
(*                                                                         *)
(* The calls that may end another task's wait, or change the priority of a *)
(* waiting task, run hooks of the object it waits for (WSPEC).  Such an    *)
(* action takes as its last argument the kernel after the hook has run:    *)
(* 'released' is wait_release followed by rel_wai_hook, 'left' is _ter_tsk *)
(* followed by rel_wai_hook and signal_all_mutex.  The module of each      *)
(* object defines them with its own hooks.                                 *)
(*                                                                         *)
(* A call is made by ctxtsk or by an interrupt, cyclic or alarm handler.   *)
(* A handler may run between any two critical sections, whoever is         *)
(* running, so a call that a handler may make has no guard on the context. *)
(* The calls that block, that allocate a TCB or that end a task are made   *)
(* by tasks only.                                                          *)
(***************************************************************************)
EXTENDS TKTask

\* A task executes: the dispatcher is not running, and no dispatch is due
\* unless tk_dis_dsp has postponed it.
in_task ==
  /\ ~in_timer
  /\ ctxtsk # NoTask
  /\ \/ dispatch_disabled = DDS_DISABLE
     \/ dispatch_disabled = DDS_ENABLE /\ ctxtsk = schedtsk

\* CHECK_DISPATCH: the call returns E_CTX while dispatching is disabled.
CHECK_DISPATCH == in_task /\ dispatch_disabled = DDS_ENABLE

\* END_CRITICAL_SECTION of a call made by ctxtsk: the dispatcher is entered
\* before interrupts are enabled again.
END_CRITICAL_SECTION(k) ==
  /\ Becomes(k)
  /\ dispatch_disabled' =
       IF dispatch_disabled = DDS_ENABLE /\ k.ctxtsk # k.schedtsk
       THEN DDS_DISABLE_IMPLICIT ELSE dispatch_disabled
  /\ UNCHANGED <<free_tcb, in_timer>>

-----------------------------------------------------------------------------
(* task_manage.c *)

\* A TCB in free_tcb.
blank_tcb(ipri) ==
  [state |-> "NONEXIST", priority |-> ipri, bpriority |-> ipri,
   ipriority |-> ipri, wupcnt |-> 0, suscnt |-> 0, tskevt |-> {},
   waitmask |-> {}, nodiswai |-> FALSE, tskwait |-> {}, wid |-> NoQueue,
   winfo |-> 0, wercd |-> "none", wtmeb |-> FALSE, slicetime |-> 0, slicecnt |-> 0,
   klocked |-> FALSE, klockwait |-> FALSE]

tk_cre_tsk(ipri) ==
  /\ in_task
  /\ free_tcb # <<>>
  /\ LET t == Head(free_tcb) IN
     Becomes(make_dormant([Kernel EXCEPT !.tcb[t].ipriority = ipri], t))
  /\ free_tcb' = Tail(free_tcb)
  /\ UNCHANGED <<dispatch_disabled, in_timer>>

\* The content of a free TCB is never read: tk_cre_tsk sets all of it again.
_del_tsk(k, t) == [k EXCEPT !.tcb[t] = blank_tcb(0)]

tk_del_tsk(t) ==
  /\ in_task
  /\ t # ctxtsk
  /\ tcb[t].state = "DORMANT"
  /\ Becomes(_del_tsk(Kernel, t))
  /\ free_tcb' = Append(free_tcb, t)
  /\ UNCHANGED <<dispatch_disabled, in_timer>>

tk_sta_tsk(t) ==
  /\ tcb[t].state = "DORMANT"
  /\ Becomes(make_ready(Kernel, t))
  /\ UNCHANGED sysvars

\* Slip: a READY task stays in the ready queue.
_ter_tsk_queued(k, t) ==
  IF is_waiting(k.tcb[t].state) THEN wait_cancel(k, t) ELSE k

\* The state of a waiting task is left as it is while the hook and
\* signal_all_mutex run; make_dormant or _del_tsk changes it afterwards.
_ter_tsk(k, t) ==
  IF k.tcb[t].state = "READY" THEN make_non_ready(k, t)
  ELSE IF is_waiting(k.tcb[t].state) THEN wait_cancel(k, t)
  ELSE k

\* force_dispatch: dispatch_to_schedtsk gives up the context of ctxtsk.
force_dispatch(k) == [k EXCEPT !.ctxtsk = NoTask]

tk_ext_tsk(left) ==
  /\ in_task
  /\ Becomes(force_dispatch(make_dormant(left, ctxtsk)))
  /\ dispatch_disabled' = DDS_DISABLE_IMPLICIT
  /\ UNCHANGED <<free_tcb, in_timer>>

tk_exd_tsk(left) ==
  /\ in_task
  /\ Becomes(force_dispatch(_del_tsk(left, ctxtsk)))
  /\ free_tcb' = Append(free_tcb, ctxtsk)
  /\ dispatch_disabled' = DDS_DISABLE_IMPLICIT
  /\ UNCHANGED in_timer

tk_ter_tsk(t, left) ==
  /\ in_task
  /\ t # ctxtsk
  /\ task_alive(tcb[t].state)
  /\ ~tcb[t].klocked
  /\ END_CRITICAL_SECTION(make_dormant(left, t))

\* Without mutexes the current priority is the new base priority.  The task
\* waits, if at all, for something without a chg_pri_hook.
tk_chg_pri(t, priority) ==
  /\ tcb[t].state # "NONEXIST"
  /\ Becomes(change_task_priority([Kernel EXCEPT !.tcb[t].bpriority = priority],
                                  t, priority))
  /\ UNCHANGED sysvars

tk_rot_rdq(p) ==
  /\ Becomes(rotate_ready_queue(Kernel, p))
  /\ UNCHANGED sysvars

\* TPRI_RUN: the priority of ctxtsk, in a handler the highest ready priority.
tk_rot_rdq_run ==
  /\ Becomes(IF in_task THEN rotate_ready_queue(Kernel, tcb[ctxtsk].priority)
             ELSE rotate_ready_queue_run(Kernel))
  /\ UNCHANGED sysvars

tk_chg_slt(t, slicetime) ==
  /\ tcb[t].state # "NONEXIST"
  /\ Becomes([Kernel EXCEPT !.tcb[t].slicetime = slicetime])
  /\ UNCHANGED sysvars

tk_rel_wai(t, released) ==
  /\ is_waiting(tcb[t].state)
  /\ Becomes(end_wait(released, t, "E_RLWAI"))
  /\ UNCHANGED sysvars

\* The mask is set first; releasing the wait does not look at it.
tk_dis_wai(t, mask, released) ==
  /\ tcb[t].state # "NONEXIST"
  /\ LET k == IF /\ is_waiting(tcb[t].state)
                 /\ tcb[t].tskwait \cap mask # {}
                 /\ ~tcb[t].nodiswai
              THEN end_wait(released, t, "E_DISWAI") ELSE Kernel
     IN Becomes([k EXCEPT !.tcb[t].waitmask = mask])
  /\ UNCHANGED sysvars

tk_ena_wai(t) ==
  /\ tcb[t].state # "NONEXIST"
  /\ Becomes([Kernel EXCEPT !.tcb[t].waitmask = {}])
  /\ UNCHANGED sysvars

-----------------------------------------------------------------------------
(* task_sync.c *)

suspend(k, t) ==
  LET k1 == [k EXCEPT !.tcb[t].suscnt = @ + 1] IN
  CASE k.tcb[t].state = "READY" ->
         [make_non_ready(k1, t) EXCEPT !.tcb[t].state = "SUSPEND"]
    [] k.tcb[t].state = "WAIT" -> [k1 EXCEPT !.tcb[t].state = "WAITSUS"]
    [] OTHER -> k1

\* Slip: ctxtsk is suspended while dispatching is disabled.
tk_sus_tsk_undispatched(t) ==
  /\ task_alive(tcb[t].state)
  /\ tcb[t].suscnt < MaxSus
  /\ Becomes(suspend(Kernel, t))
  /\ UNCHANGED sysvars

\* CHECK_NONSELF makes a task that suspends itself fail; a handler may
\* suspend ctxtsk, but not while tk_dis_dsp is in force.
tk_sus_tsk(t) ==
  /\ task_alive(tcb[t].state)
  /\ ~(t = ctxtsk /\ dispatch_disabled >= DDS_DISABLE)
  /\ tcb[t].suscnt < MaxSus
  /\ Becomes(suspend(Kernel, t))
  /\ UNCHANGED sysvars

resume(k, t, suscnt) ==
  LET k1 == [k EXCEPT !.tcb[t].suscnt = suscnt] IN
  IF suscnt > 0 THEN k1
  ELSE IF k.tcb[t].state = "SUSPEND" THEN make_ready(k1, t)
  ELSE [k1 EXCEPT !.tcb[t].state = "WAIT"]

tk_rsm_tsk(t) ==
  /\ tcb[t].state \in {"SUSPEND", "WAITSUS"}
  /\ Becomes(resume(Kernel, t, tcb[t].suscnt - 1))
  /\ UNCHANGED sysvars

tk_frsm_tsk(t) ==
  /\ tcb[t].state \in {"SUSPEND", "WAITSUS"}
  /\ Becomes(resume(Kernel, t, 0))
  /\ UNCHANGED sysvars

tk_slp_tsk(tmout) ==
  /\ CHECK_DISPATCH
  /\ "SLP" \notin tcb[ctxtsk].waitmask
  /\ END_CRITICAL_SECTION(
       IF tcb[ctxtsk].wupcnt > 0
       THEN [Kernel EXCEPT !.tcb[ctxtsk].wupcnt = @ - 1]
       ELSE IF tmout = "TMO_POL" THEN Kernel
       ELSE make_wait(Kernel, {"SLP"}, NoQueue, tmout, FALSE))

\* Slip: no limit of wupcnt.
tk_wup_tsk_unlimited(t) ==
  /\ task_alive(tcb[t].state)
  /\ Becomes(IF is_waiting(tcb[t].state) /\ tcb[t].tskwait = {"SLP"}
             THEN wait_release_ok(Kernel, t)
             ELSE [Kernel EXCEPT !.tcb[t].wupcnt = @ + 1])
  /\ UNCHANGED sysvars

tk_wup_tsk(t) ==
  /\ task_alive(tcb[t].state)
  /\ LET sleeping == is_waiting(tcb[t].state) /\ tcb[t].tskwait = {"SLP"} IN
     /\ sleeping \/ tcb[t].wupcnt < MaxWup
     /\ Becomes(IF sleeping THEN wait_release_ok(Kernel, t)
                ELSE [Kernel EXCEPT !.tcb[t].wupcnt = @ + 1])
  /\ UNCHANGED sysvars

tk_can_wup(t) ==
  /\ task_alive(tcb[t].state)
  /\ Becomes([Kernel EXCEPT !.tcb[t].wupcnt = 0])
  /\ UNCHANGED sysvars

\* Slip: an event that is pending is not looked at.
tk_wai_tev_blind(waiptn, tmout) ==
  /\ CHECK_DISPATCH
  /\ tcb[ctxtsk].waitmask \cap waiptn = {}
  /\ END_CRITICAL_SECTION(IF tmout = "TMO_POL" THEN Kernel
                          ELSE make_wait(Kernel, waiptn, NoQueue, tmout, FALSE))

\* The events waited for are wait factors of their own (TTW_EV1 .. TTW_EV8).
tk_wai_tev(waiptn, tmout) ==
  /\ CHECK_DISPATCH
  /\ tcb[ctxtsk].waitmask \cap waiptn = {}
  /\ END_CRITICAL_SECTION(
       IF tcb[ctxtsk].tskevt \cap waiptn # {}
       THEN [Kernel EXCEPT !.tcb[ctxtsk].tskevt = @ \ waiptn]
       ELSE IF tmout = "TMO_POL" THEN Kernel
       ELSE make_wait(Kernel, waiptn, NoQueue, tmout, FALSE))

tk_sig_tev(t, tskevt) ==
  /\ task_alive(tcb[t].state)
  /\ Becomes(IF is_waiting(tcb[t].state) /\ tskevt \in tcb[t].tskwait
             THEN wait_release_ok(Kernel, t)
             ELSE [Kernel EXCEPT !.tcb[t].tskevt = @ \cup {tskevt}])
  /\ UNCHANGED sysvars

-----------------------------------------------------------------------------
(* cpu_calls.c, cpu_support.S: the dispatcher *)

tk_dis_dsp ==
  /\ in_task
  /\ dispatch_disabled' = DDS_DISABLE
  /\ UNCHANGED <<kernvars, free_tcb, in_timer>>

tk_ena_dsp ==
  /\ in_task
  /\ dispatch_disabled' = DDS_ENABLE
  /\ UNCHANGED <<kernvars, free_tcb, in_timer>>

\* Slip: an interrupt does not preempt a task that can go on.
dispatch_entry_cooperative ==
  /\ ~in_timer
  /\ dispatch_disabled = DDS_ENABLE
  /\ ctxtsk # NoTask
  /\ tcb[ctxtsk].state # "READY"
  /\ dispatch_disabled' = DDS_DISABLE_IMPLICIT
  /\ UNCHANGED <<kernvars, free_tcb, in_timer>>

\* END_CRITICAL_SECTION, the end of an interrupt, or tk_ena_dsp finds that
\* ctxtsk should not run any more; the dispatcher enables interrupts while it
\* saves the context, so handlers run between the next three steps.
dispatch_entry ==
  /\ ~in_timer
  /\ dispatch_disabled = DDS_ENABLE
  /\ ctxtsk # NoTask
  /\ ctxtsk # schedtsk
  /\ dispatch_disabled' = DDS_DISABLE_IMPLICIT
  /\ UNCHANGED <<kernvars, free_tcb, in_timer>>

dispatch_save ==
  /\ ~in_timer
  /\ dispatch_disabled = DDS_DISABLE_IMPLICIT
  /\ ctxtsk # NoTask
  /\ Becomes(force_dispatch(Kernel))
  /\ UNCHANGED sysvars

\* l_dispatch1 .. l_dispatch2: idle until there is a task to run.  The call
\* the task was blocked in returns, and its error area goes out of scope.
dispatch_to ==
  /\ ~in_timer
  /\ ctxtsk = NoTask
  /\ schedtsk # NoTask
  /\ Becomes([Kernel EXCEPT !.ctxtsk = schedtsk,
                            !.tcb[schedtsk].wercd = "none"])
  /\ dispatch_disabled' = DDS_ENABLE
  /\ UNCHANGED <<free_tcb, in_timer>>

-----------------------------------------------------------------------------
(* timer.c: timer_handler.  Which timeouts are due depends on the clock; in  *)
(* this module any subset of those registered may be, in any order.  The     *)
(* iterations of its loop are steps; no task and no dispatcher runs before   *)
(* the handler has ended, the handlers called from the loop do.              *)

time_slice_tick(k) ==
  IF k.ctxtsk = NoTask \/ k.schedtsk # k.ctxtsk THEN k
  ELSE LET t  == k.ctxtsk
           k1 == time_slice_schedule(k, t)
       IN [k1 EXCEPT !.schedtsk =
             IF k.tcb[t].slicetime > 0
                /\ k.tcb[t].slicecnt + 1 > k.tcb[t].slicetime
             THEN Head(k1.rq.tskque[k.tcb[t].priority]) ELSE t]

timer_handler_begin ==
  /\ ~in_timer
  /\ Becomes(time_slice_tick(Kernel))
  /\ in_timer' = TRUE
  /\ UNCHANGED <<dispatch_disabled, free_tcb>>

\* The event is out of the timer queue before wait_release_tmout, which leaves
\* the E_TMOUT written when the wait began.
timer_handler_event(t, released) ==
  /\ in_timer
  /\ tcb[t].wtmeb
  /\ Becomes(end_wait(released, t, tcb[t].wercd))
  /\ UNCHANGED sysvars

timer_handler_end ==
  /\ in_timer
  /\ in_timer' = FALSE
  /\ UNCHANGED <<kernvars, dispatch_disabled, free_tcb>>

-----------------------------------------------------------------------------
(* tkstart.c: every TCB is free; the initial task, created with priority     *)
(* ipri[t], is started and force_dispatch begins the operation.  A TCB in    *)
(* 'created' has been created as well and is DORMANT.                        *)

task_initialize ==
  [tcb |-> [t \in Task |-> blank_tcb(0)],
   rq |-> ready_queue_initialize, wq |-> [w \in WaitQueue |-> <<>>],
   schedtsk |-> NoTask, ctxtsk |-> NoTask, obj |-> <<>>]

create_all(k, created, ipri) ==
  [k EXCEPT !.tcb = [t \in Task |-> IF t \in created
                                     THEN [blank_tcb(ipri[t]) EXCEPT !.state = "DORMANT"]
                                     ELSE @[t]]]

t_kernel_main(inittask, created, freelist, ipri, objects) ==
  LET k == make_ready(create_all(task_initialize, created, ipri), inittask) IN
  /\ tcb = k.tcb
  /\ ready_queue = k.rq
  /\ wait_queue = k.wq
  /\ schedtsk = k.schedtsk
  /\ ctxtsk = k.ctxtsk
  /\ objcb = objects
  /\ free_tcb = freelist
  /\ dispatch_disabled = DDS_DISABLE_IMPLICIT
  /\ in_timer = FALSE

=============================================================================
