---------------------------- MODULE TKRoundRobin ----------------------------
(***************************************************************************)
(* Time slicing (tk_chg_slt, time_slice_schedule, timer_handler) and the  *)
(* dispatcher over time: tasks of equal priority that never block share    *)
(* the CPU, although a task of higher priority that handlers keep waking   *)
(* preempts them at any time, tasks disable dispatching for a while and    *)
(* handlers suspend and resume them.                                       *)
(***************************************************************************)
EXTENDS TKTaskCalls

CONSTANTS
  Urgent,      \* the task of priority 0, which sleeps until it is woken
  SliceTime    \* the time slice of the others, in timer periods

ASSUME RoundRobinAssumption ==
  /\ Urgent \in Task
  /\ NumPri = 2
  /\ SliceTime \in Nat \ {0}
  /\ Slices = {0, SliceTime}
  /\ WaitQueue = {}

Workers == Task \ {Urgent}

UrgentPri == [t \in Task |-> IF t = Urgent THEN 0 ELSE 1]

\* The urgent task has created the others, and starts them.
RoundRobinInit ==
  t_kernel_main(Urgent, Task, <<>>, UrgentPri, <<>>)

RoundRobinNext ==
  \/ \E t \in Workers : \/ tk_sta_tsk(t) \/ tk_sus_tsk(t) \/ tk_rsm_tsk(t)
                        \/ \E slicetime \in Slices : tk_chg_slt(t, slicetime)
  \/ ctxtsk = Urgent /\ tk_slp_tsk("TMO_FEVR")
  \/ tk_wup_tsk(Urgent)
  \/ tk_dis_dsp \/ tk_ena_dsp
  \/ dispatch_entry \/ dispatch_save \/ dispatch_to
  \/ timer_handler_begin \/ timer_handler_end

\* The dispatcher is the code the CPU executes when it is entered, the timer interrupts
\* at all times and its handler ends; nothing is assumed of the tasks and the other
\* handlers.
RoundRobinSpec ==
  /\ RoundRobinInit
  /\ [][RoundRobinNext]_vars
  /\ SF_vars(dispatch_entry)
  /\ SF_vars(dispatch_save)
  /\ SF_vars(dispatch_to)
  /\ WF_vars(timer_handler_begin)
  /\ WF_vars(timer_handler_end)

\* A worker with a time slice does not keep the CPU from the others: when one of
\* them runs again and again, so does every worker that is READY for good, unless
\* dispatching stays disabled.  The charge of one TIMER_PERIOD on preemption
\* (make_ready, reschedule) is what makes this true when every timer interrupt falls
\* into the urgent task.
WorkersShareCpu ==
  \A t, u \in Workers :
    /\ []<>(ctxtsk = t /\ dispatch_disabled = DDS_ENABLE)
    /\ <>[](tcb[t].slicetime > 0)
    /\ <>[](tcb[u].state = "READY")
    => []<>(ctxtsk = u)

\* A task selected to run gets the CPU unless another one is selected or
\* dispatching is disabled.
SelectedTaskRuns ==
  \A t \in Task :
    schedtsk = t ~> \/ ctxtsk = t
                    \/ schedtsk # t
                    \/ dispatch_disabled = DDS_DISABLE

=============================================================================
