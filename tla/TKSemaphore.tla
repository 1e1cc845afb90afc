----------------------------- MODULE TKSemaphore -----------------------------
(***************************************************************************)
(* semaphore.c: counting semaphores.  A semaphore is its own wait queue    *)
(* (WaitQueue = Sem); objcb[s] is its SEMCB.                               *)
(***************************************************************************)
EXTENDS TKTaskCalls, FiniteSetsExt

CONSTANTS
  Sem,         \* the SEMCBs of semcb_table
  SemAtr,      \* the attributes tried: [tpri, cnt, nodiswai : BOOLEAN], for
               \* TA_TPRI, TA_CNT and TA_NODISWAI
  MaxSem,      \* the maximum count of the semaphores
  SemTmo,      \* the timeouts tried
  Disturbed,   \* the tasks tk_dis_wai and tk_sus_tsk are tried on
  InitTask,    \* the task that starts the others
  InitPri      \* the priority each task is created with

ASSUME SemAssumption ==
  /\ WaitQueue = Sem
  /\ SemAtr \subseteq [tpri : BOOLEAN, cnt : BOOLEAN, nodiswai : BOOLEAN]
  /\ MaxSem \in Nat \ {0}
  /\ InitTask \in Task
  /\ SemTmo \subseteq TMO
  /\ Disturbed \subseteq Task
  /\ InitPri \in [Task -> Pri]

\* semid = 0: the block is in free_semcb.
free_semcb ==
  [exists |-> FALSE, tpri |-> FALSE, cnt |-> FALSE, nodiswai |-> FALSE,
   semcnt |-> 0, maxsem |-> 0]

\* Slip: the count is not reduced.
grant_free(k, s, t) == wait_release_ok(k, t)

\* Release the wait of t, which asked for winfo.sem.cnt.
grant(k, s, t) ==
  [wait_release_ok(k, t) EXCEPT !.obj[s].semcnt = @ - k.tcb[t].winfo]

\* One iteration of a loop over the wait queue.  A task that asks for too much
\* ends the loop, or is passed over; so does, with stop, a count that is used up.
visit(a, s, t, skip, stop) ==
  IF a.done THEN a
  ELSE IF a.k.obj[s].semcnt < a.k.tcb[t].winfo THEN [a EXCEPT !.done = ~skip]
  ELSE LET k1 == grant(a.k, s, t) IN
       [k |-> k1, done |-> stop /\ k1.obj[s].semcnt <= 0]

\* The loops save the next link before they release a task, so they visit the
\* queue as it was at the start.
visit_queue(k, s, skip, stop) ==
  LET q == k.wq[s]
      visited[n \in 0 .. Len(q)] ==
        IF n = 0 THEN [k |-> k, done |-> FALSE]
        ELSE visit(visited[n - 1], s, q[n], skip, stop)
  IN visited[Len(q)].k

\* From the head of the queue, as many tasks as the count allows.
sem_release(k, s) == visit_queue(k, s, FALSE, FALSE)

\* With oldpri < 0 the queue is not reordered.
sem_chg_pri(k, t, oldpri) ==
  LET s  == k.tcb[t].wid
      k1 == IF oldpri >= 0 THEN gcb_change_priority(k, s, t) ELSE k
  IN IF k.obj[s].cnt THEN k1 ELSE sem_release(k1, s)

\* Slip: the tasks behind one that gives up are not looked at.
sem_rel_wai_none(k, t) == k

sem_rel_wai(k, t) == sem_chg_pri(k, t, -1)

\* Slip: the queue keeps its order.
sem_chg_pri_hook_none(k, t, oldpri) == k

\* wspec_sem_tfifo has no chg_pri_hook.
sem_chg_pri_hook(k, t, oldpri) ==
  IF k.obj[k.tcb[t].wid].tpri THEN sem_chg_pri(k, t, oldpri) ELSE k

tk_chg_pri_sem(t, priority) ==
  /\ tcb[t].state # "NONEXIST"
  /\ LET k == change_task_priority([Kernel EXCEPT !.tcb[t].bpriority = priority],
                                   t, priority)
     IN Becomes(IF is_waiting(tcb[t].state)
                THEN sem_chg_pri_hook(k, t, tcb[t].priority) ELSE k)
  /\ UNCHANGED sysvars

\* The arguments of the calls of TKTaskCalls: the hook of a waiting task has run.
released(t) == sem_rel_wai(wait_release(Kernel, t), t)

left(t) == IF is_waiting(tcb[t].state) THEN sem_rel_wai(_ter_tsk(Kernel, t), t)
           ELSE _ter_tsk(Kernel, t)

tk_cre_sem(s, atr, isemcnt, maxsem) ==
  /\ ~objcb[s].exists
  /\ isemcnt <= maxsem
  /\ Becomes([Kernel EXCEPT !.obj[s] =
       [exists |-> TRUE, tpri |-> atr.tpri, cnt |-> atr.cnt,
        nodiswai |-> atr.nodiswai, semcnt |-> isemcnt, maxsem |-> maxsem]])
  /\ UNCHANGED sysvars

tk_del_sem(s) ==
  /\ objcb[s].exists
  /\ Becomes([wait_delete(Kernel, s) EXCEPT !.obj[s] = free_semcb])
  /\ UNCHANGED sysvars

\* The loop of tk_sig_sem: with TA_CNT a task that asks for too much is passed
\* over; it ends early when no count is left.
signal_loop(k, s) == visit_queue(k, s, k.obj[s].cnt, TRUE)

tk_sig_sem(s, cnt) ==
  /\ objcb[s].exists
  /\ cnt <= objcb[s].maxsem - objcb[s].semcnt
  /\ Becomes(signal_loop([Kernel EXCEPT !.obj[s].semcnt = @ + cnt], s))
  /\ UNCHANGED sysvars

\* Slip: what is there is taken although others wait.
tk_wai_sem_barging(s, cnt, tmout) ==
  /\ CHECK_DISPATCH
  /\ objcb[s].exists
  /\ cnt <= objcb[s].maxsem
  /\ ~is_diswai(Kernel, ctxtsk, {"SEM"}, objcb[s].nodiswai)
  /\ END_CRITICAL_SECTION(
       IF objcb[s].semcnt >= cnt
       THEN [Kernel EXCEPT !.obj[s].semcnt = @ - cnt]
       ELSE IF tmout = "TMO_POL" THEN Kernel
       ELSE [gcb_make_wait_with_diswai(Kernel, {"SEM"}, s, tmout, objcb[s].tpri,
                                       objcb[s].nodiswai)
               EXCEPT !.tcb[ctxtsk].winfo = cnt])

tk_wai_sem(s, cnt, tmout) ==
  /\ CHECK_DISPATCH
  /\ objcb[s].exists
  /\ cnt <= objcb[s].maxsem
  /\ ~is_diswai(Kernel, ctxtsk, {"SEM"}, objcb[s].nodiswai)
  /\ END_CRITICAL_SECTION(
       IF /\ \/ objcb[s].cnt
             \/ gcb_top_of_wait_queue(Kernel, s, ctxtsk, objcb[s].tpri) = ctxtsk
          /\ objcb[s].semcnt >= cnt
       THEN [Kernel EXCEPT !.obj[s].semcnt = @ - cnt]
       ELSE IF tmout = "TMO_POL" THEN Kernel
       ELSE [gcb_make_wait_with_diswai(Kernel, {"SEM"}, s, tmout, objcb[s].tpri,
                                       objcb[s].nodiswai)
               EXCEPT !.tcb[ctxtsk].winfo = cnt])

-----------------------------------------------------------------------------

SemInit == t_kernel_main(InitTask, Task, <<>>, InitPri, [s \in Sem |-> free_semcb])

SemCalls ==
  \E s \in Sem :
    \/ \E a \in SemAtr, i \in 0 .. MaxSem : tk_cre_sem(s, a, i, MaxSem)
    \/ tk_del_sem(s)
    \/ \E c \in 1 .. MaxSem : \/ tk_sig_sem(s, c)
                              \/ \E tmout \in SemTmo : tk_wai_sem(s, c, tmout)

\* The calls of the task layer that interfere with a waiting task.
SemTaskCalls ==
  \/ \E t \in Task : \/ tk_sta_tsk(t)
                     \/ tk_ter_tsk(t, left(t))
                     \/ tk_rel_wai(t, released(t))
                     \/ \E p \in Pri : tk_chg_pri_sem(t, p)
  \/ \E t \in Disturbed : \/ tk_sus_tsk(t) \/ tk_rsm_tsk(t)
                          \/ tk_dis_wai(t, {"SEM"}, released(t))
                          \/ tk_ena_wai(t)
  \/ tk_ext_tsk(left(ctxtsk))

SemSystem ==
  \/ dispatch_entry \/ dispatch_save \/ dispatch_to
  \/ timer_handler_begin \/ timer_handler_end
  \/ \E t \in Task : timer_handler_event(t, released(t))

SemNext == SemCalls \/ SemTaskCalls \/ SemSystem

SemSpec == SemInit /\ [][SemNext]_vars

-----------------------------------------------------------------------------

\* A task is linked in the queue of the semaphore it waits for, once, and in no
\* other, with a request that can be met; with TA_TPRI the queue is in priority order,
\* through every tk_chg_pri; a deleted semaphore has no waiting tasks.
SemQueuesMatchStates ==
  \A s \in Sem :
    LET q == wait_queue[s] IN
    /\ IsInjective(q)
    /\ ToSet(q) = {t \in Task : is_waiting(tcb[t].state) /\ tcb[t].wid = s}
    /\ \A i, j \in DOMAIN q :
         objcb[s].tpri /\ i < j => tcb[q[i]].priority <= tcb[q[j]].priority
    /\ \A t \in ToSet(q) : objcb[s].exists /\ tcb[t].winfo \in 1 .. objcb[s].maxsem

\* No task waits for what is there: whenever a call returns, the head of the
\* queue (with TA_CNT: every waiting task) asks for more than is left.
NoGrantableWaiter ==
  \A s \in Sem : \A i \in DOMAIN wait_queue[s] :
    objcb[s].cnt \/ i = 1 => tcb[wait_queue[s][i]].winfo > objcb[s].semcnt

\* What the tasks of s were granted by a step, and the units a step brings in.
Granted(s) ==
  {t \in ToSet(wait_queue[s]) : t \notin ToSet(wait_queue'[s]) /\ tcb'[t].wercd = "E_OK"}

Failed(s) ==
  {t \in ToSet(wait_queue[s]) : t \notin ToSet(wait_queue'[s]) /\ tcb'[t].wercd # "E_OK"}

Income(s) ==
  objcb'[s].semcnt - objcb[s].semcnt
    + MapThenSumSet(LAMBDA t : tcb[t].winfo, Granted(s))

\* Units are neither lost nor made up, and the count keeps within its maximum: what a
\* step grants comes out of the count
\* and what is signalled, which fits below the maximum; a wait that fails
\* (timeout, tk_rel_wai, tk_dis_wai, termination) may let others go, but brings no
\* units in.
UnitsConserved ==
  [][\A s \in Sem : objcb[s].exists /\ objcb'[s].exists =>
       /\ Granted(s) # {} => Income(s) \in 0 .. (objcb[s].maxsem - objcb[s].semcnt)
       /\ Failed(s) # {} => Income(s) = 0
       /\ objcb'[s].semcnt \in 0 .. objcb'[s].maxsem]_vars

\* Without TA_CNT nobody is overtaken: a waiting task is granted only together
\* with all those in front of it, and a task that takes units without waiting
\* finds nobody waiting (with TA_TPRI: nobody of its priority or higher).
\* With TA_TPRI the first is claimed for tasks in front that have a higher
\* priority and keep it: tk_chg_pri puts a task behind those of the priority it
\* gets, its old one included.
NoOvertaking ==
  [][\A s \in Sem : objcb[s].exists /\ objcb'[s].exists /\ ~objcb[s].cnt =>
       /\ \A i, j \in DOMAIN wait_queue[s] :
            LET u == wait_queue[s][i]
                t == wait_queue[s][j]
            IN /\ i < j
               /\ t \in Granted(s)
               /\ objcb[s].tpri => tcb'[u].priority < tcb'[t].priority
               => u \notin ToSet(wait_queue'[s])
       /\ Income(s) < 0 /\ wait_queue[s] # <<>> =>
            /\ objcb[s].tpri
            /\ tcb[ctxtsk].priority < tcb[Head(wait_queue[s])].priority]_vars

=============================================================================
