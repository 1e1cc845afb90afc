------------------------------ MODULE TKMutex ------------------------------
(***************************************************************************)
(* mutex.c: mutexes with first-in-first-out or priority order, priority    *)
(* inheritance and priority ceiling, and their part in tk_chg_pri          *)
(* (chg_pri_mutex) and in the end of a task (signal_all_mutex).            *)
(*                                                                         *)
(* A mutex is its own wait queue (WaitQueue = Mtx).  objcb is a record of  *)
(* the mutex control blocks, mtxcb, and of the list of mutexes each task   *)
(* holds, mtxlist (TCB.mtxlist, linked through MTXCB.mtxlist), most recent *)
(* first.                                                                  *)
(*                                                                         *)
(* A change of priority travels from a waiting task to the holder of the   *)
(* mutex, which may itself wait: change_task_priority and the hooks are    *)
(* mutually recursive, as in the source.                                   *)
(***************************************************************************)
EXTENDS TKTaskCalls

CONSTANTS
  Mtx,         \* the MTXCBs of mtxcb_table
  MtxKinds,    \* the kinds tried for each mutex: [atr, ceilpri] with the attribute
               \* "TFIFO", "TPRI", "INHERIT" or "CEILING"
  MtxRank,     \* the order in which the tasks lock: a mutex is locked while only
               \* mutexes of its rank or less are held
  MtxTmo,      \* the timeouts tried, a subset of TMO
  Suspended,   \* the tasks tk_sus_tsk is tried on
  NewPri,      \* the priorities tk_chg_pri is tried with on each task
  InitTask,    \* the task that starts the others
  InitPri      \* the priority each task is created with

ASSUME MtxAssumption ==
  /\ WaitQueue = Mtx
  /\ MtxKinds \in [Mtx -> SUBSET [atr : {"TFIFO", "TPRI", "INHERIT", "CEILING"},
                                    ceilpri : Pri]]
  /\ MtxTmo \subseteq TMO
  /\ Suspended \subseteq Task
  /\ NewPri \in [Task -> SUBSET Pri]
  /\ MtxRank \in [Mtx -> Nat]
  /\ InitTask \in Task
  /\ InitPri \in [Task -> Pri]

\* mtxid = 0: the block is in free_mtxcb.
free_mtxcb == [exists |-> FALSE, atr |-> "TFIFO", ceilpri |-> 0, mtxtsk |-> NoTask]

mtx_waited(k, m) == k.wq[m] # <<>>
mtx_head_pri(k, m) == k.tcb[Head(k.wq[m])].priority

\* The priority a held mutex asks of its holder, at most 'pri'.
mutex_pri(k, m, pri) ==
  CASE k.obj.mtxcb[m].atr = "CEILING" -> k.obj.mtxcb[m].ceilpri
    [] k.obj.mtxcb[m].atr = "INHERIT" /\ mtx_waited(k, m) -> mtx_head_pri(k, m)
    [] OTHER -> pri

\* The highest (least) of 'pri' and what the mutexes in the list ask for.
highest_pri(k, list, pri) ==
  FoldLeft(LAMBDA p, m : IF mutex_pri(k, m, p) < p THEN mutex_pri(k, m, p) ELSE p,
           pri, list)

NoMtx == "no mutex"     \* the NULL argument of reset_priority

RECURSIVE change_priority(_, _, _)

\* Take relmtx out of the list of t and give t the priority it deserves.
release_mutex(k, t, relmtx) ==
  LET k1     == [k EXCEPT !.obj.mtxlist[t] =
                   SelectSeq(@, LAMBDA m : m # relmtx)]
      newpri == highest_pri(k1, k1.obj.mtxlist[t], k1.tcb[t].bpriority)
  IN IF newpri # k1.tcb[t].priority THEN change_priority(k1, t, newpri) ELSE k1

reset_priority(k, t) == release_mutex(k, t, NoMtx)

\* Slip: a change of priority goes no further than the queue.
mtx_chg_pri_local(k, t, oldpri) ==
  IF k.obj.mtxcb[k.tcb[t].wid].atr = "TFIFO" THEN k
  ELSE gcb_change_priority(k, k.tcb[t].wid, t)

\* wspec_mtx_tfifo has no hook, wspec_mtx_tpri serves TA_TPRI and TA_CEILING.
mtx_chg_pri(k, t, oldpri) ==
  LET m      == k.tcb[t].wid
      k1     == gcb_change_priority(k, m, t)
      mtxtsk == k.obj.mtxcb[m].mtxtsk
  IN IF k.obj.mtxcb[m].atr = "TFIFO" THEN k
     ELSE IF k.obj.mtxcb[m].atr # "INHERIT" THEN k1
     ELSE IF k1.tcb[mtxtsk].priority > k1.tcb[t].priority
          THEN change_priority(k1, mtxtsk, k1.tcb[t].priority)
     ELSE IF k1.tcb[mtxtsk].priority = oldpri THEN reset_priority(k1, mtxtsk)
     ELSE k1

change_priority(k, t, p) ==
  LET k1 == change_task_priority(k, t, p) IN
  IF is_waiting(k.tcb[t].state) THEN mtx_chg_pri(k1, t, k.tcb[t].priority) ELSE k1

\* Slip: the holder keeps the priority of a task that gives up.
mtx_rel_wai_none(k, t) == k

mtx_rel_wai(k, t) ==
  LET m      == k.tcb[t].wid
      mtxtsk == k.obj.mtxcb[m].mtxtsk
  IN IF k.obj.mtxcb[m].atr = "INHERIT"
        /\ k.tcb[mtxtsk].priority = k.tcb[t].priority
     THEN reset_priority(k, mtxtsk) ELSE k

\* The lock of m goes to the head of its queue, or becomes free.
hand_over(k, m) ==
  IF ~mtx_waited(k, m) THEN [k EXCEPT !.obj.mtxcb[m].mtxtsk = NoTask]
  ELSE LET t  == Head(k.wq[m])
           k1 == [wait_release_ok(k, t) EXCEPT !.obj.mtxcb[m].mtxtsk = t,
                                               !.obj.mtxlist[t] = <<m>> \o @]
           c  == k.obj.mtxcb[m]
       IN IF c.atr = "CEILING" /\ k1.tcb[t].priority > c.ceilpri
          THEN change_priority(k1, t, c.ceilpri) ELSE k1

\* The list of the ended task itself is reset by make_dormant.
signal_all_mutex(k, t) ==
  [FoldLeft(hand_over, k, k.obj.mtxlist[t]) EXCEPT !.obj.mtxlist[t] = <<>>]

\* The arguments of the calls of TKTaskCalls: the hooks have run.
released(t) == mtx_rel_wai(wait_release(Kernel, t), t)

left(t) ==
  signal_all_mutex(IF is_waiting(tcb[t].state) THEN mtx_rel_wai(_ter_tsk(Kernel, t), t)
                   ELSE _ter_tsk(Kernel, t), t)

\* Slip: the mutex t waits for is not looked at.
low_pri_held(k, t) ==
  Max({k.obj.mtxcb[m].ceilpri : m \in {m \in ToSet(k.obj.mtxlist[t]) :
                                         k.obj.mtxcb[m].atr = "CEILING"}} \cup {0})

\* The lowest ceiling among the mutexes t holds or waits for; 0 if there is none.
low_pri(k, t) ==
  LET waited == IF is_waiting(k.tcb[t].state) /\ "MTX" \in k.tcb[t].tskwait
                THEN {k.tcb[t].wid} ELSE {}
      ceilings == {k.obj.mtxcb[m].ceilpri :
                     m \in {m \in waited \cup ToSet(k.obj.mtxlist[t]) :
                              k.obj.mtxcb[m].atr = "CEILING"}}
  IN Max(ceilings \cup {0})

\* tk_chg_pri with its call of chg_pri_mutex, which refuses (E_ILUSE) a priority
\* above a ceiling and keeps the priority inherited through held mutexes.
tk_chg_pri_mtx(t, priority) ==
  /\ tcb[t].state # "NONEXIST"
  /\ priority >= low_pri(Kernel, t)
  /\ Becomes(change_priority(
       [Kernel EXCEPT !.tcb[t].bpriority = priority],
       t, highest_pri(Kernel, objcb.mtxlist[t], priority)))
  /\ UNCHANGED sysvars

tk_cre_mtx(m, atr, ceilpri) ==
  /\ ~objcb.mtxcb[m].exists
  /\ Becomes([Kernel EXCEPT !.obj.mtxcb[m] =
       [exists |-> TRUE, atr |-> atr, mtxtsk |-> NoTask,
        ceilpri |-> ceilpri]])
  /\ UNCHANGED sysvars

\* Slip: the mutex stays in the list of its holder.
tk_del_mtx_held(m) ==
  /\ objcb.mtxcb[m].exists
  /\ Becomes([wait_delete(Kernel, m) EXCEPT !.obj.mtxcb[m] = free_mtxcb])
  /\ UNCHANGED sysvars

tk_del_mtx(m) ==
  /\ objcb.mtxcb[m].exists
  /\ LET holder == objcb.mtxcb[m].mtxtsk
         k1 == IF holder = NoTask THEN Kernel ELSE release_mutex(Kernel, holder, m)
     IN Becomes([wait_delete(k1, m) EXCEPT !.obj.mtxcb[m] = free_mtxcb])
  /\ UNCHANGED sysvars

get_lock(k, m) ==
  LET t  == k.ctxtsk
      c  == k.obj.mtxcb[m]
      k1 == [k EXCEPT !.obj.mtxcb[m].mtxtsk = t, !.obj.mtxlist[t] = <<m>> \o @]
  IN IF c.atr = "CEILING" /\ k.tcb[t].priority > c.ceilpri
     THEN change_priority(k1, t, c.ceilpri) ELSE k1

wait_lock(k, m, tmout) ==
  LET t  == k.ctxtsk
      c  == k.obj.mtxcb[m]
      k1 == IF c.atr = "INHERIT" /\ k.tcb[c.mtxtsk].priority > k.tcb[t].priority
            THEN change_priority(k, c.mtxtsk, k.tcb[t].priority) ELSE k
  IN gcb_make_wait(k1, {"MTX"}, m, tmout, c.atr # "TFIFO", FALSE)

tk_loc_mtx(m, tmout) ==
  /\ CHECK_DISPATCH
  /\ objcb.mtxcb[m].exists
  /\ objcb.mtxcb[m].mtxtsk # ctxtsk
  /\ objcb.mtxcb[m].atr = "CEILING" => tcb[ctxtsk].bpriority >= objcb.mtxcb[m].ceilpri
  /\ ~is_diswai(Kernel, ctxtsk, {"MTX"}, FALSE)
  /\ END_CRITICAL_SECTION(
       IF objcb.mtxcb[m].mtxtsk = NoTask THEN get_lock(Kernel, m)
       ELSE IF tmout = "TMO_POL" THEN Kernel
       ELSE wait_lock(Kernel, m, tmout))

tk_unl_mtx(m) ==
  /\ in_task
  /\ objcb.mtxcb[m].exists
  /\ objcb.mtxcb[m].mtxtsk = ctxtsk
  /\ END_CRITICAL_SECTION(hand_over(release_mutex(Kernel, ctxtsk, m), m))

-----------------------------------------------------------------------------

MtxInit ==
  t_kernel_main(InitTask, Task, <<>>, InitPri,
                [mtxcb |-> [m \in Mtx |-> free_mtxcb],
                 mtxlist |-> [t \in Task |-> <<>>]])

in_lock_order(m) ==
  ctxtsk # NoTask =>
    \A held \in ToSet(objcb.mtxlist[ctxtsk]) : MtxRank[held] <= MtxRank[m]

MtxCalls ==
  \E m \in Mtx :
    \/ \E kind \in MtxKinds[m] : tk_cre_mtx(m, kind.atr, kind.ceilpri)
    \/ tk_del_mtx(m)
    \/ in_lock_order(m) /\ \E tmout \in MtxTmo : tk_loc_mtx(m, tmout)
    \/ tk_unl_mtx(m)

MtxTaskCalls ==
  \/ \E t \in Task : \/ tk_sta_tsk(t)
                     \/ tk_ter_tsk(t, left(t))
                     \/ tk_rel_wai(t, released(t))
                     \/ \E p \in NewPri[t] : tk_chg_pri_mtx(t, p)
  \/ \E t \in Suspended : tk_sus_tsk(t) \/ tk_rsm_tsk(t)
  \/ tk_ext_tsk(left(ctxtsk))

MtxSystem ==
  \/ dispatch_entry \/ dispatch_save \/ dispatch_to
  \/ timer_handler_begin \/ timer_handler_end
  \/ \E t \in Task : timer_handler_event(t, released(t))

MtxNext == MtxCalls \/ MtxTaskCalls \/ MtxSystem

MtxSpec == MtxInit /\ [][MtxNext]_vars

-----------------------------------------------------------------------------

mtxcb == objcb.mtxcb

\* A deadlock of tasks that wait for mutexes of one another.
Holders(t) == IF is_waiting(tcb[t].state) /\ tcb[t].wid \in Mtx
              THEN {mtxcb[tcb[t].wid].mtxtsk} ELSE {}

\* The tasks t waits for, directly or through others, within n hops.
WaitsFor[t \in Task, n \in 0 .. Cardinality(Task)] ==
  IF n = 0 THEN {t}
  ELSE WaitsFor[t, n - 1] \cup UNION {Holders(u) : u \in WaitsFor[t, n - 1]}

Deadlocked(t) ==
  \E u \in Holders(t) : t \in WaitsFor[u, Cardinality(Task)]

\* A mutex that exists is in the list of the task that holds it and in no other; its
\* holder is alive; the tasks that wait for it are in its queue, each once, except with
\* TA_TFIFO in the order of their priorities, also those they inherit; and nobody waits
\* for a mutex that is free.
MutexOwnership ==
  \A m \in Mtx :
    LET q == wait_queue[m] IN
    /\ \A t \in Task : m \in ToSet(objcb.mtxlist[t]) <=>
                         mtxcb[m].exists /\ mtxcb[m].mtxtsk = t
    /\ mtxcb[m].mtxtsk # NoTask => task_alive(tcb[mtxcb[m].mtxtsk].state)
    /\ IsInjective(q)
    /\ ToSet(q) = {t \in Task : is_waiting(tcb[t].state) /\ tcb[t].wid = m}
    /\ \A i, j \in DOMAIN q :
         mtxcb[m].atr # "TFIFO" /\ i < j => tcb[q[i]].priority <= tcb[q[j]].priority
    /\ q # <<>> => mtxcb[m].exists /\ mtxcb[m].mtxtsk # NoTask

\* The rule of release_mutex holds between any two calls: the priority of a task
\* is the highest of its base priority, the ceilings of the mutexes it holds and
\* the tasks waiting for those with TA_INHERIT.
PriorityRule ==
  \A t \in Task : task_alive(tcb[t].state) =>
    tcb[t].priority = highest_pri(Kernel, objcb.mtxlist[t], tcb[t].bpriority)

\* A holder of a ceiling mutex, or a task that waits for one, has no base
\* priority above the ceiling.
CeilingRespected ==
  \A m \in Mtx : mtxcb[m].exists /\ mtxcb[m].atr = "CEILING" =>
    \A t \in Task : \/ mtxcb[m].mtxtsk = t
                    \/ t \in ToSet(wait_queue[m])
                    => tcb[t].bpriority >= mtxcb[m].ceilpri

\* The tasks that are waiting, directly or through others, for t, and would be
\* served through TA_INHERIT mutexes only.
InheritsFrom[t \in Task, n \in 0 .. Cardinality(Task)] ==
  IF n = 0 THEN {t}
  ELSE InheritsFrom[t, n - 1] \cup
       UNION {ToSet(wait_queue[m]) :
                m \in {m \in Mtx : mtxcb[m].atr = "INHERIT"
                                   /\ mtxcb[m].mtxtsk \in InheritsFrom[t, n - 1]}}

\* Priority inheritance is transitive and is given back: the priority of a task
\* is the highest base priority or ceiling among itself and the tasks it keeps
\* waiting (along chains of inheritance), unless the tasks are deadlocked.
BasePri(t) ==
  {tcb[t].bpriority} \cup
  {mtxcb[m].ceilpri : m \in {m \in Mtx : mtxcb[m].mtxtsk = t /\ mtxcb[m].atr = "CEILING"}}

InheritedExactly ==
  (\A t \in Task : ~Deadlocked(t)) =>
    \A t \in Task : task_alive(tcb[t].state) =>
      tcb[t].priority =
        Min(UNION {BasePri(u) : u \in InheritsFrom[t, Cardinality(Task)]})

\* wait.h: wait_cancel takes a task out of the wait queue it is in, so a task that
\* has been terminated is in none.
TerminatedNotQueued ==
  \A t \in Task, m \in Mtx :
    tcb[t].state = "DORMANT" => t \notin ToSet(wait_queue[m])

=============================================================================
