------------------------------ MODULE TKMempfix ------------------------------
(***************************************************************************)
(* mempfix.c: fixed-size memory pools, whose calls run under the kernel    *)
(* lock of the pool (klock.c) with interrupts enabled: handlers run, and   *)
(* other tasks are dispatched, between any two statements.                 *)
(*                                                                         *)
(* A call is a sequence of steps of its task.  call[t] says which call     *)
(* task t is in and where; every step is one critical section, or one      *)
(* piece of code that only the lock protects.                              *)
(***************************************************************************)
EXTENDS TKKLock

CONSTANTS
  Mpf,         \* the MPFCBs
  NoMpf,
  MpfCnt,      \* mpfcnt, the number of blocks of a pool
  MpfAtr,      \* the values of TA_TPRI tried
  MpfTmo,      \* the timeouts tried
  Disturbed,   \* the tasks tk_sus_tsk and tk_chg_pri are tried on
  InitTask,    \* the task of init_task_startup
  InitPri      \* the initial priority of every task

\* A pool has two queues: its wait_queue and the wtskq of its lock.
MpfWait(m) == <<m, "wait">>
MpfLock(m) == <<m, "lock">>

\* The MPFCBs are a table of fixed size (max_mpfid).
ASSUME MempfixAssumption ==
  /\ IsFiniteSet(Mpf)
  /\ MpfCnt \in Nat \ {0}
  /\ NoMpf \notin Mpf
  /\ MpfAtr \subseteq BOOLEAN
  /\ MpfTmo \subseteq TMO
  /\ Disturbed \subseteq Task
  /\ InitTask \in Task
  /\ InitPri \in [Task -> Pri]
  /\ Lock = {MpfLock(m) : m \in Mpf}
  /\ WaitQueue = Lock \cup {MpfWait(m) : m \in Mpf}

VARIABLES
  call,        \* where each task is in the code of mempfix.c
  held         \* <<m, b>>: the application holds block b of pool m

mpfvars == <<vars, call, held>>

Block == 1 .. MpfCnt

idle == [op |-> "none", at |-> "none", m |-> NoMpf, tmout |-> "TMO_POL", blf |-> 0,
         tpri |-> FALSE]

\* mpfid is 0 until the pool is complete.
free_mpfcb == [mpfid |-> FALSE, tpri |-> FALSE, frbcnt |-> 0, unused |-> 1,
               freelist |-> <<>>]

mpfcb(m) == objcb.mpf[m]

Goto(at) == call' = [call EXCEPT ![ctxtsk].at = at]

\* Code of ctxtsk between two critical sections, at 'at' of call 'op'.
running(op, at) == in_task /\ call[ctxtsk].op = op /\ call[ctxtsk].at = at

mpf_chg_pri(k, t) ==
  LET m == k.tcb[t].wid[1] IN
  IF k.obj.mpf[m].tpri THEN gcb_change_priority(k, MpfWait(m), t) ELSE k

\* wspec_mpf_tfifo and wspec_mpf_tpri have no rel_wai_hook.
tk_chg_pri_mpf(t, priority) ==
  /\ tcb[t].state # "NONEXIST"
  /\ LET k == change_task_priority([Kernel EXCEPT !.tcb[t].bpriority = priority],
                                   t, priority)
     IN Becomes(IF is_waiting(tcb[t].state) THEN mpf_chg_pri(k, t) ELSE k)
  /\ UNCHANGED sysvars

-----------------------------------------------------------------------------
(* LockOBJ and UnlockOBJ within a call *)

\* One critical section of LockOBJ for the pool of call c.
LockStep(c) ==
  LET k == LockOBJ(Kernel, MpfLock(c.m)) IN
  /\ END_CRITICAL_SECTION(k)
  /\ call' = [call EXCEPT ![ctxtsk] =
                [c EXCEPT !.at = IF k.tcb[ctxtsk].klocked THEN "locked" ELSE "lock"]]

\* Slip: a task that runs again is taken to have got the lock.
LockRetry_trusting ==
  /\ in_task
  /\ call[ctxtsk].at = "lock"
  /\ Goto("locked")
  /\ UNCHANGED <<vars, held>>

\* goto retry
LockRetry ==
  /\ in_task
  /\ call[ctxtsk].at = "lock"
  /\ LockStep(call[ctxtsk])
  /\ UNCHANGED held

Unlock ==
  /\ in_task
  /\ call[ctxtsk].at = "unlock"
  /\ END_CRITICAL_SECTION(UnlockOBJ(Kernel, MpfLock(call[ctxtsk].m)))
  /\ call' = [call EXCEPT ![ctxtsk] = idle]
  /\ UNCHANGED held

-----------------------------------------------------------------------------
(* The calls: an entry, which runs into LockOBJ, and steps under the lock. *)

\* The application does not create a pool anew while it still returns blocks to
\* the old one.  The control block comes from the head of free_mpfcb.
tk_cre_mpf(tpri) ==
  /\ CHECK_DISPATCH
  /\ call[ctxtsk] = idle
  /\ objcb.free # <<>>
  /\ LET m == Head(objcb.free) IN
     /\ \A t \in Task : ~(call[t].op = "rel" /\ call[t].m = m)
     /\ call' = [call EXCEPT ![ctxtsk] =
                   [idle EXCEPT !.op = "cre", !.at = "lock", !.m = m, !.tpri = tpri]]
     /\ Becomes([Kernel EXCEPT !.obj.free = Tail(@)])
  /\ UNCHANGED <<sysvars, held>>

cre_locked ==
  /\ running("cre", "locked")
  /\ LET c == call[ctxtsk] IN
     Becomes([Kernel EXCEPT !.obj.mpf[c.m] =
                [mpfid |-> TRUE, tpri |-> c.tpri, frbcnt |-> MpfCnt, unused |-> 1,
                 freelist |-> <<>>]])
  /\ Goto("unlock")
  /\ UNCHANGED <<sysvars, held>>

tk_del_mpf(m) ==
  /\ CHECK_DISPATCH
  /\ call[ctxtsk] = idle
  /\ LockStep([idle EXCEPT !.op = "del", !.m = m])
  /\ UNCHANGED held

\* The critical section ends with ENABLE_INTERRUPT, which does not dispatch: the
\* task goes on to UnlockOBJ unless an interrupt comes first.
EnableThenUnlock(k) ==
  \/ Becomes(k) /\ UNCHANGED sysvars /\ Goto("unlock")
  \/ /\ END_CRITICAL_SECTION(UnlockOBJ(k, MpfLock(call[ctxtsk].m)))
     /\ call' = [call EXCEPT ![ctxtsk] = idle]

\* The blocks of the pool are gone with it.
del_locked ==
  /\ running("del", "locked")
  /\ LET m == call[ctxtsk].m IN
     IF ~mpfcb(m).mpfid THEN Goto("unlock") /\ UNCHANGED <<vars, held>>
     ELSE /\ EnableThenUnlock([wait_delete(Kernel, MpfWait(m))
                                 EXCEPT !.obj.mpf[m] = free_mpfcb,
                                        !.obj.free = Append(@, m)])
          /\ held' = {h \in held : h[1] # m}

tk_get_mpf(m, tmout) ==
  /\ CHECK_DISPATCH
  /\ call[ctxtsk] = idle
  /\ LockStep([idle EXCEPT !.op = "get", !.m = m, !.tmout = tmout])
  /\ UNCHANGED held

get_locked ==
  /\ running("get", "locked")
  /\ LET m == call[ctxtsk].m IN
     Goto(IF ~mpfcb(m).mpfid \/ is_diswai(Kernel, ctxtsk, {"MPF"}, FALSE) THEN "unlock"
          ELSE IF mpfcb(m).frbcnt <= 0 THEN "wait" ELSE "take")
  /\ UNCHANGED <<vars, held>>

get_take ==
  /\ running("get", "take")
  /\ LET m == call[ctxtsk].m
         c == mpfcb(m)
     IN IF c.freelist # <<>>
        THEN /\ Becomes([Kernel EXCEPT !.obj.mpf[m].freelist = Tail(@),
                                       !.obj.mpf[m].frbcnt = @ - 1])
             /\ held' = held \cup {<<m, Head(c.freelist)>>}
        ELSE /\ Becomes([Kernel EXCEPT !.obj.mpf[m].unused = @ + 1,
                                       !.obj.mpf[m].frbcnt = @ - 1])
             /\ held' = held \cup {<<m, c.unused>>}
  /\ Goto("unlock")
  /\ UNCHANGED sysvars

\* Slip: the lock is given back first.
get_wait_unlocked ==
  /\ running("get", "wait")
  /\ LET m == call[ctxtsk].m IN
     IF MpfLock(m) \in objcb.locked /\ tcb[ctxtsk].klocked
     THEN /\ END_CRITICAL_SECTION(UnlockOBJ(Kernel, MpfLock(m)))
          /\ UNCHANGED call
     ELSE /\ END_CRITICAL_SECTION(
               gcb_make_wait_with_diswai(Kernel, {"MPF"}, MpfWait(m),
                                         call[ctxtsk].tmout, mpfcb(m).tpri, FALSE))
          /\ call' = [call EXCEPT ![ctxtsk] = idle]
  /\ UNCHANGED held

\* UnlockOBJ inside the critical section that begins the wait.
get_wait ==
  /\ running("get", "wait")
  /\ LET m == call[ctxtsk].m IN
     END_CRITICAL_SECTION(
       UnlockOBJ(gcb_make_wait_with_diswai(Kernel, {"MPF"}, MpfWait(m),
                                           call[ctxtsk].tmout, mpfcb(m).tpri, FALSE),
                 MpfLock(m)))
  /\ call' = [call EXCEPT ![ctxtsk] = idle]
  /\ UNCHANGED held

tk_rel_mpf(m, b) ==
  /\ CHECK_DISPATCH
  /\ call[ctxtsk] = idle
  /\ <<m, b>> \in held
  /\ LockStep([idle EXCEPT !.op = "rel", !.m = m, !.blf = b])
  /\ held' = held \ {<<m, b>>}

\* Slip: the block goes to the waiting task and to the free list.
rel_locked_twice ==
  /\ running("rel", "locked")
  /\ LET m == call[ctxtsk].m
         q == wait_queue[MpfWait(m)]
     IN IF ~mpfcb(m).mpfid THEN Goto("unlock") /\ UNCHANGED <<vars, held>>
        ELSE /\ Goto("free")
             /\ IF q = <<>> THEN UNCHANGED <<vars, held>>
                ELSE /\ Becomes(wait_release_ok(Kernel, Head(q)))
                     /\ UNCHANGED sysvars
                     /\ held' = held \cup {<<m, call[ctxtsk].blf>>}

\* With interrupts disabled: the block goes to the first waiting task, if any.
rel_locked ==
  /\ running("rel", "locked")
  /\ LET m == call[ctxtsk].m
         q == wait_queue[MpfWait(m)]
     IN IF ~mpfcb(m).mpfid THEN Goto("unlock") /\ UNCHANGED <<vars, held>>
        ELSE IF q = <<>> THEN Goto("free") /\ UNCHANGED <<vars, held>>
        ELSE /\ EnableThenUnlock(wait_release_ok(Kernel, Head(q)))
             /\ held' = held \cup {<<m, call[ctxtsk].blf>>}

rel_free ==
  /\ running("rel", "free")
  /\ LET c == call[ctxtsk] IN
     Becomes([Kernel EXCEPT !.obj.mpf[c.m].freelist = <<c.blf>> \o @,
                            !.obj.mpf[c.m].frbcnt = @ + 1])
  /\ Goto("unlock")
  /\ UNCHANGED <<sysvars, held>>

-----------------------------------------------------------------------------
(* The calls of the task layer that interfere.  A task that is ended drops out *)
(* of its call; a block it was about to return stays with the application.     *)

keeps_block(t) ==
  IF call[t].op = "rel" /\ mpfcb(call[t].m).mpfid THEN {<<call[t].m, call[t].blf>>}
  ELSE {}

ter_tsk(t) ==
  /\ in_task
  /\ call[ctxtsk] = idle
  /\ tk_ter_tsk(t, _ter_tsk(Kernel, t))
  /\ call' = [call EXCEPT ![t] = idle]
  /\ held' = held \cup keeps_block(t)

MpfInit ==
  /\ t_kernel_main(InitTask, Task, <<>>, InitPri,
                   [locked |-> {}, free |-> SetToSeq(Mpf),
                    mpf |-> [m \in Mpf |-> free_mpfcb]])
  /\ call = [t \in Task |-> idle]
  /\ held = {}

MpfCalls ==
  \/ \E tpri \in MpfAtr : tk_cre_mpf(tpri)
  \/ \E m \in Mpf : \/ tk_del_mpf(m)
                    \/ \E tmout \in MpfTmo : tk_get_mpf(m, tmout)
                    \/ \E b \in Block : tk_rel_mpf(m, b)

MpfSteps ==
  \/ LockRetry \/ Unlock
  \/ cre_locked \/ del_locked
  \/ get_locked \/ get_take \/ get_wait
  \/ rel_locked \/ rel_free

MpfTaskCalls ==
  \/ \E t \in Task : ter_tsk(t)
  \/ /\ \/ \E t \in Task : \/ tk_sta_tsk(t)
                           \/ tk_rel_wai(t, wait_release(Kernel, t))
        \/ \E t \in Disturbed : \/ tk_sus_tsk(t) \/ tk_rsm_tsk(t)
                                \/ \E p \in Pri : tk_chg_pri_mpf(t, p)
        \/ in_task /\ call[ctxtsk] = idle /\ tk_ext_tsk(_ter_tsk(Kernel, ctxtsk))
        \/ dispatch_entry \/ dispatch_save \/ dispatch_to
        \/ timer_handler_begin \/ timer_handler_end
        \/ \E t \in Task : timer_handler_event(t, wait_release(Kernel, t))
     /\ UNCHANGED <<call, held>>

MpfNext == MpfCalls \/ MpfSteps \/ MpfTaskCalls

MpfSpec == MpfInit /\ [][MpfNext]_mpfvars

-----------------------------------------------------------------------------

\* A task under the lock of pool m.
Inside(t, m) == call[t].m = m /\ call[t].at \notin {"none", "lock"}

\* The kernel lock of a pool is taken exactly while one task has klocked for it;
\* only that task is in the code the lock protects, and tasks queue for the lock
\* only while it is taken.  UnlockOBJ hands the lock over without freeing it, and
\* LockOBJ may wake up without it.  With a single pool klocktsk is the holder while it
\* is READY, after every suspension, resumption and change of its priority.
LockExclusive ==
  \A m \in Mpf :
    LET holders == {t \in Task : tcb[t].klocked /\ call[t].m = m} IN
    /\ Cardinality(holders) = IF MpfLock(m) \in objcb.locked THEN 1 ELSE 0
    /\ \A t \in Task : Inside(t, m) => t \in holders
    /\ wait_queue[MpfLock(m)] # <<>> => holders # {}
    /\ Mpf = {m} => \A t \in Task :
         ready_queue.klocktsk = t <=> t \in holders /\ tcb[t].state = "READY"

\* klock.c keeps READY tasks outside the ready queue: every task is linked once,
\* in the queue its state, klockwait and wid say.
LinkedOnce ==
  \A t \in Task :
    LET s == tcb[t] IN
    /\ s.klockwait => s.state = "READY" /\ ~s.klocked
    /\ \A p \in Pri : Cardinality({i \in DOMAIN ready_queue.tskque[p] :
                                     ready_queue.tskque[p][i] = t})
                      = IF s.state = "READY" /\ ~s.klockwait /\ s.priority = p THEN 1 ELSE 0
    /\ \A w \in WaitQueue :
         Cardinality({i \in DOMAIN wait_queue[w] : wait_queue[w][i] = t})
         = IF \/ w \in Lock /\ s.klockwait /\ MpfLock(call[t].m) = w
              \/ is_waiting(s.state) /\ s.wid = w THEN 1 ELSE 0

\* The blocks of a pool are on its free list, never used yet, held by the
\* application or on their way back, each in one place; frbcnt counts those that
\* are free.
BlocksConserved ==
  \A m \in Mpf : mpfcb(m).mpfid =>
    LET c       == mpfcb(m)
        fresh   == c.unused .. MpfCnt
        out     == {b \in Block : <<m, b>> \in held}
        return  == {t \in Task : call[t].op = "rel" /\ call[t].m = m
                                 /\ call[t].at # "unlock"}
        back    == {call[t].blf : t \in return}
    IN /\ fresh \cup ToSet(c.freelist) \cup out \cup back = Block
       /\ Cardinality(fresh) + Len(c.freelist) + Cardinality(out) + Cardinality(return)
          = MpfCnt
       /\ c.frbcnt = Cardinality(fresh) + Len(c.freelist)

\* Calls of mempfix.c spread over several critical sections implement the calls of
\* TKPool, each at one moment: the lock and the places where interrupts are disabled
\* suffice.
Pool == INSTANCE TKPool WITH
  exists <- {m \in Mpf : mpfcb(m).mpfid},
  tpri   <- {m \in Mpf : mpfcb(m).mpfid /\ mpfcb(m).tpri},
  out    <- [m \in Mpf |->
               IF mpfcb(m).mpfid
               THEN Block \ (mpfcb(m).unused .. MpfCnt \cup ToSet(mpfcb(m).freelist))
               ELSE {}],
  queue  <- [m \in Mpf |-> wait_queue[MpfWait(m)]]

PoolPromise == Pool!Spec

=============================================================================
