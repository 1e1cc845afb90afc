--------------------------- MODULE TKMempfixProofs ---------------------------
(***************************************************************************)
(* Proofs about mempfix.c and the kernel lock its calls run under.  MInv   *)
(* is what holds of the lock and of the tasks, BlockInv what holds of the  *)
(* blocks of the pools, and WaitInv what a task in a call has found that   *)
(* is still so: with the three, each step is a call of TKPool or none.     *)
(***************************************************************************)
EXTENDS TKMempfixLemmas

-----------------------------------------------------------------------------
(* The invariant of the locks.                                              *)

MInv == /\ KernelLocks(Kernel, call)
        /\ dispatch_disabled \in {DDS_ENABLE, DDS_DISABLE_IMPLICIT}

\* What the variables say of the kernel state.
LEMMA Fields ==
  /\ Kernel.tcb = tcb /\ Kernel.rq = ready_queue /\ Kernel.wq = wait_queue
  /\ Kernel.schedtsk = schedtsk /\ Kernel.ctxtsk = ctxtsk /\ Kernel.obj = objcb
BY DEF Kernel

\* The parts of the invariant.
LEMMA Parts ==
  ASSUME MInv
  PROVE  /\ KernelLocks(Kernel, call) /\ Links(Kernel, LockOf(call), {}) /\ Locks(Kernel, call)
         /\ IsKernel(Kernel) /\ call \in [Task -> CallType] /\ objcb \in ObjType
         /\ \A u \in Task : TaskLocks(call[u], tcb[u], objcb.locked)
BY Fields DEF MInv, KernelLocks, Links, Locks

\* A task that runs code is schedtsk, and READY.
LEMMA OnCpu ==
  ASSUME MInv, in_task
  PROVE  /\ ctxtsk \in Task /\ Runnable(tcb[ctxtsk]) /\ ctxtsk = schedtsk
         /\ Kernel.ctxtsk = ctxtsk /\ Kernel.tcb = tcb /\ Kernel.obj = objcb
<1>1. ctxtsk # NoTask /\ ctxtsk = schedtsk
  BY DEF MInv, in_task, DDS_ENABLE, DDS_DISABLE_IMPLICIT, DDS_DISABLE
<1>2. Schedulable(Kernel, {}, schedtsk)
  BY Parts, Fields DEF Links
<1>. QED
  BY <1>1, <1>2, Fields DEF Schedulable

\* A critical section that ends with the kernel in state k.
LEMMA Next ==
  ASSUME NEW k, KernelLocks(k, call'), Becomes(k),
         dispatch_disabled' \in {DDS_ENABLE, DDS_DISABLE_IMPLICIT}
  PROVE  MInv' /\ objcb' = k.obj
<1>1. IsKernel(k)
  BY DEF KernelLocks, Links
<1>2. Kernel' = k
  BY <1>1, NextKernel
<1>3. objcb' = k.obj
  BY DEF Becomes
<1>. QED
  BY <1>2, <1>3 DEF MInv

\* END_CRITICAL_SECTION enters the dispatcher or goes on.
LEMMA EndSection ==
  ASSUME MInv, NEW k, KernelLocks(k, call'), END_CRITICAL_SECTION(k)
  PROVE  MInv' /\ objcb' = k.obj
<1>1. Becomes(k) /\ dispatch_disabled' \in {DDS_ENABLE, DDS_DISABLE_IMPLICIT}
  BY DEF END_CRITICAL_SECTION, MInv
<1>. QED
  BY <1>1, Next

-----------------------------------------------------------------------------
(* The steps of the calls: each keeps the invariant, and what it does to     *)
(* the pools.                                                                *)

SamePools == objcb'.free = objcb.free /\ objcb'.mpf = objcb.mpf

\* The task that runs is in no call.
LEMMA NotCalling ==
  ASSUME MInv, in_task, call[ctxtsk] = idle
  PROVE  ~tcb[ctxtsk].klocked
BY OnCpu, Parts DEF TaskLocks

\* The task that runs code under the lock has it.
LEMMA Holding ==
  ASSUME MInv, in_task, Under(call[ctxtsk])
  PROVE  /\ ctxtsk \in Task /\ tcb[ctxtsk].klocked /\ call[ctxtsk].m \in Mpf
         /\ Runnable(tcb[ctxtsk]) /\ call[ctxtsk] \in CallType
         /\ KernelLocks(Kernel, call) /\ Kernel.ctxtsk = ctxtsk /\ Kernel.tcb = tcb
<1>1. ctxtsk \in Task /\ Runnable(tcb[ctxtsk])
  BY OnCpu
<1>2. TaskLocks(call[ctxtsk], tcb[ctxtsk], objcb.locked) /\ call[ctxtsk] \in CallType
  BY <1>1, Parts
<1>. QED
  BY <1>1, <1>2, Parts, Fields DEF TaskLocks

\* One critical section of LockOBJ.
LEMMA LockingStep ==
  ASSUME MInv, in_task, NEW c \in CallType, c.m \in Mpf,
         call[ctxtsk] = idle \/ (call[ctxtsk].at = "lock" /\ call[ctxtsk].m = c.m),
         LockStep(c)
  PROVE  /\ MInv' /\ SamePools
         /\ \E b \in BOOLEAN : call' = [call EXCEPT ![ctxtsk] = AtLock(c, b)]
<1>1. PICK t \in Task : t = ctxtsk /\ Runnable(Kernel.tcb[t]) /\ Kernel.ctxtsk = t
  BY OnCpu
<1>2. PICK k2 : k2 = LockOBJ(Kernel, MpfLock(c.m))
  OBVIOUS
<1>3. PICK cl2 : cl2 = [call EXCEPT ![t] = AtLock(c, k2.tcb[t].klocked)]
  OBVIOUS
<1>4. KernelLocks(Kernel, call)
  BY Parts
<1>5. call[t] = idle \/ (call[t].at = "lock" /\ call[t].m = c.m)
  BY <1>1
<1>6. /\ KernelLocks(k2, cl2) /\ k2.obj.free = Kernel.obj.free /\ k2.obj.mpf = Kernel.obj.mpf
      /\ k2.ctxtsk = t
  <2>1. PICK k, cl : k = Kernel /\ cl = call
    OBVIOUS
  <2>2. KernelLocks(k, cl) /\ k.ctxtsk = t /\ Runnable(k.tcb[t])
    BY <1>1, <1>4, <2>1
  <2>3. k2 = LockOBJ(k, MpfLock(c.m)) /\ Moves(cl, cl2, t, AtLock(c, k2.tcb[t].klocked))
    BY <1>2, <1>3, <2>1 DEF Moves
  <2>5. cl[t] = idle \/ (cl[t].at = "lock" /\ cl[t].m = c.m)
    BY <1>5, <2>1
  <2>4. /\ KernelLocks(k2, cl2) /\ k2.obj.free = k.obj.free /\ k2.obj.mpf = k.obj.mpf
        /\ k2.ctxtsk = t
    BY <2>2, <2>3, <2>5, LockLocks
  <2>. QED
    BY <2>1, <2>4
<1>7. END_CRITICAL_SECTION(k2) /\ call' = cl2
  BY <1>1, <1>2, <1>3 DEF LockStep, AtLock, At
<1>8. MInv' /\ objcb' = k2.obj
  BY <1>6, <1>7, EndSection
<1>9. k2.tcb[t].klocked \in BOOLEAN
  <2>1. k2.tcb[t] \in TCBType
    BY <1>1, <1>6 DEF KernelLocks, Links, IsKernel
  <2>. QED
    BY <2>1 DEF TCBType
<1>. QED
  BY <1>1, <1>3, <1>6, <1>7, <1>8, <1>9, Fields DEF SamePools

\* goto retry
LEMMA LockRetryStep ==
  ASSUME MInv, LockRetry
  PROVE  /\ MInv' /\ SamePools
         /\ \E b \in BOOLEAN : call' = [call EXCEPT ![ctxtsk] = AtLock(@, b)]
<1>1. in_task /\ call[ctxtsk].at = "lock" /\ LockStep(call[ctxtsk])
  BY DEF LockRetry
<1>2. ctxtsk \in Task /\ call[ctxtsk] \in CallType
      /\ TaskLocks(call[ctxtsk], tcb[ctxtsk], objcb.locked)
  BY <1>1, OnCpu, Parts
<1>3. call[ctxtsk].m \in Mpf
  BY <1>1, <1>2 DEF TaskLocks
<1>4. PICK c \in CallType : c = call[ctxtsk]
  BY <1>2
<1>5. /\ MInv' /\ SamePools
      /\ \E b \in BOOLEAN : call' = [call EXCEPT ![ctxtsk] = AtLock(c, b)]
  <2>1. c.m \in Mpf /\ LockStep(c)
        /\ (call[ctxtsk] = idle \/ (call[ctxtsk].at = "lock" /\ call[ctxtsk].m = c.m))
    BY <1>1, <1>3, <1>4
  <2>. QED
    BY <1>1, <2>1, LockingStep
<1>. QED
  BY <1>2, <1>4, <1>5

\* A step under the lock that changes only the objects.
LEMMA ObjectStep ==
  ASSUME MInv, in_task, Under(call[ctxtsk]),
         NEW a \in {"locked", "take", "wait", "free", "unlock"}, Goto(a),
         NEW o \in ObjType, o.locked = objcb.locked,
         Becomes([Kernel EXCEPT !.obj = o]), UNCHANGED sysvars
  PROVE  MInv' /\ objcb' = o
<1>1. /\ ctxtsk \in Task /\ tcb[ctxtsk].klocked
      /\ KernelLocks(Kernel, call) /\ Kernel.ctxtsk = ctxtsk /\ Kernel.tcb = tcb
  BY Holding
<1>2. PICK t \in Task : t = ctxtsk /\ Kernel.tcb[t].klocked
  BY <1>1
<1>3. PICK k2 : k2 = [Kernel EXCEPT !.obj = o]
  OBVIOUS
<1>4. PICK cl2 : cl2 = [call EXCEPT ![t].at = a]
  OBVIOUS
<1>5. o.locked = Kernel.obj.locked
  BY Fields
<1>6. KernelLocks(k2, cl2)
  <2>1. PICK k, cl : k = Kernel /\ cl = call
    OBVIOUS
  <2>2. KernelLocks(k, cl) /\ k.tcb[t].klocked /\ o.locked = k.obj.locked
    BY <1>1, <1>2, <1>5, <2>1
  <2>3. Remade(k, k2, o) /\ Moves(cl, cl2, t, At(cl[t], a))
    <3>1. call \in [Task -> CallType]
      BY Parts
    <3>. QED
      BY <1>3, <1>4, <2>1, <3>1 DEF Remade, Moves, At
  <2>. QED
    BY <2>2, <2>3, WithinLocks
<1>7. call' = cl2 /\ Becomes(k2)
  BY <1>2, <1>3, <1>4 DEF Goto
<1>8. dispatch_disabled' \in {DDS_ENABLE, DDS_DISABLE_IMPLICIT}
  BY DEF MInv, sysvars
<1>9. MInv' /\ objcb' = k2.obj
  BY <1>6, <1>7, <1>8, Next
<1>. QED
  BY <1>3, <1>9, Fields

\* A step under the lock that changes no state of the kernel.
LEMMA PlainStep ==
  ASSUME MInv, in_task, Under(call[ctxtsk]),
         NEW a \in {"locked", "take", "wait", "free", "unlock"}, Goto(a), UNCHANGED vars
  PROVE  MInv' /\ SamePools
<1>1. objcb \in ObjType /\ Kernel = [Kernel EXCEPT !.obj = objcb]
  BY Parts DEF Kernel
<1>2. Becomes([Kernel EXCEPT !.obj = objcb]) /\ UNCHANGED sysvars
  BY DEF Becomes, Kernel, vars, kernvars
<1>3. MInv' /\ objcb' = objcb
  BY <1>1, <1>2, ObjectStep
<1>. QED
  BY <1>3 DEF SamePools

\* UnlockOBJ ends the call in the kernel state k of the holder.
LEMMA UnlockingStep ==
  ASSUME MInv, ctxtsk \in Task, NEW k, KernelLocks(k, call), k.ctxtsk = ctxtsk,
         k.tcb[ctxtsk].klocked,
         END_CRITICAL_SECTION(UnlockOBJ(k, MpfLock(call[ctxtsk].m))),
         call' = [call EXCEPT ![ctxtsk] = idle]
  PROVE  MInv' /\ objcb'.free = k.obj.free /\ objcb'.mpf = k.obj.mpf
<1>1. PICK t, cl : t \in Task /\ t = ctxtsk /\ cl = call
  OBVIOUS
<1>2. PICK k2 : k2 = UnlockOBJ(k, MpfLock(cl[t].m))
  OBVIOUS
<1>3. PICK cl2 : cl2 = [call EXCEPT ![ctxtsk] = idle]
  OBVIOUS
<1>4. KernelLocks(k, cl) /\ k.ctxtsk = t /\ k.tcb[t].klocked /\ Moves(cl, cl2, t, idle)
  BY <1>1, <1>3 DEF Moves
<1>5. /\ KernelLocks(k2, cl2) /\ k2.obj.free = k.obj.free /\ k2.obj.mpf = k.obj.mpf
      /\ k2.ctxtsk = t
  BY <1>2, <1>4, UnlockLocks
<1>6. END_CRITICAL_SECTION(k2) /\ call' = cl2
  BY <1>1, <1>2, <1>3
<1>7. MInv' /\ objcb' = k2.obj
  BY <1>5, <1>6, EndSection
<1>. QED
  BY <1>5, <1>7

\* ENABLE_INTERRUPT does not dispatch; the call goes on, or ends at once.
LEMMA EnableStep ==
  ASSUME MInv, in_task, Under(call[ctxtsk]), NEW k, KernelLocks(k, call),
         k.ctxtsk = ctxtsk, k.tcb[ctxtsk].klocked, EnableThenUnlock(k)
  PROVE  /\ MInv' /\ objcb'.free = k.obj.free /\ objcb'.mpf = k.obj.mpf
         /\ \/ call' = [call EXCEPT ![ctxtsk] = At(@, "unlock")]
            \/ call' = [call EXCEPT ![ctxtsk] = idle]
<1>1. ctxtsk \in Task
  BY OnCpu
<1>2. CASE Becomes(k) /\ UNCHANGED sysvars /\ Goto("unlock")
  <2>1. PICK t, cl : t \in Task /\ t = ctxtsk /\ cl = call
    BY <1>1
  <2>2. PICK cl2 : cl2 = [call EXCEPT ![ctxtsk].at = "unlock"]
    OBVIOUS
  <2>3. PICK o : o = k.obj
    OBVIOUS
  <2>4. call \in [Task -> CallType] /\ IsKernel(k) /\ k.obj \in ObjType
    BY Parts DEF KernelLocks, Links, Locks
  <2>5. KernelLocks(k, cl) /\ k.tcb[t].klocked /\ o \in ObjType /\ o.locked = k.obj.locked
    BY <2>1, <2>3, <2>4
  <2>6. Moves(cl, cl2, t, At(cl[t], "unlock"))
    BY <2>1, <2>2, <2>4 DEF Moves, At
  <2>7. Remade(k, k, o)
    BY <2>3, <2>4 DEF Remade, IsKernel
  <2>8. KernelLocks(k, cl2)
    BY <2>1, <2>5, <2>6, <2>7, WithinLocks
  <2>9. call' = cl2 /\ dispatch_disabled' \in {DDS_ENABLE, DDS_DISABLE_IMPLICIT}
    BY <1>2, <2>2 DEF Goto, MInv, sysvars
  <2>10. MInv' /\ objcb' = k.obj
    BY <1>2, <2>8, <2>9, Next
  <2>. QED
    BY <2>1, <2>6, <2>9, <2>10 DEF Moves
<1>3. CASE /\ END_CRITICAL_SECTION(UnlockOBJ(k, MpfLock(call[ctxtsk].m)))
           /\ call' = [call EXCEPT ![ctxtsk] = idle]
  BY <1>1, <1>3, UnlockingStep
<1>. QED
  BY <1>2, <1>3 DEF EnableThenUnlock

\* The objects may change where no task moves.
LEMMA RemadeLocks ==
  ASSUME NEW k, NEW cl, KernelLocks(k, cl), NEW o \in ObjType, o.locked = k.obj.locked,
         NEW k2, Remade(k, k2, o)
  PROVE  KernelLocks(k2, cl) /\ k2.obj = o /\ k2.tcb = k.tcb /\ k2.ctxtsk = k.ctxtsk
<1>1. PICK M : M = LockOf(cl)
  OBVIOUS
<1>2. Links(k, M, {})
  BY <1>1 DEF KernelLocks
<1>3. /\ Links(k2, M, {}) /\ k2.obj = o
      /\ k2.tcb = k.tcb /\ k2.ctxtsk = k.ctxtsk /\ k2.schedtsk = k.schedtsk
      /\ k2.rq = k.rq /\ k2.wq = k.wq
  BY <1>2, SetObjectsLinked DEF Remade
<1>4. Locks(k2, cl)
  BY <1>3 DEF KernelLocks, Locks, OneHolder, Taken
<1>. QED
  BY <1>1, <1>3, <1>4 DEF KernelLocks

\* The tasks in the queue of a pool wait for it.
LEMMA PoolWaiters ==
  ASSUME MInv, NEW m \in Mpf
  PROVE  /\ Kernel.wq[MpfWait(m)] = wait_queue[MpfWait(m)]
         /\ wait_queue[MpfWait(m)] \in Seq(Task)
         /\ \A u \in ToSet(wait_queue[MpfWait(m)]) : u \in Task /\ is_waiting(tcb[u].state)
<1>1. MpfWait(m) \in WaitQueue /\ Links(Kernel, LockOf(call), {})
      /\ Kernel.wq = wait_queue /\ Kernel.tcb = tcb
  BY LockNames, Parts, Fields
<1>2. /\ wait_queue[MpfWait(m)] \in Queue
      /\ ToSet(wait_queue[MpfWait(m)]) =
           {u \in Task \ {} : InWait(tcb[u], LockOf(call)[u], MpfWait(m))}
  BY <1>1 DEF Links, WaitLinks
<1>3. \A u \in Task : LockOf(call)[u] # MpfWait(m)
  BY DEF LockOf, MpfLock, MpfWait
<1>. QED
  BY <1>1, <1>2, <1>3 DEF InWait, Queue

\* The end of a call.
LEMMA UnlockStep ==
  ASSUME MInv, Unlock
  PROVE  MInv' /\ SamePools
<1>1. in_task /\ call[ctxtsk].at = "unlock"
  BY DEF Unlock
<1>2. /\ ctxtsk \in Task /\ tcb[ctxtsk].klocked
      /\ KernelLocks(Kernel, call) /\ Kernel.ctxtsk = ctxtsk /\ Kernel.tcb = tcb
  BY <1>1, Holding DEF Under
<1>3. PICK k : k = Kernel
  OBVIOUS
<1>4. /\ KernelLocks(k, call) /\ k.ctxtsk = ctxtsk /\ k.tcb[ctxtsk].klocked
      /\ END_CRITICAL_SECTION(UnlockOBJ(k, MpfLock(call[ctxtsk].m)))
      /\ call' = [call EXCEPT ![ctxtsk] = idle]
  BY <1>2, <1>3 DEF Unlock
<1>5. MInv' /\ objcb'.free = k.obj.free /\ objcb'.mpf = k.obj.mpf
  BY <1>2, <1>4, UnlockingStep
<1>. QED
  BY <1>3, <1>5, Fields DEF SamePools

\* tk_cre_mpf takes the first free control block.
LEMMA CreateStep ==
  ASSUME MInv, NEW tpri \in BOOLEAN, tk_cre_mpf(tpri)
  PROVE  /\ MInv' /\ objcb'.free = Tail(objcb.free) /\ objcb'.mpf = objcb.mpf
         /\ ctxtsk \in Task /\ objcb.free # <<>> /\ Head(objcb.free) \in Mpf
<1>1. /\ in_task /\ call[ctxtsk] = idle /\ objcb.free # <<>>
      /\ UNCHANGED sysvars
  BY DEF tk_cre_mpf, CHECK_DISPATCH
<1>2. /\ ctxtsk \in Task /\ Runnable(tcb[ctxtsk]) /\ Kernel.tcb = tcb /\ Kernel.obj = objcb
      /\ KernelLocks(Kernel, call) /\ objcb \in ObjType
  BY <1>1, OnCpu, Parts
<1>3. PICK o : o = [objcb EXCEPT !.free = Tail(@)]
  OBVIOUS
<1>4. /\ o \in ObjType /\ o.locked = objcb.locked /\ o.free = Tail(objcb.free)
      /\ o.mpf = objcb.mpf /\ Head(objcb.free) \in Mpf
  <2>1. objcb.free \in Seq(Mpf) /\ objcb.free # <<>>
    BY <1>1, <1>2 DEF ObjType
  <2>2. Head(objcb.free) \in Mpf /\ Tail(objcb.free) \in Seq(Mpf)
    BY <2>1
  <2>. QED
    BY <1>2, <1>3, <2>2 DEF ObjType
<1>5. PICK m \in Mpf : m = Head(objcb.free)
  BY <1>4
<1>6. PICK d : d = [idle EXCEPT !.op = "cre", !.at = "lock", !.m = m, !.tpri = tpri]
  OBVIOUS
<1>7. d \in CallType /\ d.at = "lock" /\ d.m \in Mpf
  BY <1>6, LockNames DEF CallType
<1>8. PICK k : k = Kernel
  OBVIOUS
<1>9. PICK k2 : Remade(k, k2, o)
  BY DEF Remade
<1>10. Becomes(k2) /\ call' = [call EXCEPT ![ctxtsk] = d]
  BY <1>2, <1>3, <1>5, <1>6, <1>8, <1>9 DEF tk_cre_mpf, Remade, Kernel
<1>11. KernelLocks(k2, call) /\ k2.obj = o /\ k2.tcb = k.tcb /\ k2.ctxtsk = k.ctxtsk
  <2>1. KernelLocks(k, call) /\ o.locked = k.obj.locked
    BY <1>2, <1>4, <1>8
  <2>. QED
    BY <1>4, <1>9, <2>1, RemadeLocks
<1>12. PICK cl, cl2, t : cl = call /\ cl2 = call' /\ t = ctxtsk
  OBVIOUS
<1>13. KernelLocks(k2, cl2)
  <2>1. /\ KernelLocks(k, cl) /\ t \in Task /\ Runnable(k.tcb[t]) /\ cl[t] = idle
        /\ Moves(cl, cl2, t, d)
    BY <1>1, <1>2, <1>8, <1>10, <1>12 DEF Moves
  <2>2. /\ Links(k2, LockOf(cl), {}) /\ k2.obj \in ObjType
        /\ k2.obj.locked = k.obj.locked /\ k2.tcb = k.tcb
    BY <1>2, <1>4, <1>8, <1>11, <1>12 DEF KernelLocks
  <2>. QED
    BY <1>7, <2>1, <2>2, EnterLocks
<1>14. dispatch_disabled' \in {DDS_ENABLE, DDS_DISABLE_IMPLICIT}
  BY <1>1 DEF MInv, sysvars
<1>15. MInv' /\ objcb' = k2.obj
  BY <1>10, <1>12, <1>13, <1>14, Next
<1>. QED
  BY <1>1, <1>2, <1>4, <1>11, <1>15

\* The control block is filled in, and the pool exists.
LEMMA CreatedStep ==
  ASSUME MInv, cre_locked
  PROVE  /\ MInv' /\ objcb'.free = objcb.free
         /\ ctxtsk \in Task /\ call[ctxtsk].m \in Mpf
         /\ objcb'.mpf = [objcb.mpf EXCEPT ![call[ctxtsk].m] =
                            [mpfid |-> TRUE, tpri |-> call[ctxtsk].tpri, frbcnt |-> MpfCnt,
                             unused |-> 1, freelist |-> <<>>]]
<1>1. in_task /\ call[ctxtsk].at = "locked" /\ UNCHANGED sysvars /\ Goto("unlock")
  BY DEF cre_locked, running
<1>2. /\ ctxtsk \in Task /\ call[ctxtsk] \in CallType /\ call[ctxtsk].m \in Mpf
      /\ objcb \in ObjType
  BY <1>1, Holding, Parts DEF Under
<1>3. PICK r : r = [mpfid |-> TRUE, tpri |-> call[ctxtsk].tpri, frbcnt |-> MpfCnt,
                    unused |-> 1, freelist |-> <<>>]
  OBVIOUS
<1>4. PICK o : o = [objcb EXCEPT !.mpf[call[ctxtsk].m] = r]
  OBVIOUS
<1>5. r \in MPFCBType
  BY <1>2, <1>3, MempfixAssumption DEF MPFCBType, CallType
<1>6. /\ o \in ObjType /\ o.locked = objcb.locked /\ o.free = objcb.free
      /\ o.mpf = [objcb.mpf EXCEPT ![call[ctxtsk].m] = r]
  BY <1>2, <1>4, <1>5 DEF ObjType
<1>7. Becomes([Kernel EXCEPT !.obj = o])
  BY <1>3, <1>4 DEF cre_locked, Kernel
<1>8. MInv' /\ objcb' = o
  BY <1>1, <1>6, <1>7, ObjectStep DEF Under
<1>. QED
  BY <1>2, <1>3, <1>6, <1>8

\* The deletion of a pool: its waiting tasks are let go.
LEMMA DeletedStep ==
  ASSUME MInv, del_locked
  PROVE  /\ MInv' /\ ctxtsk \in Task /\ call[ctxtsk].m \in Mpf
         /\ ~objcb.mpf[call[ctxtsk].m].mpfid => SamePools
         /\ objcb.mpf[call[ctxtsk].m].mpfid =>
              /\ objcb'.free = Append(objcb.free, call[ctxtsk].m)
              /\ objcb'.mpf = [objcb.mpf EXCEPT ![call[ctxtsk].m] = free_mpfcb]
              /\ \/ call' = [call EXCEPT ![ctxtsk] = At(@, "unlock")]
                 \/ call' = [call EXCEPT ![ctxtsk] = idle]
<1>1. in_task /\ call[ctxtsk].at = "locked"
  BY DEF del_locked, running
<1>2. PICK m : m = call[ctxtsk].m
  OBVIOUS
<1>3. /\ ctxtsk \in Task /\ m \in Mpf /\ objcb \in ObjType /\ tcb[ctxtsk].klocked
      /\ KernelLocks(Kernel, call) /\ Kernel.ctxtsk = ctxtsk /\ Kernel.tcb = tcb
      /\ Kernel.obj = objcb
  BY <1>1, <1>2, Holding, Parts, Fields DEF Under
<1>4. CASE ~objcb.mpf[m].mpfid
  <2>1. Goto("unlock") /\ UNCHANGED vars
    BY <1>2, <1>4 DEF del_locked, mpfcb
  <2>2. MInv' /\ SamePools
    BY <1>1, <2>1, PlainStep DEF Under
  <2>. QED
    BY <1>2, <1>3, <1>4, <2>2
<1>5. CASE objcb.mpf[m].mpfid
  <2>1. PICK k, L : k = Kernel /\ L = LockOf(call)
    OBVIOUS
  <2>2. PICK k1 : k1 = wait_delete(k, MpfWait(m))
    OBVIOUS
  <2>3. Links(k, L, {}) /\ MpfWait(m) \in WaitQueue
        /\ \A u \in ToSet(k.wq[MpfWait(m)]) : is_waiting(k.tcb[u].state)
    BY <1>3, <2>1, Parts, PoolWaiters, LockNames
  <2>4. Links(k1, L, {}) /\ Calm(k, k1)
    BY <2>2, <2>3, DeleteWaits
  <2>5. KernelLocks(k1, call) /\ k1.ctxtsk = ctxtsk /\ k1.tcb[ctxtsk].klocked
        /\ k1.obj = objcb
    <3>1. Locks(k1, call)
      BY <1>3, <2>1, <2>4, CalmLocks DEF KernelLocks
    <3>. QED
      BY <1>3, <2>1, <2>4, <3>1 DEF KernelLocks, Calm
  <2>6. PICK o : o = [objcb EXCEPT !.mpf[m] = free_mpfcb, !.free = Append(@, m)]
    OBVIOUS
  <2>7. /\ o \in ObjType /\ o.locked = objcb.locked /\ o.free = Append(objcb.free, m)
        /\ o.mpf = [objcb.mpf EXCEPT ![m] = free_mpfcb]
    <3>1. free_mpfcb \in MPFCBType
      BY DEF free_mpfcb, MPFCBType
    <3>2. Append(objcb.free, m) \in Seq(Mpf)
      BY <1>3 DEF ObjType
    <3>. QED
      BY <1>3, <2>6, <3>1, <3>2 DEF ObjType
  <2>8. PICK k2 : Remade(k1, k2, o)
    BY DEF Remade
  <2>9. KernelLocks(k2, call) /\ k2.obj = o /\ k2.tcb = k1.tcb /\ k2.ctxtsk = k1.ctxtsk
    <3>1. o.locked = k1.obj.locked
      BY <2>5, <2>7
    <3>. QED
      BY <2>5, <2>7, <2>8, <3>1, RemadeLocks
  <2>10. EnableThenUnlock(k2)
    <3>1. EnableThenUnlock([wait_delete(Kernel, MpfWait(m))
                              EXCEPT !.obj.mpf[m] = free_mpfcb, !.obj.free = Append(@, m)])
      BY <1>2, <1>5 DEF del_locked, mpfcb
    <3>2. EnableThenUnlock([k1 EXCEPT !.obj.mpf[m] = free_mpfcb, !.obj.free = Append(@, m)])
      BY <2>1, <2>2, <3>1
    <3>3. IsKernel(k1)
      BY <2>4 DEF Links
    <3>4. [k1 EXCEPT !.obj.mpf[m] = free_mpfcb, !.obj.free = Append(@, m)] = k2
      BY <2>5, <2>6, <2>8, <3>3 DEF Remade, IsKernel
    <3>. QED
      BY <3>2, <3>4
  <2>11. k2.ctxtsk = ctxtsk /\ k2.tcb[ctxtsk].klocked
    BY <2>5, <2>9
  <2>12. /\ MInv' /\ objcb'.free = k2.obj.free /\ objcb'.mpf = k2.obj.mpf
         /\ \/ call' = [call EXCEPT ![ctxtsk] = At(@, "unlock")]
            \/ call' = [call EXCEPT ![ctxtsk] = idle]
    BY <1>1, <2>9, <2>10, <2>11, EnableStep DEF Under
  <2>. QED
    BY <1>2, <1>3, <1>5, <2>7, <2>9, <2>12
<1>. QED
  BY <1>4, <1>5

\* tk_get_mpf looks for a block.
LEMMA GetStep ==
  ASSUME MInv, get_locked
  PROVE  MInv' /\ SamePools
<1>1. in_task /\ call[ctxtsk].at = "locked" /\ UNCHANGED vars
  BY DEF get_locked, running
<1>2. PICK a \in {"locked", "take", "wait", "free", "unlock"} : Goto(a)
  BY DEF get_locked
<1>. QED
  BY <1>1, <1>2, PlainStep DEF Under

\* The control block c after a block has been taken, and after b has come back.
TakeBlock(c) == IF c.freelist # <<>>
                THEN [c EXCEPT !.freelist = Tail(@), !.frbcnt = @ - 1]
                ELSE [c EXCEPT !.unused = @ + 1, !.frbcnt = @ - 1]

GiveBlock(c, b) == [c EXCEPT !.freelist = <<b>> \o @, !.frbcnt = @ + 1]

\* They are control blocks.
LEMMA BlockTypes ==
  ASSUME NEW c \in MPFCBType, NEW b \in Int
  PROVE  /\ TakeBlock(c) \in MPFCBType /\ GiveBlock(c, b) \in MPFCBType
         /\ c.freelist # <<>> =>
              TakeBlock(c) = [c EXCEPT !.freelist = Tail(c.freelist), !.frbcnt = c.frbcnt - 1]
<1>1. c.freelist \in Seq(Int)
  BY DEF MPFCBType
<1>2. c.freelist # <<>> => Tail(c.freelist) \in Seq(Int)
  BY <1>1
<1>3. PICK n \in Int, l \in Int : n = c.frbcnt - 1 /\ l = c.frbcnt + 1
  BY DEF MPFCBType
<1>4. PICK d \in MPFCBType, e \in MPFCBType :
        d = [c EXCEPT !.frbcnt = n] /\ e = [c EXCEPT !.frbcnt = l]
  BY <1>3 DEF MPFCBType
<1>5. TakeBlock(c) \in MPFCBType
  <2>1. CASE c.freelist # <<>>
    <3>1. PICK q \in Seq(Int) : q = Tail(c.freelist)
      BY <1>2, <2>1
    <3>2. TakeBlock(c) = [d EXCEPT !.freelist = q]
      BY <1>3, <1>4, <2>1, <3>1 DEF TakeBlock
    <3>. QED
      BY <3>2 DEF MPFCBType
  <2>2. CASE c.freelist = <<>>
    <3>1. PICK u \in Int : u = c.unused + 1
      BY DEF MPFCBType
    <3>2. TakeBlock(c) = [d EXCEPT !.unused = u]
      BY <1>3, <1>4, <2>2, <3>1 DEF TakeBlock
    <3>. QED
      BY <3>2 DEF MPFCBType
  <2>. QED
    BY <2>1, <2>2
<1>6. GiveBlock(c, b) \in MPFCBType
  <2>1. <<b>> \in Seq(Int)
    OBVIOUS
  <2>2. PICK q : q = <<b>> \o c.freelist
    OBVIOUS
  <2>3. q \in Seq(Int)
    BY <1>1, <2>1, <2>2
  <2>4. GiveBlock(c, b) = [e EXCEPT !.freelist = q]
    BY <1>3, <1>4, <2>2 DEF GiveBlock
  <2>. QED
    BY <2>3, <2>4 DEF MPFCBType
<1>. QED
  BY <1>5, <1>6 DEF TakeBlock

\* Only the control block of m changes.
BlockBecomes(m, r) == /\ objcb' = [objcb EXCEPT !.mpf = [@ EXCEPT ![m] = r]]
                      /\ tcb' = tcb /\ ready_queue' = ready_queue
                      /\ wait_queue' = wait_queue
                      /\ schedtsk' = schedtsk /\ ctxtsk' = ctxtsk

\* A step under the lock that changes the control block of the pool.
LEMMA BlockStep ==
  ASSUME MInv, in_task, Under(call[ctxtsk]), NEW m, m = call[ctxtsk].m,
         NEW r \in MPFCBType, Goto("unlock"), UNCHANGED sysvars, BlockBecomes(m, r)
  PROVE  /\ MInv' /\ objcb'.free = objcb.free
         /\ objcb'.mpf = [objcb.mpf EXCEPT ![m] = r]
<1>1. m \in Mpf /\ objcb \in ObjType
  BY Holding, Parts
<1>2. PICK o : o = [objcb EXCEPT !.mpf = [@ EXCEPT ![m] = r]]
  OBVIOUS
<1>3. /\ o \in ObjType /\ o.locked = objcb.locked /\ o.free = objcb.free
      /\ o.mpf = [objcb.mpf EXCEPT ![m] = r]
  BY <1>1, <1>2 DEF ObjType
<1>4. Becomes([Kernel EXCEPT !.obj = o])
  BY <1>2 DEF Becomes, Kernel, BlockBecomes
<1>5. MInv' /\ objcb' = o
  BY <1>3, <1>4, ObjectStep
<1>. QED
  BY <1>3, <1>5

\* tk_get_mpf takes a block.
LEMMA TakeStep ==
  ASSUME MInv, get_take
  PROVE  /\ MInv' /\ objcb'.free = objcb.free
         /\ ctxtsk \in Task /\ call[ctxtsk].m \in Mpf
         /\ objcb'.mpf = [objcb.mpf EXCEPT ![call[ctxtsk].m] =
                            TakeBlock(objcb.mpf[call[ctxtsk].m])]
<1>1. in_task /\ call[ctxtsk].at = "take" /\ UNCHANGED sysvars /\ Goto("unlock")
  BY Zenon DEF get_take, running
<1>2. PICK m, c : m = call[ctxtsk].m /\ c = objcb.mpf[m]
  OBVIOUS
<1>3. m \in Mpf /\ objcb \in ObjType /\ ctxtsk \in Task
  BY <1>1, <1>2, Holding, Parts DEF Under
<1>4. c \in MPFCBType
  BY <1>2, <1>3 DEF ObjType
<1>5. TakeBlock(c) \in MPFCBType
  <2>1. 0 \in Int
    OBVIOUS
  <2>. QED
    BY <1>4, <2>1, BlockTypes
<1>6. /\ tcb' = tcb /\ ready_queue' = ready_queue /\ wait_queue' = wait_queue
      /\ schedtsk' = schedtsk /\ ctxtsk' = ctxtsk
      /\ objcb' = IF c.freelist # <<>>
                  THEN [objcb EXCEPT !.mpf[m].freelist = Tail(@), !.mpf[m].frbcnt = @ - 1]
                  ELSE [objcb EXCEPT !.mpf[m].unused = @ + 1, !.mpf[m].frbcnt = @ - 1]
  BY <1>2 DEF get_take, mpfcb, Kernel, Becomes
<1>7. BlockBecomes(m, TakeBlock(c))
  BY <1>2, <1>3, <1>6 DEF ObjType, TakeBlock, BlockBecomes
<1>8. /\ MInv' /\ objcb'.free = objcb.free
      /\ objcb'.mpf = [objcb.mpf EXCEPT ![m] = TakeBlock(c)]
  <2>1. Under(call[ctxtsk]) /\ m = call[ctxtsk].m
    BY <1>1, <1>2 DEF Under
  <2>. QED
    BY <1>1, <1>5, <1>7, <2>1, BlockStep
<1>. QED
  BY <1>2, <1>3, <1>8

\* A block goes to the free list.
LEMMA FreeStep ==
  ASSUME MInv, rel_free
  PROVE  /\ MInv' /\ objcb'.free = objcb.free
         /\ ctxtsk \in Task /\ call[ctxtsk].m \in Mpf
         /\ objcb'.mpf = [objcb.mpf EXCEPT ![call[ctxtsk].m] =
                            GiveBlock(objcb.mpf[call[ctxtsk].m], call[ctxtsk].blf)]
<1>1. in_task /\ call[ctxtsk].at = "free" /\ UNCHANGED sysvars /\ Goto("unlock")
  BY DEF rel_free, running
<1>2. PICK m, c, b : m = call[ctxtsk].m /\ c = objcb.mpf[m] /\ b = call[ctxtsk].blf
  OBVIOUS
<1>3. m \in Mpf /\ objcb \in ObjType /\ ctxtsk \in Task /\ b \in Int
  BY <1>1, <1>2, Holding, Parts, Zenon DEF Under, CallType
<1>4. c \in MPFCBType
  BY <1>2, <1>3 DEF ObjType
<1>5. GiveBlock(c, b) \in MPFCBType
  BY <1>3, <1>4, BlockTypes
<1>6. /\ tcb' = tcb /\ ready_queue' = ready_queue /\ wait_queue' = wait_queue
      /\ schedtsk' = schedtsk /\ ctxtsk' = ctxtsk
      /\ objcb' = [objcb EXCEPT !.mpf[m].freelist = <<b>> \o @, !.mpf[m].frbcnt = @ + 1]
  BY <1>2 DEF rel_free, Kernel, Becomes
<1>7. BlockBecomes(m, GiveBlock(c, b))
  BY <1>2, <1>3, <1>6 DEF ObjType, GiveBlock, BlockBecomes
<1>8. /\ MInv' /\ objcb'.free = objcb.free
      /\ objcb'.mpf = [objcb.mpf EXCEPT ![m] = GiveBlock(c, b)]
  <2>1. Under(call[ctxtsk]) /\ m = call[ctxtsk].m
    BY <1>1, <1>2 DEF Under
  <2>. QED
    BY <1>1, <1>5, <1>7, <2>1, BlockStep
<1>. QED
  BY <1>2, <1>3, <1>8

\* tk_get_mpf begins to wait and gives the lock back in one critical section.
LEMMA WaitStep ==
  ASSUME MInv, get_wait
  PROVE  MInv' /\ SamePools /\ ctxtsk \in Task
<1>1. /\ in_task /\ call[ctxtsk].at = "wait"
      /\ call' = [call EXCEPT ![ctxtsk] = idle]
  BY DEF get_wait, running
<1>2. PICK m, w, tm, tpri :
        /\ m = call[ctxtsk].m /\ w = MpfWait(m) /\ tm = call[ctxtsk].tmout
        /\ tpri = objcb.mpf[m].tpri
  OBVIOUS
<1>3. /\ m \in Mpf /\ objcb \in ObjType /\ ctxtsk \in Task /\ tm \in TMO
      /\ tcb[ctxtsk].klocked /\ Runnable(tcb[ctxtsk])
      /\ KernelLocks(Kernel, call) /\ Kernel.ctxtsk = ctxtsk /\ Kernel.tcb = tcb
  BY <1>1, <1>2, Holding, Parts DEF Under, CallType
<1>4. tpri \in BOOLEAN /\ w \in WaitQueue /\ w \notin Lock
  BY <1>2, <1>3, LockNames DEF ObjType, MPFCBType
<1>5. PICK k, L, t : k = Kernel /\ L = LockOf(call) /\ t = ctxtsk
  OBVIOUS
<1>6. PICK k1 : k1 = gcb_make_wait_with_diswai(k, {"MPF"}, w, tm, tpri, FALSE)
  OBVIOUS
<1>7. Links(k1, L, {}) /\ Calm(k, k1)
  <2>1. Links(k, L, {}) /\ k.ctxtsk = t /\ Runnable(k.tcb[t]) /\ t \in Task
    BY <1>3, <1>5 DEF KernelLocks
  <2>2. CASE k1 = k
    BY <2>1, <2>2 DEF Calm
  <2>3. CASE k1 = gcb_make_wait(k, {"MPF"}, w, tm, tpri, FALSE)
    BY <1>3, <1>4, <2>1, <2>3, BeginWait
  <2>. QED
    BY <1>6, <2>2, <2>3 DEF gcb_make_wait_with_diswai
<1>8. KernelLocks(k1, call) /\ k1.ctxtsk = ctxtsk /\ k1.tcb[ctxtsk].klocked
      /\ k1.obj = objcb
  <2>1. Locks(k1, call)
    BY <1>3, <1>5, <1>7, CalmLocks DEF KernelLocks
  <2>. QED
    BY <1>3, <1>5, <1>7, <2>1, Fields DEF KernelLocks, Calm
<1>9. END_CRITICAL_SECTION(UnlockOBJ(k1, MpfLock(call[ctxtsk].m)))
  BY <1>2, <1>5, <1>6 DEF get_wait, mpfcb
<1>10. MInv' /\ objcb'.free = k1.obj.free /\ objcb'.mpf = k1.obj.mpf
  BY <1>1, <1>3, <1>8, <1>9, UnlockingStep
<1>. QED
  BY <1>3, <1>8, <1>10 DEF SamePools

\* tk_rel_mpf hands the block to the first waiting task, or goes on to free it.
LEMMA ReturnStep ==
  ASSUME MInv, rel_locked
  PROVE  /\ MInv' /\ SamePools /\ ctxtsk \in Task /\ call[ctxtsk].m \in Mpf
         /\ \/ ~objcb.mpf[call[ctxtsk].m].mpfid /\ Goto("unlock") /\ held' = held
            \/ objcb.mpf[call[ctxtsk].m].mpfid /\ Goto("free") /\ held' = held
            \/ /\ objcb.mpf[call[ctxtsk].m].mpfid
               /\ \/ call' = [call EXCEPT ![ctxtsk] = At(@, "unlock")]
                  \/ call' = [call EXCEPT ![ctxtsk] = idle]
               /\ held' = held \cup {<<call[ctxtsk].m, call[ctxtsk].blf>>}
<1>1. in_task /\ call[ctxtsk].at = "locked"
  BY DEF rel_locked, running
<1>2. PICK m, q : m = call[ctxtsk].m /\ q = wait_queue[MpfWait(m)]
  OBVIOUS
<1>3. /\ ctxtsk \in Task /\ m \in Mpf /\ objcb \in ObjType /\ tcb[ctxtsk].klocked
      /\ KernelLocks(Kernel, call) /\ Kernel.ctxtsk = ctxtsk /\ Kernel.tcb = tcb
      /\ Kernel.obj = objcb
  BY <1>1, <1>2, Holding, Parts, Fields DEF Under
<1>4. CASE ~objcb.mpf[m].mpfid
  <2>1. Goto("unlock") /\ UNCHANGED vars /\ held' = held
    BY <1>2, <1>4 DEF rel_locked, mpfcb
  <2>2. MInv' /\ SamePools
    BY <1>1, <2>1, PlainStep DEF Under
  <2>. QED
    BY <1>2, <1>3, <1>4, <2>1, <2>2
<1>5. CASE objcb.mpf[m].mpfid /\ q = <<>>
  <2>1. Goto("free") /\ UNCHANGED vars /\ held' = held
    BY <1>2, <1>5 DEF rel_locked, mpfcb
  <2>2. MInv' /\ SamePools
    BY <1>1, <2>1, PlainStep DEF Under
  <2>. QED
    BY <1>2, <1>3, <1>5, <2>1, <2>2
<1>6. CASE objcb.mpf[m].mpfid /\ q # <<>>
  <2>1. PICK k, L, t : k = Kernel /\ L = LockOf(call) /\ t = Head(q)
    OBVIOUS
  <2>2. t \in Task /\ is_waiting(k.tcb[t].state) /\ Links(k, L, {})
    <3>1. /\ q \in Seq(Task)
          /\ \A u \in ToSet(q) : u \in Task /\ is_waiting(tcb[u].state)
      BY <1>2, <1>3, PoolWaiters
    <3>2. t \in ToSet(q)
      <4>1. 1 \in 1 .. Len(q) /\ t = q[1]
        BY <1>6, <2>1, <3>1
      <4>. QED
        BY <3>1, <4>1, QueueElements
    <3>. QED
      BY <1>3, <2>1, <3>1, <3>2 DEF KernelLocks
  <2>3. PICK k1 : k1 = end_wait(wait_release(k, t), t, "E_OK")
    OBVIOUS
  <2>4. "E_OK" \in WaitResult
    BY DEF WaitResult
  <2>5. /\ Links(k1, L, {}) /\ Calm(k, k1)
        /\ \A u \in Task : u # t => k1.tcb[u] = k.tcb[u]
    BY <2>2, <2>3, <2>4, WaitEnds
  <2>6. KernelLocks(k1, call) /\ k1.ctxtsk = ctxtsk /\ k1.tcb[ctxtsk].klocked
        /\ k1.obj = objcb
    <3>1. Locks(k1, call)
      BY <1>3, <2>1, <2>5, CalmLocks DEF KernelLocks
    <3>. QED
      BY <1>3, <2>1, <2>5, <3>1 DEF KernelLocks, Calm
  <2>7. EnableThenUnlock(k1) /\ held' = held \cup {<<m, call[ctxtsk].blf>>}
    BY <1>2, <1>6, <2>1, <2>3 DEF rel_locked, mpfcb, wait_release_ok
  <2>8. /\ MInv' /\ objcb'.free = k1.obj.free /\ objcb'.mpf = k1.obj.mpf
        /\ \/ call' = [call EXCEPT ![ctxtsk] = At(@, "unlock")]
           \/ call' = [call EXCEPT ![ctxtsk] = idle]
    BY <1>1, <2>6, <2>7, EnableStep DEF Under
  <2>. QED
    BY <1>2, <1>3, <1>6, <2>6, <2>7, <2>8 DEF SamePools
<1>. QED
  BY <1>4, <1>5, <1>6

\* tk_ter_tsk of a task that has no lock.
LEMMA TerminateStep ==
  ASSUME MInv, NEW t \in Task, ter_tsk(t)
  PROVE  /\ MInv' /\ SamePools /\ ~tcb[t].klocked
         /\ call' = [call EXCEPT ![t] = idle] /\ held' = held \cup keeps_block(t)
<1>1. /\ ~tcb[t].klocked /\ call' = [call EXCEPT ![t] = idle]
      /\ held' = held \cup keeps_block(t)
  BY DEF ter_tsk, tk_ter_tsk
<1>2. PICK k, cl, cl2, L : k = Kernel /\ cl = call /\ cl2 = call' /\ L = LockOf(cl)
  OBVIOUS
<1>3. Links(k, L, {}) /\ Locks(k, cl) /\ k.tcb = tcb /\ k.obj = objcb
  BY <1>2, Parts, Fields
<1>4. PICK k2 : k2 = make_dormant(_ter_tsk(k, t), t)
  OBVIOUS
<1>5. Links(k2, L, {}) /\ Ended(k, k2, t)
  BY <1>3, <1>4, EndTask
<1>6. ~k.tcb[t].klocked /\ Moves(cl, cl2, t, idle) /\ Links(k2, LockOf(cl), {})
  BY <1>1, <1>2, <1>3, <1>5 DEF Moves
<1>7. KernelLocks(k2, cl2)
  BY <1>3, <1>5, <1>6, EndLocks
<1>8. END_CRITICAL_SECTION(k2)
  BY <1>2, <1>4 DEF ter_tsk, tk_ter_tsk
<1>9. MInv' /\ objcb' = k2.obj
  BY <1>2, <1>7, <1>8, EndSection
<1>. QED
  BY <1>1, <1>3, <1>5, <1>9 DEF SamePools, Ended

-----------------------------------------------------------------------------
(* The calls of the task layer.                                             *)

\* A critical section after which the locks are where they were.
LEMMA QuietStep ==
  ASSUME MInv, NEW k, Links(k, LockOf(call), {}), Quiet(Kernel, k), Becomes(k),
         call' = call, dispatch_disabled' \in {DDS_ENABLE, DDS_DISABLE_IMPLICIT}
  PROVE  MInv' /\ SamePools
<1>1. Locks(k, call)
  BY Parts, QuietLocks
<1>2. KernelLocks(k, call')
  BY <1>1 DEF KernelLocks
<1>3. MInv' /\ objcb' = k.obj
  BY <1>2, Next
<1>. QED
  BY <1>3, Fields DEF Quiet, SamePools

\* A call that leaves the dispatcher alone.
LEMMA CalmStep ==
  ASSUME MInv, NEW k, Links(k, LockOf(call), {}), Calm(Kernel, k), Becomes(k),
         call' = call, UNCHANGED sysvars
  PROVE  MInv' /\ SamePools
<1>1. Quiet(Kernel, k)
  BY DEF Calm, Quiet
<1>2. dispatch_disabled' \in {DDS_ENABLE, DDS_DISABLE_IMPLICIT}
  BY DEF MInv, sysvars
<1>. QED
  BY <1>1, <1>2, QuietStep

\* tk_sta_tsk
LEMMA StartStep ==
  ASSUME MInv, NEW t \in Task, tk_sta_tsk(t), call' = call
  PROVE  MInv' /\ SamePools
<1>1. PICK k, L, k2 : k = Kernel /\ L = LockOf(call) /\ k2 = make_ready(k, t)
  OBVIOUS
<1>2. Links(k, L, {}) /\ k.tcb[t].state = "DORMANT"
  BY <1>1, Parts, Fields DEF tk_sta_tsk
<1>3. Detached(k.tcb[t])
  BY <1>2 DEF Detached, Links, Blocks, Sane, is_waiting
<1>4. Links(k, L, {t}) /\ ~k.tcb[t].klockwait /\ ~k.tcb[t].wtmeb
  BY <1>2, <1>3, Unsettle DEF Detached
<1>5. Links(k2, L, {}) /\ Calm(k, k2)
  <2>1. Links(k2, L, {}) /\ Calm(k, k2) /\ Readied(k, k2, t)
    BY <1>1, <1>4, MakeRunnable, Zenon
  <2>. QED
    BY <2>1
<1>6. Becomes(k2) /\ UNCHANGED sysvars
  BY <1>1 DEF tk_sta_tsk
<1>. QED
  BY <1>1, <1>5, <1>6, CalmStep

\* tk_rel_wai
LEMMA ReleaseStep ==
  ASSUME MInv, NEW t \in Task, tk_rel_wai(t, wait_release(Kernel, t)), call' = call
  PROVE  MInv' /\ SamePools
<1>1. PICK k, L, k2 : /\ k = Kernel /\ L = LockOf(call)
                      /\ k2 = end_wait(wait_release(k, t), t, "E_RLWAI")
  OBVIOUS
<1>2. Links(k, L, {}) /\ is_waiting(k.tcb[t].state) /\ "E_RLWAI" \in WaitResult
  BY <1>1, Parts, Fields DEF tk_rel_wai, WaitResult
<1>3. /\ Links(k2, L, {}) /\ Calm(k, k2)
      /\ \A u \in Task : u # t => k2.tcb[u] = k.tcb[u]
  BY <1>1, <1>2, WaitEnds
<1>4. Becomes(k2) /\ UNCHANGED sysvars
  BY <1>1 DEF tk_rel_wai
<1>. QED
  BY <1>1, <1>3, <1>4, CalmStep

\* A timeout
LEMMA TimeoutStep ==
  ASSUME MInv, NEW t \in Task, timer_handler_event(t, wait_release(Kernel, t)),
         call' = call
  PROVE  MInv' /\ SamePools
<1>1. PICK k, L, e, k2 : /\ k = Kernel /\ L = LockOf(call) /\ e = tcb[t].wercd
                         /\ k2 = end_wait(wait_release(k, t), t, e)
  OBVIOUS
<1>2. Links(k, L, {}) /\ k.tcb[t].wtmeb /\ e = k.tcb[t].wercd
  BY <1>1, Parts, Fields DEF timer_handler_event
<1>3. is_waiting(k.tcb[t].state) /\ e \in WaitResult
  BY <1>2 DEF Links, Blocks, Sane, IsKernel, TCBType
<1>4. /\ Links(k2, L, {}) /\ Calm(k, k2)
      /\ \A u \in Task : u # t => k2.tcb[u] = k.tcb[u]
  BY <1>1, <1>2, <1>3, WaitEnds
<1>5. Becomes(k2) /\ UNCHANGED sysvars
  BY <1>1 DEF timer_handler_event
<1>. QED
  BY <1>1, <1>4, <1>5, CalmStep

\* tk_sus_tsk
LEMMA SuspendStep ==
  ASSUME MInv, NEW t \in Task, tk_sus_tsk(t), call' = call
  PROVE  MInv' /\ SamePools
<1>1. PICK k, L, k2 : k = Kernel /\ L = LockOf(call) /\ k2 = suspend(k, t)
  OBVIOUS
<1>2. Links(k, L, {}) /\ k.tcb[t].suscnt < MaxSus /\ task_alive(k.tcb[t].state)
  BY <1>1, Parts, Fields DEF tk_sus_tsk
<1>3. Links(k2, L, {}) /\ Calm(k, k2)
  BY <1>1, <1>2, SuspendTask
<1>4. Becomes(k2) /\ UNCHANGED sysvars
  BY <1>1 DEF tk_sus_tsk
<1>. QED
  BY <1>1, <1>3, <1>4, CalmStep

\* tk_rsm_tsk
LEMMA ResumeStep ==
  ASSUME MInv, NEW t \in Task, tk_rsm_tsk(t), call' = call
  PROVE  MInv' /\ SamePools
<1>1. PICK k, L, n, k2 : /\ k = Kernel /\ L = LockOf(call) /\ n = tcb[t].suscnt - 1
                         /\ k2 = resume(k, t, n)
  OBVIOUS
<1>2. Links(k, L, {}) /\ k.tcb[t].state \in {"SUSPEND", "WAITSUS"}
      /\ n = k.tcb[t].suscnt - 1
  BY <1>1, Parts, Fields DEF tk_rsm_tsk
<1>3. n \in 0 .. MaxSus
  <2>1. k.tcb[t].suscnt \in 0 .. MaxSus /\ k.tcb[t].suscnt > 0
    BY <1>2 DEF Links, Blocks, Sane, IsKernel, TCBType
  <2>. QED
    BY <1>2, <2>1, TaskAssumption
<1>4. Links(k2, L, {}) /\ Calm(k, k2)
  BY <1>1, <1>2, <1>3, ResumeTask
<1>5. Becomes(k2) /\ UNCHANGED sysvars
  BY <1>1 DEF tk_rsm_tsk
<1>. QED
  BY <1>1, <1>4, <1>5, CalmStep

\* tk_chg_pri, whose hook moves a task that waits for a block.
LEMMA PriorityStep ==
  ASSUME MInv, NEW t \in Task, NEW p \in Pri, tk_chg_pri_mpf(t, p), call' = call
  PROVE  MInv' /\ SamePools
<1>1. PICK k, L : k = Kernel /\ L = LockOf(call)
  OBVIOUS
<1>2. Links(k, L, {}) /\ k.obj = objcb /\ objcb \in ObjType /\ k.tcb = tcb
  BY <1>1, Parts, Fields
<1>3. /\ IsKernel(k) /\ k.tcb \in [Task -> TCBType] /\ k.tcb[t] \in TCBType
      /\ k.tcb[t].slicetime = 0 /\ Sane(k.tcb[t])
  BY <1>2 DEF Links, IsKernel, Blocks
<1>4. PICK c : c = [k.tcb[t] EXCEPT !.bpriority = p]
  OBVIOUS
<1>5. /\ c \in TCBType /\ c.klocked = k.tcb[t].klocked /\ c.state = k.tcb[t].state
      /\ c.klockwait = k.tcb[t].klockwait /\ c.slicetime = 0 /\ c.wid = k.tcb[t].wid
      /\ c.priority = k.tcb[t].priority /\ c.suscnt = k.tcb[t].suscnt
      /\ c.wtmeb = k.tcb[t].wtmeb
  BY <1>3, <1>4, TaskAssumption DEF TCBType, Pri
<1>6. PICK k1 : k1 = [k EXCEPT !.tcb[t] = c]
  OBVIOUS
<1>7. Links(k1, L, {}) /\ NewBlock(k, k1, t, c)
  <2>1. c.state \in {"SUSPEND", "WAITSUS"} => c.suscnt > 0
    BY <1>3, <1>5 DEF Sane
  <2>. QED
    BY <1>2, <1>5, <1>6, <2>1, SetLinked
<1>8. Calm(k, k1) /\ k1.tcb[t] = c
  <2>1. \A u \in Task : k1.tcb[u] = IF u = t THEN c ELSE k.tcb[u]
    BY <1>3, <1>7 DEF NewBlock
  <2>. QED
    BY <1>5, <1>7, <2>1 DEF NewBlock, Calm
<1>9. PICK k2 : k2 = change_task_priority(k1, t, p)
  OBVIOUS
<1>10. /\ Links(k2, L, {}) /\ Calm(k1, k2)
       /\ is_waiting(k1.tcb[t].state) =>
            k2.tcb[t].state = k1.tcb[t].state /\ k2.tcb[t].wid = k1.tcb[t].wid
  BY <1>7, <1>9, NewPriority
<1>11. Calm(k, k2)
  BY <1>8, <1>10, CalmTwice
<1>12. [Kernel EXCEPT !.tcb[t].bpriority = p] = k1
  BY <1>1, <1>3, <1>4, <1>6 DEF IsKernel
<1>13. /\ Becomes(IF is_waiting(tcb[t].state) THEN mpf_chg_pri(k2, t) ELSE k2)
       /\ UNCHANGED sysvars
  BY <1>9, <1>12 DEF tk_chg_pri_mpf
<1>14. CASE ~is_waiting(k.tcb[t].state)
  <2>1. Becomes(k2)
    BY <1>2, <1>13, <1>14
  <2>. QED
    BY <1>1, <1>10, <1>11, <1>13, <2>1, CalmStep
<1>15. CASE is_waiting(k.tcb[t].state)
  <2>1. PICK m : m = k2.tcb[t].wid[1]
    OBVIOUS
  <2>2. k2.tcb[t].wid = MpfWait(m) /\ m \in Mpf /\ MpfWait(m) \in WaitQueue
        /\ is_waiting(k2.tcb[t].state)
    <3>1. /\ is_waiting(k2.tcb[t].state) /\ k2.tcb[t].wid = k.tcb[t].wid
          /\ k.tcb[t].wid \in WaitQueue \ Lock
      BY <1>3, <1>5, <1>8, <1>10, <1>15 DEF Sane
    <3>2. PICK n \in Mpf : k.tcb[t].wid = MpfWait(n)
      BY <3>1, MempfixAssumption
    <3>3. n = m
      BY <2>1, <3>1, <3>2 DEF MpfWait
    <3>. QED
      BY <3>1, <3>2, <3>3
  <2>3. PICK k3 : k3 = mpf_chg_pri(k2, t)
    OBVIOUS
  <2>4. Links(k3, L, {}) /\ Calm(k2, k3)
    <3>1. k3 = IF k2.obj.mpf[m].tpri THEN gcb_change_priority(k2, MpfWait(m), t) ELSE k2
      BY <2>1, <2>3 DEF mpf_chg_pri
    <3>2. CASE k3 = k2
      BY <1>10, <3>2 DEF Calm
    <3>3. CASE k3 = gcb_change_priority(k2, MpfWait(m), t)
      BY <1>10, <2>2, <3>3, MoveInQueue
    <3>. QED
      BY <3>1, <3>2, <3>3
  <2>5. Calm(k, k3)
    BY <1>11, <2>4, CalmTwice
  <2>6. Becomes(k3)
    BY <1>2, <1>13, <1>15, <2>3
  <2>. QED
    BY <1>1, <1>13, <2>4, <2>5, <2>6, CalmStep
<1>. QED
  BY <1>14, <1>15

\* tk_ext_tsk of a task that is in no call.
LEMMA ExitStep ==
  ASSUME MInv, in_task, call[ctxtsk] = idle, tk_ext_tsk(_ter_tsk(Kernel, ctxtsk)),
         call' = call
  PROVE  MInv' /\ SamePools
<1>1. PICK t \in Task : t = ctxtsk
  BY OnCpu
<1>2. PICK k, cl, L : k = Kernel /\ cl = call /\ L = LockOf(cl)
  OBVIOUS
<1>3. Links(k, L, {}) /\ Locks(k, cl) /\ k.tcb = tcb /\ k.obj = objcb
  BY <1>2, Parts, Fields
<1>4. PICK k2 : k2 = make_dormant(_ter_tsk(k, t), t)
  OBVIOUS
<1>5. Links(k2, L, {}) /\ Ended(k, k2, t)
  BY <1>3, <1>4, EndTask
<1>6. ~k.tcb[t].klocked /\ Moves(cl, cl, t, idle) /\ Links(k2, LockOf(cl), {})
  <2>1. cl = [cl EXCEPT ![t] = idle]
    BY <1>1, <1>2, Parts
  <2>. QED
    BY <1>1, <1>2, <1>3, <1>5, <2>1, NotCalling DEF Moves
<1>7. KernelLocks(k2, cl)
  BY <1>3, <1>5, <1>6, EndLocks
<1>8. PICK k3 : k3 = [k2 EXCEPT !.ctxtsk = NoTask]
  OBVIOUS
<1>9. /\ Links(k3, L, {}) /\ k3.ctxtsk = NoTask
      /\ k3.tcb = k2.tcb /\ k3.obj = k2.obj /\ k3.schedtsk = k2.schedtsk
  <2>1. NoTask \in Task \cup {NoTask}
    OBVIOUS
  <2>. QED
    BY <1>5, <1>8, <2>1, SetContextLinked
<1>10. KernelLocks(k3, cl)
  <2>1. Quiet(k2, k3)
    BY <1>9 DEF Quiet
  <2>2. Locks(k3, cl)
    BY <1>7, <2>1, QuietLocks DEF KernelLocks
  <2>. QED
    BY <1>2, <1>9, <2>2 DEF KernelLocks
<1>11. /\ Becomes(k3) /\ dispatch_disabled' \in {DDS_ENABLE, DDS_DISABLE_IMPLICIT}
       /\ call' = cl
  BY <1>1, <1>2, <1>4, <1>8 DEF tk_ext_tsk, force_dispatch
<1>12. MInv' /\ objcb' = k3.obj
  BY <1>10, <1>11, Next
<1>. QED
  BY <1>3, <1>5, <1>9, <1>12 DEF SamePools, Ended

\* The dispatcher and the timer interrupt.
LEMMA SystemStep ==
  ASSUME MInv, call' = call,
         \/ dispatch_entry \/ dispatch_save \/ dispatch_to
         \/ timer_handler_begin \/ timer_handler_end
  PROVE  MInv' /\ SamePools
<1>1. PICK k, L : k = Kernel /\ L = LockOf(call)
  OBVIOUS
<1>2. Links(k, L, {}) /\ k.schedtsk = schedtsk /\ k.ctxtsk = ctxtsk
  BY <1>1, Parts, Fields
<1>3. Quiet(k, k)
  BY DEF Quiet
<1>4. ASSUME kernvars' = kernvars PROVE Becomes(k)
  BY <1>1, <1>4 DEF Becomes, Kernel, kernvars
<1>5. CASE dispatch_entry
  <2>1. kernvars' = kernvars /\ dispatch_disabled' = DDS_DISABLE_IMPLICIT
    BY <1>5 DEF dispatch_entry
  <2>2. Becomes(k)
    BY <1>4, <2>1
  <2>. QED
    BY <1>1, <1>2, <1>3, <2>1, <2>2, QuietStep
<1>6. CASE dispatch_save
  <2>1. PICK k2 : k2 = [k EXCEPT !.ctxtsk = NoTask]
    OBVIOUS
  <2>2. /\ Links(k2, L, {}) /\ k2.ctxtsk = NoTask
        /\ k2.tcb = k.tcb /\ k2.obj = k.obj /\ k2.schedtsk = k.schedtsk
    <3>1. NoTask \in Task \cup {NoTask}
      OBVIOUS
    <3>. QED
      BY <1>2, <2>1, <3>1, SetContextLinked
  <2>3. Becomes(k2) /\ dispatch_disabled' \in {DDS_ENABLE, DDS_DISABLE_IMPLICIT}
    BY <1>1, <1>6, <2>1 DEF dispatch_save, force_dispatch, MInv, sysvars
  <2>4. Quiet(k, k2)
    BY <2>2 DEF Quiet
  <2>. QED
    BY <1>1, <2>2, <2>3, <2>4, QuietStep
<1>7. CASE dispatch_to
  <2>1. PICK k2 : k2 = Dispatched(k)
    OBVIOUS
  <2>2. k.schedtsk # NoTask
    BY <1>2, <1>7 DEF dispatch_to
  <2>3. /\ Links(k2, L, {}) /\ k2.obj = k.obj
        /\ \A u \in Task : /\ k2.tcb[u].klocked = k.tcb[u].klocked
                           /\ k2.tcb[u].klockwait = k.tcb[u].klockwait
    BY <1>2, <2>1, <2>2, Dispatch
  <2>4. Becomes(k2) /\ dispatch_disabled' \in {DDS_ENABLE, DDS_DISABLE_IMPLICIT}
    BY <1>1, <1>2, <1>7, <2>1 DEF dispatch_to, Dispatched
  <2>5. Quiet(k, k2)
    BY <2>3 DEF Quiet
  <2>. QED
    BY <1>1, <2>3, <2>4, <2>5, QuietStep
<1>8. CASE timer_handler_begin
  <2>1. time_slice_tick(k) = k
    BY <1>2, Tick
  <2>2. Becomes(k) /\ dispatch_disabled' \in {DDS_ENABLE, DDS_DISABLE_IMPLICIT}
    BY <1>1, <1>8, <2>1 DEF timer_handler_begin, MInv
  <2>. QED
    BY <1>1, <1>2, <1>3, <2>2, QuietStep
<1>9. CASE timer_handler_end
  <2>1. kernvars' = kernvars /\ dispatch_disabled' \in {DDS_ENABLE, DDS_DISABLE_IMPLICIT}
    BY <1>9 DEF timer_handler_end, MInv
  <2>2. Becomes(k)
    BY <1>4, <2>1
  <2>. QED
    BY <1>1, <1>2, <1>3, <2>1, <2>2, QuietStep
<1>. QED
  BY <1>5, <1>6, <1>7, <1>8, <1>9
\* The call op of mempfix.c begins.
Begun(op, m, tm, b) ==
  [op |-> op, at |-> "none", m |-> m, tmout |-> tm, blf |-> b, tpri |-> FALSE]

\* The entry of a call runs into LockOBJ.
LEMMA EntryStep ==
  ASSUME MInv, CHECK_DISPATCH, call[ctxtsk] = idle, NEW op \in {"del", "get", "rel"},
         NEW m \in Mpf, NEW tm \in TMO, NEW b \in Int, LockStep(Begun(op, m, tm, b))
  PROVE  /\ MInv' /\ SamePools /\ ctxtsk \in Task
         /\ \E x \in BOOLEAN : call' = [call EXCEPT ![ctxtsk] = AtLock(Begun(op, m, tm, b), x)]
<1>1. PICK c : c = Begun(op, m, tm, b)
  OBVIOUS
<1>2. c \in CallType /\ c.m \in Mpf /\ in_task /\ LockStep(c)
  BY <1>1 DEF Begun, CallType, CHECK_DISPATCH
<1>3. /\ MInv' /\ SamePools
      /\ \E x \in BOOLEAN : call' = [call EXCEPT ![ctxtsk] = AtLock(c, x)]
  BY <1>2, LockingStep
<1>. QED
  BY <1>1, <1>2, <1>3, OnCpu

\* The record of a call that begins.
LEMMA BegunCall ==
  ASSUME NEW op \in {"del", "get", "rel"}, NEW m \in Mpf, NEW tm \in TMO, NEW b \in Int
  PROVE  /\ [idle EXCEPT !.op = op, !.m = m] = Begun(op, m, "TMO_POL", 0)
         /\ [idle EXCEPT !.op = op, !.m = m, !.tmout = tm] = Begun(op, m, tm, 0)
         /\ [idle EXCEPT !.op = op, !.m = m, !.blf = b] = Begun(op, m, "TMO_POL", b)
<1>1. PICK c1 : c1 = [idle EXCEPT !.op = op]
  OBVIOUS
<1>2. PICK c2 : c2 = [c1 EXCEPT !.m = m]
  OBVIOUS
<1>3. PICK c3, c4 : c3 = [c2 EXCEPT !.tmout = tm] /\ c4 = [c2 EXCEPT !.blf = b]
  OBVIOUS
<1>4. PICK i \in CallType : i = idle
  BY LockNames
<1>5. /\ i.op = "none" /\ i.at = "none" /\ i.tmout = "TMO_POL" /\ i.blf = 0
      /\ i.tpri = FALSE
  BY <1>4 DEF idle
<1>6. /\ c1 \in CallType /\ c1.op = op /\ c1.at = i.at /\ c1.tmout = i.tmout
      /\ c1.blf = i.blf /\ c1.tpri = i.tpri
  <2>1. c1 = [i EXCEPT !.op = op]
    BY <1>1, <1>4
  <2>. QED
    BY <2>1 DEF CallType
<1>7. /\ c2 \in CallType /\ c2.op = op /\ c2.at = i.at /\ c2.tmout = i.tmout
      /\ c2.blf = i.blf /\ c2.tpri = i.tpri /\ c2.m = m
  BY <1>2, <1>6 DEF CallType
<1>8. /\ c3 \in CallType /\ c3.op = op /\ c3.at = i.at /\ c3.tmout = tm
      /\ c3.blf = i.blf /\ c3.tpri = i.tpri /\ c3.m = m
  BY <1>3, <1>7 DEF CallType
<1>9. /\ c4 \in CallType /\ c4.op = op /\ c4.at = i.at /\ c4.tmout = i.tmout
      /\ c4.blf = b /\ c4.tpri = i.tpri /\ c4.m = m
  BY <1>3, <1>7 DEF CallType
<1>10. /\ c2 = Begun(op, m, "TMO_POL", 0)
       /\ c3 = Begun(op, m, tm, 0)
       /\ c4 = Begun(op, m, "TMO_POL", b)
  BY <1>5, <1>7, <1>8, <1>9 DEF CallType, Begun
<1>. QED
  BY <1>1, <1>2, <1>3, <1>10, Zenon

\* The calls that begin with LockOBJ.
LEMMA EntryForms ==
  ASSUME NEW m \in Mpf, NEW tm \in TMO, NEW b \in Int
  PROVE  /\ tk_del_mpf(m) =>
              /\ CHECK_DISPATCH /\ call[ctxtsk] = idle /\ held' = held
              /\ LockStep(Begun("del", m, "TMO_POL", 0))
         /\ tk_get_mpf(m, tm) =>
              /\ CHECK_DISPATCH /\ call[ctxtsk] = idle /\ held' = held
              /\ LockStep(Begun("get", m, tm, 0))
         /\ tk_rel_mpf(m, b) =>
              /\ CHECK_DISPATCH /\ call[ctxtsk] = idle
              /\ <<m, b>> \in held /\ held' = held \ {<<m, b>>}
              /\ LockStep(Begun("rel", m, "TMO_POL", b))
<1>1. /\ [idle EXCEPT !.op = "del", !.m = m] = Begun("del", m, "TMO_POL", 0)
      /\ [idle EXCEPT !.op = "get", !.m = m, !.tmout = tm] = Begun("get", m, tm, 0)
      /\ [idle EXCEPT !.op = "rel", !.m = m, !.blf = b] = Begun("rel", m, "TMO_POL", b)
  BY BegunCall, Zenon
<1>2. ASSUME tk_del_mpf(m)
      PROVE  /\ CHECK_DISPATCH /\ call[ctxtsk] = idle /\ held' = held
             /\ LockStep(Begun("del", m, "TMO_POL", 0))
  BY <1>1, <1>2, Zenon DEF tk_del_mpf
<1>3. ASSUME tk_get_mpf(m, tm)
      PROVE  /\ CHECK_DISPATCH /\ call[ctxtsk] = idle /\ held' = held
             /\ LockStep(Begun("get", m, tm, 0))
  BY <1>1, <1>3, Zenon DEF tk_get_mpf
<1>4. ASSUME tk_rel_mpf(m, b)
      PROVE  /\ CHECK_DISPATCH /\ call[ctxtsk] = idle
             /\ <<m, b>> \in held /\ held' = held \ {<<m, b>>}
             /\ LockStep(Begun("rel", m, "TMO_POL", b))
  BY <1>1, <1>4, Zenon DEF tk_rel_mpf
<1>. QED
  BY <1>2, <1>3, <1>4

-----------------------------------------------------------------------------
(* The start.                                                               *)

\* The free control blocks are all in one list, each once.
LEMMA FreeList ==
  /\ SetToSeq(Mpf) \in Seq(Mpf)
  /\ IsInjective(SetToSeq(Mpf))
<1>1. /\ Cardinality(Mpf) \in Nat
      /\ ExistsBijection(1 .. Cardinality(Mpf), Mpf)
  BY MempfixAssumption, FS_CardinalityType
<1>2. PICK n \in Nat : n = Cardinality(Mpf)
  BY <1>1
<1>3. PICK f \in Injection(1 .. n, Mpf) : TRUE
  BY <1>1, <1>2 DEF ExistsBijection, Bijection
<1>4. f \in [1 .. n -> Mpf] /\ IsInjective(f)
  BY <1>3 DEF Injection
<1>5. SetToSeq(Mpf) = CHOOSE g \in [1 .. n -> Mpf] : IsInjective(g)
  BY <1>2 DEF SetToSeq
<1>6. SetToSeq(Mpf) \in [1 .. n -> Mpf] /\ IsInjective(SetToSeq(Mpf))
  BY <1>4, <1>5
<1>. QED
  BY <1>6

\* No pool exists, and no task is in a call.
LEMMA InitMInv ==
  ASSUME MpfInit
  PROVE  MInv
<1>1. PICK o : o = [locked |-> {}, free |-> SetToSeq(Mpf), mpf |-> [m \in Mpf |-> free_mpfcb]]
  OBVIOUS
<1>2. PICK k2 : k2 = make_ready(create_all(task_initialize, Task, InitPri), InitTask)
  OBVIOUS
<1>3. /\ tcb = k2.tcb /\ ready_queue = k2.rq /\ wait_queue = k2.wq
      /\ schedtsk = k2.schedtsk /\ ctxtsk = k2.ctxtsk /\ objcb = o
      /\ dispatch_disabled = DDS_DISABLE_IMPLICIT
      /\ call = [t \in Task |-> idle]
  BY <1>1, <1>2 DEF MpfInit, t_kernel_main
<1>4. o \in ObjType /\ o.locked = {}
  <2>1. free_mpfcb \in MPFCBType
    BY DEF free_mpfcb, MPFCBType
  <2>. QED
    BY <1>1, <2>1, FreeList DEF ObjType
<1>5. PICK L : L = LockOf(call)
  OBVIOUS
<1>6. /\ Links(k2, L, {})
      /\ \A u \in Task : ~k2.tcb[u].klocked /\ ~k2.tcb[u].klockwait
  BY <1>2, MempfixAssumption, StartLinks
<1>7. PICK k : k = [k2 EXCEPT !.obj = o]
  OBVIOUS
<1>8. /\ Links(k, L, {}) /\ k.obj = o
      /\ k.tcb = k2.tcb /\ k.ctxtsk = k2.ctxtsk /\ k.schedtsk = k2.schedtsk
      /\ k.rq = k2.rq /\ k.wq = k2.wq
  BY <1>6, <1>7, SetObjectsLinked
<1>9. Kernel = k
  <2>1. IsKernel(k)
    BY <1>8 DEF Links
  <2>. QED
    BY <1>3, <1>8, <2>1 DEF Kernel, IsKernel
<1>10. Locks(k, call)
  <2>1. \A u \in Task : call[u] = idle
    BY <1>3
  <2>2. call \in [Task -> CallType]
    BY <1>3, LockNames
  <2>3. \A u \in Task : TaskLocks(call[u], k.tcb[u], k.obj.locked)
    <3>1. \A u \in Task : call[u].at = "none" /\ call[u].m \notin Mpf
      BY <2>1, LockNames DEF idle
    <3>. QED
      BY <1>6, <1>8, <2>1, <3>1 DEF TaskLocks, Under
  <2>4. OneHolder(k, call) /\ Taken(k, call)
    BY <1>4, <1>6, <1>8 DEF OneHolder, Taken
  <2>. QED
    BY <1>4, <1>8, <2>2, <2>3, <2>4 DEF Locks
<1>. QED
  BY <1>3, <1>5, <1>8, <1>9, <1>10 DEF MInv, KernelLocks
-----------------------------------------------------------------------------
(* The invariant of the locks is inductive.                                 *)

\* The calls of mempfix.c that enter.
LEMMA CallsMInv ==
  ASSUME MInv, MpfCalls
  PROVE  MInv'
<1>1. ASSUME NEW tpri \in MpfAtr, tk_cre_mpf(tpri)
      PROVE  MInv'
  BY <1>1, MempfixAssumption, CreateStep
<1>2. ASSUME NEW m \in Mpf, tk_del_mpf(m)
      PROVE  MInv'
  <2>1. "del" \in {"del", "get", "rel"} /\ "TMO_POL" \in TMO /\ 0 \in Int
    BY DEF TMO
  <2>2. /\ CHECK_DISPATCH /\ call[ctxtsk] = idle
        /\ LockStep(Begun("del", m, "TMO_POL", 0))
    BY <1>2, <2>1, EntryForms
  <2>. QED
    BY <2>1, <2>2, EntryStep
<1>3. ASSUME NEW m \in Mpf, NEW tm \in MpfTmo, tk_get_mpf(m, tm)
      PROVE  MInv'
  <2>1. "get" \in {"del", "get", "rel"} /\ tm \in TMO /\ 0 \in Int
    BY MempfixAssumption
  <2>2. /\ CHECK_DISPATCH /\ call[ctxtsk] = idle
        /\ LockStep(Begun("get", m, tm, 0))
    BY <1>3, <2>1, EntryForms
  <2>. QED
    BY <2>1, <2>2, EntryStep
<1>4. ASSUME NEW m \in Mpf, NEW b \in Block, tk_rel_mpf(m, b)
      PROVE  MInv'
  <2>1. "rel" \in {"del", "get", "rel"} /\ "TMO_POL" \in TMO /\ b \in Int
    BY DEF TMO, Block
  <2>2. /\ CHECK_DISPATCH /\ call[ctxtsk] = idle
        /\ LockStep(Begun("rel", m, "TMO_POL", b))
    BY <1>4, <2>1, EntryForms
  <2>. QED
    BY <2>1, <2>2, EntryStep
<1>. QED
  BY <1>1, <1>2, <1>3, <1>4 DEF MpfCalls

\* Every step keeps the invariant.
LEMMA NextMInv ==
  ASSUME MInv, [MpfNext]_mpfvars
  PROVE  MInv'
<1>1. CASE UNCHANGED mpfvars
  <2>1. Kernel' = Kernel /\ call' = call /\ dispatch_disabled' = dispatch_disabled
    BY <1>1 DEF mpfvars, vars, kernvars, sysvars, Kernel
  <2>. QED
    BY <2>1 DEF MInv
<1>2. CASE MpfCalls
  BY <1>2, CallsMInv
<1>3. CASE MpfSteps
  BY <1>3, LockRetryStep, UnlockStep, CreatedStep, DeletedStep, GetStep, TakeStep,
     WaitStep, ReturnStep, FreeStep DEF MpfSteps
<1>4. ASSUME NEW t \in Task, ter_tsk(t)
      PROVE  MInv'
  BY <1>4, TerminateStep
<1>5. ASSUME NEW t \in Task, tk_sta_tsk(t), call' = call
      PROVE  MInv'
  BY <1>5, StartStep
<1>6. ASSUME NEW t \in Task, tk_rel_wai(t, wait_release(Kernel, t)), call' = call
      PROVE  MInv'
  BY <1>6, ReleaseStep
<1>7. ASSUME NEW t \in Task, tk_sus_tsk(t), call' = call
      PROVE  MInv'
  BY <1>7, SuspendStep
<1>8. ASSUME NEW t \in Task, tk_rsm_tsk(t), call' = call
      PROVE  MInv'
  BY <1>8, ResumeStep
<1>9. ASSUME NEW t \in Task, NEW p \in Pri, tk_chg_pri_mpf(t, p), call' = call
      PROVE  MInv'
  BY <1>9, PriorityStep
<1>10. ASSUME in_task, call[ctxtsk] = idle, tk_ext_tsk(_ter_tsk(Kernel, ctxtsk)),
              call' = call
       PROVE  MInv'
  BY <1>10, ExitStep
<1>11. ASSUME NEW t \in Task, timer_handler_event(t, wait_release(Kernel, t)),
              call' = call
       PROVE  MInv'
  BY <1>11, TimeoutStep
<1>12. ASSUME call' = call,
              \/ dispatch_entry \/ dispatch_save \/ dispatch_to
              \/ timer_handler_begin \/ timer_handler_end
       PROVE  MInv'
  BY <1>12, SystemStep
<1>13. CASE MpfTaskCalls
  <2>1. Disturbed \subseteq Task
    BY MempfixAssumption
  <2>. QED
    BY <1>4, <1>5, <1>6, <1>7, <1>8, <1>9, <1>10, <1>11, <1>12, <1>13, <2>1
       DEF MpfTaskCalls
<1>. QED
  BY <1>1, <1>2, <1>3, <1>13 DEF MpfNext

\* In every reachable state of mempfix.c the kernel lock of every pool has at most one
\* holder, and every task is linked where its control block says.
THEOREM KernelLockInvariant == MpfSpec => []MInv
<1>1. MpfInit => MInv
  BY InitMInv
<1>2. MInv /\ [MpfNext]_mpfvars => MInv'
  BY NextMInv
<1>. QED
  BY <1>1, <1>2, PTL DEF MpfSpec

\* The invariant says that the lock excludes.
LEMMA HoldersOfLock ==
  ASSUME MInv
  PROVE  LockExclusive
<1>1. SUFFICES ASSUME NEW m \in Mpf,
                      NEW holders, holders = {t \in Task : tcb[t].klocked /\ call[t].m = m}
      PROVE  /\ Cardinality(holders) = IF MpfLock(m) \in objcb.locked THEN 1 ELSE 0
             /\ \A t \in Task : Inside(t, m) => t \in holders
             /\ wait_queue[MpfLock(m)] # <<>> => holders # {}
             /\ Mpf = {m} => \A t \in Task :
                  ready_queue.klocktsk = t <=> t \in holders /\ tcb[t].state = "READY"
  BY DEF LockExclusive
<1>2. PICK k : k = Kernel
  OBVIOUS
<1>3. /\ k.tcb = tcb /\ k.obj = objcb /\ k.rq = ready_queue /\ k.wq = wait_queue
      /\ Links(k, LockOf(call), {}) /\ Locks(k, call)
  BY <1>2, Fields, Parts
<1>4. \A u \in Task : TaskLocks(call[u], tcb[u], objcb.locked)
  BY Parts
<1>5. MpfLock(m) \in objcb.locked <=> holders # {}
  BY <1>1, <1>3 DEF Locks, Taken
<1>6. \A u, v \in holders : u = v
  BY <1>1, <1>3 DEF Locks, OneHolder
<1>7. Cardinality(holders) = IF MpfLock(m) \in objcb.locked THEN 1 ELSE 0
  <2>1. CASE holders = {}
    BY <1>5, <2>1, FS_EmptySet
  <2>2. CASE holders # {}
    <3>1. PICK u : holders = {u}
      BY <1>6, <2>2
    <3>. QED
      BY <1>5, <3>1, FS_Singleton
  <2>. QED
    BY <2>1, <2>2
<1>8. \A t \in Task : Inside(t, m) => t \in holders
  BY <1>1, <1>4 DEF Inside, TaskLocks, Under
<1>9. wait_queue[MpfLock(m)] # <<>> => holders # {}
  <2>1. SUFFICES ASSUME wait_queue[MpfLock(m)] # <<>> PROVE MpfLock(m) \in objcb.locked
    BY <1>5
  <2>2. PICK w : w = MpfLock(m)
    OBVIOUS
  <2>3. w \in WaitQueue /\ w \in Lock
    BY <2>2, LockNames
  <2>4. k.wq[w] \in Queue /\ ToSet(k.wq[w]) = {u \in Task : InWait(tcb[u], LockOf(call)[u], w)}
    BY <1>3, <2>3 DEF Links, WaitLinks
  <2>5. PICK u \in Task : InWait(tcb[u], MpfLock(call[u].m), w)
    <3>1. k.wq[w] \in Seq(Task) /\ k.wq[w] # <<>>
      BY <1>3, <2>1, <2>2, <2>4 DEF Queue
    <3>2. ToSet(k.wq[w]) # {}
      BY <3>1, QueueElements
    <3>. QED
      BY <2>4, <3>2 DEF LockOf
  <2>6. Sane(tcb[u])
    BY <1>3 DEF Links, Blocks
  <2>7. tcb[u].klockwait /\ MpfLock(call[u].m) = w
    BY <2>3, <2>5, <2>6 DEF InWait, Sane
  <2>. QED
    BY <1>4, <2>2, <2>7 DEF TaskLocks
<1>10. ASSUME Mpf = {m}, NEW t \in Task
       PROVE  ready_queue.klocktsk = t <=> t \in holders /\ tcb[t].state = "READY"
  <2>1. LockTask(k, {}) /\ SinglePool /\ NoTask \notin Task
    BY <1>3, <1>10, TaskAssumption DEF Links, SinglePool
  <2>2. tcb[t].klocked => call[t].m = m
    BY <1>4, <1>10 DEF TaskLocks
  <2>. QED
    BY <1>1, <1>3, <2>1, <2>2 DEF LockTask, Runnable
<1>. QED
  BY <1>7, <1>8, <1>9, <1>10

\* LockOBJ and UnlockOBJ of klock.c: whatever tasks are suspended, resumed, ended,
\* released or changed in priority meanwhile, the lock of a pool is taken exactly while
\* one task holds it, only the holder is in the code it protects, and tasks queue for
\* it only while it is held.
THEOREM KernelLockExclusive == MpfSpec => []LockExclusive
<1>1. MInv => LockExclusive
  BY HoldersOfLock
<1>. QED
  BY <1>1, KernelLockInvariant, PTL

\* How often a task occurs in a queue.
LEMMA Occurrences ==
  ASSUME NEW q \in Queue, NEW t \in Task
  PROVE  Cardinality({i \in DOMAIN q : q[i] = t}) = IF t \in ToSet(q) THEN 1 ELSE 0
<1>1. /\ q \in Seq(Task) /\ DOMAIN q = 1 .. Len(q)
      /\ ToSet(q) = {q[i] : i \in 1 .. Len(q)}
      /\ \A i, j \in 1 .. Len(q) : q[i] = q[j] => i = j
  BY QueueElements DEF Queue, IsInjective
<1>2. PICK D : D = {i \in DOMAIN q : q[i] = t}
  OBVIOUS
<1>3. CASE t \notin ToSet(q)
  <2>1. D = {}
    BY <1>1, <1>2, <1>3
  <2>. QED
    BY <1>2, <1>3, <2>1, FS_EmptySet
<1>4. CASE t \in ToSet(q)
  <2>1. PICK i : i \in 1 .. Len(q) /\ q[i] = t
    BY <1>1, <1>4
  <2>2. D = {i}
    BY <1>1, <1>2, <2>1
  <2>. QED
    BY <1>2, <1>4, <2>2, FS_Singleton
<1>. QED
  BY <1>3, <1>4

\* The invariant says that every task is linked once.
LEMMA LinkedInOnePlace ==
  ASSUME MInv
  PROVE  LinkedOnce
<1>1. SUFFICES ASSUME NEW t \in Task, NEW s, s = tcb[t]
      PROVE  /\ s.klockwait => s.state = "READY" /\ ~s.klocked
             /\ \A p \in Pri : Cardinality({i \in DOMAIN ready_queue.tskque[p] :
                                              ready_queue.tskque[p][i] = t})
                               = IF s.state = "READY" /\ ~s.klockwait /\ s.priority = p
                                 THEN 1 ELSE 0
             /\ \A w \in WaitQueue :
                  Cardinality({i \in DOMAIN wait_queue[w] : wait_queue[w][i] = t})
                  = IF \/ w \in Lock /\ s.klockwait /\ MpfLock(call[t].m) = w
                       \/ is_waiting(s.state) /\ s.wid = w THEN 1 ELSE 0
  BY DEF LinkedOnce
<1>2. PICK k : k = Kernel
  OBVIOUS
<1>3. /\ k.tcb = tcb /\ k.rq = ready_queue /\ k.wq = wait_queue
      /\ Links(k, LockOf(call), {})
  BY <1>2, Fields, Parts
<1>4. TaskLocks(call[t], s, objcb.locked) /\ Sane(s)
  BY <1>1, <1>3, Parts DEF Links, Blocks
<1>5. ASSUME NEW p \in Pri
      PROVE  Cardinality({i \in DOMAIN ready_queue.tskque[p] :
                            ready_queue.tskque[p][i] = t})
             = IF s.state = "READY" /\ ~s.klockwait /\ s.priority = p THEN 1 ELSE 0
  <2>1. PICK q : q = ready_queue.tskque[p]
    OBVIOUS
  <2>2. q \in Queue /\ ToSet(q) = {u \in Task \ {} : InReady(tcb[u], p)}
    BY <1>3, <2>1 DEF Links, ReadyLinks
  <2>3. Cardinality({i \in DOMAIN q : q[i] = t}) = IF t \in ToSet(q) THEN 1 ELSE 0
    BY <2>2, Occurrences
  <2>4. t \in ToSet(q) <=> s.state = "READY" /\ ~s.klockwait /\ s.priority = p
    BY <1>1, <2>2 DEF InReady, Runnable
  <2>. QED
    BY <2>1, <2>3, <2>4
<1>6. ASSUME NEW w \in WaitQueue
      PROVE  Cardinality({i \in DOMAIN wait_queue[w] : wait_queue[w][i] = t})
             = IF \/ w \in Lock /\ s.klockwait /\ MpfLock(call[t].m) = w
                  \/ is_waiting(s.state) /\ s.wid = w THEN 1 ELSE 0
  <2>1. PICK q : q = wait_queue[w]
    OBVIOUS
  <2>2. q \in Queue /\ ToSet(q) = {u \in Task \ {} : InWait(tcb[u], LockOf(call)[u], w)}
    BY <1>3, <2>1 DEF Links, WaitLinks
  <2>3. Cardinality({i \in DOMAIN q : q[i] = t}) = IF t \in ToSet(q) THEN 1 ELSE 0
    BY <2>2, Occurrences
  <2>4. s.klockwait => MpfLock(call[t].m) \in Lock
    BY <1>4, LockNames DEF TaskLocks
  <2>5. LockOf(call)[t] = MpfLock(call[t].m)
    BY DEF LockOf
  <2>6. t \in ToSet(q) <=> \/ w \in Lock /\ s.klockwait /\ MpfLock(call[t].m) = w
                           \/ is_waiting(s.state) /\ s.wid = w
    BY <1>1, <2>2, <2>4, <2>5 DEF InWait
  <2>. QED
    BY <2>1, <2>3, <2>6
<1>7. s.klockwait => s.state = "READY" /\ ~s.klocked
  BY <1>4 DEF Sane
<1>. QED
  BY <1>5, <1>6, <1>7

\* klock.c and the calls of the task layer: a READY task is in the ready queue of its
\* priority unless it queues for a lock, and no task is ever linked twice or forgotten.
THEOREM MempfixLinkedOnce == MpfSpec => []LinkedOnce
<1>1. MInv => LinkedOnce
  BY LinkedInOnePlace
<1>. QED
  BY <1>1, KernelLockInvariant, PTL
-----------------------------------------------------------------------------
(* The blocks of a pool.                                                    *)

Creating(c, m) == c.op = "cre" /\ c.m = m /\ c.at \in {"lock", "locked"}

Returning(c, m) == c.op = "rel" /\ c.m = m /\ c.at # "unlock"

\* The blocks of m that the application holds, and the tasks that bring one back.
Out(h, m) == {b \in Block : <<m, b>> \in h}

Back(cl, m) == {u \in Task : Returning(cl[u], m)}

\* Each block below c.unused is on the free list, with the application or on its way
\* back by a task in B; in one of these places, once.
Places(c, out, B, cl) ==
  /\ c.unused \in 1 .. MpfCnt + 1
  /\ c.freelist \in Unrepeated(Int)
  /\ c.frbcnt = (MpfCnt + 1 - c.unused) + Len(c.freelist)
  /\ ToSet(c.freelist) \cap out = {}
  /\ \A u \in B : cl[u].blf \notin ToSet(c.freelist) \cup out
  /\ \A u, v \in B : cl[u].blf = cl[v].blf => u = v
  /\ ToSet(c.freelist) \cup out \cup {cl[u].blf : u \in B} = 1 .. c.unused - 1

\* Only the blocks of the tasks in B count.
LEMMA PlacesSame ==
  ASSUME NEW c, NEW out, NEW B, NEW cl, Places(c, out, B, cl),
         NEW cl2, \A u \in B : cl2[u].blf = cl[u].blf
  PROVE  Places(c, out, B, cl2)
<1>1. {cl2[u].blf : u \in B} = {cl[u].blf : u \in B}
  OBVIOUS
<1>. QED
  BY <1>1 DEF Places

\* A pool that has just been made.
LEMMA PlacesFresh ==
  ASSUME NEW cl, NEW c, c.unused = 1, c.freelist = <<>>, c.frbcnt = MpfCnt
  PROVE  Places(c, {}, {}, cl)
<1>1. MpfCnt \in Nat /\ MpfCnt > 0
  BY MempfixAssumption
<1>2. <<>> \in Unrepeated(Int) /\ ToSet(<<>>) = {} /\ Len(<<>>) = 0
  BY EmptySequence
<1>3. 1 .. 1 - 1 = {} /\ 1 \in 1 .. MpfCnt + 1
  BY <1>1
<1>. QED
  BY <1>1, <1>2, <1>3 DEF Places

\* A block is on its way back.
LEMMA PlacesReturn ==
  ASSUME NEW c, NEW out, NEW B, NEW cl, Places(c, out, B, cl),
         NEW t, t \notin B, NEW b \in out, NEW cl2, cl2[t].blf = b,
         \A u \in B : cl2[u].blf = cl[u].blf
  PROVE  Places(c, out \ {b}, B \cup {t}, cl2)
<1>1. {cl2[u].blf : u \in B \cup {t}} = {cl[u].blf : u \in B} \cup {b}
  OBVIOUS
<1>2. b \notin ToSet(c.freelist) /\ \A u \in B : cl[u].blf # b
  BY DEF Places
<1>3. \A u, v \in B \cup {t} : cl2[u].blf = cl2[v].blf => u = v
  BY <1>2 DEF Places
<1>4. \A u \in B \cup {t} : cl2[u].blf \notin ToSet(c.freelist) \cup (out \ {b})
  BY <1>2 DEF Places
<1>5. ToSet(c.freelist) \cup (out \ {b}) \cup {cl2[u].blf : u \in B \cup {t}}
        = 1 .. c.unused - 1
  BY <1>1 DEF Places
<1>. QED
  BY <1>3, <1>4, <1>5 DEF Places

\* The blocks that are on their way back without the one of t.
LEMMA OthersBack ==
  ASSUME NEW c, NEW out, NEW B, NEW cl, Places(c, out, B, cl),
         NEW t \in B, NEW b, b = cl[t].blf, NEW cl2,
         \A u \in B \ {t} : cl2[u].blf = cl[u].blf
  PROVE  /\ b \in 1 .. c.unused - 1 /\ b \in Block
         /\ b \notin out /\ b \notin ToSet(c.freelist)
         /\ {cl2[u].blf : u \in B \ {t}} = {cl[u].blf : u \in B} \ {b}
         /\ \A u \in B \ {t} : cl2[u].blf \notin ToSet(c.freelist) \cup out \cup {b}
         /\ \A u, v \in B \ {t} : cl2[u].blf = cl2[v].blf => u = v
<1>1. b \in 1 .. c.unused - 1 /\ c.unused \in 1 .. MpfCnt + 1 /\ MpfCnt \in Nat
  BY MempfixAssumption DEF Places
<1>2. b \in Block
  BY <1>1 DEF Block
<1>3. \A u \in B \ {t} : cl[u].blf # b
  BY DEF Places
<1>4. {cl2[u].blf : u \in B \ {t}} = {cl[u].blf : u \in B} \ {b}
  BY <1>3
<1>. QED
  BY <1>1, <1>2, <1>3, <1>4 DEF Places

\* A block that was on its way back is with the application again.
LEMMA PlacesBack ==
  ASSUME NEW c, NEW out, NEW B, NEW cl, Places(c, out, B, cl),
         NEW t \in B, NEW b, b = cl[t].blf, NEW cl2,
         \A u \in B \ {t} : cl2[u].blf = cl[u].blf
  PROVE  Places(c, out \cup {b}, B \ {t}, cl2)
<1>1. /\ b \notin ToSet(c.freelist)
      /\ {cl2[u].blf : u \in B \ {t}} = {cl[u].blf : u \in B} \ {b}
      /\ \A u \in B \ {t} : cl2[u].blf \notin ToSet(c.freelist) \cup out \cup {b}
      /\ \A u, v \in B \ {t} : cl2[u].blf = cl2[v].blf => u = v
  BY OthersBack
<1>2. b \in {cl[u].blf : u \in B}
  OBVIOUS
<1>3. ToSet(c.freelist) \cup (out \cup {b}) \cup {cl2[u].blf : u \in B \ {t}}
        = 1 .. c.unused - 1
  BY <1>1, <1>2 DEF Places
<1>4. ToSet(c.freelist) \cap (out \cup {b}) = {}
  BY <1>1 DEF Places
<1>. QED
  BY <1>1, <1>3, <1>4 DEF Places

\* A block that was on its way back is on the free list.
LEMMA PlacesGive ==
  ASSUME NEW c \in MPFCBType, NEW out, NEW B, NEW cl, Places(c, out, B, cl),
         NEW t \in B, NEW b, b = cl[t].blf, NEW cl2,
         \A u \in B \ {t} : cl2[u].blf = cl[u].blf
  PROVE  Places(GiveBlock(c, b), out, B \ {t}, cl2)
<1>1. /\ b \notin ToSet(c.freelist) /\ b \in 1 .. c.unused - 1 /\ b \notin out
      /\ {cl2[u].blf : u \in B \ {t}} = {cl[u].blf : u \in B} \ {b}
      /\ \A u \in B \ {t} : cl2[u].blf \notin ToSet(c.freelist) \cup out \cup {b}
      /\ \A u, v \in B \ {t} : cl2[u].blf = cl2[v].blf => u = v
  BY OthersBack
<1>2. b \in {cl[u].blf : u \in B}
  OBVIOUS
<1>3. PICK q : q = <<b>> \o c.freelist
  OBVIOUS
<1>4. /\ q \in Unrepeated(Int) /\ ToSet(q) = ToSet(c.freelist) \cup {b}
      /\ Len(q) = Len(c.freelist) + 1
  <2>1. c.freelist \in Unrepeated(Int) /\ b \in Int
    BY <1>1 DEF Places
  <2>. QED
    BY <1>1, <1>3, <2>1, Prepended
<1>5. PICK d : d = GiveBlock(c, b)
  OBVIOUS
<1>6. d.freelist = q /\ d.unused = c.unused /\ d.frbcnt = c.frbcnt + 1
  BY <1>3, <1>5 DEF GiveBlock, MPFCBType
<1>7. /\ c.unused \in 1 .. MpfCnt + 1 /\ MpfCnt \in Nat
      /\ c.frbcnt = (MpfCnt + 1 - c.unused) + Len(c.freelist)
      /\ Len(c.freelist) \in Nat
  BY MempfixAssumption, Elements DEF Places, Unrepeated
<1>8. d.frbcnt = (MpfCnt + 1 - d.unused) + Len(d.freelist)
  <2>1. PICK n \in Int, l \in Nat : n = c.unused /\ l = Len(c.freelist)
    BY <1>7
  <2>2. c.frbcnt = (MpfCnt + 1 - n) + l /\ Len(d.freelist) = l + 1
    BY <1>4, <1>6, <1>7, <2>1
  <2>3. d.frbcnt = ((MpfCnt + 1 - n) + l) + 1
    BY <1>6, <2>2
  <2>4. ((MpfCnt + 1 - n) + l) + 1 = (MpfCnt + 1 - n) + (l + 1)
    BY <1>7
  <2>. QED
    BY <1>6, <2>1, <2>2, <2>3, <2>4
<1>9. ToSet(d.freelist) \cup out \cup {cl2[u].blf : u \in B \ {t}} = 1 .. d.unused - 1
  BY <1>1, <1>2, <1>4, <1>6 DEF Places
<1>10. /\ ToSet(d.freelist) \cap out = {}
       /\ \A u \in B \ {t} : cl2[u].blf \notin ToSet(d.freelist) \cup out
  BY <1>1, <1>4, <1>6 DEF Places
<1>11. Places(d, out, B \ {t}, cl2)
  BY <1>1, <1>4, <1>6, <1>7, <1>8, <1>9, <1>10 DEF Places
<1>. QED
  BY <1>5, <1>11

\* The block that tk_get_mpf takes.
Taking(c) == IF c.freelist # <<>> THEN Head(c.freelist) ELSE c.unused

\* A block is taken.
LEMMA PlacesTake ==
  ASSUME NEW c \in MPFCBType, NEW out, NEW B, NEW cl, Places(c, out, B, cl),
         c.frbcnt > 0, NEW b, b = Taking(c)
  PROVE  b \in Block /\ Places(TakeBlock(c), out \cup {b}, B, cl)
<1>1. /\ c.unused \in 1 .. MpfCnt + 1 /\ MpfCnt \in Nat
      /\ c.frbcnt = (MpfCnt + 1 - c.unused) + Len(c.freelist)
      /\ Len(c.freelist) \in Nat /\ c.freelist \in Unrepeated(Int)
      /\ c.freelist \in Seq(Int)
  BY MempfixAssumption, Elements DEF Places, Unrepeated
<1>2. /\ ToSet(c.freelist) \cap out = {}
      /\ \A u \in B : cl[u].blf \notin ToSet(c.freelist) \cup out
      /\ \A u, v \in B : cl[u].blf = cl[v].blf => u = v
      /\ ToSet(c.freelist) \cup out \cup {cl[u].blf : u \in B} = 1 .. c.unused - 1
  BY DEF Places
<1>3. PICK d : d = TakeBlock(c)
  OBVIOUS
<1>4. CASE c.freelist # <<>>
  <2>1. PICK q : q = Tail(c.freelist)
    OBVIOUS
  <2>2. /\ b = Head(c.freelist) /\ b \in ToSet(c.freelist) /\ q \in Unrepeated(Int)
        /\ ToSet(q) = ToSet(c.freelist) \ {b}
    BY <1>1, <1>4, <2>1, TailElements DEF Taking
  <2>3. Len(q) = Len(c.freelist) - 1
    BY <1>1, <1>4, <2>1
  <2>4. d.freelist = q /\ d.unused = c.unused /\ d.frbcnt = c.frbcnt - 1
    <3>1. d = [c EXCEPT !.freelist = q, !.frbcnt = @ - 1]
      BY <1>3, <1>4, <2>1 DEF TakeBlock
    <3>. QED
      BY <3>1 DEF MPFCBType
  <2>5. d.frbcnt = (MpfCnt + 1 - d.unused) + Len(d.freelist)
    <3>1. PICK n \in Int, l \in Nat : n = c.unused /\ l = Len(c.freelist)
      BY <1>1
    <3>2. c.frbcnt = (MpfCnt + 1 - n) + l /\ Len(d.freelist) = l - 1
      BY <1>1, <2>3, <2>4, <3>1
    <3>3. d.frbcnt = ((MpfCnt + 1 - n) + l) - 1
      BY <2>4, <3>2
    <3>4. ((MpfCnt + 1 - n) + l) - 1 = (MpfCnt + 1 - n) + (l - 1)
      BY <1>1
    <3>. QED
      BY <2>4, <3>1, <3>2, <3>3, <3>4
  <2>6. /\ ToSet(d.freelist) \cap (out \cup {b}) = {}
        /\ \A u \in B : cl[u].blf \notin ToSet(d.freelist) \cup (out \cup {b})
        /\ ToSet(d.freelist) \cup (out \cup {b}) \cup {cl[u].blf : u \in B}
             = 1 .. d.unused - 1
    BY <1>2, <2>2, <2>4
  <2>7. Places(d, out \cup {b}, B, cl)
    BY <1>1, <1>2, <2>2, <2>4, <2>5, <2>6 DEF Places
  <2>8. b \in 1 .. c.unused - 1
    BY <1>2, <2>2
  <2>. QED
    BY <1>1, <1>3, <2>7, <2>8 DEF Block
<1>5. CASE c.freelist = <<>>
  <2>1. d.freelist = <<>> /\ d.unused = c.unused + 1 /\ d.frbcnt = c.frbcnt - 1
    <3>1. d = [c EXCEPT !.unused = @ + 1, !.frbcnt = @ - 1]
      BY <1>3, <1>5 DEF TakeBlock
    <3>. QED
      BY <1>5, <3>1 DEF MPFCBType
  <2>2. b = c.unused /\ Len(c.freelist) = 0 /\ c.unused <= MpfCnt
    BY <1>1, <1>5 DEF Taking
  <2>3. ToSet(c.freelist) = {} /\ b \notin 1 .. c.unused - 1
    BY <1>1, <1>5, <2>2, EmptySequence
  <2>4. /\ d.unused \in 1 .. MpfCnt + 1
        /\ d.frbcnt = (MpfCnt + 1 - d.unused) + Len(d.freelist)
    BY <1>1, <1>5, <2>1, <2>2
  <2>5. 1 .. d.unused - 1 = (1 .. c.unused - 1) \cup {b}
    BY <1>1, <2>1, <2>2
  <2>6. /\ ToSet(d.freelist) \cap (out \cup {b}) = {}
        /\ \A u \in B : cl[u].blf \notin ToSet(d.freelist) \cup (out \cup {b})
        /\ ToSet(d.freelist) \cup (out \cup {b}) \cup {cl[u].blf : u \in B}
             = 1 .. d.unused - 1
    <3>1. \A u \in B : cl[u].blf \in 1 .. c.unused - 1
      BY <1>2
    <3>. QED
      BY <1>2, <1>5, <2>1, <2>3, <2>5, <3>1
  <2>7. Places(d, out \cup {b}, B, cl)
    BY <1>1, <1>2, <1>5, <2>1, <2>4, <2>6 DEF Places
  <2>. QED
    BY <1>1, <1>3, <2>2, <2>7 DEF Block
<1>. QED
  BY <1>4, <1>5
-----------------------------------------------------------------------------
(* The invariant of the blocks: F is the list of free control blocks, M the *)
(* control blocks, cl where the tasks are, h what the application holds.    *)

\* A task at the code that takes or frees a block has looked at the pool before.
StepOK(c, M) == /\ c.at \in {"take", "free"} => c.m \in Mpf /\ M[c.m].mpfid
                /\ c.at = "take" => M[c.m].frbcnt > 0

\* A control block on the free list is not used, nor being made a pool.
Listed(F, M, cl) ==
  /\ F \in Unrepeated(Mpf)
  /\ \A m \in ToSet(F) : ~M[m].mpfid /\ \A u \in Task : ~Creating(cl[u], m)

\* A pool is made by one task, and nobody still returns blocks to the old one.
Makers(M, cl) ==
  \A u \in Task, m \in Mpf : Creating(cl[u], m) =>
    /\ ~M[m].mpfid
    /\ \A v \in Task : ~Returning(cl[v], m) /\ (Creating(cl[v], m) => u = v)

NoneOut(M, h) == \A m \in Mpf : ~M[m].mpfid => Out(h, m) = {}

AllStored(M, cl, h) ==
  \A m \in Mpf : M[m].mpfid => Places(M[m], Out(h, m), Back(cl, m), cl)

BInv(F, M, cl, h) ==
  /\ M \in [Mpf -> MPFCBType] /\ cl \in [Task -> CallType] /\ h \subseteq Mpf \X Block
  /\ \A u \in Task : StepOK(cl[u], M)
  /\ Listed(F, M, cl)
  /\ Makers(M, cl)
  /\ NoneOut(M, h)
  /\ AllStored(M, cl, h)

\* A call that neither makes a pool nor returns a block.
Settled(d) == /\ d \in CallType /\ d.at \notin {"take", "free"}
              /\ \A m \in Mpf : ~Creating(d, m) /\ ~Returning(d, m)

\* Of the tasks that take and free blocks only t is in pool m.
Alone(cl, t, m) ==
  \A u \in Task : u # t /\ cl[u].at \in {"take", "free"} => cl[u].m # m

\* One task moves.
LEMMA MovedCalls ==
  ASSUME NEW cl \in [Task -> CallType], NEW t \in Task, NEW d \in CallType,
         NEW cl2, Moves(cl, cl2, t, d)
  PROVE  /\ cl2 \in [Task -> CallType] /\ cl2[t] = d
         /\ \A u \in Task : u # t => cl2[u] = cl[u]
         /\ \A m : Back(cl2, m) = IF Returning(d, m) THEN Back(cl, m) \cup {t}
                                  ELSE Back(cl, m) \ {t}
<1>1. /\ cl2 \in [Task -> CallType] /\ cl2[t] = d
      /\ \A u \in Task : u # t => cl2[u] = cl[u]
  BY DEF Moves
<1>. QED
  BY <1>1 DEF Back

\* The application gets the block b of m.
Gains(h, h2, m, b) == h2 = h \cup {<<m, b>>}

\* That changes what it holds of m.
LEMMA OutMore ==
  ASSUME NEW h, NEW m \in Mpf, NEW b \in Block, NEW h2, Gains(h, h2, m, b)
  PROVE  /\ Out(h2, m) = Out(h, m) \cup {b}
         /\ \A n \in Mpf : n # m => Out(h2, n) = Out(h, n)
BY DEF Out, Gains

\* The application gives a block away.
LEMMA OutLess ==
  ASSUME NEW h, NEW m \in Mpf, NEW b \in Block, NEW h2, h2 = h \ {<<m, b>>}
  PROVE  /\ Out(h2, m) = Out(h, m) \ {b}
         /\ \A n \in Mpf : n # m => Out(h2, n) = Out(h, n)
BY DEF Out

\* The step changes neither what is made nor what is on its way back to a pool.
Silent(c, d, M) ==
  \A m \in Mpf : /\ Creating(d, m) => Creating(c, m)
                 /\ Returning(d, m) => Returning(c, m) /\ d.blf = c.blf
                 /\ M[m].mpfid /\ Returning(c, m) => Returning(d, m)

\* A step of one task that the blocks do not notice.
LEMMA SilentMove ==
  ASSUME NEW F, NEW M, NEW cl, NEW h, BInv(F, M, cl, h), NEW t \in Task,
         NEW d \in CallType, StepOK(d, M), Silent(cl[t], d, M),
         NEW cl2, Moves(cl, cl2, t, d)
  PROVE  BInv(F, M, cl2, h)
<1>1. /\ cl \in [Task -> CallType] /\ M \in [Mpf -> MPFCBType] /\ h \subseteq Mpf \X Block
      /\ \A u \in Task : StepOK(cl[u], M)
      /\ Listed(F, M, cl) /\ Makers(M, cl) /\ NoneOut(M, h) /\ AllStored(M, cl, h)
  BY DEF BInv
<1>2. /\ cl2 \in [Task -> CallType] /\ cl2[t] = d
      /\ \A u \in Task : u # t => cl2[u] = cl[u]
      /\ \A m : Back(cl2, m) = IF Returning(d, m) THEN Back(cl, m) \cup {t}
                               ELSE Back(cl, m) \ {t}
  BY <1>1, MovedCalls
<1>3. /\ \A u \in Task, m \in Mpf : Creating(cl2[u], m) => Creating(cl[u], m)
      /\ \A u \in Task, m \in Mpf : Returning(cl2[u], m) => Returning(cl[u], m)
  BY <1>2 DEF Silent
<1>4. Listed(F, M, cl2)
  <2>1. ToSet(F) \subseteq Mpf
    BY <1>1, Elements DEF Listed, Unrepeated
  <2>. QED
    BY <1>1, <1>3, <2>1 DEF Listed
<1>5. Makers(M, cl2)
  BY <1>1, <1>3 DEF Makers
<1>6. \A u \in Task : StepOK(cl2[u], M)
  BY <1>1, <1>2
<1>7. AllStored(M, cl2, h)
  <2>1. SUFFICES ASSUME NEW m \in Mpf, M[m].mpfid
                 PROVE  Places(M[m], Out(h, m), Back(cl2, m), cl2)
    BY DEF AllStored
  <2>2. Back(cl2, m) = Back(cl, m)
    <3>1. Returning(d, m) <=> Returning(cl[t], m)
      BY <2>1 DEF Silent
    <3>2. t \in Back(cl, m) <=> Returning(cl[t], m)
      BY DEF Back
    <3>. QED
      BY <1>2, <3>1, <3>2
  <2>3. \A u \in Back(cl, m) : cl2[u].blf = cl[u].blf
    BY <1>2, <2>2 DEF Back, Silent
  <2>4. Places(M[m], Out(h, m), Back(cl, m), cl)
    BY <1>1, <2>1 DEF AllStored
  <2>5. Places(M[m], Out(h, m), Back(cl, m), cl2)
    BY <2>3, <2>4, PlacesSame
  <2>. QED
    BY <2>2, <2>5
<1>. QED
  BY <1>1, <1>2, <1>4, <1>5, <1>6, <1>7 DEF BInv

\* The steps of one task that change the pool m: the other pools do not notice.
LEMMA OtherPools ==
  ASSUME NEW M, NEW cl \in [Task -> CallType], NEW h, AllStored(M, cl, h),
         NEW t \in Task, NEW d \in CallType, NEW cl2, Moves(cl, cl2, t, d),
         NEW m \in Mpf, NEW n \in Mpf, n # m, M[n].mpfid,
         Returning(d, n) <=> Returning(cl[t], n), Returning(d, n) => d.blf = cl[t].blf,
         NEW h2, Out(h2, n) = Out(h, n)
  PROVE  Places(M[n], Out(h2, n), Back(cl2, n), cl2)
<1>1. /\ cl2[t] = d
      /\ \A u \in Task : u # t => cl2[u] = cl[u]
      /\ Back(cl2, n) = IF Returning(d, n) THEN Back(cl, n) \cup {t} ELSE Back(cl, n) \ {t}
  BY MovedCalls
<1>2. Back(cl2, n) = Back(cl, n)
  <2>1. t \in Back(cl, n) <=> Returning(cl[t], n)
    BY DEF Back
  <2>. QED
    BY <1>1, <2>1
<1>3. \A u \in Back(cl, n) : cl2[u].blf = cl[u].blf
  BY <1>1, <1>2 DEF Back
<1>4. Places(M[n], Out(h, n), Back(cl, n), cl)
  BY DEF AllStored
<1>5. Places(M[n], Out(h, n), Back(cl, n), cl2)
  BY <1>3, <1>4, PlacesSame
<1>. QED
  BY <1>2, <1>5

\* tk_rel_mpf begins: the block b leaves the application.
LEMMA ReturnBegins ==
  ASSUME NEW F, NEW M, NEW cl, NEW h, BInv(F, M, cl, h), NEW t \in Task,
         Settled(cl[t]), NEW m \in Mpf, NEW b, <<m, b>> \in h,
         NEW d \in CallType, d.op = "rel", d.m = m, d.at \in {"lock", "locked"}, d.blf = b,
         NEW cl2, Moves(cl, cl2, t, d), NEW h2, h2 = h \ {<<m, b>>}
  PROVE  BInv(F, M, cl2, h2)
<1>1. /\ cl \in [Task -> CallType] /\ M \in [Mpf -> MPFCBType] /\ h \subseteq Mpf \X Block
      /\ \A u \in Task : StepOK(cl[u], M)
      /\ Listed(F, M, cl) /\ Makers(M, cl) /\ NoneOut(M, h) /\ AllStored(M, cl, h)
  BY DEF BInv
<1>2. /\ cl2 \in [Task -> CallType] /\ cl2[t] = d
      /\ \A u \in Task : u # t => cl2[u] = cl[u]
      /\ \A n : Back(cl2, n) = IF Returning(d, n) THEN Back(cl, n) \cup {t}
                               ELSE Back(cl, n) \ {t}
  BY <1>1, MovedCalls
<1>3. b \in Block /\ b \in Out(h, m) /\ M[m].mpfid
  BY <1>1 DEF Out, NoneOut
<1>4. /\ Out(h2, m) = Out(h, m) \ {b}
      /\ \A n \in Mpf : n # m => Out(h2, n) = Out(h, n)
  BY <1>3, OutLess
<1>5. /\ \A n \in Mpf : ~Creating(d, n) /\ ~Returning(cl[t], n)
      /\ \A n \in Mpf : Returning(d, n) <=> n = m
  BY DEF Creating, Returning, Settled
<1>6. Listed(F, M, cl2)
  <2>1. ToSet(F) \subseteq Mpf
    BY <1>1, Elements DEF Listed, Unrepeated
  <2>. QED
    BY <1>1, <1>2, <1>5, <2>1 DEF Listed
<1>7. Makers(M, cl2)
  BY <1>1, <1>2, <1>3, <1>5 DEF Makers
<1>8. \A u \in Task : StepOK(cl2[u], M)
  BY <1>1, <1>2 DEF StepOK
<1>9. NoneOut(M, h2)
  BY <1>1, <1>3, <1>4 DEF NoneOut
<1>10. Places(M[m], Out(h2, m), Back(cl2, m), cl2)
  <2>1. Places(M[m], Out(h, m), Back(cl, m), cl)
    BY <1>1, <1>3 DEF AllStored
  <2>2. t \notin Back(cl, m) /\ Back(cl2, m) = Back(cl, m) \cup {t}
    BY <1>2, <1>5 DEF Back
  <2>3. \A u \in Back(cl, m) : cl2[u].blf = cl[u].blf
    BY <1>2, <2>2 DEF Back
  <2>4. cl2[t].blf = b
    BY <1>2
  <2>5. Places(M[m], Out(h, m) \ {b}, Back(cl, m) \cup {t}, cl2)
    BY <1>3, <2>1, <2>2, <2>3, <2>4, PlacesReturn
  <2>. QED
    BY <1>4, <2>2, <2>5
<1>11. ASSUME NEW n \in Mpf, n # m, M[n].mpfid
       PROVE  Places(M[n], Out(h2, n), Back(cl2, n), cl2)
  <2>1. Out(h2, n) = Out(h, n)
    BY <1>4, <1>11
  <2>2. ~Returning(d, n) /\ ~Returning(cl[t], n)
    BY <1>5, <1>11
  <2>. QED
    BY <1>1, <1>11, <2>1, <2>2, OtherPools
<1>12. AllStored(M, cl2, h2)
  BY <1>10, <1>11 DEF AllStored
<1>13. h2 \subseteq Mpf \X Block
  BY <1>1
<1>. QED
  BY <1>1, <1>2, <1>6, <1>7, <1>8, <1>9, <1>12, <1>13 DEF BInv
\* A block that was on its way back to a pool is with the application again, because a
\* task waited for it or because the task that brought it was ended.
LEMMA HandedBack ==
  ASSUME NEW F, NEW M, NEW cl, NEW h, BInv(F, M, cl, h), NEW t \in Task, NEW m \in Mpf,
         Returning(cl[t], m), M[m].mpfid, NEW d, Settled(d), NEW cl2, Moves(cl, cl2, t, d),
         NEW b, b = cl[t].blf, NEW h2, Gains(h, h2, m, b)
  PROVE  BInv(F, M, cl2, h2)
<1>1. /\ cl \in [Task -> CallType] /\ M \in [Mpf -> MPFCBType] /\ h \subseteq Mpf \X Block
      /\ \A u \in Task : StepOK(cl[u], M)
      /\ Listed(F, M, cl) /\ Makers(M, cl) /\ NoneOut(M, h) /\ AllStored(M, cl, h)
  BY DEF BInv
<1>d. d \in CallType
  BY DEF Settled
<1>2. /\ cl2 \in [Task -> CallType] /\ cl2[t] = d
      /\ \A u \in Task : u # t => cl2[u] = cl[u]
      /\ \A n : Back(cl2, n) = IF Returning(d, n) THEN Back(cl, n) \cup {t}
                               ELSE Back(cl, n) \ {t}
  BY <1>1, <1>d, MovedCalls
<1>3. Places(M[m], Out(h, m), Back(cl, m), cl) /\ t \in Back(cl, m)
  BY <1>1 DEF AllStored, Back
<1>4. \A u \in Back(cl, m) \ {t} : cl2[u].blf = cl[u].blf
  BY <1>2 DEF Back
<1>5. b \in Block
  BY <1>3, <1>4, OthersBack
<1>6. /\ Out(h2, m) = Out(h, m) \cup {b}
      /\ \A n \in Mpf : n # m => Out(h2, n) = Out(h, n)
  BY <1>5, OutMore
<1>7. /\ \A n \in Mpf : ~Creating(d, n) /\ ~Returning(d, n)
      /\ \A n \in Mpf : Returning(cl[t], n) <=> n = m
  BY DEF Returning, Settled
<1>8. Listed(F, M, cl2)
  <2>1. ToSet(F) \subseteq Mpf
    BY <1>1, Elements DEF Listed, Unrepeated
  <2>. QED
    BY <1>1, <1>2, <1>7, <2>1 DEF Listed
<1>9. Makers(M, cl2)
  BY <1>1, <1>2, <1>7 DEF Makers
<1>10. \A u \in Task : StepOK(cl2[u], M)
  BY <1>1, <1>2 DEF StepOK, Settled
<1>11. NoneOut(M, h2)
  BY <1>1, <1>6 DEF NoneOut
<1>12. Places(M[m], Out(h2, m), Back(cl2, m), cl2)
  <2>1. Places(M[m], Out(h, m) \cup {b}, Back(cl, m) \ {t}, cl2)
    BY <1>3, <1>4, PlacesBack
  <2>2. Back(cl2, m) = Back(cl, m) \ {t}
    BY <1>2, <1>7
  <2>. QED
    BY <1>6, <2>1, <2>2
<1>13. ASSUME NEW n \in Mpf, n # m, M[n].mpfid
       PROVE  Places(M[n], Out(h2, n), Back(cl2, n), cl2)
  <2>1. Out(h2, n) = Out(h, n)
    BY <1>6, <1>13
  <2>2. ~Returning(d, n) /\ ~Returning(cl[t], n)
    BY <1>7, <1>13
  <2>. QED
    BY <1>1, <1>13, <1>d, <2>1, <2>2, OtherPools
<1>14. AllStored(M, cl2, h2)
  BY <1>12, <1>13 DEF AllStored
<1>15. h2 \subseteq Mpf \X Block
  BY <1>1, <1>5 DEF Gains
<1>. QED
  BY <1>1, <1>2, <1>8, <1>9, <1>10, <1>11, <1>14, <1>15 DEF BInv

\* The control block of m becomes r.
Replaced(M, M2, m, r) == M2 = [M EXCEPT ![m] = r]

\* The application holds the same blocks of the pools other than m.
SameElsewhere(h, h2, m) == \A n \in Mpf : n # m => Out(h2, n) = Out(h, n)

\* If a pool has the control block r, its blocks are where they belong.
Stored(r, out, B, cl) == r.mpfid => Places(r, out, B, cl)

\* The steps that change the control block of m to r: the other pools do not notice.
LEMMA OtherBlocks ==
  ASSUME NEW M \in [Mpf -> MPFCBType], NEW cl \in [Task -> CallType], NEW h,
         AllStored(M, cl, h), NEW t \in Task, NEW d, Settled(d), NEW cl2, Moves(cl, cl2, t, d),
         NEW m \in Mpf, cl[t].m = m, NEW r \in MPFCBType, NEW M2, Replaced(M, M2, m, r),
         NEW h2, SameElsewhere(h, h2, m),
         Stored(r, Out(h2, m), Back(cl, m) \ {t}, cl2)
  PROVE  AllStored(M2, cl2, h2)
<1>1. d \in CallType
  BY DEF Settled
<1>2. \A n : Back(cl2, n) = IF Returning(d, n) THEN Back(cl, n) \cup {t}
                            ELSE Back(cl, n) \ {t}
  BY <1>1, MovedCalls
<1>3. /\ \A n \in Mpf : ~Returning(d, n)
      /\ \A n \in Mpf : n # m => ~Returning(cl[t], n)
  BY DEF Returning, Settled
<1>4. M2[m] = r /\ \A n \in Mpf : n # m => M2[n] = M[n]
  BY DEF Replaced
<1>5. r.mpfid => Places(M2[m], Out(h2, m), Back(cl2, m), cl2)
  <2>1. Back(cl2, m) = Back(cl, m) \ {t}
    BY <1>2, <1>3
  <2>. QED
    BY <1>4, <2>1 DEF Stored
<1>6. ASSUME NEW n \in Mpf, n # m, M2[n].mpfid
      PROVE  Places(M2[n], Out(h2, n), Back(cl2, n), cl2)
  <2>1. Out(h2, n) = Out(h, n) /\ M[n].mpfid
    BY <1>4, <1>6 DEF SameElsewhere
  <2>2. ~Returning(d, n) /\ ~Returning(cl[t], n)
    BY <1>3, <1>6
  <2>3. Places(M[n], Out(h2, n), Back(cl2, n), cl2)
    BY <1>1, <1>6, <2>1, <2>2, OtherPools
  <2>. QED
    BY <1>4, <1>6, <2>3
<1>. QED
  BY <1>4, <1>5, <1>6 DEF AllStored

\* The tasks at the code that takes or frees blocks are in other pools.
LEMMA OtherSteps ==
  ASSUME NEW M \in [Mpf -> MPFCBType], NEW cl \in [Task -> CallType],
         \A u \in Task : StepOK(cl[u], M),
         NEW t \in Task, NEW d, Settled(d), NEW cl2, Moves(cl, cl2, t, d),
         NEW m \in Mpf, Alone(cl, t, m), NEW r \in MPFCBType,
         NEW M2, Replaced(M, M2, m, r)
  PROVE  \A u \in Task : StepOK(cl2[u], M2)
<1>1. cl2[t] = d /\ \A u \in Task : u # t => cl2[u] = cl[u]
  BY MovedCalls DEF Settled
<1>2. \A n \in Mpf : n # m => M2[n] = M[n]
  BY DEF Replaced
<1>3. StepOK(d, M2)
  BY DEF StepOK, Settled
<1>4. ASSUME NEW u \in Task, u # t
      PROVE  StepOK(cl[u], M2)
  BY <1>2, <1>4 DEF StepOK, Alone
<1>. QED
  BY <1>1, <1>3, <1>4

\* A pool that exists keeps existing: the free list and the tasks that make pools do
\* not notice.
LEMMA SameFree ==
  ASSUME NEW F, NEW M \in [Mpf -> MPFCBType], NEW cl \in [Task -> CallType], NEW h,
         Listed(F, M, cl), Makers(M, cl), NoneOut(M, h),
         NEW t \in Task, NEW d, Settled(d), NEW cl2, Moves(cl, cl2, t, d),
         NEW m \in Mpf, M[m].mpfid, NEW r \in MPFCBType, r.mpfid,
         NEW M2, Replaced(M, M2, m, r),
         NEW h2, SameElsewhere(h, h2, m)
  PROVE  Listed(F, M2, cl2) /\ Makers(M2, cl2) /\ NoneOut(M2, h2)
<1>1. cl2[t] = d /\ \A u \in Task : u # t => cl2[u] = cl[u]
  BY MovedCalls DEF Settled
<1>2. /\ M2[m] = r /\ \A n \in Mpf : n # m => M2[n] = M[n]
      /\ \A n \in Mpf : ~M[n].mpfid <=> ~M2[n].mpfid
  BY DEF Replaced
<1>3. \A n \in Mpf : ~Creating(d, n) /\ ~Returning(d, n)
  BY DEF Settled
<1>4. ToSet(F) \subseteq Mpf
  BY Elements DEF Listed, Unrepeated
<1>5. Listed(F, M2, cl2)
  BY <1>1, <1>2, <1>3, <1>4 DEF Listed
<1>6. Makers(M2, cl2)
  BY <1>1, <1>2, <1>3 DEF Makers
<1>7. NoneOut(M2, h2)
  BY <1>2 DEF NoneOut, SameElsewhere
<1>. QED
  BY <1>5, <1>6, <1>7

\* tk_get_mpf takes a block.
LEMMA BlockTaken ==
  ASSUME NEW F, NEW M, NEW cl, NEW h, BInv(F, M, cl, h), NEW t \in Task, NEW m \in Mpf,
         cl[t].m = m, cl[t].at = "take", cl[t].op = "get", Alone(cl, t, m),
         NEW d, Settled(d), NEW cl2, Moves(cl, cl2, t, d),
         NEW c, c = M[m], NEW r, r = TakeBlock(c), NEW b, b = Taking(c),
         NEW M2, Replaced(M, M2, m, r), NEW h2, Gains(h, h2, m, b)
  PROVE  BInv(F, M2, cl2, h2)
<1>1. /\ cl \in [Task -> CallType] /\ M \in [Mpf -> MPFCBType] /\ h \subseteq Mpf \X Block
      /\ \A u \in Task : StepOK(cl[u], M)
      /\ Listed(F, M, cl) /\ Makers(M, cl) /\ NoneOut(M, h) /\ AllStored(M, cl, h)
  BY DEF BInv
<1>3. M[m].mpfid /\ c.frbcnt > 0 /\ c \in MPFCBType
  BY <1>1 DEF StepOK
<1>4. r \in MPFCBType /\ r.mpfid
  <2>1. 0 \in Int
    OBVIOUS
  <2>2. r \in MPFCBType
    BY <1>3, <2>1, BlockTypes
  <2>. QED
    BY <1>3, <2>2 DEF TakeBlock, MPFCBType
<1>5. Places(c, Out(h, m), Back(cl, m), cl)
  BY <1>1, <1>3 DEF AllStored
<1>6. b \in Block /\ Places(r, Out(h, m) \cup {b}, Back(cl, m), cl)
  BY <1>3, <1>5, PlacesTake
<1>7. /\ Out(h2, m) = Out(h, m) \cup {b}
      /\ \A n \in Mpf : n # m => Out(h2, n) = Out(h, n)
  BY <1>6, OutMore
<1>8. cl2 \in [Task -> CallType] /\ \A u \in Task : u # t => cl2[u] = cl[u]
  BY <1>1, MovedCalls DEF Settled
<1>9. Places(r, Out(h2, m), Back(cl, m) \ {t}, cl2)
  <2>1. t \notin Back(cl, m)
    BY DEF Back, Returning
  <2>2. \A u \in Back(cl, m) : cl2[u].blf = cl[u].blf
    BY <1>8, <2>1 DEF Back
  <2>3. Places(r, Out(h, m) \cup {b}, Back(cl, m), cl2)
    BY <1>6, <2>2, PlacesSame
  <2>. QED
    BY <1>7, <2>1, <2>3
<1>10. M2 \in [Mpf -> MPFCBType]
  BY <1>1, <1>4 DEF Replaced
<1>11. AllStored(M2, cl2, h2)
  <2>1. M \in [Mpf -> MPFCBType] /\ cl \in [Task -> CallType] /\ AllStored(M, cl, h)
    BY <1>1
  <2>2. r \in MPFCBType
    BY <1>4
  <2>3. Stored(r, Out(h2, m), Back(cl, m) \ {t}, cl2)
    BY <1>9 DEF Stored
  <2>4. SameElsewhere(h, h2, m)
    BY <1>7 DEF SameElsewhere
  <2>. QED
    BY <2>1, <2>2, <2>3, <2>4, OtherBlocks
<1>12. \A u \in Task : StepOK(cl2[u], M2)
  <2>1. /\ M \in [Mpf -> MPFCBType] /\ cl \in [Task -> CallType]
        /\ \A u \in Task : StepOK(cl[u], M)
    BY <1>1
  <2>. QED
    BY <1>4, <2>1, OtherSteps
<1>13. Listed(F, M2, cl2) /\ Makers(M2, cl2) /\ NoneOut(M2, h2)
  <2>1. M \in [Mpf -> MPFCBType] /\ cl \in [Task -> CallType]
    BY <1>1
  <2>2. Listed(F, M, cl) /\ Makers(M, cl) /\ NoneOut(M, h)
    BY <1>1
  <2>3. SameElsewhere(h, h2, m)
    BY <1>7 DEF SameElsewhere
  <2>. QED
    BY <1>3, <1>4, <2>1, <2>2, <2>3, SameFree
<1>14. h2 \subseteq Mpf \X Block
  BY <1>1, <1>6 DEF Gains
<1>. QED
  BY <1>8, <1>10, <1>11, <1>12, <1>13, <1>14 DEF BInv

\* tk_rel_mpf frees a block.
LEMMA BlockFreed ==
  ASSUME NEW F, NEW M, NEW cl, NEW h, BInv(F, M, cl, h), NEW t \in Task, NEW m \in Mpf,
         cl[t].m = m, cl[t].at = "free", cl[t].op = "rel", Alone(cl, t, m),
         NEW d, Settled(d), NEW cl2, Moves(cl, cl2, t, d),
         NEW c, c = M[m], NEW b, b = cl[t].blf, NEW r, r = GiveBlock(c, b),
         NEW M2, Replaced(M, M2, m, r)
  PROVE  BInv(F, M2, cl2, h)
<1>1. /\ cl \in [Task -> CallType] /\ M \in [Mpf -> MPFCBType] /\ h \subseteq Mpf \X Block
      /\ \A u \in Task : StepOK(cl[u], M)
      /\ Listed(F, M, cl) /\ Makers(M, cl) /\ NoneOut(M, h) /\ AllStored(M, cl, h)
  BY DEF BInv
<1>3. M[m].mpfid /\ c \in MPFCBType /\ b \in Int
  BY <1>1 DEF StepOK, CallType
<1>4. r \in MPFCBType /\ r.mpfid
  <2>1. r \in MPFCBType
    BY <1>3, BlockTypes
  <2>. QED
    BY <1>3, <2>1 DEF GiveBlock, MPFCBType
<1>5. Places(c, Out(h, m), Back(cl, m), cl) /\ t \in Back(cl, m)
  BY <1>1, <1>3 DEF AllStored, Back, Returning
<1>6. cl2 \in [Task -> CallType] /\ \A u \in Task : u # t => cl2[u] = cl[u]
  BY <1>1, MovedCalls DEF Settled
<1>7. Places(r, Out(h, m), Back(cl, m) \ {t}, cl2)
  <2>1. \A u \in Back(cl, m) \ {t} : cl2[u].blf = cl[u].blf
    BY <1>6 DEF Back
  <2>. QED
    BY <1>3, <1>5, <2>1, PlacesGive
<1>8. SameElsewhere(h, h, m)
  BY DEF SameElsewhere
<1>9. M2 \in [Mpf -> MPFCBType]
  BY <1>1, <1>4 DEF Replaced
<1>10. AllStored(M2, cl2, h)
  <2>1. M \in [Mpf -> MPFCBType] /\ cl \in [Task -> CallType] /\ AllStored(M, cl, h)
    BY <1>1
  <2>2. r \in MPFCBType
    BY <1>4
  <2>3. Stored(r, Out(h, m), Back(cl, m) \ {t}, cl2)
    BY <1>7 DEF Stored
  <2>. QED
    BY <1>8, <2>1, <2>2, <2>3, OtherBlocks
<1>11. \A u \in Task : StepOK(cl2[u], M2)
  <2>1. /\ M \in [Mpf -> MPFCBType] /\ cl \in [Task -> CallType]
        /\ \A u \in Task : StepOK(cl[u], M)
    BY <1>1
  <2>. QED
    BY <1>4, <2>1, OtherSteps
<1>12. Listed(F, M2, cl2) /\ Makers(M2, cl2) /\ NoneOut(M2, h)
  <2>1. M \in [Mpf -> MPFCBType] /\ cl \in [Task -> CallType]
    BY <1>1
  <2>2. Listed(F, M, cl) /\ Makers(M, cl) /\ NoneOut(M, h)
    BY <1>1
  <2>. QED
    BY <1>3, <1>4, <1>8, <2>1, <2>2, SameFree
<1>. QED
  BY <1>1, <1>6, <1>9, <1>10, <1>11, <1>12 DEF BInv
\* tk_cre_mpf takes the control block at the head of the free list.
LEMMA PoolBegun ==
  ASSUME NEW F, NEW M, NEW cl, NEW h, BInv(F, M, cl, h), NEW t \in Task, Settled(cl[t]),
         NEW m, F # <<>>, m = Head(F),
         \A u \in Task : ~(cl[u].op = "rel" /\ cl[u].m = m),
         NEW d \in CallType, d.op = "cre", d.m = m, d.at = "lock",
         NEW cl2, Moves(cl, cl2, t, d), NEW F2, F2 = Tail(F)
  PROVE  BInv(F2, M, cl2, h)
<1>1. /\ cl \in [Task -> CallType] /\ M \in [Mpf -> MPFCBType] /\ h \subseteq Mpf \X Block
      /\ \A u \in Task : StepOK(cl[u], M)
      /\ Listed(F, M, cl) /\ Makers(M, cl) /\ NoneOut(M, h) /\ AllStored(M, cl, h)
  BY DEF BInv
<1>2. /\ cl2 \in [Task -> CallType] /\ cl2[t] = d
      /\ \A u \in Task : u # t => cl2[u] = cl[u]
      /\ \A n : Back(cl2, n) = IF Returning(d, n) THEN Back(cl, n) \cup {t}
                               ELSE Back(cl, n) \ {t}
  BY <1>1, MovedCalls
<1>3. /\ m \in ToSet(F) /\ F2 \in Unrepeated(Mpf) /\ ToSet(F2) = ToSet(F) \ {m}
      /\ ToSet(F) \subseteq Mpf
  BY <1>1, TailElements, Elements DEF Listed, Unrepeated
<1>4. ~M[m].mpfid /\ m \in Mpf /\ \A u \in Task : ~Creating(cl[u], m)
  BY <1>1, <1>3 DEF Listed
<1>5. /\ \A n \in Mpf : Creating(d, n) <=> n = m
      /\ \A n \in Mpf : ~Returning(d, n) /\ ~Returning(cl[t], n)
      /\ \A u \in Task : ~Returning(cl[u], m)
  BY DEF Creating, Returning, Settled
<1>6. Listed(F2, M, cl2)
  <2>1. SUFFICES ASSUME NEW n \in ToSet(F2), NEW u \in Task
                 PROVE  ~M[n].mpfid /\ ~Creating(cl2[u], n)
    BY <1>3 DEF Listed
  <2>2. n \in ToSet(F) /\ n # m /\ n \in Mpf
    BY <1>3, <2>1
  <2>. QED
    BY <1>1, <1>2, <1>5, <2>2 DEF Listed
<1>7. Makers(M, cl2)
  <2>1. SUFFICES ASSUME NEW u \in Task, NEW n \in Mpf, Creating(cl2[u], n), NEW v \in Task
                 PROVE  /\ ~M[n].mpfid /\ ~Returning(cl2[v], n)
                        /\ Creating(cl2[v], n) => u = v
    BY DEF Makers
  <2>2. CASE u = t
    <3>1. n = m
      BY <1>2, <1>5, <2>1, <2>2
    <3>. QED
      BY <1>2, <1>4, <1>5, <2>2, <3>1
  <2>3. CASE u # t
    <3>1. Creating(cl[u], n) /\ n # m
      BY <1>2, <1>4, <2>1, <2>3
    <3>. QED
      BY <1>1, <1>2, <1>5, <3>1 DEF Makers
  <2>. QED
    BY <2>2, <2>3
<1>8. \A u \in Task : StepOK(cl2[u], M)
  BY <1>1, <1>2 DEF StepOK
<1>9. AllStored(M, cl2, h)
  <2>1. SUFFICES ASSUME NEW n \in Mpf, M[n].mpfid
                 PROVE  Places(M[n], Out(h, n), Back(cl2, n), cl2)
    BY DEF AllStored
  <2>2. n # m /\ ~Returning(d, n) /\ ~Returning(cl[t], n)
    BY <1>4, <1>5, <2>1
  <2>3. Out(h, n) = Out(h, n)
    OBVIOUS
  <2>4. AllStored(M, cl, h) /\ cl \in [Task -> CallType]
    BY <1>1
  <2>. QED
    BY <1>4, <2>1, <2>2, <2>3, <2>4, OtherPools
<1>. QED
  BY <1>1, <1>2, <1>6, <1>7, <1>8, <1>9 DEF BInv

\* tk_cre_mpf makes the pool.
LEMMA PoolMade ==
  ASSUME NEW F, NEW M, NEW cl, NEW h, BInv(F, M, cl, h), NEW t \in Task, NEW m \in Mpf,
         Creating(cl[t], m), Alone(cl, t, m),
         NEW d, Settled(d), NEW cl2, Moves(cl, cl2, t, d),
         NEW r \in MPFCBType, r.mpfid, r.unused = 1, r.freelist = <<>>, r.frbcnt = MpfCnt,
         NEW M2, Replaced(M, M2, m, r)
  PROVE  BInv(F, M2, cl2, h)
<1>1. /\ cl \in [Task -> CallType] /\ M \in [Mpf -> MPFCBType] /\ h \subseteq Mpf \X Block
      /\ \A u \in Task : StepOK(cl[u], M)
      /\ Listed(F, M, cl) /\ Makers(M, cl) /\ NoneOut(M, h) /\ AllStored(M, cl, h)
  BY DEF BInv
<1>2. /\ cl2 \in [Task -> CallType] /\ cl2[t] = d
      /\ \A u \in Task : u # t => cl2[u] = cl[u]
  BY <1>1, MovedCalls DEF Settled
<1>3. /\ ~M[m].mpfid /\ Out(h, m) = {}
      /\ \A v \in Task : ~Returning(cl[v], m) /\ (Creating(cl[v], m) => v = t)
  BY <1>1 DEF Makers, NoneOut
<1>4. /\ M2[m] = r /\ M2 \in [Mpf -> MPFCBType]
      /\ \A n \in Mpf : n # m => M2[n] = M[n]
  BY <1>1 DEF Replaced
<1>5. \A n \in Mpf : ~Creating(d, n) /\ ~Returning(d, n)
  BY DEF Settled
<1>6. Listed(F, M2, cl2)
  <2>1. ToSet(F) \subseteq Mpf /\ m \notin ToSet(F)
    BY <1>1, Elements DEF Listed, Unrepeated
  <2>. QED
    BY <1>1, <1>2, <1>4, <1>5, <2>1 DEF Listed
<1>7. Makers(M2, cl2)
  <2>1. SUFFICES ASSUME NEW u \in Task, NEW n \in Mpf, Creating(cl2[u], n), NEW v \in Task
                 PROVE  /\ ~M2[n].mpfid /\ ~Returning(cl2[v], n)
                        /\ Creating(cl2[v], n) => u = v
    BY DEF Makers
  <2>2. u # t /\ Creating(cl[u], n)
    BY <1>2, <1>5, <2>1
  <2>3. n # m
    BY <1>3, <2>2
  <2>. QED
    BY <1>1, <1>2, <1>4, <1>5, <2>2, <2>3 DEF Makers
<1>8. NoneOut(M2, h)
  BY <1>1, <1>4 DEF NoneOut
<1>9. \A u \in Task : StepOK(cl2[u], M2)
  <2>1. /\ M \in [Mpf -> MPFCBType] /\ cl \in [Task -> CallType]
        /\ \A u \in Task : StepOK(cl[u], M)
    BY <1>1
  <2>. QED
    BY <2>1, OtherSteps
<1>10. AllStored(M2, cl2, h)
  <2>1. M \in [Mpf -> MPFCBType] /\ cl \in [Task -> CallType] /\ AllStored(M, cl, h)
    BY <1>1
  <2>2. cl[t].m = m
    BY DEF Creating
  <2>3. Stored(r, Out(h, m), Back(cl, m) \ {t}, cl2)
    <3>1. Back(cl, m) \ {t} = {}
      BY <1>3 DEF Back
    <3>2. Places(r, {}, {}, cl2)
      BY PlacesFresh
    <3>. QED
      BY <1>3, <3>1, <3>2 DEF Stored
  <2>4. SameElsewhere(h, h, m)
    BY DEF SameElsewhere
  <2>. QED
    BY <2>1, <2>2, <2>3, <2>4, OtherBlocks
<1>. QED
  BY <1>1, <1>2, <1>4, <1>6, <1>7, <1>8, <1>9, <1>10 DEF BInv

\* The application loses the blocks of m.
Loses(h, h2, m) == h2 = {x \in h : x[1] # m}

\* tk_del_mpf puts the control block back on the free list.
LEMMA PoolGone ==
  ASSUME NEW F, NEW M, NEW cl, NEW h, BInv(F, M, cl, h), NEW t \in Task, NEW m \in Mpf,
         cl[t].m = m, cl[t].op = "del", M[m].mpfid, Alone(cl, t, m),
         NEW d, Settled(d), NEW cl2, Moves(cl, cl2, t, d),
         NEW r \in MPFCBType, ~r.mpfid, NEW M2, Replaced(M, M2, m, r),
         NEW F2, F2 = Append(F, m), NEW h2, Loses(h, h2, m)
  PROVE  BInv(F2, M2, cl2, h2)
<1>1. /\ cl \in [Task -> CallType] /\ M \in [Mpf -> MPFCBType] /\ h \subseteq Mpf \X Block
      /\ \A u \in Task : StepOK(cl[u], M)
      /\ Listed(F, M, cl) /\ Makers(M, cl) /\ NoneOut(M, h) /\ AllStored(M, cl, h)
  BY DEF BInv
<1>2. /\ cl2 \in [Task -> CallType] /\ cl2[t] = d
      /\ \A u \in Task : u # t => cl2[u] = cl[u]
  BY <1>1, MovedCalls DEF Settled
<1>3. \A u \in Task : ~Creating(cl[u], m)
  BY <1>1 DEF Makers
<1>4. /\ M2[m] = r /\ M2 \in [Mpf -> MPFCBType]
      /\ \A n \in Mpf : n # m => M2[n] = M[n]
  BY <1>1 DEF Replaced
<1>5. \A n \in Mpf : ~Creating(d, n) /\ ~Returning(d, n)
  BY DEF Settled
<1>6. /\ Out(h2, m) = {} /\ h2 \subseteq Mpf \X Block
      /\ \A n \in Mpf : n # m => Out(h2, n) = Out(h, n)
  BY <1>1 DEF Out, Loses
<1>7. Listed(F2, M2, cl2)
  <2>1. ToSet(F) \subseteq Mpf /\ m \notin ToSet(F) /\ F \in Unrepeated(Mpf)
    BY <1>1, Elements DEF Listed, Unrepeated
  <2>2. F2 \in Unrepeated(Mpf) /\ ToSet(F2) = ToSet(F) \cup {m}
    BY <2>1, Appended
  <2>3. SUFFICES ASSUME NEW n \in ToSet(F2), NEW u \in Task
                 PROVE  ~M2[n].mpfid /\ ~Creating(cl2[u], n)
    BY <2>2 DEF Listed
  <2>4. CASE n = m
    BY <1>2, <1>3, <1>4, <1>5, <2>4
  <2>5. CASE n # m
    <3>1. n \in ToSet(F) /\ n \in Mpf
      BY <2>1, <2>2, <2>3, <2>5
    <3>. QED
      BY <1>1, <1>2, <1>4, <1>5, <2>5, <3>1 DEF Listed
  <2>. QED
    BY <2>4, <2>5
<1>8. Makers(M2, cl2)
  <2>1. SUFFICES ASSUME NEW u \in Task, NEW n \in Mpf, Creating(cl2[u], n), NEW v \in Task
                 PROVE  /\ ~M2[n].mpfid /\ ~Returning(cl2[v], n)
                        /\ Creating(cl2[v], n) => u = v
    BY DEF Makers
  <2>2. u # t /\ Creating(cl[u], n)
    BY <1>2, <1>5, <2>1
  <2>3. n # m
    BY <1>3, <2>2
  <2>. QED
    BY <1>1, <1>2, <1>4, <1>5, <2>2, <2>3 DEF Makers
<1>9. NoneOut(M2, h2)
  BY <1>1, <1>4, <1>6 DEF NoneOut
<1>10. \A u \in Task : StepOK(cl2[u], M2)
  <2>1. /\ M \in [Mpf -> MPFCBType] /\ cl \in [Task -> CallType]
        /\ \A u \in Task : StepOK(cl[u], M)
    BY <1>1
  <2>. QED
    BY <2>1, OtherSteps
<1>11. AllStored(M2, cl2, h2)
  <2>1. M \in [Mpf -> MPFCBType] /\ cl \in [Task -> CallType] /\ AllStored(M, cl, h)
    BY <1>1
  <2>2. Stored(r, Out(h2, m), Back(cl, m) \ {t}, cl2)
    BY DEF Stored
  <2>3. SameElsewhere(h, h2, m)
    BY <1>6 DEF SameElsewhere
  <2>. QED
    BY <2>1, <2>2, <2>3, OtherBlocks
<1>. QED
  BY <1>2, <1>4, <1>6, <1>7, <1>8, <1>9, <1>10, <1>11 DEF BInv
-----------------------------------------------------------------------------
(* Every step keeps the blocks.                                             *)

BlockInv == BInv(objcb.free, objcb.mpf, call, held)

\* The task under the lock is alone in the code of the pool.
LEMMA AloneUnderLock ==
  ASSUME MInv, in_task, Under(call[ctxtsk])
  PROVE  Alone(call, ctxtsk, call[ctxtsk].m)
<1>1. ctxtsk \in Task /\ tcb[ctxtsk].klocked
  BY Holding
<1>2. OneHolder(Kernel, call) /\ Kernel.tcb = tcb
  BY Parts, Fields DEF Locks
<1>3. \A u \in Task : call[u].at \in {"take", "free"} => tcb[u].klocked
  BY Parts DEF TaskLocks, Under
<1>. QED
  BY <1>1, <1>2, <1>3 DEF Alone, OneHolder

\* Calls that are over, or about to give the lock back.
LEMMA SettledCalls ==
  /\ Settled(idle)
  /\ \A c \in CallType : Settled(At(c, "unlock"))
  /\ \A m \in Mpf, tm \in TMO, x \in BOOLEAN, op \in {"del", "get"} :
       Settled(AtLock(Begun(op, m, tm, 0), x))
<1>1. Settled(idle)
  <2>1. idle.op = "none" /\ idle.at = "none"
    BY DEF idle
  <2>. QED
    BY <2>1, LockNames DEF Settled, Creating, Returning
<1>2. ASSUME NEW c \in CallType
      PROVE  Settled(At(c, "unlock"))
  <2>1. PICK d : d = At(c, "unlock")
    OBVIOUS
  <2>2. d \in CallType /\ d.at = "unlock"
    BY <2>1 DEF At, CallType
  <2>3. Settled(d)
    BY <2>2 DEF Settled, Creating, Returning
  <2>. QED
    BY <2>1, <2>3
<1>3. ASSUME NEW m \in Mpf, NEW tm \in TMO, NEW x \in BOOLEAN, NEW op \in {"del", "get"}
      PROVE  Settled(AtLock(Begun(op, m, tm, 0), x))
  <2>1. PICK c, a : c = Begun(op, m, tm, 0) /\ a = IF x THEN "locked" ELSE "lock"
    OBVIOUS
  <2>2. c \in CallType /\ c.op = op /\ c.m = m
    BY <2>1 DEF Begun, CallType
  <2>3. PICK d : d = At(c, a)
    OBVIOUS
  <2>4. d \in CallType /\ d.at = a /\ d.op = op
    BY <2>1, <2>2, <2>3 DEF At, CallType
  <2>5. Settled(d)
    BY <2>1, <2>4 DEF Settled, Creating, Returning
  <2>. QED
    BY <2>1, <2>3, <2>5 DEF AtLock
<1>. QED
  BY <1>1, <1>2, <1>3

\* The task that runs goes on in its call.
LEMMA GotoMoves ==
  ASSUME MInv, ctxtsk \in Task, NEW a, Goto(a)
  PROVE  Moves(call, call', ctxtsk, At(call[ctxtsk], a))
<1>1. call \in [Task -> CallType]
  BY Parts
<1>. QED
  BY <1>1 DEF Goto, Moves, At

\* The variables as the invariant takes them.
LEMMA SameBlocks ==
  ASSUME BlockInv, SamePools, call' = call, held' = held
  PROVE  BlockInv'
<1>1. PICK F, M, cl, h : F = objcb.free /\ M = objcb.mpf /\ cl = call /\ h = held
  OBVIOUS
<1>2. BInv(F, M, cl, h)
  BY <1>1 DEF BlockInv
<1>3. objcb'.free = F /\ objcb'.mpf = M /\ call' = cl /\ held' = h
  BY <1>1 DEF SamePools
<1>. QED
  BY <1>2, <1>3 DEF BlockInv

\* A step of the task t that the blocks do not notice.
LEMMA SilentStep ==
  ASSUME BlockInv, SamePools, held' = held, NEW t \in Task, NEW d \in CallType,
         StepOK(d, objcb.mpf), Silent(call[t], d, objcb.mpf), Moves(call, call', t, d)
  PROVE  BlockInv'
<1>1. PICK F, M, cl, h, cl2 :
        F = objcb.free /\ M = objcb.mpf /\ cl = call /\ h = held /\ cl2 = call'
  OBVIOUS
<1>2. BInv(F, M, cl, h) /\ StepOK(d, M) /\ Silent(cl[t], d, M) /\ Moves(cl, cl2, t, d)
  BY <1>1 DEF BlockInv
<1>3. BInv(F, M, cl2, h)
  BY <1>2, SilentMove
<1>4. objcb'.free = F /\ objcb'.mpf = M /\ call' = cl2 /\ held' = h
  BY <1>1 DEF SamePools
<1>. QED
  BY <1>3, <1>4 DEF BlockInv

\* A call that neither makes a pool nor returns a block goes on likewise.
LEMMA SettledSilent ==
  ASSUME NEW c, NEW d, NEW M, \A m \in Mpf : ~Returning(c, m) \/ ~M[m].mpfid, Settled(d)
  PROVE  Silent(c, d, M) /\ StepOK(d, M) /\ d \in CallType
BY DEF Silent, Settled, StepOK

\* LockOBJ again
LEMMA LockRetryBlocks ==
  ASSUME MInv, BlockInv, LockRetry
  PROVE  BlockInv'
<1>1. in_task /\ call[ctxtsk].at = "lock" /\ held' = held
  BY DEF LockRetry
<1>2. SamePools /\ \E b \in BOOLEAN : call' = [call EXCEPT ![ctxtsk] = AtLock(@, b)]
  BY LockRetryStep
<1>3. PICK t \in Task : t = ctxtsk
  BY <1>1, OnCpu
<1>4. call \in [Task -> CallType] /\ TaskLocks(call[t], tcb[t], objcb.locked)
  BY Parts
<1>5. PICK c \in CallType : c = call[t]
  BY <1>4
<1>6. PICK b \in BOOLEAN : call' = [call EXCEPT ![t] = AtLock(c, b)]
  BY <1>2, <1>3, <1>4, <1>5
<1>7. PICK a \in {"lock", "locked"} : AtLock(c, b) = At(c, a)
  BY DEF AtLock
<1>8. PICK d : d = At(c, a)
  OBVIOUS
<1>9. d \in CallType /\ d.at = a /\ d.m = c.m /\ d.op = c.op /\ d.blf = c.blf
  BY <1>8 DEF At, CallType
<1>10. Silent(c, d, objcb.mpf) /\ StepOK(d, objcb.mpf)
  BY <1>1, <1>3, <1>5, <1>9 DEF Silent, StepOK, Creating, Returning
<1>11. Moves(call, call', t, d)
  BY <1>6, <1>7, <1>8 DEF Moves
<1>. QED
  BY <1>1, <1>2, <1>5, <1>9, <1>10, <1>11, SilentStep

\* The end of a call
LEMMA UnlockBlocks ==
  ASSUME MInv, BlockInv, Unlock
  PROVE  BlockInv'
<1>1. /\ in_task /\ call[ctxtsk].at = "unlock" /\ held' = held
      /\ call' = [call EXCEPT ![ctxtsk] = idle]
  BY DEF Unlock
<1>2. SamePools
  BY UnlockStep
<1>3. PICK t \in Task : t = ctxtsk
  BY <1>1, OnCpu
<1>4. Silent(call[t], idle, objcb.mpf) /\ StepOK(idle, objcb.mpf) /\ idle \in CallType
  BY <1>1, <1>3, SettledCalls, SettledSilent DEF Returning
<1>5. Moves(call, call', t, idle)
  BY <1>1, <1>3 DEF Moves
<1>. QED
  BY <1>1, <1>2, <1>4, <1>5, SilentStep

\* tk_del_mpf and tk_get_mpf begin.
LEMMA EntryBlocks ==
  ASSUME MInv, BlockInv, CHECK_DISPATCH, call[ctxtsk] = idle, held' = held,
         NEW op \in {"del", "get"}, NEW m \in Mpf, NEW tm \in TMO,
         LockStep(Begun(op, m, tm, 0))
  PROVE  BlockInv'
<1>1. op \in {"del", "get", "rel"} /\ 0 \in Int
  OBVIOUS
<1>2. /\ SamePools /\ ctxtsk \in Task
      /\ \E x \in BOOLEAN : call' = [call EXCEPT ![ctxtsk] = AtLock(Begun(op, m, tm, 0), x)]
  <2>1. /\ MInv' /\ SamePools /\ ctxtsk \in Task
        /\ \E x \in BOOLEAN : call' = [call EXCEPT ![ctxtsk] = AtLock(Begun(op, m, tm, 0), x)]
    BY <1>1, EntryStep
  <2>. QED
    BY <2>1
<1>3. PICK x \in BOOLEAN : call' = [call EXCEPT ![ctxtsk] = AtLock(Begun(op, m, tm, 0), x)]
  BY <1>2
<1>4. PICK t, d : t \in Task /\ t = ctxtsk /\ d = AtLock(Begun(op, m, tm, 0), x)
  BY <1>2
<1>5. Settled(d) /\ \A n \in Mpf : ~Returning(call[t], n)
  BY <1>4, SettledCalls DEF Settled
<1>6. Silent(call[t], d, objcb.mpf) /\ StepOK(d, objcb.mpf) /\ d \in CallType
  BY <1>5, SettledSilent
<1>7. Moves(call, call', t, d)
  BY <1>3, <1>4 DEF Moves
<1>. QED
  BY <1>2, <1>4, <1>6, <1>7, SilentStep

\* tk_rel_mpf begins.
LEMMA ReturnEntryBlocks ==
  ASSUME MInv, BlockInv, CHECK_DISPATCH, call[ctxtsk] = idle, NEW m \in Mpf, NEW b \in Int,
         <<m, b>> \in held, held' = held \ {<<m, b>>},
         LockStep(Begun("rel", m, "TMO_POL", b))
  PROVE  BlockInv'
<1>1. "rel" \in {"del", "get", "rel"} /\ "TMO_POL" \in TMO
  BY DEF TMO
<1>2. /\ MInv' /\ SamePools /\ ctxtsk \in Task
      /\ \E x \in BOOLEAN :
           call' = [call EXCEPT ![ctxtsk] = AtLock(Begun("rel", m, "TMO_POL", b), x)]
  BY <1>1, EntryStep
<1>3. PICK x \in BOOLEAN :
        call' = [call EXCEPT ![ctxtsk] = AtLock(Begun("rel", m, "TMO_POL", b), x)]
  BY <1>2
<1>4. PICK c, a : c = Begun("rel", m, "TMO_POL", b) /\ a = IF x THEN "locked" ELSE "lock"
  OBVIOUS
<1>5. PICK t, d : t \in Task /\ t = ctxtsk /\ d = At(c, a)
  BY <1>2
<1>6. c \in CallType /\ c.op = "rel" /\ c.m = m /\ c.blf = b /\ a \in {"lock", "locked"}
  BY <1>1, <1>4 DEF Begun, CallType
<1>7. d \in CallType /\ d.op = "rel" /\ d.m = m /\ d.at \in {"lock", "locked"} /\ d.blf = b
  BY <1>5, <1>6 DEF At, CallType
<1>8. PICK F, M, cl, h, cl2, h2 :
        /\ F = objcb.free /\ M = objcb.mpf /\ cl = call /\ h = held
        /\ cl2 = call' /\ h2 = held'
  OBVIOUS
<1>9. BInv(F, M, cl, h) /\ Settled(cl[t])
  BY <1>5, <1>8, SettledCalls DEF BlockInv
<1>10. Moves(cl, cl2, t, d)
  BY <1>3, <1>4, <1>5, <1>8 DEF Moves, AtLock
<1>11. <<m, b>> \in h /\ h2 = h \ {<<m, b>>}
  BY <1>8
<1>12. BInv(F, M, cl2, h2)
  BY <1>5, <1>7, <1>9, <1>10, <1>11, ReturnBegins
<1>13. objcb'.free = F /\ objcb'.mpf = M /\ call' = cl2 /\ held' = h2
  BY <1>2, <1>8 DEF SamePools
<1>. QED
  BY <1>12, <1>13 DEF BlockInv
\* tk_cre_mpf begins.
LEMMA CreateBlocks ==
  ASSUME MInv, BlockInv, NEW tpri \in BOOLEAN, tk_cre_mpf(tpri)
  PROVE  BlockInv'
<1>1. /\ objcb'.free = Tail(objcb.free) /\ objcb'.mpf = objcb.mpf
      /\ ctxtsk \in Task /\ objcb.free # <<>> /\ Head(objcb.free) \in Mpf
  BY CreateStep
<1>2. PICK t \in Task, m \in Mpf : t = ctxtsk /\ m = Head(objcb.free)
  BY <1>1
<1>3. PICK d : d = [idle EXCEPT !.op = "cre", !.at = "lock", !.m = m, !.tpri = tpri]
  OBVIOUS
<1>4. d \in CallType /\ d.op = "cre" /\ d.m = m /\ d.at = "lock"
  BY <1>3, LockNames DEF CallType
<1>5. PICK F, M, cl, h, cl2, F2 :
        /\ F = objcb.free /\ M = objcb.mpf /\ cl = call /\ h = held
        /\ cl2 = call' /\ F2 = objcb'.free
  OBVIOUS
<1>6. /\ call[ctxtsk] = idle /\ held' = held
      /\ \A u \in Task : ~(call[u].op = "rel" /\ call[u].m = m)
      /\ call' = [call EXCEPT ![ctxtsk] = d]
  BY <1>2, <1>3 DEF tk_cre_mpf
<1>7. BInv(F, M, cl, h)
  BY <1>5 DEF BlockInv
<1>8. Settled(cl[t])
  BY <1>2, <1>5, <1>6, SettledCalls
<1>9. F # <<>> /\ m = Head(F) /\ F2 = Tail(F)
  BY <1>1, <1>2, <1>5
<1>10. \A u \in Task : ~(cl[u].op = "rel" /\ cl[u].m = m)
  BY <1>5, <1>6
<1>11. Moves(cl, cl2, t, d)
  BY <1>2, <1>5, <1>6 DEF Moves
<1>12. BInv(F2, M, cl2, h)
  BY <1>4, <1>7, <1>8, <1>9, <1>10, <1>11, PoolBegun
<1>13. objcb'.free = F2 /\ objcb'.mpf = M /\ call' = cl2 /\ held' = h
  BY <1>1, <1>5, <1>6
<1>. QED
  BY <1>12, <1>13 DEF BlockInv

\* The pool is complete.
LEMMA CreatedBlocks ==
  ASSUME MInv, BlockInv, cre_locked
  PROVE  BlockInv'
<1>1. /\ in_task /\ call[ctxtsk].op = "cre" /\ call[ctxtsk].at = "locked"
      /\ Goto("unlock") /\ held' = held
  BY DEF cre_locked, running
<1>2. /\ objcb'.free = objcb.free /\ ctxtsk \in Task /\ call[ctxtsk].m \in Mpf
      /\ objcb'.mpf = [objcb.mpf EXCEPT ![call[ctxtsk].m] =
                         [mpfid |-> TRUE, tpri |-> call[ctxtsk].tpri, frbcnt |-> MpfCnt,
                          unused |-> 1, freelist |-> <<>>]]
  BY CreatedStep
<1>3. call \in [Task -> CallType]
  BY Parts
<1>4. PICK t \in Task, m \in Mpf : t = ctxtsk /\ m = call[ctxtsk].m
  BY <1>2
<1>5. PICK c \in CallType : c = call[t]
  BY <1>3
<1>6. PICK d, r : /\ d = At(c, "unlock")
                  /\ r = [mpfid |-> TRUE, tpri |-> c.tpri, frbcnt |-> MpfCnt,
                          unused |-> 1, freelist |-> <<>>]
  OBVIOUS
<1>7. Settled(d)
  BY <1>6, SettledCalls
<1>8. r \in MPFCBType /\ r.mpfid /\ r.unused = 1 /\ r.freelist = <<>> /\ r.frbcnt = MpfCnt
  BY <1>6, MempfixAssumption DEF MPFCBType, CallType
<1>9. PICK F, M, cl, h, cl2, M2 :
        /\ F = objcb.free /\ M = objcb.mpf /\ cl = call /\ h = held
        /\ cl2 = call' /\ M2 = objcb'.mpf
  OBVIOUS
<1>10. BInv(F, M, cl, h)
  BY <1>9 DEF BlockInv
<1>11. Creating(cl[t], m)
  BY <1>1, <1>4, <1>9 DEF Creating
<1>12. Alone(cl, t, m)
  <2>1. Alone(call, ctxtsk, call[ctxtsk].m)
    BY <1>1, AloneUnderLock DEF Under
  <2>. QED
    BY <1>4, <1>9, <2>1
<1>13. Moves(cl, cl2, t, d)
  <2>1. Moves(call, call', ctxtsk, At(call[ctxtsk], "unlock"))
    BY <1>1, <1>2, GotoMoves
  <2>. QED
    BY <1>4, <1>5, <1>6, <1>9, <2>1
<1>14. Replaced(M, M2, m, r)
  BY <1>2, <1>4, <1>5, <1>6, <1>9 DEF Replaced
<1>15. BInv(F, M2, cl2, h)
  BY <1>7, <1>8, <1>10, <1>11, <1>12, <1>13, <1>14, PoolMade
<1>16. objcb'.free = F /\ objcb'.mpf = M2 /\ call' = cl2 /\ held' = h
  BY <1>1, <1>2, <1>9
<1>. QED
  BY <1>15, <1>16 DEF BlockInv

\* A task that gives its lock back next, or has done so.
LEMMA EndsSettled ==
  ASSUME MInv, ctxtsk \in Task,
         \/ call' = [call EXCEPT ![ctxtsk] = At(@, "unlock")]
         \/ call' = [call EXCEPT ![ctxtsk] = idle]
  PROVE  \E d : Settled(d) /\ Moves(call, call', ctxtsk, d)
<1>1. call[ctxtsk] \in CallType
  BY Parts
<1>2. CASE call' = [call EXCEPT ![ctxtsk] = At(@, "unlock")]
  <2>1. PICK d : d = At(call[ctxtsk], "unlock")
    OBVIOUS
  <2>2. Settled(d)
    BY <1>1, <2>1, SettledCalls
  <2>3. Moves(call, call', ctxtsk, d)
    BY <1>2, <2>1 DEF Moves
  <2>. QED
    BY <2>2, <2>3
<1>3. CASE call' = [call EXCEPT ![ctxtsk] = idle]
  <2>1. Settled(idle)
    BY SettledCalls
  <2>2. Moves(call, call', ctxtsk, idle)
    BY <1>3 DEF Moves
  <2>. QED
    BY <2>1, <2>2
<1>. QED
  BY <1>2, <1>3

\* A pool and its blocks are gone.
LEMMA DeletedBlocks ==
  ASSUME MInv, BlockInv, del_locked
  PROVE  BlockInv'
<1>1. /\ in_task /\ call[ctxtsk].op = "del" /\ call[ctxtsk].at = "locked"
  BY DEF del_locked, running
<1>2. /\ ctxtsk \in Task /\ call[ctxtsk].m \in Mpf
      /\ ~objcb.mpf[call[ctxtsk].m].mpfid => SamePools
      /\ objcb.mpf[call[ctxtsk].m].mpfid =>
           /\ objcb'.free = Append(objcb.free, call[ctxtsk].m)
           /\ objcb'.mpf = [objcb.mpf EXCEPT ![call[ctxtsk].m] = free_mpfcb]
           /\ \/ call' = [call EXCEPT ![ctxtsk] = At(@, "unlock")]
              \/ call' = [call EXCEPT ![ctxtsk] = idle]
  BY DeletedStep
<1>3. PICK t \in Task, m \in Mpf : t = ctxtsk /\ m = call[ctxtsk].m
  BY <1>2
<1>4. CASE ~objcb.mpf[m].mpfid
  <2>1. Goto("unlock") /\ held' = held
    BY <1>3, <1>4 DEF del_locked, mpfcb
  <2>2. PICK d : d = At(call[ctxtsk], "unlock")
    OBVIOUS
  <2>3. Settled(d)
    BY <1>2, <2>2, Parts, SettledCalls
  <2>4. \A n \in Mpf : ~Returning(call[t], n) \/ ~objcb.mpf[n].mpfid
    BY <1>1, <1>3 DEF Returning
  <2>5. Silent(call[t], d, objcb.mpf) /\ StepOK(d, objcb.mpf) /\ d \in CallType
    BY <2>3, <2>4, SettledSilent
  <2>6. Moves(call, call', t, d)
    BY <1>2, <1>3, <2>1, <2>2, GotoMoves
  <2>7. SamePools
    BY <1>2, <1>3, <1>4
  <2>. QED
    BY <2>1, <2>5, <2>6, <2>7, SilentStep
<1>5. CASE objcb.mpf[m].mpfid
  <2>1. PICK d : Settled(d) /\ Moves(call, call', ctxtsk, d)
    BY <1>2, <1>3, <1>5, EndsSettled
  <2>2. PICK F, M, cl, h, cl2, M2, F2, h2 :
          /\ F = objcb.free /\ M = objcb.mpf /\ cl = call /\ h = held
          /\ cl2 = call' /\ M2 = objcb'.mpf /\ F2 = objcb'.free /\ h2 = held'
    OBVIOUS
  <2>3. PICK r : r = free_mpfcb
    OBVIOUS
  <2>4. r \in MPFCBType /\ ~r.mpfid
    BY <2>3 DEF free_mpfcb, MPFCBType
  <2>5. BInv(F, M, cl, h)
    BY <2>2 DEF BlockInv
  <2>6. cl[t].m = m /\ cl[t].op = "del" /\ M[m].mpfid
    BY <1>1, <1>3, <1>5, <2>2
  <2>7. Alone(cl, t, m)
    <3>1. Alone(call, ctxtsk, call[ctxtsk].m)
      BY <1>1, AloneUnderLock DEF Under
    <3>. QED
      BY <1>3, <2>2, <3>1
  <2>8. Moves(cl, cl2, t, d) /\ Settled(d)
    BY <1>3, <2>1, <2>2
  <2>9. Replaced(M, M2, m, r)
    BY <1>2, <1>3, <1>5, <2>2, <2>3 DEF Replaced
  <2>10. F2 = Append(F, m)
    BY <1>2, <1>3, <1>5, <2>2
  <2>11. Loses(h, h2, m)
    BY <1>3, <1>5, <2>2 DEF del_locked, mpfcb, Loses
  <2>12. BInv(F2, M2, cl2, h2)
    BY <2>4, <2>5, <2>6, <2>7, <2>8, <2>9, <2>10, <2>11, PoolGone
  <2>. QED
    BY <2>2, <2>12 DEF BlockInv
<1>. QED
  BY <1>4, <1>5
\* A call goes on at the place a.
LEMMA CallPlace ==
  ASSUME MInv, in_task, NEW a \in {"locked", "take", "wait", "free", "unlock"}, Goto(a)
  PROVE  /\ ctxtsk \in Task /\ call[ctxtsk] \in CallType
         /\ At(call[ctxtsk], a) \in CallType
         /\ At(call[ctxtsk], a).at = a
         /\ At(call[ctxtsk], a).m = call[ctxtsk].m
         /\ At(call[ctxtsk], a).op = call[ctxtsk].op
         /\ At(call[ctxtsk], a).blf = call[ctxtsk].blf
         /\ Moves(call, call', ctxtsk, At(call[ctxtsk], a))
<1>1. ctxtsk \in Task
  BY OnCpu
<1>2. call[ctxtsk] \in CallType
  BY <1>1, Parts
<1>3. PICK c \in CallType : c = call[ctxtsk]
  BY <1>2
<1>4. /\ At(c, a) \in CallType /\ At(c, a).at = a /\ At(c, a).m = c.m
      /\ At(c, a).op = c.op /\ At(c, a).blf = c.blf
  BY DEF At, CallType
<1>5. Moves(call, call', ctxtsk, At(call[ctxtsk], a))
  BY <1>1, GotoMoves
<1>. QED
  BY <1>1, <1>2, <1>3, <1>4, <1>5

\* tk_get_mpf looks for a block: it goes on to take one only if there is one.
LEMMA GetBlocks ==
  ASSUME MInv, BlockInv, get_locked
  PROVE  BlockInv'
<1>1. /\ in_task /\ call[ctxtsk].op = "get" /\ call[ctxtsk].at = "locked" /\ held' = held
  BY DEF get_locked, running
<1>2. SamePools
  BY GetStep
<1>3. PICK m : m = call[ctxtsk].m
  OBVIOUS
<1>4. m \in Mpf /\ objcb \in ObjType
  BY <1>1, <1>3, Holding, Parts DEF Under
<1>5. objcb.mpf[m].frbcnt \in Int /\ objcb.mpf[m].mpfid \in BOOLEAN
  BY <1>4 DEF ObjType, MPFCBType
<1>6. PICK a \in {"locked", "take", "wait", "free", "unlock"} :
        /\ Goto(a) /\ a \in {"unlock", "wait", "take"}
        /\ a = "take" => objcb.mpf[m].mpfid /\ objcb.mpf[m].frbcnt > 0
  <2>1. CASE ~objcb.mpf[m].mpfid \/ is_diswai(Kernel, ctxtsk, {"MPF"}, FALSE)
    <3>1. Goto("unlock")
      BY <1>3, <2>1 DEF get_locked, mpfcb
    <3>. QED
      BY <3>1
  <2>2. CASE ~(~objcb.mpf[m].mpfid \/ is_diswai(Kernel, ctxtsk, {"MPF"}, FALSE))
    <3>1. Goto(IF objcb.mpf[m].frbcnt <= 0 THEN "wait" ELSE "take")
      BY <1>3, <2>2 DEF get_locked, mpfcb
    <3>2. CASE objcb.mpf[m].frbcnt <= 0
      BY <3>1, <3>2
    <3>3. CASE ~(objcb.mpf[m].frbcnt <= 0)
      <4>1. objcb.mpf[m].frbcnt > 0
        BY <1>5, <3>3
      <4>2. Goto("take")
        BY <3>1, <3>3
      <4>. QED
        BY <2>2, <4>1, <4>2
    <3>. QED
      BY <3>2, <3>3
  <2>. QED
    BY <2>1, <2>2
<1>7. PICK d : d = At(call[ctxtsk], a)
  OBVIOUS
<1>8. /\ ctxtsk \in Task /\ call[ctxtsk] \in CallType /\ d \in CallType
      /\ d.at = a /\ d.m = call[ctxtsk].m /\ d.op = call[ctxtsk].op
      /\ d.blf = call[ctxtsk].blf
      /\ Moves(call, call', ctxtsk, d)
  BY <1>1, <1>6, <1>7, CallPlace
<1>9. PICK t \in Task : t = ctxtsk
  BY <1>8
<1>10. StepOK(d, objcb.mpf)
  BY <1>3, <1>4, <1>6, <1>8 DEF StepOK
<1>11. Silent(call[t], d, objcb.mpf)
  BY <1>1, <1>8, <1>9 DEF Silent, Creating, Returning
<1>12. Moves(call, call', t, d)
  BY <1>8, <1>9
<1>. QED
  BY <1>1, <1>2, <1>8, <1>10, <1>11, <1>12, SilentStep

\* tk_get_mpf takes a block.
LEMMA TakeBlocks ==
  ASSUME MInv, BlockInv, get_take
  PROVE  BlockInv'
<1>1. /\ in_task /\ call[ctxtsk].op = "get" /\ call[ctxtsk].at = "take" /\ Goto("unlock")
  BY Zenon DEF get_take, running
<1>2. /\ objcb'.free = objcb.free /\ ctxtsk \in Task /\ call[ctxtsk].m \in Mpf
      /\ objcb'.mpf = [objcb.mpf EXCEPT ![call[ctxtsk].m] =
                         TakeBlock(objcb.mpf[call[ctxtsk].m])]
  BY TakeStep
<1>3. PICK t \in Task, m \in Mpf : t = ctxtsk /\ m = call[ctxtsk].m
  BY <1>2
<1>4. PICK d : d = At(call[ctxtsk], "unlock")
  OBVIOUS
<1>5. Settled(d)
  BY <1>2, <1>4, Parts, SettledCalls
<1>6. PICK F, M, cl, h, cl2, M2, h2 :
        /\ F = objcb.free /\ M = objcb.mpf /\ cl = call /\ h = held
        /\ cl2 = call' /\ M2 = objcb'.mpf /\ h2 = held'
  OBVIOUS
<1>7. PICK c, r, b : c = M[m] /\ r = TakeBlock(c) /\ b = Taking(c)
  OBVIOUS
<1>8. BInv(F, M, cl, h)
  BY <1>6 DEF BlockInv
<1>9. cl[t].m = m /\ cl[t].at = "take" /\ cl[t].op = "get"
  BY <1>1, <1>3, <1>6
<1>10. Alone(cl, t, m)
  <2>1. Alone(call, ctxtsk, call[ctxtsk].m)
    BY <1>1, AloneUnderLock DEF Under
  <2>. QED
    BY <1>3, <1>6, <2>1
<1>11. Moves(cl, cl2, t, d)
  <2>1. Moves(call, call', ctxtsk, At(call[ctxtsk], "unlock"))
    BY <1>1, <1>2, GotoMoves
  <2>. QED
    BY <1>3, <1>4, <1>6, <2>1
<1>12. Replaced(M, M2, m, r)
  BY <1>2, <1>3, <1>6, <1>7 DEF Replaced
<1>13. Gains(h, h2, m, b)
  BY <1>3, <1>6, <1>7, Zenon DEF get_take, mpfcb, Gains, Taking
<1>14. BInv(F, M2, cl2, h2)
  BY <1>5, <1>7, <1>8, <1>9, <1>10, <1>11, <1>12, <1>13, BlockTaken
<1>15. objcb'.free = F /\ objcb'.mpf = M2 /\ call' = cl2 /\ held' = h2
  BY <1>2, <1>6
<1>. QED
  BY <1>14, <1>15 DEF BlockInv

\* tk_get_mpf begins to wait.
LEMMA WaitBlocks ==
  ASSUME MInv, BlockInv, get_wait
  PROVE  BlockInv'
<1>1. /\ in_task /\ call[ctxtsk].op = "get" /\ held' = held
      /\ call' = [call EXCEPT ![ctxtsk] = idle]
  BY DEF get_wait, running
<1>2. SamePools /\ ctxtsk \in Task
  BY WaitStep
<1>3. PICK t \in Task : t = ctxtsk
  BY <1>2
<1>4. \A n \in Mpf : ~Returning(call[t], n) \/ ~objcb.mpf[n].mpfid
  BY <1>1, <1>3 DEF Returning
<1>5. Settled(idle)
  BY SettledCalls
<1>6. Silent(call[t], idle, objcb.mpf) /\ StepOK(idle, objcb.mpf) /\ idle \in CallType
  BY <1>4, <1>5, SettledSilent
<1>7. Moves(call, call', t, idle)
  BY <1>1, <1>3 DEF Moves
<1>. QED
  BY <1>1, <1>2, <1>6, <1>7, SilentStep

\* A block goes to the free list.
LEMMA FreeBlocks ==
  ASSUME MInv, BlockInv, rel_free
  PROVE  BlockInv'
<1>1. /\ in_task /\ call[ctxtsk].op = "rel" /\ call[ctxtsk].at = "free" /\ Goto("unlock")
      /\ held' = held
  BY DEF rel_free, running
<1>2. /\ objcb'.free = objcb.free /\ ctxtsk \in Task /\ call[ctxtsk].m \in Mpf
      /\ objcb'.mpf = [objcb.mpf EXCEPT ![call[ctxtsk].m] =
                         GiveBlock(objcb.mpf[call[ctxtsk].m], call[ctxtsk].blf)]
  BY FreeStep
<1>3. PICK t \in Task, m \in Mpf : t = ctxtsk /\ m = call[ctxtsk].m
  BY <1>2
<1>4. PICK d : d = At(call[ctxtsk], "unlock")
  OBVIOUS
<1>5. Settled(d)
  BY <1>2, <1>4, Parts, SettledCalls
<1>6. PICK F, M, cl, h, cl2, M2 :
        /\ F = objcb.free /\ M = objcb.mpf /\ cl = call /\ h = held
        /\ cl2 = call' /\ M2 = objcb'.mpf
  OBVIOUS
<1>7. PICK c, b, r : c = M[m] /\ b = cl[t].blf /\ r = GiveBlock(c, b)
  OBVIOUS
<1>8. BInv(F, M, cl, h)
  BY <1>6 DEF BlockInv
<1>9. cl[t].m = m /\ cl[t].at = "free" /\ cl[t].op = "rel"
  BY <1>1, <1>3, <1>6
<1>10. Alone(cl, t, m)
  <2>1. Alone(call, ctxtsk, call[ctxtsk].m)
    BY <1>1, AloneUnderLock DEF Under
  <2>. QED
    BY <1>3, <1>6, <2>1
<1>11. Moves(cl, cl2, t, d)
  <2>1. Moves(call, call', ctxtsk, At(call[ctxtsk], "unlock"))
    BY <1>1, <1>2, GotoMoves
  <2>. QED
    BY <1>3, <1>4, <1>6, <2>1
<1>12. Replaced(M, M2, m, r)
  BY <1>2, <1>3, <1>6, <1>7 DEF Replaced
<1>13. BInv(F, M2, cl2, h)
  BY <1>5, <1>7, <1>8, <1>9, <1>10, <1>11, <1>12, BlockFreed
<1>14. objcb'.free = F /\ objcb'.mpf = M2 /\ call' = cl2 /\ held' = h
  BY <1>1, <1>2, <1>6
<1>. QED
  BY <1>13, <1>14 DEF BlockInv
\* tk_rel_mpf hands the block to a waiting task, or goes on to free it.
LEMMA ReturnBlocks ==
  ASSUME MInv, BlockInv, rel_locked
  PROVE  BlockInv'
<1>1. /\ in_task /\ call[ctxtsk].op = "rel" /\ call[ctxtsk].at = "locked"
  BY DEF rel_locked, running
<1>2. /\ SamePools /\ ctxtsk \in Task /\ call[ctxtsk].m \in Mpf
      /\ \/ ~objcb.mpf[call[ctxtsk].m].mpfid /\ Goto("unlock") /\ held' = held
         \/ objcb.mpf[call[ctxtsk].m].mpfid /\ Goto("free") /\ held' = held
         \/ /\ objcb.mpf[call[ctxtsk].m].mpfid
            /\ \/ call' = [call EXCEPT ![ctxtsk] = At(@, "unlock")]
               \/ call' = [call EXCEPT ![ctxtsk] = idle]
            /\ held' = held \cup {<<call[ctxtsk].m, call[ctxtsk].blf>>}
  BY ReturnStep
<1>3. PICK t \in Task, m \in Mpf : t = ctxtsk /\ m = call[ctxtsk].m
  BY <1>2
<1>4. CASE ~objcb.mpf[m].mpfid /\ Goto("unlock") /\ held' = held
  <2>1. PICK d : d = At(call[ctxtsk], "unlock")
    OBVIOUS
  <2>2. Settled(d)
    BY <1>2, <2>1, Parts, SettledCalls
  <2>3. \A n \in Mpf : ~Returning(call[t], n) \/ ~objcb.mpf[n].mpfid
    BY <1>3, <1>4 DEF Returning
  <2>4. Silent(call[t], d, objcb.mpf) /\ StepOK(d, objcb.mpf) /\ d \in CallType
    BY <2>2, <2>3, SettledSilent
  <2>5. Moves(call, call', t, d)
    BY <1>2, <1>3, <1>4, <2>1, GotoMoves
  <2>. QED
    BY <1>2, <1>4, <2>4, <2>5, SilentStep
<1>5. CASE objcb.mpf[m].mpfid /\ Goto("free") /\ held' = held
  <2>1. PICK d : d = At(call[ctxtsk], "free")
    OBVIOUS
  <2>2. /\ d \in CallType /\ d.at = "free" /\ d.m = call[ctxtsk].m
        /\ d.op = call[ctxtsk].op /\ d.blf = call[ctxtsk].blf
        /\ Moves(call, call', ctxtsk, d)
    BY <1>1, <1>5, <2>1, CallPlace
  <2>3. StepOK(d, objcb.mpf)
    BY <1>3, <1>5, <2>2 DEF StepOK
  <2>4. Silent(call[t], d, objcb.mpf)
    BY <1>1, <1>3, <2>2 DEF Silent, Creating, Returning
  <2>5. Moves(call, call', t, d)
    BY <1>3, <2>2
  <2>. QED
    BY <1>2, <1>5, <2>2, <2>3, <2>4, <2>5, SilentStep
<1>6. CASE /\ objcb.mpf[m].mpfid
           /\ \/ call' = [call EXCEPT ![ctxtsk] = At(@, "unlock")]
              \/ call' = [call EXCEPT ![ctxtsk] = idle]
           /\ held' = held \cup {<<m, call[ctxtsk].blf>>}
  <2>1. PICK d : Settled(d) /\ Moves(call, call', ctxtsk, d)
    BY <1>2, <1>6, EndsSettled
  <2>2. PICK F, M, cl, h, cl2, h2 :
          /\ F = objcb.free /\ M = objcb.mpf /\ cl = call /\ h = held
          /\ cl2 = call' /\ h2 = held'
    OBVIOUS
  <2>3. PICK b : b = cl[t].blf
    OBVIOUS
  <2>4. BInv(F, M, cl, h)
    BY <2>2 DEF BlockInv
  <2>5. Returning(cl[t], m) /\ M[m].mpfid
    BY <1>1, <1>3, <1>6, <2>2 DEF Returning
  <2>6. Settled(d) /\ Moves(cl, cl2, t, d)
    BY <1>3, <2>1, <2>2
  <2>7. Gains(h, h2, m, b)
    BY <1>3, <1>6, <2>2, <2>3 DEF Gains
  <2>8. BInv(F, M, cl2, h2)
    BY <2>3, <2>4, <2>5, <2>6, <2>7, HandedBack
  <2>9. objcb'.free = F /\ objcb'.mpf = M /\ call' = cl2 /\ held' = h2
    BY <1>2, <2>2 DEF SamePools
  <2>. QED
    BY <2>8, <2>9 DEF BlockInv
<1>. QED
  BY <1>2, <1>3, <1>4, <1>5, <1>6

\* A task that is ended keeps the block it was about to return.
LEMMA TerminateBlocks ==
  ASSUME MInv, BlockInv, NEW t \in Task, ter_tsk(t)
  PROVE  BlockInv'
<1>1. /\ SamePools /\ ~tcb[t].klocked
      /\ call' = [call EXCEPT ![t] = idle] /\ held' = held \cup keeps_block(t)
  BY TerminateStep
<1>2. TaskLocks(call[t], tcb[t], objcb.locked)
  BY Parts
<1>3. call[t].at \in {"none", "lock"} /\ (call[t] # idle => call[t].m \in Mpf)
  BY <1>1, <1>2 DEF TaskLocks, Under
<1>4. Settled(idle) /\ Moves(call, call', t, idle)
  BY <1>1, SettledCalls DEF Moves
<1>5. CASE call[t].op = "rel" /\ objcb.mpf[call[t].m].mpfid
  <2>1. call[t] # idle
    BY <1>5 DEF idle
  <2>2. PICK m \in Mpf : m = call[t].m
    BY <1>3, <2>1
  <2>3. PICK F, M, cl, h, cl2, h2, d :
          /\ F = objcb.free /\ M = objcb.mpf /\ cl = call /\ h = held
          /\ cl2 = call' /\ h2 = held' /\ d = idle
    OBVIOUS
  <2>4. PICK b : b = cl[t].blf
    OBVIOUS
  <2>5. BInv(F, M, cl, h)
    BY <2>3 DEF BlockInv
  <2>6. Returning(cl[t], m) /\ M[m].mpfid
    BY <1>3, <1>5, <2>2, <2>3 DEF Returning
  <2>7. Settled(d) /\ Moves(cl, cl2, t, d)
    BY <1>4, <2>3
  <2>8. Gains(h, h2, m, b)
    BY <1>1, <1>5, <2>2, <2>3, <2>4 DEF Gains, keeps_block, mpfcb
  <2>9. BInv(F, M, cl2, h2)
    BY <2>4, <2>5, <2>6, <2>7, <2>8, HandedBack
  <2>10. objcb'.free = F /\ objcb'.mpf = M /\ call' = cl2 /\ held' = h2
    BY <1>1, <2>3 DEF SamePools
  <2>. QED
    BY <2>9, <2>10 DEF BlockInv
<1>6. CASE ~(call[t].op = "rel" /\ objcb.mpf[call[t].m].mpfid)
  <2>1. held' = held
    BY <1>1, <1>6 DEF keeps_block, mpfcb
  <2>2. \A n \in Mpf : ~Returning(call[t], n) \/ ~objcb.mpf[n].mpfid
    BY <1>6 DEF Returning
  <2>3. Silent(call[t], idle, objcb.mpf) /\ StepOK(idle, objcb.mpf) /\ idle \in CallType
    BY <1>4, <2>2, SettledSilent
  <2>. QED
    BY <1>1, <1>4, <2>1, <2>3, SilentStep
<1>. QED
  BY <1>5, <1>6

\* No pool exists at the start.
LEMMA InitBlocks ==
  ASSUME MpfInit
  PROVE  BlockInv
<1>1. /\ objcb = [locked |-> {}, free |-> SetToSeq(Mpf), mpf |-> [m \in Mpf |-> free_mpfcb]]
      /\ call = [t \in Task |-> idle] /\ held = {}
  BY DEF MpfInit, t_kernel_main
<1>2. PICK F, M, cl : F = objcb.free /\ M = objcb.mpf /\ cl = call
  OBVIOUS
<1>3. F = SetToSeq(Mpf) /\ \A m \in Mpf : M[m] = free_mpfcb
  BY <1>1, <1>2
<1>4. free_mpfcb \in MPFCBType /\ ~free_mpfcb.mpfid
  BY DEF free_mpfcb, MPFCBType
<1>5. M \in [Mpf -> MPFCBType] /\ cl \in [Task -> CallType]
  BY <1>1, <1>2, <1>4, LockNames
<1>6. \A u \in Task : cl[u] = idle
  BY <1>1, <1>2
<1>7. \A u \in Task, m \in Mpf : ~Creating(cl[u], m) /\ ~Returning(cl[u], m)
  BY <1>6, SettledCalls DEF Settled
<1>8. \A u \in Task : StepOK(cl[u], M)
  <2>1. idle.at \notin {"take", "free"}
    BY SettledCalls DEF Settled
  <2>. QED
    BY <1>6, <2>1 DEF StepOK
<1>9. Listed(F, M, cl)
  <2>1. F \in Unrepeated(Mpf)
    BY <1>3, FreeList DEF Unrepeated, IsInjective
  <2>2. ToSet(F) \subseteq Mpf
    BY <2>1, Elements DEF Unrepeated
  <2>. QED
    BY <1>3, <1>4, <1>7, <2>1, <2>2 DEF Listed
<1>10. Makers(M, cl)
  BY <1>7 DEF Makers
<1>11. NoneOut(M, {})
  BY DEF NoneOut, Out
<1>12. AllStored(M, cl, {})
  BY <1>3, <1>4 DEF AllStored
<1>13. BInv(F, M, cl, {})
  BY <1>5, <1>8, <1>9, <1>10, <1>11, <1>12 DEF BInv
<1>. QED
  BY <1>1, <1>2, <1>13 DEF BlockInv
\* The calls of mempfix.c that enter.
LEMMA CallsBlocks ==
  ASSUME MInv, BlockInv, MpfCalls
  PROVE  BlockInv'
<1>1. ASSUME NEW tpri \in MpfAtr, tk_cre_mpf(tpri)
      PROVE  BlockInv'
  BY <1>1, MempfixAssumption, CreateBlocks
<1>2. ASSUME NEW m \in Mpf, tk_del_mpf(m)
      PROVE  BlockInv'
  <2>1. "del" \in {"del", "get"} /\ "TMO_POL" \in TMO /\ 0 \in Int
    BY DEF TMO
  <2>2. /\ CHECK_DISPATCH /\ call[ctxtsk] = idle /\ held' = held
        /\ LockStep(Begun("del", m, "TMO_POL", 0))
    BY <1>2, <2>1, EntryForms
  <2>. QED
    BY <2>1, <2>2, EntryBlocks
<1>3. ASSUME NEW m \in Mpf, NEW tm \in MpfTmo, tk_get_mpf(m, tm)
      PROVE  BlockInv'
  <2>1. "get" \in {"del", "get"} /\ tm \in TMO /\ 0 \in Int
    BY MempfixAssumption
  <2>2. /\ CHECK_DISPATCH /\ call[ctxtsk] = idle /\ held' = held
        /\ LockStep(Begun("get", m, tm, 0))
    BY <1>3, <2>1, EntryForms
  <2>. QED
    BY <2>1, <2>2, EntryBlocks
<1>4. ASSUME NEW m \in Mpf, NEW b \in Block, tk_rel_mpf(m, b)
      PROVE  BlockInv'
  <2>1. "TMO_POL" \in TMO /\ b \in Int
    BY DEF TMO, Block
  <2>2. /\ CHECK_DISPATCH /\ call[ctxtsk] = idle
        /\ <<m, b>> \in held /\ held' = held \ {<<m, b>>}
        /\ LockStep(Begun("rel", m, "TMO_POL", b))
    BY <1>4, <2>1, EntryForms
  <2>. QED
    BY <2>1, <2>2, ReturnEntryBlocks
<1>. QED
  BY <1>1, <1>2, <1>3, <1>4 DEF MpfCalls

\* The steps of the task layer leave the blocks where they are.
LEMMA TaskCallsBlocks ==
  ASSUME MInv, BlockInv, MpfTaskCalls
  PROVE  BlockInv'
<1>1. ASSUME NEW t \in Task, ter_tsk(t)
      PROVE  BlockInv'
  BY <1>1, TerminateBlocks
<1>2. Disturbed \subseteq Task
  BY MempfixAssumption
<1>3. CASE ~\E t \in Task : ter_tsk(t)
  <2>1. call' = call /\ held' = held
    BY <1>3 DEF MpfTaskCalls
  <2>2. SamePools
    BY <1>2, <1>3, <2>1, StartStep, ReleaseStep, SuspendStep, ResumeStep, PriorityStep,
       ExitStep, TimeoutStep, SystemStep DEF MpfTaskCalls
  <2>. QED
    BY <2>1, <2>2, SameBlocks
<1>. QED
  BY <1>1, <1>3

\* Every step keeps the blocks.
LEMMA NextBlocks ==
  ASSUME MInv, BlockInv, [MpfNext]_mpfvars
  PROVE  BlockInv'
<1>1. CASE UNCHANGED mpfvars
  <2>1. objcb' = objcb /\ call' = call /\ held' = held
    BY <1>1 DEF mpfvars, vars, kernvars
  <2>2. SamePools
    BY <2>1 DEF SamePools
  <2>. QED
    BY <2>1, <2>2, SameBlocks
<1>2. CASE MpfCalls
  BY <1>2, CallsBlocks
<1>3. CASE MpfSteps
  BY <1>3, LockRetryBlocks, UnlockBlocks, CreatedBlocks, DeletedBlocks, GetBlocks,
     TakeBlocks, WaitBlocks, ReturnBlocks, FreeBlocks DEF MpfSteps
<1>4. CASE MpfTaskCalls
  BY <1>4, TaskCallsBlocks
<1>. QED
  BY <1>1, <1>2, <1>3, <1>4 DEF MpfNext

\* The union of two finite sets that share nothing.
LEMMA SeparateUnion ==
  ASSUME NEW S, IsFiniteSet(S), NEW T, IsFiniteSet(T), S \cap T = {}
  PROVE  Cardinality(S \cup T) = Cardinality(S) + Cardinality(T)
<1>1. Cardinality(S \cup T) = Cardinality(S) + Cardinality(T) - Cardinality({})
  BY FS_Union
<1>2. Cardinality({}) = 0 /\ Cardinality(S) \in Nat /\ Cardinality(T) \in Nat
  BY FS_EmptySet, FS_CardinalityType
<1>. QED
  BY <1>1, <1>2

\* The blocks in their places, counted: a task brings back one block.
LEMMA PlacesCounted ==
  ASSUME NEW c, NEW out, NEW B, NEW cl, Places(c, out, B, cl)
  PROVE  /\ (c.unused .. MpfCnt) \cup ToSet(c.freelist) \cup out \cup {cl[u].blf : u \in B}
              = Block
         /\ Cardinality(c.unused .. MpfCnt) + Len(c.freelist) + Cardinality(out)
              + Cardinality(B) = MpfCnt
         /\ c.frbcnt = Cardinality(c.unused .. MpfCnt) + Len(c.freelist)
<1>1. /\ c.unused \in 1 .. MpfCnt + 1 /\ MpfCnt \in Nat
      /\ c.frbcnt = (MpfCnt + 1 - c.unused) + Len(c.freelist)
      /\ Len(c.freelist) \in Nat /\ c.freelist \in Seq(Int) /\ IsInjective(c.freelist)
  BY MempfixAssumption, Elements DEF Places, Unrepeated
<1>2. PICK S, R, n : S = ToSet(c.freelist) /\ R = {cl[u].blf : u \in B} /\ n = c.unused
  OBVIOUS
<1>3. /\ S \cap out = {} /\ S \cap R = {} /\ out \cap R = {}
      /\ S \cup out \cup R = 1 .. n - 1
      /\ \A u, v \in B : cl[u].blf = cl[v].blf => u = v
  BY <1>2 DEF Places
<1>4. n \in 1 .. MpfCnt + 1
  BY <1>1, <1>2
<1>5. (n .. MpfCnt) \cup (1 .. n - 1) = 1 .. MpfCnt /\ (n .. MpfCnt) \cap (1 .. n - 1) = {}
  BY <1>1, <1>4
<1>6. /\ IsFiniteSet(1 .. n - 1) /\ Cardinality(1 .. n - 1) = n - 1
      /\ Cardinality(n .. MpfCnt) = MpfCnt + 1 - n
  <2>1. PICK a \in Int, b \in Int, e \in Int : a = n - 1 /\ b = MpfCnt /\ e = n
    BY <1>1, <1>4
  <2>2. 1 \in Int /\ 1 <= e /\ e <= b + 1 /\ a = e - 1
    BY <1>1, <1>4, <2>1
  <2>3. IsFiniteSet(1 .. a) /\ Cardinality(1 .. a) = IF 1 > a THEN 0 ELSE a - 1 + 1
    BY <2>2, FS_Interval
  <2>4. Cardinality(e .. b) = IF e > b THEN 0 ELSE b - e + 1
    BY FS_Interval
  <2>5. Cardinality(1 .. a) = a /\ Cardinality(e .. b) = b + 1 - e
    BY <2>2, <2>3, <2>4
  <2>. QED
    BY <2>1, <2>3, <2>5
<1>7. IsFiniteSet(S) /\ IsFiniteSet(out) /\ IsFiniteSet(R) /\ IsFiniteSet(S \cup out)
  <2>1. PICK I : I = 1 .. n - 1
    OBVIOUS
  <2>2. IsFiniteSet(I)
    BY <1>6, <2>1
  <2>3. \A T : T \subseteq I => IsFiniteSet(T)
    BY <2>2, FS_Subset
  <2>4. IsFiniteSet(S) /\ IsFiniteSet(out) /\ IsFiniteSet(R)
    <3>1. S \subseteq I /\ out \subseteq I /\ R \subseteq I
      BY <1>3, <2>1
    <3>. QED
      BY <2>3, <3>1, Zenon
  <2>5. IsFiniteSet(S \cup out)
    BY <2>4, FS_Union
  <2>. QED
    BY <2>4, <2>5
<1>8. Cardinality(S) = Len(c.freelist)
  <2>1. PICK q \in Seq(Int), l \in Nat : q = c.freelist /\ l = Len(q)
    BY <1>1
  <2>2. q \in Seq(Int) /\ IsInjective(q) /\ q \in [1 .. l -> Int]
    BY <1>1, <2>1
  <2>3. S = {q[i] : i \in 1 .. l}
    BY <1>2, <2>1, <2>2 DEF ToSet
  <2>4. q \in Bijection(1 .. l, S)
    <3>1. q \in [1 .. l -> S]
      BY <2>2, <2>3
    <3>2. \A i, j \in 1 .. l : q[i] = q[j] => i = j
      BY <2>2 DEF IsInjective
    <3>3. \A x \in S : \E i \in 1 .. l : q[i] = x
      BY <2>3
    <3>. QED
      BY <3>1, <3>2, <3>3 DEF Bijection, Injection, Surjection, IsInjective
  <2>5. IsFiniteSet(1 .. l) /\ Cardinality(1 .. l) = l
    BY FS_Interval
  <2>6. ExistsBijection(1 .. l, S)
    BY <2>4 DEF ExistsBijection
  <2>7. Cardinality(S) = Cardinality(1 .. l)
    BY <1>7, <2>5, <2>6, FS_Bijection
  <2>. QED
    BY <2>1, <2>5, <2>7
<1>9. Cardinality(R) = Cardinality(B)
  <2>1. PICK f : f = [u \in B |-> cl[u].blf]
    OBVIOUS
  <2>2. f \in Injection(B, R) /\ f \in Surjection(B, R)
    <3>1. f \in [B -> R]
      BY <1>2, <2>1
    <3>2. \A u, v \in B : f[u] = f[v] => u = v
      BY <1>3, <2>1
    <3>3. \A x \in R : \E u \in B : f[u] = x
      BY <1>2, <2>1
    <3>. QED
      BY <3>1, <3>2, <3>3 DEF Injection, Surjection, IsInjective
  <2>. QED
    BY <1>7, <2>2, FS_Injection
<1>10. Cardinality(S) + Cardinality(out) + Cardinality(R) = n - 1
  <2>1. Cardinality(S \cup out) = Cardinality(S) + Cardinality(out)
    BY <1>3, <1>7, SeparateUnion
  <2>2. (S \cup out) \cap R = {}
    BY <1>3
  <2>3. Cardinality((S \cup out) \cup R) = Cardinality(S \cup out) + Cardinality(R)
    BY <1>7, <2>2, SeparateUnion
  <2>. QED
    BY <1>3, <1>6, <2>1, <2>3
<1>11. PICK s \in Nat, o \in Nat, r \in Nat :
         s = Cardinality(S) /\ o = Cardinality(out) /\ r = Cardinality(R)
  BY <1>7, FS_CardinalityType
<1>12. (MpfCnt + 1 - n) + s + o + r = MpfCnt
  <2>1. s + o + r = n - 1 /\ n \in Int /\ MpfCnt \in Int
    BY <1>1, <1>4, <1>10, <1>11
  <2>. QED
    BY <2>1
<1>13. /\ Cardinality(n .. MpfCnt) = MpfCnt + 1 - n
       /\ Len(c.freelist) = s /\ Cardinality(out) = o /\ Cardinality(B) = r
  BY <1>6, <1>8, <1>9, <1>11
<1>14. Cardinality(n .. MpfCnt) + Len(c.freelist) + Cardinality(out) + Cardinality(B)
         = MpfCnt
  BY <1>12, <1>13
<1>15. (n .. MpfCnt) \cup S \cup out \cup R = Block
  BY <1>3, <1>5 DEF Block
<1>. QED
  BY <1>1, <1>2, <1>6, <1>14, <1>15
\* The invariant says that no block is lost and none is in two places.
LEMMA PlacedConserved ==
  ASSUME BlockInv
  PROVE  BlocksConserved
<1>1. SUFFICES ASSUME NEW m \in Mpf, mpfcb(m).mpfid
               PROVE  LET c       == mpfcb(m)
                          fresh   == c.unused .. MpfCnt
                          out     == {b \in Block : <<m, b>> \in held}
                          return  == {t \in Task : call[t].op = "rel" /\ call[t].m = m
                                                   /\ call[t].at # "unlock"}
                          back    == {call[t].blf : t \in return}
                      IN /\ fresh \cup ToSet(c.freelist) \cup out \cup back = Block
                         /\ Cardinality(fresh) + Len(c.freelist) + Cardinality(out)
                              + Cardinality(return) = MpfCnt
                         /\ c.frbcnt = Cardinality(fresh) + Len(c.freelist)
  BY DEF BlocksConserved
<1>2. PICK c, out, B, cl : c = mpfcb(m) /\ out = Out(held, m) /\ B = Back(call, m) /\ cl = call
  OBVIOUS
<1>3. Places(c, out, B, cl)
  BY <1>1, <1>2 DEF BlockInv, BInv, AllStored, mpfcb
<1>4. /\ (c.unused .. MpfCnt) \cup ToSet(c.freelist) \cup out \cup {cl[u].blf : u \in B}
           = Block
      /\ Cardinality(c.unused .. MpfCnt) + Len(c.freelist) + Cardinality(out)
           + Cardinality(B) = MpfCnt
      /\ c.frbcnt = Cardinality(c.unused .. MpfCnt) + Len(c.freelist)
  BY <1>3, PlacesCounted
<1>5. /\ out = {b \in Block : <<m, b>> \in held}
      /\ B = {t \in Task : call[t].op = "rel" /\ call[t].m = m /\ call[t].at # "unlock"}
  BY <1>2 DEF Out, Back, Returning
<1>. QED
  BY <1>2, <1>4, <1>5

\* A pool never loses a block and never gives one away twice: every block is free,
\* never used, with the application or on its way back, in one of these places once,
\* and frbcnt counts the free ones, whatever calls, dispatches, timeouts and
\* terminations come between the steps of a call.
THEOREM MempfixBlocksConserved == MpfSpec => []BlocksConserved
<1>1. MpfInit => MInv /\ BlockInv
  BY InitMInv, InitBlocks
<1>2. MInv /\ BlockInv /\ [MpfNext]_mpfvars => (MInv /\ BlockInv)'
  BY NextMInv, NextBlocks
<1>3. MInv /\ BlockInv => BlocksConserved
  BY PlacedConserved
<1>. QED
  BY <1>1, <1>2, <1>3, PTL DEF MpfSpec
-----------------------------------------------------------------------------
(* The queues of the pools, which the helpers of the kernel leave alone but  *)
(* for the task they are about.                                              *)

Undisturbed(k, k2) == \A m \in Mpf : k2.wq[MpfWait(m)] = k.wq[MpfWait(m)]

\* From k to k2 the queues lose t.
Drops(k, k2, t) == \A m \in Mpf : k2.wq[MpfWait(m)] = QueueWithout(k.wq[MpfWait(m)], t)

Unsliced(k) == IsKernel(k) /\ \A u \in Task : k.tcb[u].slicetime = 0

\* Linked tasks have no time slices.
LEMMA LinksUnsliced ==
  ASSUME NEW k, NEW L, NEW X, Links(k, L, X)
  PROVE  Unsliced(k)
BY DEF Links, Blocks, Unsliced

\* QueRemove takes one task out of whatever queue it is in.
LEMMA RemoveWaits ==
  ASSUME NEW k, IsKernel(k), NEW t
  PROVE  Drops(k, QueRemove(k, t), t)
<1>1. QueRemove(k, t).wq = [w \in WaitQueue |-> QueueWithout(k.wq[w], t)]
  BY DEF QueRemove, IsKernel
<1>. QED
  BY <1>1, LockNames DEF Drops

\* So do ready_queue_delete and make_non_ready.
LEMMA DeleteWaitsOf ==
  ASSUME NEW k, IsKernel(k), NEW t
  PROVE  /\ ready_queue_delete(k, t).wq = QueRemove(k, t).wq
         /\ make_non_ready(k, t).wq = QueRemove(k, t).wq
<1>1. PICK k1 : k1 = ready_queue_delete(k, t)
  OBVIOUS
<1>2. PICK r : r = QueRemove(k, t)
  OBVIOUS
<1>3. DOMAIN r = DOMAIN k /\ DOMAIN k = {"tcb", "rq", "wq", "schedtsk", "ctxtsk", "obj"}
  BY <1>2 DEF QueRemove, IsKernel
<1>4. k1.wq = r.wq /\ DOMAIN k1 = DOMAIN k
  BY <1>1, <1>2, <1>3 DEF ready_queue_delete
<1>5. make_non_ready(k, t).wq = k1.wq
  BY <1>1, <1>3, <1>4 DEF make_non_ready
<1>. QED
  BY <1>1, <1>2, <1>4, <1>5

\* ready_queue_insert links in the ready queue only.
LEMMA InsertWaits ==
  ASSUME NEW k, IsKernel(k), NEW t \in Task
  PROVE  ready_queue_insert(k, t).wq = k.wq
BY DEF ready_queue_insert, IsKernel

\* reschedule does not move a task that has no time slice.
LEMMA RescheduleWaits ==
  ASSUME NEW k, Unsliced(k)
  PROVE  reschedule(k).wq = k.wq
<1>1. k.schedtsk \in Task \cup {NoTask}
  BY DEF Unsliced, IsKernel
<1>2. charge_preempted(k) = k
  BY <1>1 DEF charge_preempted, time_slice_schedule, Unsliced
<1>. QED
  BY <1>2 DEF reschedule, Unsliced, IsKernel

\* make_ready links in the ready queue only.
LEMMA ReadyWaits ==
  ASSUME NEW k, Unsliced(k), NEW t \in Task
  PROVE  make_ready(k, t).wq = k.wq
<1>1. PICK c : c = [k.tcb[t] EXCEPT !.state = "READY"]
  OBVIOUS
<1>2. PICK k0 : k0 = [k EXCEPT !.tcb[t] = c]
  OBVIOUS
<1>3. IsKernel(k) /\ k.tcb \in [Task -> TCBType] /\ \A u \in Task : k.tcb[u].slicetime = 0
  BY DEF Unsliced, IsKernel
<1>4. c \in TCBType /\ c.slicetime = 0
  BY <1>1, <1>3 DEF TCBType, TState
<1>5. IsKernel(k0) /\ k0.wq = k.wq /\ \A u \in Task : k0.tcb[u].slicetime = 0
  BY <1>2, <1>3, <1>4 DEF IsKernel
<1>6. PICK k1 : k1 = ready_queue_insert(k0, t)
  OBVIOUS
<1>7. /\ k1.wq = k.wq /\ k1.schedtsk = k0.schedtsk /\ DOMAIN k1 = DOMAIN k0
      /\ k1.tcb = [k0.tcb EXCEPT ![t].slicecnt = 0]
  BY <1>5, <1>6 DEF ready_queue_insert, IsKernel
<1>8. \A u \in Task : k1.tcb[u].slicetime = 0
  BY <1>5, <1>7 DEF IsKernel, TCBType
<1>9. charge_preempted(k1) = k1
  <2>1. k1.schedtsk \in Task \cup {NoTask}
    BY <1>5, <1>7 DEF IsKernel
  <2>. QED
    BY <1>8, <2>1 DEF charge_preempted, time_slice_schedule
<1>10. make_ready(k, t) = IF raises_top(k, t) THEN [k1 EXCEPT !.schedtsk = t] ELSE k1
  <2>1. [k EXCEPT !.tcb[t].state = "READY"] = k0
    BY <1>1, <1>2, <1>3 DEF IsKernel
  <2>. QED
    BY <1>6, <1>9, <2>1 DEF make_ready
<1>11. "wq" \in DOMAIN k1
  BY <1>5, <1>7 DEF IsKernel
<1>. QED
  BY <1>7, <1>10, <1>11

\* The lock of a call is no queue of a pool.
LockLabels(L) == \A u \in Task, m \in Mpf : L[u] # MpfWait(m)

\* LockOf gives such locks.
LEMMA CallLabels ==
  ASSUME NEW cl
  PROVE  LockLabels(LockOf(cl))
<1>1. \A m, n : MpfLock(n) # MpfWait(m)
  BY DEF MpfLock, MpfWait
<1>. QED
  BY <1>1 DEF LockLabels, LockOf

\* In the queue of a pool are the tasks that wait for a block.
LEMMA PoolQueue ==
  ASSUME NEW k, NEW L, NEW X, Links(k, L, X), LockLabels(L), NEW m \in Mpf
  PROVE  /\ k.wq[MpfWait(m)] \in Queue
         /\ ToSet(k.wq[MpfWait(m)]) = {u \in Task \ X : /\ is_waiting(k.tcb[u].state)
                                                        /\ k.tcb[u].wid = MpfWait(m)}
<1>1. PICK w : w = MpfWait(m)
  OBVIOUS
<1>2. w \in WaitQueue /\ \A u \in Task : L[u] # w
  BY <1>1, LockNames DEF LockLabels
<1>3. k.wq[w] \in Queue /\ ToSet(k.wq[w]) = {u \in Task \ X : InWait(k.tcb[u], L[u], w)}
  BY <1>2 DEF Links, WaitLinks
<1>4. \A u \in Task : InWait(k.tcb[u], L[u], w) <=>
                        is_waiting(k.tcb[u].state) /\ k.tcb[u].wid = w
  BY <1>2 DEF InWait
<1>. QED
  BY <1>1, <1>3, <1>4

\* Taking out a task that does not wait disturbs nobody.
LEMMA DropsNobody ==
  ASSUME NEW k, NEW L, NEW X, Links(k, L, X), LockLabels(L), NEW t,
         t \notin Task \ X \/ ~is_waiting(k.tcb[t].state),
         NEW k2, Drops(k, k2, t)
  PROVE  Undisturbed(k, k2)
<1>1. \A m \in Mpf : t \notin ToSet(k.wq[MpfWait(m)])
  BY PoolQueue
<1>2. \A q : t \notin ToSet(q) => QueueWithout(q, t) = q
  BY DEF QueueWithout
<1>. QED
  BY <1>1, <1>2 DEF Drops, Undisturbed

\* wait_release takes the task out of its queue, end_wait no other.
LEMMA ReleaseDrops ==
  ASSUME NEW k, NEW L, NEW t \in Task, Links(k, L, {}), is_waiting(k.tcb[t].state),
         NEW e
  PROVE  /\ Drops(k, wait_release(k, t), t)
         /\ Drops(k, end_wait(wait_release(k, t), t, e), t)
<1>1. PICK k0 : k0 = timer_delete(k, t)
  OBVIOUS
<1>2. PICK k1 : k1 = wait_cancel(k, t)
  OBVIOUS
<1>3. Links(k1, L, {t})
  BY <1>2, CancelWait
<1>4. IsKernel(k0) /\ k0.wq = k.wq
  <2>1. IsKernel(k) /\ k.tcb \in [Task -> TCBType] /\ k.tcb[t] \in TCBType
    BY DEF Links, IsKernel
  <2>2. PICK c : c = [k.tcb[t] EXCEPT !.wtmeb = FALSE]
    OBVIOUS
  <2>3. c \in TCBType
    BY <2>1, <2>2 DEF TCBType
  <2>4. k0 = [k EXCEPT !.tcb[t] = c]
    BY <1>1, <2>1, <2>2 DEF timer_delete, IsKernel
  <2>. QED
    BY <2>1, <2>3, <2>4 DEF IsKernel
<1>5. k1 = QueRemove(k0, t)
  BY <1>1, <1>2 DEF wait_cancel
<1>6. Drops(k, k1, t)
  BY <1>4, <1>5, RemoveWaits DEF Drops
<1>7. PICK k2 : k2 = wait_release(k, t)
  OBVIOUS
<1>8. k2 = make_non_wait(k1, t)
  BY <1>2, <1>7 DEF wait_release
<1>9. Unsliced(k1) /\ IsKernel(k1)
  BY <1>3, LinksUnsliced DEF Unsliced
<1>10. k2.wq = k1.wq
  <2>1. CASE k1.tcb[t].state = "WAIT"
    BY <1>8, <1>9, <2>1, ReadyWaits DEF make_non_wait
  <2>2. CASE k1.tcb[t].state # "WAIT"
    BY <1>8, <1>9, <2>2 DEF make_non_wait, IsKernel
  <2>. QED
    BY <2>1, <2>2
<1>11. end_wait(k2, t, e).wq = k2.wq
  <2>1. Links(k2, L, {})
    BY <1>7, ReleaseWait
  <2>2. IsKernel(k2)
    BY <2>1 DEF Links
  <2>. QED
    BY <2>2 DEF end_wait, IsKernel
<1>. QED
  BY <1>6, <1>7, <1>10, <1>11 DEF Drops

\* _ter_tsk takes the task out of its queue, make_dormant no other.
LEMMA EndDrops ==
  ASSUME NEW k, NEW L, NEW t \in Task, Links(k, L, {}), LockLabels(L)
  PROVE  /\ Drops(k, _ter_tsk(k, t), t)
         /\ Drops(k, make_dormant(_ter_tsk(k, t), t), t)
         /\ Drops(k, force_dispatch(make_dormant(_ter_tsk(k, t), t)), t)
<1>1. PICK k1 : k1 = _ter_tsk(k, t)
  OBVIOUS
<1>2. IsKernel(k) /\ k.tcb \in [Task -> TCBType] /\ k.tcb[t] \in TCBType
  BY DEF Links, IsKernel
<1>3. Drops(k, k1, t) /\ IsKernel(k1)
  <2>1. CASE k.tcb[t].state = "READY"
    <3>1. k1 = make_non_ready(k, t)
      BY <1>1, <2>1 DEF _ter_tsk
    <3>2. Links(k1, L, {t})
      BY <2>1, <3>1, LeaveRunnable
    <3>3. k1.wq = QueRemove(k, t).wq /\ Drops(k, QueRemove(k, t), t)
      BY <1>2, <3>1, DeleteWaitsOf, RemoveWaits
    <3>. QED
      BY <3>2, <3>3 DEF Drops, Links
  <2>2. CASE k.tcb[t].state # "READY" /\ is_waiting(k.tcb[t].state)
    <3>1. k1 = wait_cancel(k, t)
      BY <1>1, <2>2 DEF _ter_tsk
    <3>2. Links(k1, L, {t})
      BY <2>2, <3>1, CancelWait
    <3>3. PICK c : c = [k.tcb[t] EXCEPT !.wtmeb = FALSE]
      OBVIOUS
    <3>4. c \in TCBType
      BY <1>2, <3>3 DEF TCBType
    <3>5. PICK k0 : k0 = timer_delete(k, t)
      OBVIOUS
    <3>6. k0 = [k EXCEPT !.tcb[t] = c]
      BY <1>2, <3>3, <3>5 DEF timer_delete, IsKernel
    <3>7. IsKernel(k0) /\ k0.wq = k.wq /\ k1 = QueRemove(k0, t)
      <4>1. k1 = QueRemove(k0, t)
        BY <3>1, <3>5 DEF wait_cancel
      <4>2. IsKernel(k0) /\ k0.wq = k.wq
        BY <1>2, <3>4, <3>6 DEF IsKernel
      <4>. QED
        BY <4>1, <4>2
    <3>. QED
      BY <3>2, <3>7, RemoveWaits DEF Drops, Links
  <2>3. CASE k.tcb[t].state # "READY" /\ ~is_waiting(k.tcb[t].state)
    <3>1. k1 = k
      BY <1>1, <2>3 DEF _ter_tsk
    <3>2. \A m \in Mpf : t \notin ToSet(k.wq[MpfWait(m)])
      BY <2>3, PoolQueue
    <3>. QED
      BY <1>2, <3>1, <3>2 DEF Drops, QueueWithout
  <2>. QED
    BY <2>1, <2>2, <2>3
<1>4. PICK k2 : k2 = make_dormant(k1, t)
  OBVIOUS
<1>5. k2.wq = k1.wq /\ DOMAIN k2 = DOMAIN k1
  BY <1>3, <1>4 DEF make_dormant, IsKernel
<1>6. force_dispatch(k2).wq = k2.wq
  BY <1>3, <1>5 DEF force_dispatch, IsKernel
<1>. QED
  BY <1>1, <1>3, <1>4, <1>5, <1>6 DEF Drops
\* LockOBJ disturbs no queue of a pool: the caller is not in one, and it joins the
\* queue of a lock.
LEMMA LockWaits ==
  ASSUME NEW k, NEW L, NEW t \in Task, Links(k, L, {}), LockLabels(L), k.ctxtsk = t,
         Runnable(k.tcb[t]), NEW l \in Lock, NEW k2, k2 = LockOBJ(k, l)
  PROVE  Undisturbed(k, k2)
<1>1. IsKernel(k) /\ k.tcb[t].state = "READY" /\ ~k.tcb[t].klockwait
  BY DEF Links, Runnable
<1>2. \A m \in Mpf : MpfWait(m) \in WaitQueue /\ MpfWait(m) # l
  BY LockNames
<1>3. CASE k.tcb[t].klocked
  BY <1>3 DEF LockOBJ, Undisturbed
<1>4. CASE ~k.tcb[t].klocked /\ lock_free(k, l)
  <2>1. k2 = get_lock(k, l)
    BY <1>4 DEF LockOBJ
  <2>2. k2.wq = k.wq
    BY <1>1, <2>1 DEF get_lock, IsKernel
  <2>. QED
    BY <2>2 DEF Undisturbed
<1>5. CASE ~k.tcb[t].klocked /\ ~lock_free(k, l)
  <2>1. k2 = queue_for_lock(k, l)
    BY <1>5 DEF LockOBJ
  <2>2. PICK k1 : k1 = ready_queue_delete(k, t)
    OBVIOUS
  <2>3. Links(k1, L, {t})
    BY <1>1, <2>2, DeleteReady
  <2>4. IsKernel(k1)
    BY <2>3 DEF Links
  <2>5. Drops(k, k1, t)
    BY <1>1, <2>2, DeleteWaitsOf, RemoveWaits DEF Drops
  <2>6. ~is_waiting(k.tcb[t].state)
    BY <1>1 DEF is_waiting
  <2>7. Undisturbed(k, k1)
    BY <2>5, <2>6, DropsNobody
  <2>8. PICK s : s = ready_queue_top(k1)
    OBVIOUS
  <2>9. k2 = [k1 EXCEPT !.tcb[t].klockwait = TRUE, !.wq[l] = Append(@, t), !.schedtsk = s]
    BY <2>1, <2>2, <2>8 DEF queue_for_lock
  <2>10. k2.wq = [k1.wq EXCEPT ![l] = Append(@, t)]
    BY <2>4, <2>9 DEF IsKernel
  <2>11. \A m \in Mpf : k2.wq[MpfWait(m)] = k1.wq[MpfWait(m)]
    BY <1>2, <2>4, <2>10 DEF IsKernel
  <2>. QED
    BY <2>7, <2>11 DEF Undisturbed
<1>. QED
  BY <1>3, <1>4, <1>5

\* UnlockOBJ takes from the queue of the lock only.
LEMMA UnlockWaits ==
  ASSUME NEW k, IsKernel(k), NEW l \in Lock, NEW k2, k2 = UnlockOBJ(k, l)
  PROVE  Undisturbed(k, k2)
<1>1. PICK k1 : k1 = [k EXCEPT !.tcb[k.ctxtsk].klocked = FALSE, !.rq.klocktsk = NoTask]
  OBVIOUS
<1>2. k1.wq = k.wq /\ DOMAIN k1 = DOMAIN k /\ "wq" \in DOMAIN k /\ "schedtsk" \in DOMAIN k
  BY <1>1 DEF IsKernel
<1>3. \A m \in Mpf : MpfWait(m) \in WaitQueue /\ MpfWait(m) # l
  BY LockNames
<1>4. CASE k1.wq[l] = <<>>
  <2>1. PICK k3 : k3 = [k1 EXCEPT !.obj.locked = @ \ {l}]
    OBVIOUS
  <2>2. k3.wq = k1.wq /\ DOMAIN k3 = DOMAIN k1
    BY <1>2, <2>1
  <2>3. PICK s : s = ready_queue_top(k3)
    OBVIOUS
  <2>4. k2 = [k3 EXCEPT !.schedtsk = s]
    BY <1>1, <1>4, <2>1, <2>3 DEF UnlockOBJ
  <2>5. k2.wq = k.wq
    BY <1>2, <2>2, <2>4
  <2>. QED
    BY <2>5 DEF Undisturbed
<1>5. CASE k1.wq[l] # <<>>
  <2>1. PICK h : h = Head(k1.wq[l])
    OBVIOUS
  <2>2. PICK k3 : k3 = [k1 EXCEPT !.wq[l] = Tail(@), !.tcb[h].klockwait = FALSE,
                                  !.tcb[h].klocked = TRUE]
    OBVIOUS
  <2>3. k3.wq = [k1.wq EXCEPT ![l] = Tail(@)] /\ DOMAIN k3 = DOMAIN k1
    BY <1>2, <2>2
  <2>4. PICK k4 : k4 = ready_queue_insert_top(k3, h)
    OBVIOUS
  <2>5. k4.wq = k3.wq /\ DOMAIN k4 = DOMAIN k3
    BY <1>2, <2>3, <2>4 DEF ready_queue_insert_top
  <2>6. PICK s : s = ready_queue_top(k4)
    OBVIOUS
  <2>7. k2 = [k4 EXCEPT !.schedtsk = s]
    BY <1>1, <1>5, <2>1, <2>2, <2>4, <2>6 DEF UnlockOBJ
  <2>8. k2.wq = [k.wq EXCEPT ![l] = Tail(@)]
    BY <1>2, <2>3, <2>5, <2>7
  <2>9. \A m \in Mpf : k2.wq[MpfWait(m)] = k.wq[MpfWait(m)]
    BY <1>3, <2>8 DEF IsKernel
  <2>. QED
    BY <2>9 DEF Undisturbed
<1>. QED
  BY <1>4, <1>5

\* suspend leaves a waiting task in its queue.
LEMMA SuspendWaits ==
  ASSUME NEW k, NEW L, NEW t \in Task, Links(k, L, {}), LockLabels(L),
         NEW k2, k2 = suspend(k, t)
  PROVE  Undisturbed(k, k2)
<1>1. IsKernel(k) /\ k.tcb[t] \in TCBType
  BY DEF Links, IsKernel
<1>2. PICK k1 : k1 = [k EXCEPT !.tcb[t].suscnt = @ + 1]
  OBVIOUS
<1>3. /\ k1.wq = k.wq /\ DOMAIN k1 = {"tcb", "rq", "wq", "schedtsk", "ctxtsk", "obj"}
      /\ k1.rq = k.rq
  BY <1>1, <1>2 DEF IsKernel
<1>4. CASE k.tcb[t].state = "READY"
  <2>1. PICK r : r = QueRemove(k, t)
    OBVIOUS
  <2>2. PICK r1 : r1 = QueRemove(k1, t)
    OBVIOUS
  <2>3. r1.wq = r.wq /\ DOMAIN r1 = DOMAIN k1
    BY <1>1, <1>3, <2>1, <2>2 DEF QueRemove, IsKernel
  <2>4. PICK d : d = ready_queue_delete(k1, t)
    OBVIOUS
  <2>5. d.wq = r1.wq /\ DOMAIN d = DOMAIN k1
    BY <1>3, <2>2, <2>3, <2>4 DEF ready_queue_delete
  <2>6. PICK k3 : k3 = make_non_ready(k1, t)
    OBVIOUS
  <2>7. k3.wq = d.wq /\ DOMAIN k3 = DOMAIN k1
    BY <1>3, <2>4, <2>5, <2>6 DEF make_non_ready
  <2>8. k2 = [k3 EXCEPT !.tcb[t].state = "SUSPEND"]
    BY <1>2, <1>4, <2>6 DEF suspend
  <2>9. k2.wq = r.wq
    BY <1>3, <2>3, <2>5, <2>7, <2>8
  <2>10. Drops(k, k2, t) /\ ~is_waiting(k.tcb[t].state)
    BY <1>1, <1>4, <2>1, <2>9, RemoveWaits DEF Drops, is_waiting
  <2>. QED
    BY <2>10, DropsNobody
<1>5. CASE k.tcb[t].state # "READY"
  <2>1. k2 = k1 \/ k2 = [k1 EXCEPT !.tcb[t].state = "WAITSUS"]
    BY <1>2, <1>5 DEF suspend
  <2>2. k2.wq = k1.wq
    BY <1>3, <2>1
  <2>. QED
    BY <1>3, <2>2 DEF Undisturbed
<1>. QED
  BY <1>4, <1>5

\* So does resume.
LEMMA ResumeWaits ==
  ASSUME NEW k, NEW L, NEW t \in Task, Links(k, L, {}), NEW n \in 0 .. MaxSus,
         NEW k2, k2 = resume(k, t, n)
  PROVE  Undisturbed(k, k2)
<1>1. Unsliced(k) /\ IsKernel(k) /\ k.tcb[t] \in TCBType
  BY LinksUnsliced DEF Unsliced, IsKernel
<1>2. PICK c : c = [k.tcb[t] EXCEPT !.suscnt = n]
  OBVIOUS
<1>3. c \in TCBType /\ c.slicetime = k.tcb[t].slicetime
  BY <1>1, <1>2 DEF TCBType
<1>4. PICK k1 : k1 = [k EXCEPT !.tcb[t].suscnt = n]
  OBVIOUS
<1>5. k1 = [k EXCEPT !.tcb[t] = c]
  BY <1>1, <1>2, <1>4 DEF IsKernel
<1>6. IsKernel(k1) /\ k1.wq = k.wq /\ k1.tcb = [k.tcb EXCEPT ![t] = c]
  BY <1>1, <1>3, <1>5 DEF IsKernel
<1>7. Unsliced(k1)
  BY <1>1, <1>3, <1>6 DEF Unsliced, IsKernel
<1>8. \/ k2 = k1 \/ k2 = make_ready(k1, t) \/ k2 = [k1 EXCEPT !.tcb[t].state = "WAIT"]
  BY <1>4 DEF resume
<1>9. k2.wq = k1.wq
  BY <1>6, <1>7, <1>8, ReadyWaits DEF IsKernel
<1>. QED
  BY <1>6, <1>9 DEF Undisturbed
\* Append inserts behind the last element.
LEMMA AppendedAtEnd ==
  ASSUME NEW q \in Seq(Task), NEW t \in Task
  PROVE  InsertAt(q, Len(q) + 1, t) = Append(q, t)
<1>1. PICK r : r = InsertAt(q, Len(q) + 1, t)
  OBVIOUS
<1>2. PICK n : n = Len(q) + 1 /\ n \in 1 .. Len(q) + 1 /\ Len(q) \in Nat
  BY LenProperties
<1>3. r \in Seq(Task) /\ With(q, r, n, t)
  BY <1>1, <1>2, InsertedAt, Zenon
<1>4. /\ Len(r) = Len(q) + 1
      /\ \A j \in 1 .. Len(q) + 1 : r[j] = IF j <= Len(q) THEN q[j] ELSE t
  BY <1>2, <1>3 DEF With
<1>5. PICK a : a = Append(q, t)
  OBVIOUS
<1>6. /\ a \in Seq(Task) /\ Len(a) = Len(q) + 1
      /\ \A j \in 1 .. Len(q) + 1 : a[j] = IF j <= Len(q) THEN q[j] ELSE t
  BY <1>5
<1>7. \A j \in 1 .. Len(r) : r[j] = a[j]
  BY <1>4, <1>6
<1>8. r = a
  BY <1>3, <1>4, <1>6, <1>7, SeqEqual
<1>. QED
  BY <1>1, <1>5, <1>8

\* A task that is taken out of a queue stood at some place.
LEMMA TakenOut ==
  ASSUME NEW q \in Queue, NEW t \in ToSet(q)
  PROVE  \E i \in 1 .. Len(q) : q[i] = t /\ QueueWithout(q, t) = RemoveAt(q, i)
<1>1. q \in Seq(Task) /\ DOMAIN q = 1 .. Len(q) /\ \E i \in 1 .. Len(q) : q[i] = t
  BY QueueElements DEF Queue
<1>2. PICK i : i = CHOOSE x \in DOMAIN q : q[x] = t
  OBVIOUS
<1>3. i \in 1 .. Len(q) /\ q[i] = t
  BY <1>1, <1>2
<1>. QED
  BY <1>2, <1>3 DEF QueueWithout

\* From k to k2 the queue of pool m becomes q, the other pools keep theirs.
QueueBecomes(k, k2, m, q) ==
  /\ k2.wq[MpfWait(m)] = q
  /\ \A n \in Mpf : n # m => k2.wq[MpfWait(n)] = k.wq[MpfWait(n)]

\* PutQueue sets one queue.
LEMMA PutPool ==
  ASSUME NEW k, IsKernel(k), NEW m \in Mpf, NEW q, NEW k2, k2 = PutQueue(k, MpfWait(m), q)
  PROVE  QueueBecomes(k, k2, m, q)
<1>1. \A n \in Mpf : MpfWait(n) \in WaitQueue /\ (MpfWait(n) = MpfWait(m) => n = m)
  BY LockNames DEF MpfWait
<1>2. k2.wq = [k.wq EXCEPT ![MpfWait(m)] = q] /\ k.wq \in [WaitQueue -> Seq(Task)]
  BY DEF PutQueue, IsKernel
<1>. QED
  BY <1>1, <1>2 DEF QueueBecomes

\* A task is in the queue of one pool at most.
LEMMA DropsOne ==
  ASSUME NEW k, NEW L, NEW X, Links(k, L, X), LockLabels(L), NEW m \in Mpf,
         NEW t \in ToSet(k.wq[MpfWait(m)]), NEW k2, Drops(k, k2, t)
  PROVE  QueueBecomes(k, k2, m, QueueWithout(k.wq[MpfWait(m)], t))
<1>1. t \in Task \ X /\ k.tcb[t].wid = MpfWait(m)
  BY PoolQueue
<1>2. \A n \in Mpf : MpfWait(n) = MpfWait(m) => n = m
  BY DEF MpfWait
<1>3. \A n \in Mpf : n # m => t \notin ToSet(k.wq[MpfWait(n)])
  BY <1>1, <1>2, PoolQueue
<1>. QED
  BY <1>3 DEF Drops, QueueBecomes, QueueWithout

\* By priority a task is put at some place.
LEMMA PriorityPlace ==
  ASSUME NEW k, NEW w, NEW t, NEW q \in Seq(Task), q = k.wq[w]
  PROVE  \E i \in 1 .. Len(q) + 1 :
           queue_insert_tpri(k, w, t) = PutQueue(k, w, InsertAt(q, i, t))
<1>. DEFINE lower == {i \in DOMAIN q : k.tcb[q[i]].priority > k.tcb[t].priority}
            i == IF lower = {} THEN Len(q) + 1
                 ELSE CHOOSE x \in lower : \A j \in lower : x <= j
<1>2. Len(q) \in Nat /\ DOMAIN q = 1 .. Len(q) /\ lower \subseteq 1 .. Len(q)
  BY QueueElements
<1>3. queue_insert_tpri(k, w, t) = PutQueue(k, w, InsertAt(q, i, t))
  BY DEF queue_insert_tpri, PutQueue
<1>4. lower # {} => \E x \in lower : \A j \in lower : x <= j
  <2>1. lower \subseteq Nat
    BY <1>2
  <2>. HIDE DEF lower
  <2>. QED
    BY <2>1, LeastElement
<1>. HIDE DEF lower
<1>5. lower = {} => i = Len(q) + 1
  OBVIOUS
<1>6. lower # {} => i \in lower
  BY <1>4
<1>. HIDE DEF i
<1>7. i \in 1 .. Len(q) + 1
  <2>1. i = Len(q) + 1 \/ i \in 1 .. Len(q)
    BY <1>2, <1>5, <1>6, Zenon
  <2>2. 1 .. Len(q) \subseteq 1 .. Len(q) + 1 /\ Len(q) + 1 \in 1 .. Len(q) + 1
    BY <1>2
  <2>. QED
    BY <2>1, <2>2, Zenon
<1>. QED
  BY <1>3, <1>7

\* From k to k2 the task t joins the queue q of w, at the end if not by priority.
Placing(k, k2, w, t, q, tpri) ==
  \E i \in 1 .. Len(q) + 1 : /\ tpri \/ i = Len(q) + 1
                             /\ k2 = PutQueue(k, w, InsertAt(q, i, t))

\* That is what wait_queue_insert does.
LEMMA WaitPlace ==
  ASSUME NEW k, NEW w, NEW t \in Task, NEW q \in Seq(Task), q = k.wq[w],
         NEW tpri \in BOOLEAN, NEW k2, k2 = wait_queue_insert(k, w, t, tpri)
  PROVE  Placing(k, k2, w, t, q, tpri)
<1>1. CASE tpri
  <2>1. wait_queue_insert(k, w, t, tpri) = queue_insert_tpri(k, w, t)
    BY <1>1 DEF wait_queue_insert
  <2>2. \E i \in 1 .. Len(q) + 1 :
          queue_insert_tpri(k, w, t) = PutQueue(k, w, InsertAt(q, i, t))
    BY PriorityPlace
  <2>. QED
    BY <1>1, <2>1, <2>2 DEF Placing
<1>2. CASE ~tpri
  <2>1. Len(q) + 1 \in 1 .. Len(q) + 1
    BY LenProperties
  <2>2. wait_queue_insert(k, w, t, tpri) = PutQueue(k, w, InsertAt(q, Len(q) + 1, t))
    BY <1>2, AppendedAtEnd DEF wait_queue_insert, PutQueue
  <2>. QED
    BY <2>1, <2>2 DEF Placing
<1>. QED
  BY <1>1, <1>2

\* gcb_make_wait: the task joins the queue of pool m.
LEMMA BeginWaits ==
  ASSUME NEW k, NEW L, NEW t \in Task, Links(k, L, {}), LockLabels(L), k.ctxtsk = t,
         Runnable(k.tcb[t]), NEW m \in Mpf, NEW fac, NEW tmout, NEW tpri \in BOOLEAN,
         NEW nodiswai,
         NEW k2, k2 = gcb_make_wait(k, fac, MpfWait(m), tmout, tpri, nodiswai)
  PROVE  \E i \in 1 .. Len(k.wq[MpfWait(m)]) + 1 :
           /\ tpri \/ i = Len(k.wq[MpfWait(m)]) + 1
           /\ QueueBecomes(k, k2, m, InsertAt(k.wq[MpfWait(m)], i, t))
<1>1. IsKernel(k) /\ k.tcb[t].state = "READY" /\ ~is_waiting(k.tcb[t].state)
  BY DEF Links, Runnable, is_waiting
<1>2. PICK w : w = MpfWait(m) /\ w \in WaitQueue
  BY LockNames
<1>3. PICK k1 : k1 = make_non_ready(k, t)
  OBVIOUS
<1>4. Links(k1, L, {t})
  BY <1>1, <1>3, LeaveRunnable
<1>5. IsKernel(k1)
  BY <1>4 DEF Links
<1>6. Undisturbed(k, k1)
  <2>1. Drops(k, k1, t)
    BY <1>1, <1>3, DeleteWaitsOf, RemoveWaits DEF Drops
  <2>. QED
    BY <1>1, <2>1, DropsNobody
<1>7. PICK k3 : k3 = make_wait(k, fac, w, tmout, nodiswai)
  OBVIOUS
<1>8. k3.wq = k1.wq /\ DOMAIN k3 = DOMAIN k1
  <2>1. PICK k0 : k0 = [k1 EXCEPT !.tcb[t].state = "WAIT"]
    OBVIOUS
  <2>2. k0.wq = k1.wq /\ DOMAIN k0 = DOMAIN k1 /\ "wq" \in DOMAIN k1
    BY <1>5, <2>1 DEF IsKernel
  <2>3. PICK c : k3 = [k0 EXCEPT !.tcb[t] = c]
    BY <1>1, <1>3, <1>7, <2>1 DEF make_wait
  <2>. QED
    BY <2>2, <2>3
<1>9. PICK q : q = k.wq[w]
  OBVIOUS
<1>10. q \in Seq(Task) /\ q = k3.wq[w]
  BY <1>1, <1>2, <1>6, <1>8, <1>9 DEF Undisturbed, IsKernel
<1>19. Placing(k3, k2, w, t, q, tpri)
  <2>1. k2 = wait_queue_insert(k3, w, t, tpri)
    BY <1>2, <1>7 DEF gcb_make_wait
  <2>. QED
    BY <1>10, <2>1, WaitPlace
<1>11. PICK i \in 1 .. Len(q) + 1 : /\ tpri \/ i = Len(q) + 1
                                    /\ k2 = PutQueue(k3, w, InsertAt(q, i, t))
  BY <1>19 DEF Placing
<1>12. k2.wq = [k1.wq EXCEPT ![w] = InsertAt(q, i, t)]
  <2>1. k2 = [k3 EXCEPT !.wq[w] = InsertAt(q, i, t)]
    BY <1>11 DEF PutQueue
  <2>2. "wq" \in DOMAIN k3
    BY <1>5, <1>8 DEF IsKernel
  <2>. QED
    BY <1>8, <2>1, <2>2
<1>13. QueueBecomes(k, k2, m, InsertAt(q, i, t))
  <2>1. PICK q2 : q2 = InsertAt(q, i, t)
    OBVIOUS
  <2>2. \A n \in Mpf : MpfWait(n) \in WaitQueue /\ (MpfWait(n) = w => n = m)
    BY <1>2, LockNames DEF MpfWait
  <2>3. k1.wq \in [WaitQueue -> Seq(Task)]
    BY <1>5 DEF IsKernel
  <2>4. k2.wq = [k1.wq EXCEPT ![w] = q2]
    BY <1>12, <2>1
  <2>5. /\ k2.wq[MpfWait(m)] = q2
        /\ \A n \in Mpf : n # m => k2.wq[MpfWait(n)] = k1.wq[MpfWait(n)]
    BY <1>2, <2>2, <2>3, <2>4
  <2>. QED
    BY <1>6, <2>1, <2>5 DEF QueueBecomes, Undisturbed
<1>. QED
  BY <1>2, <1>9, <1>11, <1>13
\* change_task_priority leaves a waiting task in its queue.
LEMMA PriorityWaits ==
  ASSUME NEW k, NEW L, NEW t \in Task, Links(k, L, {}), LockLabels(L), NEW p \in Pri,
         NEW k2, k2 = change_task_priority(k, t, p)
  PROVE  Undisturbed(k, k2)
<1>1. IsKernel(k)
  BY DEF Links
<1>2. CASE k.tcb[t].state = "READY"
  <2>1. PICK k1 : k1 = ready_queue_delete(k, t)
    OBVIOUS
  <2>2. Links(k1, L, {t})
    BY <1>2, <2>1, DeleteReady
  <2>3. Unsliced(k1) /\ IsKernel(k1) /\ k1.tcb[t] \in TCBType
    BY <2>2, LinksUnsliced DEF Unsliced, IsKernel
  <2>4. Undisturbed(k, k1)
    <3>1. Drops(k, k1, t) /\ ~is_waiting(k.tcb[t].state)
      BY <1>1, <1>2, <2>1, DeleteWaitsOf, RemoveWaits DEF Drops, is_waiting
    <3>. QED
      BY <3>1, DropsNobody
  <2>5. PICK c : c = [k1.tcb[t] EXCEPT !.priority = p]
    OBVIOUS
  <2>6. c \in TCBType /\ c.slicetime = k1.tcb[t].slicetime
    BY <2>3, <2>5 DEF TCBType
  <2>7. PICK k3 : k3 = [k1 EXCEPT !.tcb[t] = c]
    OBVIOUS
  <2>8. IsKernel(k3) /\ k3.wq = k1.wq /\ k3.tcb = [k1.tcb EXCEPT ![t] = c]
    BY <2>3, <2>6, <2>7 DEF IsKernel
  <2>9. PICK k4 : k4 = ready_queue_insert(k3, t)
    OBVIOUS
  <2>10. /\ k4.wq = k3.wq /\ k4.schedtsk = k3.schedtsk /\ DOMAIN k4 = DOMAIN k3
         /\ k4.tcb = [k3.tcb EXCEPT ![t].slicecnt = 0]
    BY <2>8, <2>9 DEF ready_queue_insert, IsKernel
  <2>11. charge_preempted(k4) = k4
    <3>1. \A u \in Task : k3.tcb[u].slicetime = 0
      BY <2>3, <2>6, <2>8 DEF Unsliced, IsKernel
    <3>2. \A u \in Task : k4.tcb[u].slicetime = 0
      BY <2>8, <2>10, <3>1 DEF IsKernel, TCBType
    <3>3. k4.schedtsk \in Task \cup {NoTask}
      BY <2>8, <2>10 DEF IsKernel
    <3>. QED
      BY <3>2, <3>3 DEF charge_preempted, time_slice_schedule
  <2>12. k2 = reschedule(k4)
    <3>1. [ready_queue_delete(k, t) EXCEPT !.tcb[t].priority = p] = k3
      BY <2>1, <2>3, <2>5, <2>7 DEF IsKernel
    <3>. QED
      BY <1>2, <2>9, <3>1 DEF change_task_priority
  <2>13. k2.wq = k4.wq
    <3>1. "wq" \in DOMAIN k4
      BY <2>8, <2>10 DEF IsKernel
    <3>. QED
      BY <2>11, <2>12, <3>1 DEF reschedule
  <2>. QED
    BY <2>4, <2>8, <2>10, <2>13 DEF Undisturbed
<1>3. CASE k.tcb[t].state # "READY"
  <2>1. k2 = [k EXCEPT !.tcb[t].priority = p]
    BY <1>3 DEF change_task_priority
  <2>2. k2.wq = k.wq
    BY <1>1, <2>1 DEF IsKernel
  <2>. QED
    BY <2>2 DEF Undisturbed
<1>. QED
  BY <1>2, <1>3

\* From k to k2 one task of the queue of m has changed its place.
Reordered(k, k2, m) ==
  \E i, j \in 1 .. Len(k.wq[MpfWait(m)]) :
    QueueBecomes(k, k2, m,
                 InsertAt(RemoveAt(k.wq[MpfWait(m)], i), j, k.wq[MpfWait(m)][i]))

\* gcb_change_priority moves a task within the queue of its pool.
LEMMA MoveWaits ==
  ASSUME NEW k, NEW L, NEW t \in Task, Links(k, L, {}), LockLabels(L), NEW m \in Mpf,
         is_waiting(k.tcb[t].state), k.tcb[t].wid = MpfWait(m),
         NEW k2, k2 = gcb_change_priority(k, MpfWait(m), t)
  PROVE  Reordered(k, k2, m)
<1>1. PICK w : w = MpfWait(m) /\ w \in WaitQueue
  BY LockNames
<1>2. PICK q : q = k.wq[w]
  OBVIOUS
<1>3. q \in Queue /\ t \in ToSet(q) /\ q \in Seq(Task)
  BY <1>1, <1>2, PoolQueue DEF Queue
<1>4. PICK i \in 1 .. Len(q) : q[i] = t /\ QueueWithout(q, t) = RemoveAt(q, i)
  BY <1>3, TakenOut
<1>5. PICK r : r = RemoveAt(q, i)
  OBVIOUS
<1>6. r \in Seq(Task) /\ Len(r) = Len(q) - 1 /\ Len(q) \in Nat
  BY <1>3, <1>4, <1>5, RemovedAt, LenProperties
<1>7. PICK k1 : k1 = QueRemove(k, t)
  OBVIOUS
<1>8. Drops(k, k1, t) /\ IsKernel(k) /\ DOMAIN k1 = DOMAIN k /\ "wq" \in DOMAIN k
  BY <1>7, RemoveWaits DEF Links, QueRemove, IsKernel
<1>9. QueueBecomes(k, k1, m, r)
  BY <1>1, <1>2, <1>3, <1>4, <1>5, <1>8, DropsOne
<1>10. k1.wq[w] = r
  BY <1>1, <1>9 DEF QueueBecomes
<1>11. \E j \in 1 .. Len(r) + 1 :
         queue_insert_tpri(k1, w, t) = PutQueue(k1, w, InsertAt(r, j, t))
  BY <1>6, <1>10, PriorityPlace
<1>12. PICK j \in 1 .. Len(r) + 1 :
         queue_insert_tpri(k1, w, t) = PutQueue(k1, w, InsertAt(r, j, t))
  BY <1>11
<1>13. PICK q2 : q2 = InsertAt(r, j, t)
  OBVIOUS
<1>14. k2 = PutQueue(k1, w, q2)
  BY <1>1, <1>7, <1>12, <1>13 DEF gcb_change_priority
<1>15. k1.wq = [x \in WaitQueue |-> QueueWithout(k.wq[x], t)]
  BY <1>7, <1>8 DEF QueRemove, IsKernel
<1>16. k2.wq = [k1.wq EXCEPT ![w] = q2]
  BY <1>8, <1>14 DEF PutQueue
<1>17. QueueBecomes(k1, k2, m, q2)
  <2>1. \A n \in Mpf : MpfWait(n) \in WaitQueue /\ (MpfWait(n) = w => n = m)
    BY <1>1, LockNames DEF MpfWait
  <2>. QED
    BY <1>1, <1>15, <1>16, <2>1 DEF QueueBecomes
<1>18. QueueBecomes(k, k2, m, q2)
  BY <1>9, <1>17 DEF QueueBecomes
<1>19. j \in 1 .. Len(q) /\ q2 = InsertAt(RemoveAt(q, i), j, q[i])
  BY <1>4, <1>5, <1>6, <1>12, <1>13
<1>. QED
  BY <1>1, <1>2, <1>4, <1>18, <1>19 DEF Reordered

\* wait_release_ok of the first of the queue of a pool.
LEMMA FirstReleased ==
  ASSUME NEW k, NEW L, Links(k, L, {}), LockLabels(L), NEW m \in Mpf,
         k.wq[MpfWait(m)] # <<>>, NEW k2, k2 = wait_release_ok(k, Head(k.wq[MpfWait(m)]))
  PROVE  QueueBecomes(k, k2, m, Tail(k.wq[MpfWait(m)]))
<1>1. PICK q : q = k.wq[MpfWait(m)]
  OBVIOUS
<1>2. q \in Queue /\ q # <<>>
  BY <1>1, PoolQueue
<1>3. PICK h : h = Head(q)
  OBVIOUS
<1>4. h \in ToSet(q) /\ QueueWithout(q, h) = Tail(q)
  BY <1>2, <1>3, QueueTail, QueueHeadRemoved
<1>5. h \in Task /\ is_waiting(k.tcb[h].state)
  BY <1>1, <1>4, PoolQueue
<1>6. k2 = end_wait(wait_release(k, h), h, "E_OK")
  BY <1>1, <1>3 DEF wait_release_ok
<1>7. Drops(k, k2, h)
  BY <1>5, <1>6, ReleaseDrops
<1>. QED
  BY <1>1, <1>4, <1>7, DropsOne
\* wait_delete empties the queue of a pool.
LEMMA DeletedWaits ==
  ASSUME NEW k, NEW L, Links(k, L, {}), LockLabels(L), NEW m \in Mpf,
         NEW k2, k2 = wait_delete(k, MpfWait(m))
  PROVE  QueueBecomes(k, k2, m, <<>>)
<1>1. PICK w : w = MpfWait(m)
  OBVIOUS
<1>2. PICK q : q = k.wq[w]
  OBVIOUS
<1>3. q \in Queue /\ q \in Seq(Task) /\ Len(q) \in Nat
  BY <1>1, <1>2, PoolQueue, QueueElements DEF Queue
<1>4. PICK f : DeleteSteps(f, k, q, Len(q)) /\ k2 = f[Len(q)]
  BY <1>1, <1>2, <1>3, WaitDelete
<1>. DEFINE Fine(n) == Links(f[n], L, {}) /\ QueueBecomes(k, f[n], m, From(q, n))
            S == {n \in 0 .. Len(q) : ~Fine(n)}
<1>5. ASSUME S # {} PROVE FALSE
  <2>1. PICK n \in S : \A i \in S : n <= i
    <3>1. S \subseteq Nat
      BY <1>3
    <3>. HIDE DEF S
    <3>. QED
      BY <1>5, <3>1, LeastElement
  <2>2. CASE n = 0
    <3>1. f[0] = k
      BY <1>4 DEF DeleteSteps
    <3>2. From(q, 0) = q
      BY <1>3, FromSteps
    <3>. QED
      BY <1>1, <1>2, <2>1, <2>2, <3>1, <3>2 DEF QueueBecomes
  <2>3. CASE n # 0
    <3>1. n - 1 \in 0 .. Len(q) /\ n \in 1 .. Len(q) /\ ~(n <= n - 1) /\ n - 1 \in Int
      BY <1>3, <2>1, <2>3
    <3>2. Fine(n - 1)
      BY <2>1, <3>1
    <3>3. PICK r : r = From(q, n - 1)
      OBVIOUS
    <3>4. PICK a : a = f[n - 1]
      OBVIOUS
    <3>5. PICK b : b = f[n]
      OBVIOUS
    <3>6. Links(a, L, {}) /\ QueueBecomes(k, a, m, r)
      BY <3>2, <3>3, <3>4
    <3>7. PICK u : u = q[n]
      OBVIOUS
    <3>8. b = end_wait(wait_release(a, u), u, "E_DLT")
      BY <1>4, <3>1, <3>4, <3>5, <3>7 DEF DeleteSteps
    <3>9. u \in ToSet(r) /\ QueueWithout(r, u) = From(q, n) /\ a.wq[MpfWait(m)] = r
      BY <1>3, <3>1, <3>3, <3>6, <3>7, QueueRestStep DEF QueueBecomes
    <3>10. u \in Task /\ is_waiting(a.tcb[u].state) /\ "E_DLT" \in WaitResult
      BY <3>6, <3>9, PoolQueue DEF WaitResult
    <3>11. Drops(a, b, u) /\ Links(b, L, {})
      BY <3>6, <3>8, <3>10, ReleaseDrops, WaitEnds
    <3>12. QueueBecomes(a, b, m, From(q, n))
      <4>1. u \in ToSet(a.wq[MpfWait(m)])
        BY <3>9
      <4>2. QueueBecomes(a, b, m, QueueWithout(a.wq[MpfWait(m)], u))
        BY <3>6, <3>11, <4>1, DropsOne
      <4>. QED
        BY <3>9, <4>2
    <3>13. QueueBecomes(k, b, m, From(q, n))
      BY <3>6, <3>12 DEF QueueBecomes
    <3>. QED
      BY <2>1, <3>5, <3>11, <3>13
  <2>. QED
    BY <2>2, <2>3
<1>6. Fine(Len(q))
  BY <1>3, <1>5
<1>7. From(q, Len(q)) = <<>>
  BY <1>3, FromSteps
<1>. QED
  BY <1>4, <1>6, <1>7

-----------------------------------------------------------------------------
(* The queues of the pools in a step.                                        *)

SameQueues == \A m \in Mpf : wait_queue'[MpfWait(m)] = wait_queue[MpfWait(m)]

\* The queue of m becomes q in the step.
QueueSet(m, q) ==
  /\ wait_queue'[MpfWait(m)] = q
  /\ \A n \in Mpf : n # m => wait_queue'[MpfWait(n)] = wait_queue[MpfWait(n)]

\* What Links gives for the kernel of a state.
LEMMA PoolLinks ==
  ASSUME MInv
  PROVE  Links(Kernel, LockOf(call), {}) /\ LockLabels(LockOf(call)) /\ IsKernel(Kernel)
BY Parts, CallLabels

\* A step that ends in an undisturbed kernel, and one that sets a queue.
LEMMA QueuesBecome ==
  ASSUME NEW k, Becomes(k)
  PROVE  /\ Undisturbed(Kernel, k) => SameQueues
         /\ \A m, q : QueueBecomes(Kernel, k, m, q) => QueueSet(m, q)
<1>1. Kernel.wq = wait_queue /\ wait_queue' = k.wq
  BY Fields DEF Becomes
<1>. QED
  BY <1>1 DEF Undisturbed, SameQueues, QueueBecomes, QueueSet

\* A step of LockOBJ.
LEMMA LockStepQueues ==
  ASSUME MInv, in_task, NEW c, c.m \in Mpf, LockStep(c)
  PROVE  SameQueues
<1>1. PICK k : k = LockOBJ(Kernel, MpfLock(c.m))
  OBVIOUS
<1>2. MpfLock(c.m) \in Lock /\ ctxtsk \in Task /\ Kernel.ctxtsk = ctxtsk
      /\ Runnable(Kernel.tcb[ctxtsk])
  BY OnCpu, LockNames
<1>3. Undisturbed(Kernel, k)
  <2>1. PICK K : K = Kernel
    OBVIOUS
  <2>2. PICK t : t = ctxtsk
    OBVIOUS
  <2>3. PICK l : l = MpfLock(c.m)
    OBVIOUS
  <2>4. PICK L : L = LockOf(call)
    OBVIOUS
  <2>5. /\ Links(K, L, {}) /\ LockLabels(L) /\ K.ctxtsk = t /\ t \in Task
        /\ Runnable(K.tcb[t]) /\ l \in Lock /\ k = LockOBJ(K, l)
    BY <1>1, <1>2, <2>1, <2>2, <2>3, <2>4, PoolLinks
  <2>6. Undisturbed(K, k)
    BY <2>5, LockWaits
  <2>. QED
    BY <2>1, <2>6
<1>4. Becomes(k)
  BY <1>1 DEF LockStep, END_CRITICAL_SECTION
<1>. QED
  BY <1>3, <1>4, QueuesBecome

\* UnlockOBJ after k.
LEMMA UnlockStepQueues ==
  ASSUME NEW k, IsKernel(k), NEW m \in Mpf, END_CRITICAL_SECTION(UnlockOBJ(k, MpfLock(m)))
  PROVE  \A n \in Mpf : wait_queue'[MpfWait(n)] = k.wq[MpfWait(n)]
<1>1. PICK k2 : k2 = UnlockOBJ(k, MpfLock(m))
  OBVIOUS
<1>2. PICK l : l = MpfLock(m) /\ l \in Lock
  BY LockNames
<1>3. Undisturbed(k, k2)
  BY <1>1, <1>2, UnlockWaits
<1>4. wait_queue' = k2.wq
  BY <1>1 DEF END_CRITICAL_SECTION, Becomes
<1>. QED
  BY <1>3, <1>4 DEF Undisturbed
-----------------------------------------------------------------------------
(* TKPool: what the variables say of its pools.                              *)

PoolSet(M) == {m \in Mpf : M[m].mpfid}

ByPriority(M) == {m \in Mpf : M[m].mpfid /\ M[m].tpri}

\* The blocks of the pool c that are not in it.
OutOf(c) == IF c.mpfid THEN Block \ (c.unused .. MpfCnt \cup ToSet(c.freelist)) ELSE {}

Outs(M) == [m \in Mpf |-> OutOf(M[m])]

Waiters(wq) == [m \in Mpf |-> wq[MpfWait(m)]]

PoolStep == [Pool!Next]_(Pool!poolvars)

\* The variables of TKPool before and after the step.
Before(E, P, O, Q) == /\ E = PoolSet(objcb.mpf) /\ P = ByPriority(objcb.mpf)
                      /\ O = Outs(objcb.mpf) /\ Q = Waiters(wait_queue)

After(E, P, O, Q) == /\ E = PoolSet(objcb'.mpf) /\ P = ByPriority(objcb'.mpf)
                     /\ O = Outs(objcb'.mpf) /\ Q = Waiters(wait_queue')

\* A step that changes neither control blocks nor queues is none of TKPool.
LEMMA PoolUnchanged ==
  ASSUME objcb'.mpf = objcb.mpf, SameQueues
  PROVE  PoolStep
<1>1. Waiters(wait_queue') = Waiters(wait_queue)
  BY DEF Waiters, SameQueues
<1>2. (Pool!poolvars)' = Pool!poolvars
  BY <1>1 DEF Pool!poolvars, Waiters, mpfcb, Block
<1>. QED
  BY <1>2 DEF PoolStep

\* TKPool extends SequencesExt as well.
LEMMA SameSequences ==
  ASSUME NEW q, NEW i, NEW e
  PROVE  /\ Pool!InsertAt(q, i, e) = InsertAt(q, i, e)
         /\ Pool!RemoveAt(q, i) = RemoveAt(q, i)
BY DEF Pool!InsertAt, InsertAt, Pool!RemoveAt, RemoveAt

\* The calls of TKPool, each a step of it.
LEMMA PoolNext ==
  ASSUME NEW m \in Mpf,
         \/ Pool!Create(m) \/ Pool!Delete(m) \/ Pool!GiveToFirst(m)
         \/ \E b \in Block : Pool!Take(m, b) \/ Pool!GiveBack(m, b)
         \/ \E t \in Task : Pool!Wait(m, t)
         \/ \E i \in 1 .. Len(wait_queue[MpfWait(m)]) :
              Pool!Leave(m, i) \/ Pool!Reorder(m, i)
  PROVE  PoolStep
BY DEF PoolStep, Pool!Next, Pool!Block, Block

\* Each action of TKPool, in terms of what the variables are before and after it.
LEMMA CreateForm ==
  ASSUME NEW m \in Mpf, NEW E, NEW P, NEW O, NEW Q, Before(E, P, O, Q),
         NEW E2, NEW P2, After(E2, P2, O, Q),
         m \notin E, E2 = E \cup {m}, P2 = P \/ P2 = P \cup {m}
  PROVE  Pool!Create(m)
BY DEF Pool!Create, Pool!Block, Before, After, PoolSet, ByPriority, Outs, OutOf, Waiters,
       mpfcb, Block

\* Pool!Delete
LEMMA DeleteForm ==
  ASSUME NEW m \in Mpf, NEW E, NEW P, NEW O, NEW Q, Before(E, P, O, Q),
         m \in E, After(E \ {m}, P \ {m}, [O EXCEPT ![m] = {}], [Q EXCEPT ![m] = <<>>])
  PROVE  Pool!Delete(m)
BY DEF Pool!Delete, Pool!Block, Before, After, PoolSet, ByPriority, Outs, OutOf, Waiters,
       mpfcb, Block

\* Pool!Take
LEMMA TakeForm ==
  ASSUME NEW m \in Mpf, NEW E, NEW P, NEW O, NEW Q, Before(E, P, O, Q),
         m \in E, Q[m] = <<>>, NEW b \in Block \ O[m],
         After(E, P, [O EXCEPT ![m] = @ \cup {b}], Q)
  PROVE  Pool!Take(m, b)
BY DEF Pool!Take, Pool!Block, Before, After, PoolSet, ByPriority, Outs, OutOf, Waiters,
       mpfcb, Block

\* Pool!Wait, at place i of the queue.
LEMMA WaitForm ==
  ASSUME NEW m \in Mpf, NEW E, NEW P, NEW O, NEW Q, Before(E, P, O, Q),
         m \in E, O[m] = Block, NEW t, NEW i \in 1 .. Len(Q[m]) + 1,
         m \in P \/ i = Len(Q[m]) + 1,
         After(E, P, O, [Q EXCEPT ![m] = InsertAt(@, i, t)])
  PROVE  Pool!Wait(m, t)
<1>1. PICK x : x = InsertAt(Q[m], i, t)
  OBVIOUS
<1>2. Q[m] = wait_queue[MpfWait(m)]
  BY DEF Before, Waiters
<1>3. x = Pool!InsertAt(wait_queue[MpfWait(m)], i, t)
  BY <1>1, <1>2, SameSequences
<1>4. After(E, P, O, [Q EXCEPT ![m] = x])
  BY <1>1
<1>. QED
  BY <1>2, <1>3, <1>4 DEF Pool!Wait, Pool!Block, Before, After, PoolSet, ByPriority, Outs,
                          OutOf, Waiters, mpfcb, Block

\* Pool!GiveToFirst
LEMMA GiveToFirstForm ==
  ASSUME NEW m \in Mpf, NEW E, NEW P, NEW O, NEW Q, Before(E, P, O, Q),
         m \in E, Q[m] # <<>>, After(E, P, O, [Q EXCEPT ![m] = Tail(@)])
  PROVE  Pool!GiveToFirst(m)
BY DEF Pool!GiveToFirst, Pool!Block, Before, After, PoolSet, ByPriority, Outs, OutOf, Waiters,
       mpfcb, Block

\* Pool!GiveBack
LEMMA GiveBackForm ==
  ASSUME NEW m \in Mpf, NEW E, NEW P, NEW O, NEW Q, Before(E, P, O, Q),
         m \in E, Q[m] = <<>>, NEW b \in O[m], After(E, P, [O EXCEPT ![m] = @ \ {b}], Q)
  PROVE  Pool!GiveBack(m, b)
BY DEF Pool!GiveBack, Pool!Block, Before, After, PoolSet, ByPriority, Outs, OutOf, Waiters,
       mpfcb, Block

\* Pool!Leave
LEMMA LeaveForm ==
  ASSUME NEW m \in Mpf, NEW E, NEW P, NEW O, NEW Q, Before(E, P, O, Q),
         NEW i \in 1 .. Len(Q[m]), After(E, P, O, [Q EXCEPT ![m] = RemoveAt(@, i)])
  PROVE  Pool!Leave(m, i)
<1>1. PICK x : x = RemoveAt(Q[m], i)
  OBVIOUS
<1>2. Q[m] = wait_queue[MpfWait(m)]
  BY DEF Before, Waiters
<1>3. x = Pool!RemoveAt(wait_queue[MpfWait(m)], i)
  BY <1>1, <1>2, SameSequences
<1>4. After(E, P, O, [Q EXCEPT ![m] = x])
  BY <1>1
<1>. QED
  BY <1>2, <1>3, <1>4 DEF Pool!Leave, Pool!Block, Before, After, PoolSet, ByPriority, Outs,
                          OutOf, Waiters, mpfcb, Block

\* Pool!Reorder, from place i to place j.
LEMMA ReorderForm ==
  ASSUME NEW m \in Mpf, NEW E, NEW P, NEW O, NEW Q, Before(E, P, O, Q), m \in P,
         NEW i \in 1 .. Len(Q[m]), NEW j \in 1 .. Len(Q[m]),
         After(E, P, O, [Q EXCEPT ![m] = InsertAt(RemoveAt(@, i), j, @[i])])
  PROVE  Pool!Reorder(m, i)
<1>1. PICK x : x = InsertAt(RemoveAt(Q[m], i), j, Q[m][i])
  OBVIOUS
<1>2. Q[m] = wait_queue[MpfWait(m)]
  BY DEF Before, Waiters
<1>3. x = Pool!InsertAt(Pool!RemoveAt(wait_queue[MpfWait(m)], i), j, wait_queue[MpfWait(m)][i])
  BY <1>1, <1>2, SameSequences
<1>4. After(E, P, O, [Q EXCEPT ![m] = x])
  BY <1>1
<1>. QED
  BY <1>2, <1>3, <1>4 DEF Pool!Reorder, Pool!Block, Before, After, PoolSet, ByPriority, Outs,
                          OutOf, Waiters, mpfcb, Block
-----------------------------------------------------------------------------
(* The invariant of the waits: M is what the control blocks say, wq what the *)
(* queues, c where a task is.                                                *)

\* Tasks wait only for a block of a pool that exists and has none.
NoneNeedless(M, wq) ==
  \A m \in Mpf : wq[MpfWait(m)] # <<>> => M[m].mpfid /\ M[m].frbcnt <= 0

\* What a task found when it looked is so until it begins to wait or frees its block.
CallFits(c, M, wq) ==
  /\ c.at = "wait" => c.m \in Mpf /\ M[c.m].mpfid /\ M[c.m].frbcnt <= 0
  /\ c.at = "free" => c.m \in Mpf /\ wq[MpfWait(c.m)] = <<>>

WaitInv == /\ NoneNeedless(objcb.mpf, wait_queue)
           /\ \A u \in Task : CallFits(call[u], objcb.mpf, wait_queue)

\* A queue that is empty stays so.
Shrink(wq, wq2) == \A m \in Mpf : wq[MpfWait(m)] = <<>> => wq2[MpfWait(m)] = <<>>

\* The tasks stay where they are, or come where what they found is so.
CallsFit(M, wq) == \A u \in Task : call'[u] = call[u] \/ CallFits(call'[u], M, wq)

\* What tasks have found stays so while pools do not change and no queue begins.
LEMMA ShrinkFits ==
  ASSUME WaitInv, objcb'.mpf = objcb.mpf, Shrink(wait_queue, wait_queue'),
         CallsFit(objcb.mpf, wait_queue)
  PROVE  WaitInv'
<1>1. PICK M : M = objcb.mpf /\ M = objcb'.mpf
  OBVIOUS
<1>2. PICK q, q2 : q = wait_queue /\ q2 = wait_queue' /\ Shrink(q, q2)
  OBVIOUS
<1>3. NoneNeedless(M, q) /\ \A u \in Task : CallFits(call[u], M, q)
  BY <1>1, <1>2 DEF WaitInv
<1>4. \A u \in Task : CallFits(call'[u], M, q)
  BY <1>1, <1>2, <1>3 DEF CallsFit
<1>5. NoneNeedless(M, q2)
  BY <1>2, <1>3 DEF NoneNeedless, Shrink
<1>6. \A u \in Task : CallFits(call'[u], M, q2)
  BY <1>2, <1>4 DEF CallFits, Shrink
<1>. QED
  BY <1>1, <1>2, <1>5, <1>6 DEF WaitInv

\* Elsewhere means: not at a place where a task has found something.
Elsewhere(c) == c.at \notin {"wait", "free"}

\* Such a task has found nothing that could change.
LEMMA ElsewhereFits ==
  ASSUME NEW c, Elsewhere(c), NEW M, NEW wq
  PROVE  CallFits(c, M, wq)
BY DEF Elsewhere, CallFits

\* One task moves to where what it found is so.
LEMMA MoveFits ==
  ASSUME call \in [Task -> CallType], NEW t \in Task, NEW d, Moves(call, call', t, d),
         NEW M, NEW wq, CallFits(d, M, wq)
  PROVE  CallsFit(M, wq)
BY DEF Moves, CallsFit

\* A step that TKPool does not notice.
LEMMA StutterStep ==
  ASSUME WaitInv, objcb'.mpf = objcb.mpf, SameQueues, CallsFit(objcb.mpf, wait_queue)
  PROVE  WaitInv' /\ PoolStep
<1>1. Shrink(wait_queue, wait_queue')
  BY DEF SameQueues, Shrink
<1>. QED
  BY <1>1, ShrinkFits, PoolUnchanged

\* The task under a lock is the only one in the code of its pool.
LEMMA AloneInside ==
  ASSUME MInv, in_task, Under(call[ctxtsk])
  PROVE  \A u \in Task : u # ctxtsk /\ call[u].m = call[ctxtsk].m => ~Under(call[u])
<1>1. ctxtsk \in Task /\ tcb[ctxtsk].klocked
  BY Holding
<1>2. OneHolder(Kernel, call) /\ Kernel.tcb = tcb
  BY Parts, Fields DEF Locks
<1>3. \A u \in Task : Under(call[u]) => tcb[u].klocked
  BY Parts DEF TaskLocks
<1>. QED
  BY <1>1, <1>2, <1>3 DEF OneHolder

\* A step of the task under the lock of m in which m is changed, with nobody waiting
\* at its end.
LEMMA ChangeFits ==
  ASSUME MInv, WaitInv, in_task, Under(call[ctxtsk]), NEW m, m = call[ctxtsk].m,
         NEW r, Replaced(objcb.mpf, objcb'.mpf, m, r), QueueSet(m, <<>>),
         NEW d, Elsewhere(d), Moves(call, call', ctxtsk, d)
  PROVE  WaitInv'
<1>1. PICK M, M2 : M = objcb.mpf /\ M2 = objcb'.mpf /\ Replaced(M, M2, m, r)
  OBVIOUS
<1>2. PICK q, q2 : q = wait_queue /\ q2 = wait_queue'
  OBVIOUS
<1>3. PICK cl, cl2, t : cl = call /\ cl2 = call' /\ t = ctxtsk /\ Moves(cl, cl2, t, d)
  OBVIOUS
<1>4. M \in [Mpf -> MPFCBType] /\ cl \in [Task -> CallType] /\ t \in Task /\ m \in Mpf
  BY <1>1, <1>3, Parts, Holding DEF ObjType
<1>5. NoneNeedless(M, q) /\ \A u \in Task : CallFits(cl[u], M, q)
  BY <1>1, <1>2, <1>3 DEF WaitInv
<1>6. q2[MpfWait(m)] = <<>> /\ \A n \in Mpf : n # m => q2[MpfWait(n)] = q[MpfWait(n)]
  BY <1>2 DEF QueueSet
<1>7. \A n \in Mpf : n # m => M2[n] = M[n]
  BY <1>1, <1>4 DEF Replaced
<1>8. NoneNeedless(M2, q2)
  BY <1>5, <1>6, <1>7 DEF NoneNeedless
<1>9. \A u \in Task : u # t /\ cl[u].m = m => ~Under(cl[u])
  BY <1>3, AloneInside
<1>10. \A u \in Task : u # t => cl2[u] = cl[u]
  BY <1>3, <1>4 DEF Moves
<1>11. cl2[t] = d
  BY <1>3, <1>4 DEF Moves
<1>12. \A u \in Task : CallFits(cl2[u], M2, q2)
  <2>1. SUFFICES ASSUME NEW u \in Task
                 PROVE  CallFits(cl2[u], M2, q2)
    OBVIOUS
  <2>2. CASE u = t
    BY <1>11, <2>2, ElsewhereFits
  <2>3. CASE u # t
    <3>1. PICK c : c = cl[u]
      OBVIOUS
    <3>2. CallFits(c, M, q) /\ (Under(c) => c.m # m)
      BY <1>5, <1>9, <2>3, <3>1
    <3>3. CallFits(c, M2, q2)
      BY <1>6, <1>7, <3>2 DEF CallFits, Under
    <3>. QED
      BY <1>10, <2>3, <3>1, <3>3
  <2>. QED
    BY <2>2, <2>3
<1>. QED
  BY <1>1, <1>2, <1>3, <1>8, <1>12 DEF WaitInv
-----------------------------------------------------------------------------
(* Steps of the pools that are calls of TKPool.                              *)

\* The queues after a step that sets one.
LEMMA WaitersSet ==
  ASSUME NEW m \in Mpf, NEW q, QueueSet(m, q)
  PROVE  Waiters(wait_queue') = [Waiters(wait_queue) EXCEPT ![m] = q]
BY DEF QueueSet, Waiters

\* The queues of the pools stay.
LEMMA WaitersKept ==
  ASSUME SameQueues
  PROVE  Waiters(wait_queue') = Waiters(wait_queue)
BY DEF SameQueues, Waiters

\* The pools after a step that sets one.
LEMMA PoolsSet ==
  ASSUME NEW M \in [Mpf -> MPFCBType], NEW m \in Mpf, NEW r, NEW M2, Replaced(M, M2, m, r)
  PROVE  /\ PoolSet(M2) = IF r.mpfid THEN PoolSet(M) \cup {m} ELSE PoolSet(M) \ {m}
         /\ ByPriority(M2) = IF r.mpfid /\ r.tpri THEN ByPriority(M) \cup {m}
                             ELSE ByPriority(M) \ {m}
         /\ Outs(M2) = [Outs(M) EXCEPT ![m] = OutOf(r)]
<1>1. M2[m] = r /\ \A n \in Mpf : n # m => M2[n] = M[n]
  BY DEF Replaced
<1>2. PoolSet(M2) = IF r.mpfid THEN PoolSet(M) \cup {m} ELSE PoolSet(M) \ {m}
  BY <1>1 DEF PoolSet
<1>3. ByPriority(M2) = IF r.mpfid /\ r.tpri THEN ByPriority(M) \cup {m}
                       ELSE ByPriority(M) \ {m}
  BY <1>1 DEF ByPriority
<1>4. Outs(M2) = [Outs(M) EXCEPT ![m] = OutOf(r)]
  BY <1>1 DEF Outs
<1>. QED
  BY <1>2, <1>3, <1>4

\* A control block becomes a pool with all its blocks: Pool!Create.
LEMMA PoolCreated ==
  ASSUME objcb.mpf \in [Mpf -> MPFCBType], NEW m \in Mpf, ~objcb.mpf[m].mpfid,
         NEW r, r.mpfid, OutOf(r) = {}, Replaced(objcb.mpf, objcb'.mpf, m, r), SameQueues
  PROVE  PoolStep
<1>1. PICK M, M2 : M = objcb.mpf /\ M2 = objcb'.mpf
  OBVIOUS
<1>2. PICK E, P, O, Q : /\ E = PoolSet(M) /\ P = ByPriority(M) /\ O = Outs(M)
                        /\ Q = Waiters(wait_queue)
  OBVIOUS
<1>3. PICK E2, P2 : E2 = PoolSet(M2) /\ P2 = ByPriority(M2)
  OBVIOUS
<1>4. Before(E, P, O, Q)
  BY <1>1, <1>2 DEF Before
<1>5. m \notin E /\ m \notin P /\ O[m] = {}
  BY <1>1, <1>2 DEF PoolSet, ByPriority, Outs, OutOf
<1>6. E2 = E \cup {m} /\ (P2 = P \/ P2 = P \cup {m}) /\ Outs(M2) = [O EXCEPT ![m] = {}]
  <2>1. M \in [Mpf -> MPFCBType] /\ Replaced(M, M2, m, r)
    BY <1>1
  <2>2. /\ E2 = IF r.mpfid THEN E \cup {m} ELSE E \ {m}
        /\ P2 = IF r.mpfid /\ r.tpri THEN P \cup {m} ELSE P \ {m}
        /\ Outs(M2) = [O EXCEPT ![m] = OutOf(r)]
    BY <1>2, <1>3, <2>1, PoolsSet
  <2>3. P \ {m} = P
    BY <1>5
  <2>. QED
    BY <2>2, <2>3
<1>7. [O EXCEPT ![m] = {}] = O
  BY <1>2, <1>5 DEF Outs
<1>8. After(E2, P2, O, Q)
  BY <1>1, <1>2, <1>3, <1>6, <1>7, WaitersKept DEF After
<1>9. Pool!Create(m)
  BY <1>4, <1>5, <1>6, <1>8, CreateForm
<1>. QED
  BY <1>9, PoolNext

\* A pool ends with its queue: Pool!Delete.
LEMMA PoolDeleted ==
  ASSUME objcb.mpf \in [Mpf -> MPFCBType], NEW m \in Mpf, objcb.mpf[m].mpfid,
         NEW r, ~r.mpfid, Replaced(objcb.mpf, objcb'.mpf, m, r), QueueSet(m, <<>>)
  PROVE  PoolStep
<1>1. PICK M, M2 : M = objcb.mpf /\ M2 = objcb'.mpf
  OBVIOUS
<1>2. PICK E, P, O, Q : /\ E = PoolSet(M) /\ P = ByPriority(M) /\ O = Outs(M)
                        /\ Q = Waiters(wait_queue)
  OBVIOUS
<1>3. Before(E, P, O, Q)
  BY <1>1, <1>2 DEF Before
<1>4. m \in E /\ OutOf(r) = {}
  BY <1>1, <1>2 DEF PoolSet, OutOf
<1>5. /\ PoolSet(M2) = E \ {m} /\ ByPriority(M2) = P \ {m}
      /\ Outs(M2) = [O EXCEPT ![m] = {}]
  <2>1. M \in [Mpf -> MPFCBType] /\ Replaced(M, M2, m, r)
    BY <1>1
  <2>. QED
    BY <1>2, <1>4, <2>1, PoolsSet
<1>6. After(E \ {m}, P \ {m}, [O EXCEPT ![m] = {}], [Q EXCEPT ![m] = <<>>])
  BY <1>1, <1>2, <1>5, WaitersSet DEF After
<1>7. Pool!Delete(m)
  BY <1>3, <1>4, <1>6, DeleteForm
<1>. QED
  BY <1>7, PoolNext

\* A pool that stays with other blocks.
LEMMA BlocksOut ==
  ASSUME NEW M \in [Mpf -> MPFCBType], NEW m \in Mpf, M[m].mpfid,
         NEW r, r.mpfid, r.tpri = M[m].tpri, NEW M2, Replaced(M, M2, m, r)
  PROVE  /\ PoolSet(M2) = PoolSet(M) /\ ByPriority(M2) = ByPriority(M)
         /\ Outs(M2) = [Outs(M) EXCEPT ![m] = OutOf(r)]
<1>1. m \in PoolSet(M) /\ (m \in ByPriority(M) <=> M[m].tpri)
  BY DEF PoolSet, ByPriority
<1>. QED
  BY <1>1, PoolsSet

\* A block leaves a pool nobody waits for: Pool!Take.
LEMMA PoolTaken ==
  ASSUME objcb.mpf \in [Mpf -> MPFCBType], NEW m \in Mpf, objcb.mpf[m].mpfid,
         NEW r, r.mpfid, r.tpri = objcb.mpf[m].tpri,
         Replaced(objcb.mpf, objcb'.mpf, m, r), SameQueues, wait_queue[MpfWait(m)] = <<>>,
         NEW b \in Block, b \notin OutOf(objcb.mpf[m]),
         OutOf(r) = OutOf(objcb.mpf[m]) \cup {b}
  PROVE  PoolStep
<1>1. PICK M, M2 : M = objcb.mpf /\ M2 = objcb'.mpf
  OBVIOUS
<1>2. PICK E, P, O, Q : /\ E = PoolSet(M) /\ P = ByPriority(M) /\ O = Outs(M)
                        /\ Q = Waiters(wait_queue)
  OBVIOUS
<1>3. Before(E, P, O, Q)
  BY <1>1, <1>2 DEF Before
<1>4. m \in E /\ O[m] = OutOf(M[m]) /\ Q[m] = <<>>
  BY <1>1, <1>2 DEF PoolSet, Outs, Waiters
<1>5. /\ PoolSet(M2) = E /\ ByPriority(M2) = P
      /\ Outs(M2) = [O EXCEPT ![m] = OutOf(r)]
  <2>1. M \in [Mpf -> MPFCBType] /\ Replaced(M, M2, m, r) /\ M[m].mpfid /\ r.tpri = M[m].tpri
    BY <1>1
  <2>. QED
    BY <1>2, <2>1, BlocksOut
<1>6. After(E, P, [O EXCEPT ![m] = @ \cup {b}], Q)
  BY <1>1, <1>2, <1>4, <1>5, WaitersKept DEF After
<1>7. b \in Block \ O[m]
  BY <1>1, <1>4
<1>8. Pool!Take(m, b)
  BY <1>3, <1>4, <1>6, <1>7, TakeForm
<1>. QED
  BY <1>8, PoolNext

\* A block comes back to a pool nobody waits for: Pool!GiveBack.
LEMMA PoolGiven ==
  ASSUME objcb.mpf \in [Mpf -> MPFCBType], NEW m \in Mpf, objcb.mpf[m].mpfid,
         NEW r, r.mpfid, r.tpri = objcb.mpf[m].tpri,
         Replaced(objcb.mpf, objcb'.mpf, m, r), SameQueues, wait_queue[MpfWait(m)] = <<>>,
         NEW b \in Block, b \in OutOf(objcb.mpf[m]),
         OutOf(r) = OutOf(objcb.mpf[m]) \ {b}
  PROVE  PoolStep
<1>1. PICK M, M2 : M = objcb.mpf /\ M2 = objcb'.mpf
  OBVIOUS
<1>2. PICK E, P, O, Q : /\ E = PoolSet(M) /\ P = ByPriority(M) /\ O = Outs(M)
                        /\ Q = Waiters(wait_queue)
  OBVIOUS
<1>3. Before(E, P, O, Q)
  BY <1>1, <1>2 DEF Before
<1>4. m \in E /\ O[m] = OutOf(M[m]) /\ Q[m] = <<>>
  BY <1>1, <1>2 DEF PoolSet, Outs, Waiters
<1>5. /\ PoolSet(M2) = E /\ ByPriority(M2) = P
      /\ Outs(M2) = [O EXCEPT ![m] = OutOf(r)]
  <2>1. M \in [Mpf -> MPFCBType] /\ Replaced(M, M2, m, r) /\ M[m].mpfid /\ r.tpri = M[m].tpri
    BY <1>1
  <2>. QED
    BY <1>2, <2>1, BlocksOut
<1>6. After(E, P, [O EXCEPT ![m] = @ \ {b}], Q)
  BY <1>1, <1>2, <1>4, <1>5, WaitersKept DEF After
<1>7. b \in O[m]
  BY <1>1, <1>4
<1>8. Pool!GiveBack(m, b)
  BY <1>3, <1>4, <1>6, <1>7, GiveBackForm
<1>. QED
  BY <1>8, PoolNext
\* The blocks that are out are those of the application and those on their way back.
LEMMA OutOfPlaces ==
  ASSUME NEW c, c.mpfid, NEW out, NEW B, NEW cl, Places(c, out, B, cl)
  PROVE  OutOf(c) = out \cup {cl[u].blf : u \in B}
<1>1. PICK f, back, n : f = ToSet(c.freelist) /\ back = {cl[u].blf : u \in B} /\ n = c.unused
  OBVIOUS
<1>2. f \cap out = {} /\ f \cap back = {} /\ f \cup out \cup back = 1 .. n - 1
  BY <1>1 DEF Places
<1>3. n \in 1 .. MpfCnt + 1 /\ MpfCnt \in Nat
  BY <1>1, MempfixAssumption DEF Places
<1>4. Block \ (n .. MpfCnt) = 1 .. n - 1
  BY <1>3 DEF Block
<1>5. OutOf(c) = (Block \ (n .. MpfCnt)) \ f
  BY <1>1 DEF OutOf
<1>. QED
  BY <1>1, <1>2, <1>4, <1>5

\* A pool without free blocks.
LEMMA AllOut ==
  ASSUME NEW c, c.mpfid, NEW out, NEW B, NEW cl, Places(c, out, B, cl), c.frbcnt <= 0
  PROVE  OutOf(c) = Block
<1>1. /\ c.unused \in 1 .. MpfCnt + 1 /\ MpfCnt \in Nat
      /\ c.frbcnt = (MpfCnt + 1 - c.unused) + Len(c.freelist)
      /\ Len(c.freelist) \in Nat /\ c.freelist \in Seq(Int)
  BY MempfixAssumption, Elements DEF Places, Unrepeated
<1>2. PICK n \in Int, l \in Nat : n = c.unused /\ l = Len(c.freelist)
  BY <1>1
<1>3. n = MpfCnt + 1 /\ l = 0
  <2>1. (MpfCnt + 1 - n) + l <= 0 /\ n <= MpfCnt + 1
    BY <1>1, <1>2
  <2>. QED
    BY <1>1, <2>1
<1>4. c.freelist = <<>>
  <2>1. PICK q \in Seq(Int) : q = c.freelist
    BY <1>1
  <2>2. Len(q) = 0
    BY <1>2, <1>3, <2>1
  <2>3. q = <<>>
    BY <2>2
  <2>. QED
    BY <2>1, <2>3
<1>5. ToSet(c.freelist) = {}
  BY <1>4, EmptySequence
<1>6. c.unused .. MpfCnt = {}
  BY <1>1, <1>2, <1>3
<1>. QED
  BY <1>5, <1>6 DEF OutOf

\* tk_get_mpf takes a block that is in the pool.
LEMMA TakenBlock ==
  ASSUME NEW c \in MPFCBType, c.mpfid, NEW out, NEW B, NEW cl, Places(c, out, B, cl),
         c.frbcnt > 0, NEW b, b = Taking(c), NEW r, r = TakeBlock(c)
  PROVE  /\ b \in Block /\ b \notin OutOf(c) /\ OutOf(r) = OutOf(c) \cup {b}
         /\ r.mpfid /\ r.tpri = c.tpri /\ r \in MPFCBType
<1>1. b \in Block /\ Places(r, out \cup {b}, B, cl)
  BY PlacesTake
<1>2. r \in MPFCBType /\ r.mpfid /\ r.tpri = c.tpri
  <2>1. TakeBlock(c) \in MPFCBType
    <3>1. 0 \in Int
      OBVIOUS
    <3>. QED
      BY <3>1, BlockTypes
  <2>2. c.freelist # <<>> => r = [c EXCEPT !.freelist = Tail(@), !.frbcnt = @ - 1]
    BY DEF TakeBlock
  <2>3. c.freelist = <<>> => r = [c EXCEPT !.unused = @ + 1, !.frbcnt = @ - 1]
    BY DEF TakeBlock
  <2>. QED
    BY <2>1, <2>2, <2>3 DEF MPFCBType
<1>3. OutOf(r) = (out \cup {b}) \cup {cl[u].blf : u \in B}
  BY <1>1, <1>2, OutOfPlaces
<1>4. OutOf(c) = out \cup {cl[u].blf : u \in B}
  BY OutOfPlaces
<1>5. b \notin OutOf(c)
  <2>1. CASE c.freelist # <<>>
    <3>1. b = Head(c.freelist) /\ c.freelist \in Seq(Int)
      BY <2>1 DEF Taking, MPFCBType
    <3>2. b \in ToSet(c.freelist)
      <4>1. b = c.freelist[1] /\ 1 \in 1 .. Len(c.freelist)
        BY <2>1, <3>1
      <4>. QED
        BY <3>1, <4>1, Elements
    <3>. QED
      BY <3>2 DEF OutOf
  <2>2. CASE c.freelist = <<>>
    <3>1. b = c.unused /\ c.unused \in Int
      BY <2>2 DEF Taking, MPFCBType
    <3>2. MpfCnt \in Nat /\ c.unused \in 1 .. MpfCnt + 1
      BY MempfixAssumption DEF Places
    <3>3. b \in c.unused .. MpfCnt
      BY <1>1, <3>1, <3>2 DEF Block
    <3>. QED
      BY <3>3 DEF OutOf
  <2>. QED
    BY <2>1, <2>2
<1>. QED
  BY <1>1, <1>2, <1>3, <1>4, <1>5

\* tk_rel_mpf gives back a block that is out.
LEMMA GivenBlock ==
  ASSUME NEW c \in MPFCBType, c.mpfid, NEW out, NEW B, NEW cl, Places(c, out, B, cl),
         NEW t \in B, NEW b, b = cl[t].blf, NEW r, r = GiveBlock(c, b)
  PROVE  /\ b \in Block /\ b \in OutOf(c) /\ OutOf(r) = OutOf(c) \ {b}
         /\ r.mpfid /\ r.tpri = c.tpri
<1>1. Places(r, out, B \ {t}, cl)
  BY PlacesGive
<1>2. b \in Block /\ b \notin out /\ {cl[u].blf : u \in B \ {t}} = {cl[u].blf : u \in B} \ {b}
  BY OthersBack
<1>3. r.mpfid /\ r.tpri = c.tpri
  BY DEF GiveBlock, MPFCBType
<1>4. OutOf(r) = out \cup {cl[u].blf : u \in B \ {t}}
  BY <1>1, <1>3, OutOfPlaces
<1>5. OutOf(c) = out \cup {cl[u].blf : u \in B} /\ b \in {cl[u].blf : u \in B}
  BY OutOfPlaces
<1>. QED
  BY <1>2, <1>3, <1>4, <1>5
\* Steps that set one queue.
LEMMA PoolWaited ==
  ASSUME SamePools, NEW m \in Mpf, objcb.mpf[m].mpfid, OutOf(objcb.mpf[m]) = Block,
         NEW q, q = wait_queue[MpfWait(m)], NEW i \in 1 .. Len(q) + 1,
         objcb.mpf[m].tpri \/ i = Len(q) + 1, NEW t \in Task, QueueSet(m, InsertAt(q, i, t))
  PROVE  PoolStep
<1>1. PICK E, P, O, Q : Before(E, P, O, Q)
  BY DEF Before
<1>2. /\ m \in E /\ O[m] = Block /\ Q[m] = q
      /\ m \in P <=> objcb.mpf[m].tpri
  BY <1>1 DEF Before, PoolSet, ByPriority, Outs, Waiters
<1>3. i \in 1 .. Len(Q[m]) + 1 /\ (m \in P \/ i = Len(Q[m]) + 1)
  BY <1>2
<1>4. PICK x : x = InsertAt(q, i, t) /\ x = InsertAt(Q[m], i, t)
  BY <1>2
<1>5. After(E, P, O, [Q EXCEPT ![m] = x])
  BY <1>1, <1>4, WaitersSet DEF Before, After, SamePools
<1>6. Pool!Wait(m, t)
  BY <1>1, <1>2, <1>3, <1>4, <1>5, WaitForm
<1>. QED
  BY <1>6, PoolNext

\* The first of the queue leaves it, with the block: Pool!GiveToFirst.
LEMMA PoolHanded ==
  ASSUME SamePools, NEW m \in Mpf, objcb.mpf[m].mpfid,
         NEW q, q = wait_queue[MpfWait(m)], q # <<>>, QueueSet(m, Tail(q))
  PROVE  PoolStep
<1>1. PICK E, P, O, Q : Before(E, P, O, Q)
  BY DEF Before
<1>2. m \in E /\ Q[m] = q
  BY <1>1 DEF Before, PoolSet, Waiters
<1>3. PICK x : x = Tail(q) /\ x = Tail(Q[m])
  BY <1>2
<1>4. After(E, P, O, [Q EXCEPT ![m] = x])
  BY <1>1, <1>3, WaitersSet DEF Before, After, SamePools
<1>5. Pool!GiveToFirst(m)
  BY <1>1, <1>2, <1>3, <1>4, GiveToFirstForm
<1>. QED
  BY <1>5, PoolNext

\* A task leaves the queue of a pool: Pool!Leave.
LEMMA PoolLeft ==
  ASSUME SamePools, NEW m \in Mpf, NEW q, q = wait_queue[MpfWait(m)], q \in Queue,
         NEW t \in ToSet(q), QueueSet(m, QueueWithout(q, t))
  PROVE  PoolStep
<1>1. PICK E, P, O, Q : Before(E, P, O, Q)
  BY DEF Before
<1>2. Q[m] = q
  BY <1>1 DEF Before, Waiters
<1>3. PICK i \in 1 .. Len(q) : QueueWithout(q, t) = RemoveAt(q, i)
  BY TakenOut
<1>4. PICK x : x = RemoveAt(q, i) /\ x = RemoveAt(Q[m], i)
  BY <1>2
<1>5. After(E, P, O, [Q EXCEPT ![m] = x])
  BY <1>1, <1>3, <1>4, WaitersSet DEF Before, After, SamePools
<1>6. Pool!Leave(m, i)
  BY <1>1, <1>2, <1>4, <1>5, LeaveForm
<1>. QED
  BY <1>2, <1>6, PoolNext

\* A task changes its place in a queue by priority: Pool!Reorder.
LEMMA PoolReordered ==
  ASSUME SamePools, NEW m \in Mpf, objcb.mpf[m].mpfid, objcb.mpf[m].tpri,
         NEW q, q = wait_queue[MpfWait(m)], NEW i \in 1 .. Len(q), NEW j \in 1 .. Len(q),
         QueueSet(m, InsertAt(RemoveAt(q, i), j, q[i]))
  PROVE  PoolStep
<1>1. PICK E, P, O, Q : Before(E, P, O, Q)
  BY DEF Before
<1>2. m \in P /\ Q[m] = q
  BY <1>1 DEF Before, ByPriority, Waiters
<1>3. PICK x : x = InsertAt(RemoveAt(q, i), j, q[i]) /\ x = InsertAt(RemoveAt(Q[m], i), j, Q[m][i])
  BY <1>2
<1>4. After(E, P, O, [Q EXCEPT ![m] = x])
  BY <1>1, <1>3, WaitersSet DEF Before, After, SamePools
<1>5. Pool!Reorder(m, i)
  BY <1>1, <1>2, <1>3, <1>4, ReorderForm
<1>. QED
  BY <1>2, <1>5, PoolNext

\* The wait of t ends, if it waits for a block.
LEMMA DropStep ==
  ASSUME MInv, WaitInv, SamePools, CallsFit(objcb.mpf, wait_queue),
         NEW t \in Task, NEW k, Becomes(k), Drops(Kernel, k, t)
  PROVE  WaitInv' /\ PoolStep
<1>1. PICK K, L : /\ K = Kernel /\ L = LockOf(call)
                  /\ Links(K, L, {}) /\ LockLabels(L) /\ Drops(K, k, t)
  BY PoolLinks
<1>2. CASE \E m \in Mpf : t \in ToSet(K.wq[MpfWait(m)])
  <2>1. PICK m \in Mpf : t \in ToSet(K.wq[MpfWait(m)])
    BY <1>2
  <2>2. PICK q : q = K.wq[MpfWait(m)] /\ q = wait_queue[MpfWait(m)] /\ q \in Queue
    BY <1>1, PoolQueue, Fields
  <2>3. QueueBecomes(K, k, m, QueueWithout(q, t))
    BY <1>1, <2>1, <2>2, DropsOne
  <2>4. QueueSet(m, QueueWithout(q, t))
    BY <1>1, <2>3, QueuesBecome
  <2>5. PoolStep
    BY <2>1, <2>2, <2>4, PoolLeft
  <2>6. Shrink(wait_queue, wait_queue')
    <3>1. q # <<>>
      BY <2>1, <2>2, EmptySequence
    <3>. QED
      BY <2>2, <2>4, <3>1 DEF QueueSet, Shrink
  <2>. QED
    BY <2>5, <2>6, ShrinkFits DEF SamePools
<1>3. CASE \A m \in Mpf : t \notin ToSet(K.wq[MpfWait(m)])
  <2>1. \A m \in Mpf : QueueWithout(K.wq[MpfWait(m)], t) = K.wq[MpfWait(m)]
    BY <1>3 DEF QueueWithout
  <2>2. Undisturbed(K, k)
    BY <1>1, <2>1 DEF Drops, Undisturbed
  <2>3. SameQueues
    BY <1>1, <2>2, QueuesBecome
  <2>. QED
    BY <2>3, StutterStep DEF SamePools
<1>. QED
  BY <1>2, <1>3
-----------------------------------------------------------------------------
(* Each action is a call of TKPool or none, and keeps WaitInv.               *)

\* Where the tasks are does not change.
LEMMA SameCallsFit ==
  ASSUME NEW M, NEW wq, call' = call
  PROVE  CallsFit(M, wq)
BY DEF CallsFit

\* The places of a task that has found nothing yet.
LEMMA PlacesElsewhere ==
  /\ Elsewhere(idle)
  /\ \A c \in CallType : Elsewhere(At(c, "unlock"))
  /\ \A c \in CallType, b \in BOOLEAN : Elsewhere(AtLock(c, b))
<1>1. Elsewhere(idle)
  BY DEF Elsewhere, idle
<1>2. \A c \in CallType : \A a : At(c, a).at = a
  BY DEF At, CallType
<1>3. \A c \in CallType : Elsewhere(At(c, "unlock"))
  BY <1>2 DEF Elsewhere
<1>4. ASSUME NEW c \in CallType, NEW b \in BOOLEAN
      PROVE  Elsewhere(AtLock(c, b))
  <2>1. PICK a \in {"locked", "lock"} : AtLock(c, b) = At(c, a)
    BY DEF AtLock
  <2>. QED
    BY <1>2, <2>1 DEF Elsewhere
<1>. QED
  BY <1>1, <1>3, <1>4

\* The task that runs moves.
LEMMA RunnerFits ==
  ASSUME MInv, in_task, NEW d, Elsewhere(d), call' = [call EXCEPT ![ctxtsk] = d]
  PROVE  CallsFit(objcb.mpf, wait_queue)
<1>1. call \in [Task -> CallType] /\ ctxtsk \in Task
  BY Parts, OnCpu
<1>2. PICK t \in Task : t = ctxtsk
  BY <1>1
<1>3. PICK M, wq : M = objcb.mpf /\ wq = wait_queue
  OBVIOUS
<1>4. CallFits(d, M, wq)
  BY ElsewhereFits
<1>5. Moves(call, call', t, d)
  BY <1>2 DEF Moves
<1>. QED
  BY <1>1, <1>3, <1>4, <1>5, MoveFits

\* goto retry in LockOBJ
LEMMA LockRetryRefines ==
  ASSUME MInv, WaitInv, LockRetry
  PROVE  WaitInv' /\ PoolStep
<1>1. in_task /\ call[ctxtsk].at = "lock" /\ LockStep(call[ctxtsk])
  BY DEF LockRetry
<1>2. ctxtsk \in Task /\ call[ctxtsk] \in CallType
      /\ TaskLocks(call[ctxtsk], tcb[ctxtsk], objcb.locked)
  BY <1>1, OnCpu, Parts
<1>3. PICK c \in CallType : c = call[ctxtsk] /\ c.m \in Mpf
  BY <1>1, <1>2 DEF TaskLocks
<1>4. SameQueues
  BY <1>1, <1>3, LockStepQueues
<1>5. SamePools /\ \E b \in BOOLEAN : call' = [call EXCEPT ![ctxtsk] = AtLock(@, b)]
  BY LockRetryStep
<1>6. PICK b \in BOOLEAN : call' = [call EXCEPT ![ctxtsk] = AtLock(c, b)]
  BY <1>3, <1>5
<1>7. CallsFit(objcb.mpf, wait_queue)
  <2>1. PICK d : d = AtLock(c, b) /\ Elsewhere(d)
    BY PlacesElsewhere
  <2>. QED
    BY <1>1, <1>6, <2>1, RunnerFits
<1>. QED
  BY <1>4, <1>5, <1>7, StutterStep DEF SamePools

\* A call enters and runs into LockOBJ.
LEMMA EntryRefines ==
  ASSUME MInv, WaitInv, CHECK_DISPATCH, call[ctxtsk] = idle, NEW op \in {"del", "get", "rel"},
         NEW m \in Mpf, NEW tm \in TMO, NEW b \in Int, LockStep(Begun(op, m, tm, b))
  PROVE  WaitInv' /\ PoolStep
<1>1. PICK c : c = Begun(op, m, tm, b)
  OBVIOUS
<1>2. c \in CallType /\ c.m \in Mpf /\ in_task /\ LockStep(c)
  BY <1>1 DEF Begun, CallType, CHECK_DISPATCH
<1>3. SameQueues
  BY <1>2, LockStepQueues
<1>4. SamePools /\ \E x \in BOOLEAN : call' = [call EXCEPT ![ctxtsk] = AtLock(c, x)]
  BY <1>1, EntryStep
<1>5. PICK x \in BOOLEAN : call' = [call EXCEPT ![ctxtsk] = AtLock(c, x)]
  BY <1>4
<1>6. CallsFit(objcb.mpf, wait_queue)
  <2>1. PICK d : d = AtLock(c, x) /\ Elsewhere(d)
    BY <1>2, PlacesElsewhere
  <2>. QED
    BY <1>2, <1>5, <2>1, RunnerFits
<1>. QED
  BY <1>3, <1>4, <1>6, StutterStep DEF SamePools

\* UnlockOBJ
LEMMA UnlockRefines ==
  ASSUME MInv, WaitInv, Unlock
  PROVE  WaitInv' /\ PoolStep
<1>1. /\ in_task /\ call[ctxtsk].at = "unlock"
      /\ END_CRITICAL_SECTION(UnlockOBJ(Kernel, MpfLock(call[ctxtsk].m)))
      /\ call' = [call EXCEPT ![ctxtsk] = idle]
  BY DEF Unlock
<1>2. PICK k, m : k = Kernel /\ m = call[ctxtsk].m
  OBVIOUS
<1>3. m \in Mpf
  BY <1>1, <1>2, Holding DEF Under
<1>4. IsKernel(k) /\ k.wq = wait_queue
  BY <1>2, PoolLinks, Fields
<1>5. SameQueues
  BY <1>1, <1>2, <1>3, <1>4, UnlockStepQueues DEF SameQueues
<1>6. SamePools
  BY UnlockStep
<1>7. CallsFit(objcb.mpf, wait_queue)
  BY <1>1, PlacesElsewhere, RunnerFits
<1>. QED
  BY <1>5, <1>6, <1>7, StutterStep DEF SamePools

\* tk_cre_mpf takes a control block: no pool yet.
LEMMA CreateRefines ==
  ASSUME MInv, WaitInv, NEW tpri \in BOOLEAN, tk_cre_mpf(tpri)
  PROVE  WaitInv' /\ PoolStep
<1>1. PICK m : m = Head(objcb.free)
  OBVIOUS
<1>2. PICK d : d = [idle EXCEPT !.op = "cre", !.at = "lock", !.m = m, !.tpri = tpri]
  OBVIOUS
<1>3. /\ in_task /\ call' = [call EXCEPT ![ctxtsk] = d]
      /\ Becomes([Kernel EXCEPT !.obj.free = Tail(@)])
  BY <1>1, <1>2 DEF tk_cre_mpf, CHECK_DISPATCH
<1>4. Elsewhere(d)
  BY <1>2 DEF idle, Elsewhere
<1>5. CallsFit(objcb.mpf, wait_queue)
  BY <1>3, <1>4, RunnerFits
<1>6. SameQueues
  <2>1. wait_queue' = wait_queue
    BY <1>3 DEF Becomes, Kernel
  <2>. QED
    BY <2>1 DEF SameQueues
<1>7. objcb'.mpf = objcb.mpf
  BY CreateStep
<1>. QED
  BY <1>5, <1>6, <1>7, StutterStep

\* tk_get_mpf looks: what it finds no other task changes, for it has the lock.
LEMMA GetRefines ==
  ASSUME MInv, WaitInv, get_locked
  PROVE  WaitInv' /\ PoolStep
<1>1. in_task /\ call[ctxtsk].at = "locked" /\ UNCHANGED vars
  BY DEF get_locked, running
<1>2. PICK a \in {"unlock", "wait", "take"} :
        /\ Goto(a)
        /\ a = "wait" => /\ objcb.mpf[call[ctxtsk].m].mpfid
                         /\ objcb.mpf[call[ctxtsk].m].frbcnt <= 0
  BY DEF get_locked, mpfcb
<1>3. PICK c, t, M, wq : /\ c = call[ctxtsk] /\ t = ctxtsk
                         /\ M = objcb.mpf /\ wq = wait_queue
  OBVIOUS
<1>4. c \in CallType /\ c.m \in Mpf /\ t \in Task /\ call \in [Task -> CallType]
  BY <1>1, <1>3, Holding, Parts DEF Under
<1>5. PICK d : d = At(c, a)
  OBVIOUS
<1>6. d.at = a /\ d.m = c.m
  BY <1>4, <1>5 DEF At, CallType
<1>7. CallFits(d, M, wq)
  BY <1>2, <1>3, <1>4, <1>6 DEF CallFits
<1>8. Moves(call, call', t, d)
  BY <1>2, <1>3, <1>5 DEF Goto, Moves, At
<1>9. CallsFit(M, wq)
  BY <1>4, <1>7, <1>8, MoveFits
<1>10. SameQueues /\ objcb'.mpf = objcb.mpf
  BY <1>1 DEF SameQueues, vars, kernvars
<1>. QED
  BY <1>3, <1>9, <1>10, StutterStep
\* A task at the end of its call.
LEMMA EndsElsewhere ==
  ASSUME MInv, ctxtsk \in Task,
         \/ Goto("unlock")
         \/ call' = [call EXCEPT ![ctxtsk] = At(@, "unlock")]
         \/ call' = [call EXCEPT ![ctxtsk] = idle]
  PROVE  \E d : Elsewhere(d) /\ Moves(call, call', ctxtsk, d)
<1>1. call[ctxtsk] \in CallType
  BY Parts
<1>2. CASE Goto("unlock") \/ call' = [call EXCEPT ![ctxtsk] = At(@, "unlock")]
  <2>1. PICK d : d = At(call[ctxtsk], "unlock")
    OBVIOUS
  <2>2. Elsewhere(d)
    BY <1>1, <2>1, PlacesElsewhere
  <2>3. Moves(call, call', ctxtsk, d)
    BY <1>2, <2>1, GotoMoves DEF Moves
  <2>. QED
    BY <2>2, <2>3
<1>3. CASE call' = [call EXCEPT ![ctxtsk] = idle]
  <2>1. Elsewhere(idle)
    BY PlacesElsewhere
  <2>2. Moves(call, call', ctxtsk, idle)
    BY <1>3 DEF Moves
  <2>. QED
    BY <2>1, <2>2
<1>. QED
  BY <1>2, <1>3

\* The queues when nobody waits and nobody comes to wait.
LEMMA StaysEmpty ==
  ASSUME wait_queue' = wait_queue, NEW m, wait_queue[MpfWait(m)] = <<>>
  PROVE  SameQueues /\ QueueSet(m, <<>>)
BY DEF SameQueues, QueueSet

\* tk_cre_mpf completes the pool.
LEMMA CreatedRefines ==
  ASSUME MInv, BlockInv, WaitInv, cre_locked
  PROVE  WaitInv' /\ PoolStep
<1>1. /\ in_task /\ call[ctxtsk].op = "cre" /\ call[ctxtsk].at = "locked"
      /\ Goto("unlock") /\ wait_queue' = wait_queue
  BY DEF cre_locked, running, Becomes, Kernel
<1>2. /\ ctxtsk \in Task /\ call[ctxtsk].m \in Mpf
      /\ objcb'.mpf = [objcb.mpf EXCEPT ![call[ctxtsk].m] =
                         [mpfid |-> TRUE, tpri |-> call[ctxtsk].tpri, frbcnt |-> MpfCnt,
                          unused |-> 1, freelist |-> <<>>]]
  BY CreatedStep
<1>2a. PICK m \in Mpf : m = call[ctxtsk].m
  BY <1>2
<1>3. PICK r : /\ m = call[ctxtsk].m
               /\ r = [mpfid |-> TRUE, tpri |-> call[ctxtsk].tpri,
                       frbcnt |-> MpfCnt, unused |-> 1, freelist |-> <<>>]
  BY <1>2a
<1>4. Replaced(objcb.mpf, objcb'.mpf, m, r)
  BY <1>2, <1>3 DEF Replaced
<1>5. ~objcb.mpf[m].mpfid /\ objcb.mpf \in [Mpf -> MPFCBType]
  <2>1. Creating(call[ctxtsk], m)
    BY <1>1, <1>3 DEF Creating
  <2>. QED
    BY <1>2, <2>1 DEF BlockInv, BInv, Makers
<1>6. wait_queue[MpfWait(m)] = <<>>
  BY <1>5 DEF WaitInv, NoneNeedless
<1>7. SameQueues /\ QueueSet(m, <<>>)
  BY <1>1, <1>6, StaysEmpty
<1>8. r.mpfid /\ OutOf(r) = {}
  <2>1. r.mpfid /\ r.unused = 1 /\ r.freelist = <<>>
    BY <1>3
  <2>2. Block \ (1 .. MpfCnt \cup ToSet(<<>>)) = {}
    BY DEF Block
  <2>. QED
    BY <2>1, <2>2 DEF OutOf
<1>9. PoolStep
  BY <1>4, <1>5, <1>7, <1>8, PoolCreated
<1>10. PICK d : Elsewhere(d) /\ Moves(call, call', ctxtsk, d)
  BY <1>1, <1>2, EndsElsewhere
<1>11. WaitInv'
  BY <1>1, <1>3, <1>4, <1>7, <1>10, ChangeFits DEF Under
<1>. QED
  BY <1>9, <1>11

\* What BlockInv says of the blocks of one pool.
LEMMA PoolPlaces ==
  ASSUME BlockInv, NEW m \in Mpf, objcb.mpf[m].mpfid
  PROVE  /\ objcb.mpf \in [Mpf -> MPFCBType]
         /\ Places(objcb.mpf[m], Out(held, m), Back(call, m), call)
BY DEF BlockInv, BInv, AllStored

\* tk_get_mpf takes a block.
LEMMA TakeRefines ==
  ASSUME MInv, BlockInv, WaitInv, get_take
  PROVE  WaitInv' /\ PoolStep
<1>1. /\ in_task /\ call[ctxtsk].at = "take" /\ Goto("unlock")
      /\ wait_queue' = wait_queue
  BY Zenon DEF get_take, running, Becomes, Kernel
<1>2. /\ ctxtsk \in Task /\ call[ctxtsk].m \in Mpf
      /\ objcb'.mpf = [objcb.mpf EXCEPT ![call[ctxtsk].m] =
                         TakeBlock(objcb.mpf[call[ctxtsk].m])]
  BY TakeStep
<1>2a. PICK m \in Mpf : m = call[ctxtsk].m
  BY <1>2
<1>3. PICK c, r, b : /\ m = call[ctxtsk].m /\ c = objcb.mpf[m]
                     /\ r = TakeBlock(c) /\ b = Taking(c)
  BY <1>2a
<1>4. Replaced(objcb.mpf, objcb'.mpf, m, r)
  BY <1>2, <1>3 DEF Replaced
<1>5. objcb.mpf[m].mpfid /\ c.mpfid /\ c.frbcnt > 0
  BY <1>1, <1>2, <1>3 DEF BlockInv, BInv, StepOK
<1>6. /\ objcb.mpf \in [Mpf -> MPFCBType] /\ c \in MPFCBType
      /\ Places(c, Out(held, m), Back(call, m), call)
  BY <1>3, <1>5, PoolPlaces
<1>7. /\ b \in Block /\ b \notin OutOf(c) /\ OutOf(r) = OutOf(c) \cup {b}
      /\ r.mpfid /\ r.tpri = c.tpri
  <2>1. PICK out, B, cl : out = Out(held, m) /\ B = Back(call, m) /\ cl = call
    OBVIOUS
  <2>2. Places(c, out, B, cl)
    BY <1>6, <2>1
  <2>3. /\ b \in Block /\ b \notin OutOf(c) /\ OutOf(r) = OutOf(c) \cup {b}
        /\ r.mpfid /\ r.tpri = c.tpri /\ r \in MPFCBType
    BY <1>3, <1>5, <1>6, <2>2, TakenBlock
  <2>. QED
    BY <2>3
<1>8. wait_queue[MpfWait(m)] = <<>>
  <2>1. c.frbcnt \in Int
    BY <1>6 DEF MPFCBType
  <2>2. ~(c.frbcnt <= 0)
    BY <1>5, <2>1
  <2>. QED
    BY <1>3, <2>2 DEF WaitInv, NoneNeedless
<1>9. SameQueues /\ QueueSet(m, <<>>)
  BY <1>1, <1>8, StaysEmpty
<1>10. PoolStep
  BY <1>3, <1>4, <1>5, <1>6, <1>7, <1>8, <1>9, PoolTaken
<1>11. PICK d : Elsewhere(d) /\ Moves(call, call', ctxtsk, d)
  BY <1>1, <1>2, EndsElsewhere
<1>12. WaitInv'
  BY <1>1, <1>3, <1>4, <1>9, <1>11, ChangeFits DEF Under
<1>. QED
  BY <1>10, <1>12

\* tk_rel_mpf frees the block.
LEMMA FreeRefines ==
  ASSUME MInv, BlockInv, WaitInv, rel_free
  PROVE  WaitInv' /\ PoolStep
<1>1. /\ in_task /\ call[ctxtsk].op = "rel" /\ call[ctxtsk].at = "free" /\ Goto("unlock")
      /\ wait_queue' = wait_queue
  BY DEF rel_free, running, Becomes, Kernel
<1>2. /\ ctxtsk \in Task /\ call[ctxtsk].m \in Mpf
      /\ objcb'.mpf = [objcb.mpf EXCEPT ![call[ctxtsk].m] =
                         GiveBlock(objcb.mpf[call[ctxtsk].m], call[ctxtsk].blf)]
  BY FreeStep
<1>2a. PICK t \in Task, m \in Mpf : t = ctxtsk /\ m = call[ctxtsk].m
  BY <1>2
<1>3. PICK c, r, b : /\ t = ctxtsk /\ m = call[ctxtsk].m /\ c = objcb.mpf[m]
                     /\ b = call[t].blf /\ r = GiveBlock(c, b)
  BY <1>2a
<1>4. Replaced(objcb.mpf, objcb'.mpf, m, r)
  BY <1>2, <1>3 DEF Replaced
<1>5. objcb.mpf[m].mpfid /\ c.mpfid
  BY <1>1, <1>2, <1>3 DEF BlockInv, BInv, StepOK
<1>6. /\ objcb.mpf \in [Mpf -> MPFCBType] /\ c \in MPFCBType
      /\ Places(c, Out(held, m), Back(call, m), call)
  BY <1>3, <1>5, PoolPlaces
<1>7. /\ b \in Block /\ b \in OutOf(c) /\ OutOf(r) = OutOf(c) \ {b}
      /\ r.mpfid /\ r.tpri = c.tpri
  <2>1. PICK out, B, cl : out = Out(held, m) /\ B = Back(call, m) /\ cl = call
    OBVIOUS
  <2>2. Places(c, out, B, cl) /\ t \in B /\ b = cl[t].blf
    BY <1>1, <1>3, <1>6, <2>1 DEF Back, Returning
  <2>. QED
    BY <1>3, <1>5, <1>6, <2>2, GivenBlock
<1>8. wait_queue[MpfWait(m)] = <<>>
  BY <1>1, <1>2, <1>3 DEF WaitInv, CallFits
<1>9. SameQueues /\ QueueSet(m, <<>>)
  BY <1>1, <1>8, StaysEmpty
<1>10. PoolStep
  BY <1>3, <1>4, <1>5, <1>6, <1>7, <1>8, <1>9, PoolGiven
<1>11. PICK d : Elsewhere(d) /\ Moves(call, call', ctxtsk, d)
  BY <1>1, <1>2, EndsElsewhere
<1>12. WaitInv'
  BY <1>1, <1>3, <1>4, <1>9, <1>11, ChangeFits DEF Under
<1>. QED
  BY <1>10, <1>12
\* The queues after k, with the lock given back or not yet.
LEMMA EnableQueues ==
  ASSUME NEW k, IsKernel(k), NEW m \in Mpf, m = call[ctxtsk].m, EnableThenUnlock(k)
  PROVE  \A n \in Mpf : wait_queue'[MpfWait(n)] = k.wq[MpfWait(n)]
<1>1. CASE Becomes(k)
  BY <1>1 DEF Becomes
<1>2. CASE END_CRITICAL_SECTION(UnlockOBJ(k, MpfLock(m)))
  BY <1>2, UnlockStepQueues
<1>. QED
  BY <1>1, <1>2 DEF EnableThenUnlock

\* The task that gives its lock back after k, or has done so, with the queue of a
\* pool set.
LEMMA EnableSets ==
  ASSUME MInv, NEW k, IsKernel(k), NEW m \in Mpf, m = call[ctxtsk].m, EnableThenUnlock(k),
         NEW q, QueueBecomes(Kernel, k, m, q)
  PROVE  QueueSet(m, q)
<1>1. \A n \in Mpf : wait_queue'[MpfWait(n)] = k.wq[MpfWait(n)]
  BY EnableQueues
<1>2. Kernel.wq = wait_queue
  BY Fields
<1>. QED
  BY <1>1, <1>2 DEF QueueBecomes, QueueSet

\* tk_del_mpf, with everybody who waits.
LEMMA DeletedRefines ==
  ASSUME MInv, BlockInv, WaitInv, del_locked
  PROVE  WaitInv' /\ PoolStep
<1>1. in_task /\ call[ctxtsk].at = "locked"
  BY DEF del_locked, running
<1>2. /\ ctxtsk \in Task /\ call[ctxtsk].m \in Mpf
      /\ objcb.mpf[call[ctxtsk].m].mpfid =>
           /\ objcb'.mpf = [objcb.mpf EXCEPT ![call[ctxtsk].m] = free_mpfcb]
           /\ \/ call' = [call EXCEPT ![ctxtsk] = At(@, "unlock")]
              \/ call' = [call EXCEPT ![ctxtsk] = idle]
  BY DeletedStep
<1>3. PICK m \in Mpf : m = call[ctxtsk].m
  BY <1>2
<1>4. CASE ~objcb.mpf[m].mpfid
  <2>1. Goto("unlock") /\ UNCHANGED vars
    BY <1>3, <1>4 DEF del_locked, mpfcb
  <2>2. SameQueues /\ objcb'.mpf = objcb.mpf
    BY <2>1 DEF SameQueues, vars, kernvars
  <2>3. PICK d : Elsewhere(d) /\ Moves(call, call', ctxtsk, d)
    BY <1>2, <2>1, EndsElsewhere
  <2>4. CallsFit(objcb.mpf, wait_queue)
    BY <1>1, <2>3, RunnerFits DEF Moves
  <2>. QED
    BY <2>2, <2>4, StutterStep
<1>5. CASE objcb.mpf[m].mpfid
  <2>1. PICK K, L, w : K = Kernel /\ L = LockOf(call) /\ w = MpfWait(m)
    OBVIOUS
  <2>2. Links(K, L, {}) /\ LockLabels(L) /\ w \in WaitQueue
        /\ \A u \in ToSet(K.wq[w]) : is_waiting(K.tcb[u].state)
    BY <2>1, PoolLinks, PoolQueue, LockNames
  <2>3. PICK k1 : k1 = wait_delete(K, w)
    OBVIOUS
  <2>4. Links(k1, L, {}) /\ QueueBecomes(K, k1, m, <<>>)
    BY <2>1, <2>2, <2>3, DeleteWaits, DeletedWaits
  <2>5. PICK k2 : k2 = [k1 EXCEPT !.obj.mpf[m] = free_mpfcb, !.obj.free = Append(@, m)]
    OBVIOUS
  <2>6. IsKernel(k2) /\ k2.wq = k1.wq
    BY <2>4, <2>5 DEF Links, IsKernel
  <2>7. EnableThenUnlock(k2)
    <3>1. EnableThenUnlock([wait_delete(Kernel, MpfWait(m))
                              EXCEPT !.obj.mpf[m] = free_mpfcb, !.obj.free = Append(@, m)])
      BY <1>3, <1>5 DEF del_locked, mpfcb
    <3>. QED
      BY <2>1, <2>3, <2>5, <3>1
  <2>8. QueueBecomes(K, k2, m, <<>>)
    BY <2>4, <2>6 DEF QueueBecomes
  <2>9. QueueSet(m, <<>>)
    BY <1>3, <2>1, <2>6, <2>7, <2>8, EnableSets
  <2>10. PICK r : r = free_mpfcb /\ ~r.mpfid
    <3>1. free_mpfcb.mpfid = FALSE
      BY DEF free_mpfcb
    <3>. QED
      BY <3>1
  <2>11. Replaced(objcb.mpf, objcb'.mpf, m, r)
    BY <1>2, <1>3, <1>5, <2>10 DEF Replaced
  <2>12. PoolStep
    BY <1>5, <2>9, <2>10, <2>11, PoolPlaces, PoolDeleted
  <2>13. PICK d : Elsewhere(d) /\ Moves(call, call', ctxtsk, d)
    BY <1>2, <1>3, <1>5, EndsElsewhere
  <2>14. WaitInv'
    BY <1>1, <1>3, <2>9, <2>11, <2>13, ChangeFits DEF Under
  <2>. QED
    BY <2>12, <2>14
<1>. QED
  BY <1>4, <1>5

\* tk_rel_mpf hands the block to the first waiting task, or goes on to free it.
LEMMA ReturnRefines ==
  ASSUME MInv, BlockInv, WaitInv, rel_locked
  PROVE  WaitInv' /\ PoolStep
<1>1. in_task /\ call[ctxtsk].at = "locked"
  BY DEF rel_locked, running
<1>2. SamePools /\ ctxtsk \in Task /\ call[ctxtsk].m \in Mpf
  BY ReturnStep
<1>2a. PICK m \in Mpf : m = call[ctxtsk].m
  BY <1>2
<1>3. PICK q : m = call[ctxtsk].m /\ q = wait_queue[MpfWait(m)]
  BY <1>2a
<1>4. CASE ~objcb.mpf[m].mpfid
  <2>1. Goto("unlock") /\ UNCHANGED vars
    BY <1>3, <1>4 DEF rel_locked, mpfcb
  <2>2. SameQueues /\ objcb'.mpf = objcb.mpf
    BY <2>1 DEF SameQueues, vars, kernvars
  <2>3. PICK d : Elsewhere(d) /\ Moves(call, call', ctxtsk, d)
    BY <1>2, <2>1, EndsElsewhere
  <2>4. CallsFit(objcb.mpf, wait_queue)
    BY <1>1, <2>3, RunnerFits DEF Moves
  <2>. QED
    BY <2>2, <2>4, StutterStep
<1>5. CASE objcb.mpf[m].mpfid /\ q = <<>>
  <2>1. Goto("free") /\ UNCHANGED vars
    BY <1>3, <1>5 DEF rel_locked, mpfcb
  <2>2. SameQueues /\ objcb'.mpf = objcb.mpf
    BY <2>1 DEF SameQueues, vars, kernvars
  <2>3. PICK c, t, M, wq : c = call[ctxtsk] /\ t = ctxtsk /\ M = objcb.mpf /\ wq = wait_queue
    OBVIOUS
  <2>4. c \in CallType /\ t \in Task /\ call \in [Task -> CallType]
    BY <1>2, <2>3, Parts
  <2>5. PICK d : d = At(c, "free")
    OBVIOUS
  <2>6. d.at = "free" /\ d.m = m
    BY <1>3, <2>3, <2>4, <2>5 DEF At, CallType
  <2>7. CallFits(d, M, wq)
    BY <1>3, <1>5, <2>3, <2>6 DEF CallFits
  <2>8. Moves(call, call', t, d)
    BY <2>1, <2>3, <2>5 DEF Goto, Moves, At
  <2>9. CallsFit(M, wq)
    BY <2>4, <2>7, <2>8, MoveFits
  <2>. QED
    BY <2>2, <2>3, <2>9, StutterStep
<1>6. CASE objcb.mpf[m].mpfid /\ q # <<>>
  <2>1. PICK K, L : K = Kernel /\ L = LockOf(call)
    OBVIOUS
  <2>2. Links(K, L, {}) /\ LockLabels(L) /\ q = K.wq[MpfWait(m)]
    BY <1>3, <2>1, PoolLinks, Fields
  <2>3. PICK k1 : k1 = wait_release_ok(K, Head(q))
    OBVIOUS
  <2>4. QueueBecomes(K, k1, m, Tail(q))
    BY <1>6, <2>2, <2>3, FirstReleased
  <2>5. IsKernel(k1)
    <3>1. PICK u : u = Head(q)
      OBVIOUS
    <3>2. u \in Task /\ is_waiting(K.tcb[u].state)
      <4>1. q \in Queue /\ u \in ToSet(q)
        BY <1>6, <2>2, <3>1, PoolQueue, QueueTail
      <4>. QED
        BY <2>2, <4>1, PoolQueue
    <3>3. k1 = end_wait(wait_release(K, u), u, "E_OK") /\ "E_OK" \in WaitResult
      BY <2>3, <3>1 DEF wait_release_ok, WaitResult
    <3>4. Links(k1, L, {})
      BY <2>2, <3>2, <3>3, WaitEnds
    <3>. QED
      BY <3>4 DEF Links
  <2>6. EnableThenUnlock(k1)
    BY <1>3, <1>6, <2>1, <2>3 DEF rel_locked, mpfcb
  <2>7. QueueSet(m, Tail(q))
    BY <1>3, <2>1, <2>4, <2>5, <2>6, EnableSets
  <2>8. PoolStep
    BY <1>2, <1>3, <1>6, <2>7, PoolHanded
  <2>9. Goto("unlock") \/ call' = [call EXCEPT ![ctxtsk] = idle]
    BY <2>6 DEF EnableThenUnlock
  <2>10. PICK d : Elsewhere(d) /\ Moves(call, call', ctxtsk, d)
    BY <1>2, <2>9, EndsElsewhere
  <2>11. CallsFit(objcb.mpf, wait_queue)
    BY <1>1, <2>10, RunnerFits DEF Moves
  <2>12. Shrink(wait_queue, wait_queue')
    BY <1>3, <1>6, <2>7 DEF QueueSet, Shrink
  <2>13. WaitInv'
    BY <1>2, <2>11, <2>12, ShrinkFits DEF SamePools
  <2>. QED
    BY <2>8, <2>13
<1>. QED
  BY <1>4, <1>5, <1>6

\* A call of the task layer that leaves the queues of the pools alone.
LEMMA CalmRefines ==
  ASSUME WaitInv, SamePools, call' = call, NEW k, Becomes(k), Undisturbed(Kernel, k)
  PROVE  WaitInv' /\ PoolStep
<1>1. SameQueues
  BY QueuesBecome
<1>2. CallsFit(objcb.mpf, wait_queue)
  BY SameCallsFit
<1>. QED
  BY <1>1, <1>2, StutterStep DEF SamePools

\* tk_sta_tsk
LEMMA StartRefines ==
  ASSUME MInv, WaitInv, NEW t \in Task, tk_sta_tsk(t), call' = call
  PROVE  WaitInv' /\ PoolStep
<1>1. SamePools
  BY StartStep
<1>2. PICK k2 : k2 = make_ready(Kernel, t)
  OBVIOUS
<1>3. Becomes(k2)
  BY <1>2 DEF tk_sta_tsk
<1>4. Undisturbed(Kernel, k2)
  <2>1. Unsliced(Kernel)
    BY PoolLinks, LinksUnsliced
  <2>2. k2.wq = Kernel.wq
    BY <1>2, <2>1, ReadyWaits
  <2>. QED
    BY <2>2 DEF Undisturbed
<1>. QED
  BY <1>1, <1>3, <1>4, CalmRefines

\* tk_rel_wai
LEMMA ReleaseRefines ==
  ASSUME MInv, WaitInv, NEW t \in Task, tk_rel_wai(t, wait_release(Kernel, t)), call' = call
  PROVE  WaitInv' /\ PoolStep
<1>1. SamePools
  BY ReleaseStep
<1>2. PICK K, L : K = Kernel /\ L = LockOf(call)
  OBVIOUS
<1>3. PICK k2 : k2 = end_wait(wait_release(K, t), t, "E_RLWAI")
  OBVIOUS
<1>4. Links(K, L, {}) /\ is_waiting(K.tcb[t].state)
  BY <1>2, Parts, Fields DEF tk_rel_wai
<1>5. Drops(K, k2, t)
  BY <1>3, <1>4, ReleaseDrops
<1>6. Becomes(k2)
  BY <1>2, <1>3 DEF tk_rel_wai
<1>7. CallsFit(objcb.mpf, wait_queue)
  BY SameCallsFit
<1>. QED
  BY <1>1, <1>2, <1>5, <1>6, <1>7, DropStep

\* A timeout
LEMMA TimeoutRefines ==
  ASSUME MInv, WaitInv, NEW t \in Task, timer_handler_event(t, wait_release(Kernel, t)),
         call' = call
  PROVE  WaitInv' /\ PoolStep
<1>1. SamePools
  BY TimeoutStep
<1>2. PICK K, L, e : K = Kernel /\ L = LockOf(call) /\ e = tcb[t].wercd
  OBVIOUS
<1>3. PICK k2 : k2 = end_wait(wait_release(K, t), t, e)
  OBVIOUS
<1>4. Links(K, L, {}) /\ K.tcb[t].wtmeb
  BY <1>2, Parts, Fields DEF timer_handler_event
<1>5. is_waiting(K.tcb[t].state)
  BY <1>4 DEF Links, Blocks, Sane
<1>6. Drops(K, k2, t)
  BY <1>3, <1>4, <1>5, ReleaseDrops
<1>7. Becomes(k2)
  BY <1>2, <1>3 DEF timer_handler_event
<1>8. CallsFit(objcb.mpf, wait_queue)
  BY SameCallsFit
<1>. QED
  BY <1>1, <1>2, <1>6, <1>7, <1>8, DropStep

\* tk_sus_tsk
LEMMA SuspendRefines ==
  ASSUME MInv, WaitInv, NEW t \in Task, tk_sus_tsk(t), call' = call
  PROVE  WaitInv' /\ PoolStep
<1>1. SamePools
  BY SuspendStep
<1>2. PICK K, L : K = Kernel /\ L = LockOf(call) /\ Links(K, L, {}) /\ LockLabels(L)
  BY PoolLinks
<1>3. PICK k2 : k2 = suspend(K, t)
  OBVIOUS
<1>4. Undisturbed(K, k2)
  BY <1>2, <1>3, SuspendWaits
<1>5. Becomes(k2)
  BY <1>2, <1>3 DEF tk_sus_tsk
<1>. QED
  BY <1>1, <1>2, <1>4, <1>5, CalmRefines

\* tk_rsm_tsk
LEMMA ResumeRefines ==
  ASSUME MInv, WaitInv, NEW t \in Task, tk_rsm_tsk(t), call' = call
  PROVE  WaitInv' /\ PoolStep
<1>1. SamePools
  BY ResumeStep
<1>2. PICK K, L : K = Kernel /\ L = LockOf(call) /\ Links(K, L, {}) /\ K.tcb = tcb
  BY PoolLinks, Fields
<1>3. PICK n : n = tcb[t].suscnt - 1
  OBVIOUS
<1>4. n \in 0 .. MaxSus
  <2>1. K.tcb[t].state \in {"SUSPEND", "WAITSUS"}
    BY <1>2 DEF tk_rsm_tsk
  <2>2. K.tcb[t].suscnt \in 0 .. MaxSus /\ K.tcb[t].suscnt > 0
    BY <1>2, <2>1 DEF Links, Blocks, Sane, IsKernel, TCBType
  <2>. QED
    BY <1>2, <1>3, <2>2, TaskAssumption
<1>5. PICK k2 : k2 = resume(K, t, n)
  OBVIOUS
<1>6. Undisturbed(K, k2)
  BY <1>2, <1>4, <1>5, ResumeWaits
<1>7. Becomes(k2)
  BY <1>2, <1>3, <1>5 DEF tk_rsm_tsk
<1>. QED
  BY <1>1, <1>2, <1>6, <1>7, CalmRefines

\* tk_ext_tsk of a task that is in no call.
LEMMA ExitRefines ==
  ASSUME MInv, WaitInv, in_task, call[ctxtsk] = idle,
         tk_ext_tsk(_ter_tsk(Kernel, ctxtsk)), call' = call
  PROVE  WaitInv' /\ PoolStep
<1>1. SamePools
  BY ExitStep
<1>2. PICK t \in Task : t = ctxtsk
  BY OnCpu
<1>3. PICK K, L : K = Kernel /\ L = LockOf(call) /\ Links(K, L, {}) /\ LockLabels(L)
  BY PoolLinks
<1>4. PICK k2 : k2 = force_dispatch(make_dormant(_ter_tsk(K, t), t))
  OBVIOUS
<1>5. Drops(K, k2, t)
  BY <1>3, <1>4, EndDrops
<1>6. Becomes(k2)
  BY <1>2, <1>3, <1>4 DEF tk_ext_tsk
<1>7. CallsFit(objcb.mpf, wait_queue)
  BY SameCallsFit
<1>. QED
  BY <1>1, <1>3, <1>5, <1>6, <1>7, DropStep

\* The task that is ended drops out of its call.
LEMMA TerminateRefines ==
  ASSUME MInv, WaitInv, NEW t \in Task, ter_tsk(t)
  PROVE  WaitInv' /\ PoolStep
<1>1. SamePools /\ call' = [call EXCEPT ![t] = idle]
  BY TerminateStep
<1>2. PICK K, L : K = Kernel /\ L = LockOf(call) /\ Links(K, L, {}) /\ LockLabels(L)
  BY PoolLinks
<1>3. PICK k2 : k2 = make_dormant(_ter_tsk(K, t), t)
  OBVIOUS
<1>4. Drops(K, k2, t)
  BY <1>2, <1>3, EndDrops
<1>5. Becomes(k2)
  BY <1>2, <1>3 DEF ter_tsk, tk_ter_tsk, END_CRITICAL_SECTION
<1>6. CallsFit(objcb.mpf, wait_queue)
  <2>1. call \in [Task -> CallType]
    BY Parts
  <2>2. PICK M, wq : M = objcb.mpf /\ wq = wait_queue
    OBVIOUS
  <2>3. CallFits(idle, M, wq)
    BY PlacesElsewhere, ElsewhereFits
  <2>4. Moves(call, call', t, idle)
    BY <1>1 DEF Moves
  <2>. QED
    BY <2>1, <2>2, <2>3, <2>4, MoveFits
<1>. QED
  BY <1>1, <1>2, <1>4, <1>5, <1>6, DropStep

\* The dispatcher and the timer interrupt.
LEMMA SystemRefines ==
  ASSUME MInv, WaitInv, call' = call,
         \/ dispatch_entry \/ dispatch_save \/ dispatch_to
         \/ timer_handler_begin \/ timer_handler_end
  PROVE  WaitInv' /\ PoolStep
<1>1. SamePools
  BY SystemStep
<1>2. wait_queue' = wait_queue
  <2>1. CASE dispatch_entry \/ timer_handler_end
    BY <2>1 DEF dispatch_entry, timer_handler_end, kernvars
  <2>2. CASE dispatch_save \/ dispatch_to
    BY <2>2 DEF dispatch_save, dispatch_to, Becomes, force_dispatch, Kernel
  <2>3. CASE timer_handler_begin
    <3>1. time_slice_tick(Kernel) = Kernel
      BY PoolLinks, Tick
    <3>2. Becomes(Kernel)
      BY <2>3, <3>1 DEF timer_handler_begin
    <3>. QED
      BY <3>2 DEF Becomes, Kernel
  <2>. QED
    BY <2>1, <2>2, <2>3
<1>3. SameQueues
  BY <1>2 DEF SameQueues
<1>4. CallsFit(objcb.mpf, wait_queue)
  BY SameCallsFit
<1>. QED
  BY <1>1, <1>3, <1>4, StutterStep DEF SamePools

\* The queue of a pool without free blocks changes by a step of the task under its lock.
LEMMA QueueFits ==
  ASSUME MInv, WaitInv, SamePools, in_task, Under(call[ctxtsk]), NEW m, m = call[ctxtsk].m,
         objcb.mpf[m].mpfid, objcb.mpf[m].frbcnt <= 0, NEW x, QueueSet(m, x),
         NEW d, Elsewhere(d), Moves(call, call', ctxtsk, d)
  PROVE  WaitInv'
<1>1. PICK M : M = objcb.mpf /\ M = objcb'.mpf
  BY DEF SamePools
<1>2. PICK q, q2 : q = wait_queue /\ q2 = wait_queue'
  OBVIOUS
<1>3. PICK cl, cl2, t : cl = call /\ cl2 = call' /\ t = ctxtsk /\ Moves(cl, cl2, t, d)
  OBVIOUS
<1>4. cl \in [Task -> CallType] /\ t \in Task /\ m \in Mpf
  BY <1>1, <1>3, Parts, Holding
<1>5. NoneNeedless(M, q) /\ \A u \in Task : CallFits(cl[u], M, q)
  BY <1>1, <1>2, <1>3 DEF WaitInv
<1>6. \A n \in Mpf : n # m => q2[MpfWait(n)] = q[MpfWait(n)]
  BY <1>2 DEF QueueSet
<1>7. NoneNeedless(M, q2)
  BY <1>1, <1>5, <1>6 DEF NoneNeedless
<1>8. \A u \in Task : u # t /\ cl[u].m = m => ~Under(cl[u])
  BY <1>3, AloneInside
<1>9. cl2[t] = d /\ \A u \in Task : u # t => cl2[u] = cl[u]
  BY <1>3, <1>4 DEF Moves
<1>10. ASSUME NEW u \in Task
       PROVE  CallFits(cl2[u], M, q2)
  <2>1. CASE u = t
    BY <1>9, <2>1, ElsewhereFits
  <2>2. CASE u # t
    <3>1. PICK c : c = cl[u]
      OBVIOUS
    <3>2. CallFits(c, M, q) /\ (Under(c) => c.m # m)
      BY <1>5, <1>8, <2>2, <3>1
    <3>3. CallFits(c, M, q2)
      BY <1>6, <3>2 DEF CallFits, Under
    <3>. QED
      BY <1>9, <2>2, <3>1, <3>3
  <2>. QED
    BY <2>1, <2>2
<1>. QED
  BY <1>1, <1>2, <1>3, <1>7, <1>10 DEF WaitInv

\* tk_get_mpf begins to wait, or the wait is disabled.
LEMMA WaitRefines ==
  ASSUME MInv, BlockInv, WaitInv, get_wait
  PROVE  WaitInv' /\ PoolStep
<1>1. /\ in_task /\ call[ctxtsk].at = "wait" /\ Under(call[ctxtsk])
      /\ call' = [call EXCEPT ![ctxtsk] = idle]
  BY DEF get_wait, running, Under
<1>2. SamePools /\ ctxtsk \in Task
  BY WaitStep
<1>3. PICK m, tm, tpri :
        /\ m = call[ctxtsk].m /\ tm = call[ctxtsk].tmout
        /\ tpri = objcb.mpf[m].tpri
  OBVIOUS
<1>4. m \in Mpf /\ objcb \in ObjType /\ tm \in TMO /\ Runnable(tcb[ctxtsk])
  BY <1>1, <1>3, Holding, Parts DEF CallType
<1>5. tpri \in BOOLEAN
  BY <1>3, <1>4 DEF ObjType, MPFCBType
<1>6. objcb.mpf[m].mpfid /\ objcb.mpf[m].frbcnt <= 0
  BY <1>1, <1>2, <1>3 DEF WaitInv, CallFits
<1>7. PICK K, L, t : /\ K = Kernel /\ L = LockOf(call) /\ t = ctxtsk
                     /\ Links(K, L, {}) /\ LockLabels(L) /\ IsKernel(K)
                     /\ K.ctxtsk = t /\ Runnable(K.tcb[t]) /\ t \in Task
  BY <1>1, <1>2, <1>4, PoolLinks, Fields
<1>8. PICK k1 : k1 = gcb_make_wait_with_diswai(K, {"MPF"}, MpfWait(m), tm, tpri, FALSE)
  OBVIOUS
<1>9. END_CRITICAL_SECTION(UnlockOBJ(k1, MpfLock(m)))
  BY <1>3, <1>7, <1>8 DEF get_wait, mpfcb
<1>10. PICK d : Elsewhere(d) /\ Moves(call, call', ctxtsk, d)
  BY <1>1, <1>2, EndsElsewhere
<1>11. CASE k1 = K
  <2>1. SameQueues
    BY <1>4, <1>7, <1>9, <1>11, UnlockStepQueues, Fields DEF SameQueues
  <2>2. CallsFit(objcb.mpf, wait_queue)
    BY <1>1, <1>10, RunnerFits DEF Moves
  <2>. QED
    BY <1>2, <2>1, <2>2, StutterStep DEF SamePools
<1>12. CASE k1 = gcb_make_wait(K, {"MPF"}, MpfWait(m), tm, tpri, FALSE)
  <2>1. IsKernel(k1)
    <3>1. Links(k1, L, {})
      BY <1>4, <1>5, <1>7, <1>12, LockNames, BeginWait
    <3>. QED
      BY <3>1 DEF Links
  <2>2. PICK q : q = wait_queue[MpfWait(m)] /\ q = K.wq[MpfWait(m)]
    BY <1>7, Fields
  <2>3. PICK i \in 1 .. Len(q) + 1 :
          (tpri \/ i = Len(q) + 1) /\ QueueBecomes(K, k1, m, InsertAt(q, i, t))
    BY <1>4, <1>5, <1>7, <1>12, <2>2, BeginWaits, Zenon
  <2>4. PICK x : x = InsertAt(q, i, t)
    OBVIOUS
  <2>5. QueueSet(m, x)
    <3>1. \A n \in Mpf : wait_queue'[MpfWait(n)] = k1.wq[MpfWait(n)]
      BY <1>4, <1>9, <2>1, UnlockStepQueues
    <3>2. QueueBecomes(K, k1, m, x) /\ K.wq = wait_queue
      BY <1>7, <2>3, <2>4, Fields
    <3>. QED
      BY <1>4, <3>1, <3>2 DEF QueueBecomes, QueueSet
  <2>6. OutOf(objcb.mpf[m]) = Block
    BY <1>4, <1>6, PoolPlaces, AllOut
  <2>7. PoolStep
    BY <1>2, <1>3, <1>4, <1>6, <1>7, <2>2, <2>3, <2>4, <2>5, <2>6, PoolWaited
  <2>8. WaitInv'
    BY <1>1, <1>2, <1>3, <1>6, <1>10, <2>5, QueueFits
  <2>. QED
    BY <2>7, <2>8
<1>. QED
  BY <1>8, <1>11, <1>12 DEF gcb_make_wait_with_diswai

\* tk_chg_pri, whose hook moves a task that waits for a block.
LEMMA PriorityRefines ==
  ASSUME MInv, WaitInv, NEW t \in Task, NEW p \in Pri, tk_chg_pri_mpf(t, p), call' = call
  PROVE  WaitInv' /\ PoolStep
<1>1. SamePools
  BY PriorityStep
<1>2. PICK k, L : k = Kernel /\ L = LockOf(call) /\ Links(k, L, {}) /\ LockLabels(L)
  BY PoolLinks
<1>3. k.obj = objcb /\ objcb \in ObjType /\ k.tcb = tcb /\ k.wq = wait_queue
  BY <1>2, Parts, Fields
<1>4. /\ IsKernel(k) /\ k.tcb \in [Task -> TCBType] /\ k.tcb[t] \in TCBType
      /\ k.tcb[t].slicetime = 0 /\ Sane(k.tcb[t])
  BY <1>2 DEF Links, IsKernel, Blocks
<1>5. PICK c : c = [k.tcb[t] EXCEPT !.bpriority = p]
  OBVIOUS
<1>6. /\ c \in TCBType /\ c.klocked = k.tcb[t].klocked /\ c.state = k.tcb[t].state
      /\ c.klockwait = k.tcb[t].klockwait /\ c.slicetime = 0 /\ c.wid = k.tcb[t].wid
      /\ c.priority = k.tcb[t].priority /\ c.suscnt = k.tcb[t].suscnt
      /\ c.wtmeb = k.tcb[t].wtmeb
  BY <1>4, <1>5, TaskAssumption DEF TCBType, Pri
<1>7. PICK k1 : k1 = [k EXCEPT !.tcb[t] = c]
  OBVIOUS
<1>8. Links(k1, L, {}) /\ NewBlock(k, k1, t, c)
  <2>1. c.state \in {"SUSPEND", "WAITSUS"} => c.suscnt > 0
    BY <1>4, <1>6 DEF Sane
  <2>. QED
    BY <1>2, <1>6, <1>7, <2>1, SetLinked
<1>9. k1.tcb[t] = c /\ k1.wq = k.wq /\ k1.obj = k.obj
  BY <1>4, <1>7 DEF IsKernel
<1>10. PICK k2 : k2 = change_task_priority(k1, t, p)
  OBVIOUS
<1>11. /\ Links(k2, L, {}) /\ Calm(k1, k2)
       /\ is_waiting(k1.tcb[t].state) =>
            k2.tcb[t].state = k1.tcb[t].state /\ k2.tcb[t].wid = k1.tcb[t].wid
  <2>1. Links(k1, L, {})
    BY <1>8
  <2>. QED
    BY <1>10, <2>1, NewPriority
<1>12. Undisturbed(k1, k2)
  BY <1>2, <1>8, <1>10, PriorityWaits
<1>13. Undisturbed(k, k2)
  BY <1>9, <1>12 DEF Undisturbed
<1>14. [Kernel EXCEPT !.tcb[t].bpriority = p] = k1
  BY <1>2, <1>4, <1>5, <1>7 DEF IsKernel
<1>15. Becomes(IF is_waiting(tcb[t].state) THEN mpf_chg_pri(k2, t) ELSE k2)
  BY <1>10, <1>14 DEF tk_chg_pri_mpf
<1>16. ASSUME Becomes(k2)
       PROVE  WaitInv' /\ PoolStep
  BY <1>1, <1>2, <1>13, <1>16, CalmRefines
<1>17. CASE ~is_waiting(k.tcb[t].state)
  BY <1>3, <1>15, <1>16, <1>17
<1>18. CASE is_waiting(k.tcb[t].state)
  <2>1. PICK m : m = k2.tcb[t].wid[1]
    OBVIOUS
  <2>2. k2.tcb[t].wid = MpfWait(m) /\ m \in Mpf /\ k.tcb[t].wid = MpfWait(m)
        /\ is_waiting(k2.tcb[t].state)
    <3>1. /\ is_waiting(k2.tcb[t].state) /\ k2.tcb[t].wid = k.tcb[t].wid
          /\ k.tcb[t].wid \in WaitQueue \ Lock
      BY <1>4, <1>6, <1>9, <1>11, <1>18 DEF Sane
    <3>2. PICK n \in Mpf : k.tcb[t].wid = MpfWait(n)
      BY <3>1, MempfixAssumption
    <3>3. n = m
      BY <2>1, <3>1, <3>2 DEF MpfWait
    <3>. QED
      BY <3>1, <3>2, <3>3
  <2>3. PICK r : r = k2.obj.mpf[m] /\ r = objcb.mpf[m]
    BY <1>3, <1>9, <1>11 DEF Calm
  <2>4. PICK k3 : k3 = mpf_chg_pri(k2, t)
    OBVIOUS
  <2>5. k3 = IF r.tpri THEN gcb_change_priority(k2, MpfWait(m), t) ELSE k2
    BY <2>1, <2>3, <2>4 DEF mpf_chg_pri
  <2>6. Becomes(k3)
    BY <1>3, <1>15, <1>18, <2>4
  <2>7. CASE ~r.tpri
    BY <1>16, <2>5, <2>6, <2>7
  <2>8. CASE r.tpri
    <3>1. k3 = gcb_change_priority(k2, MpfWait(m), t)
      BY <2>5, <2>8
    <3>2. Reordered(k2, k3, m)
      BY <1>2, <1>11, <2>2, <3>1, MoveWaits
    <3>3. PICK q : q = wait_queue[MpfWait(m)] /\ q = k2.wq[MpfWait(m)]
      BY <1>3, <1>13, <2>2 DEF Undisturbed
    <3>4. PICK i \in 1 .. Len(q), j \in 1 .. Len(q) :
            QueueBecomes(k2, k3, m, InsertAt(RemoveAt(q, i), j, q[i]))
      BY <3>2, <3>3 DEF Reordered
    <3>5. PICK x : x = InsertAt(RemoveAt(q, i), j, q[i])
      OBVIOUS
    <3>6. QueueBecomes(k, k3, m, x)
      BY <1>13, <3>4, <3>5 DEF QueueBecomes, Undisturbed
    <3>7. QueueSet(m, x)
      BY <1>2, <2>6, <3>6, QueuesBecome
    <3>8. q # <<>>
      <4>1. t \in ToSet(q)
        <5>1. k.wq[MpfWait(m)] = q
          BY <1>3, <3>3
        <5>2. ToSet(q) = {u \in Task \ {} : /\ is_waiting(k.tcb[u].state)
                                            /\ k.tcb[u].wid = MpfWait(m)}
          BY <1>2, <2>2, <5>1, PoolQueue
        <5>. QED
          BY <1>18, <2>2, <5>2
      <4>. QED
        BY <4>1, EmptySequence
    <3>9. objcb.mpf[m].mpfid
      BY <2>2, <3>3, <3>8 DEF WaitInv, NoneNeedless
    <3>10. objcb.mpf[m].tpri
      BY <2>3, <2>8
    <3>11. PoolStep
      BY <1>1, <2>2, <3>3, <3>5, <3>7, <3>9, <3>10, PoolReordered
    <3>12. Shrink(wait_queue, wait_queue')
      BY <2>2, <3>3, <3>7, <3>8 DEF QueueSet, Shrink
    <3>13. CallsFit(objcb.mpf, wait_queue)
      BY SameCallsFit
    <3>. QED
      BY <1>1, <3>11, <3>12, <3>13, ShrinkFits DEF SamePools
  <2>. QED
    BY <2>7, <2>8
<1>. QED
  BY <1>17, <1>18
-----------------------------------------------------------------------------
(* The detailed specification implements TKPool.                            *)

\* Nobody waits at the start.
LEMMA StartsEmpty ==
  ASSUME NEW ipri \in [Task -> Pri], NEW t \in Task,
         NEW k2, k2 = make_ready(create_all(task_initialize, Task, ipri), t)
  PROVE  k2.wq = [w \in WaitQueue |-> <<>>]
<1>1. PICK k : k = create_all(task_initialize, Task, ipri)
  OBVIOUS
<1>2. Booted(k, Task)
  BY <1>1, Boot
<1>3. \A u \in Task : k.tcb[u] = Created(ipri[u])
  BY <1>1 DEF create_all, task_initialize, Created
<1>4. \A u \in Task : k.tcb[u].slicetime = 0
  BY <1>3 DEF Created, blank_tcb
<1>5. IsKernel(k) /\ k.wq = [w \in WaitQueue |-> <<>>]
  BY <1>2 DEF Booted, KInv, Queued
<1>6. Unsliced(k) /\ k2 = make_ready(k, t)
  BY <1>1, <1>4, <1>5 DEF Unsliced
<1>. QED
  BY <1>5, <1>6, ReadyWaits

\* At the start nobody waits, and TKPool starts.
LEMMA InitWaits ==
  ASSUME MpfInit
  PROVE  WaitInv /\ Pool!Init
<1>1. PICK k2 : k2 = make_ready(create_all(task_initialize, Task, InitPri), InitTask)
  OBVIOUS
<1>2. /\ wait_queue = k2.wq /\ objcb.mpf = [m \in Mpf |-> free_mpfcb]
      /\ call = [t \in Task |-> idle]
  BY <1>1 DEF MpfInit, t_kernel_main
<1>3. k2.wq = [w \in WaitQueue |-> <<>>]
  BY <1>1, MempfixAssumption, StartsEmpty
<1>4. \A m \in Mpf : wait_queue[MpfWait(m)] = <<>>
  BY <1>2, <1>3, LockNames
<1>5. \A m \in Mpf : objcb.mpf[m] = free_mpfcb
  BY <1>2
<1>6. free_mpfcb.mpfid = FALSE
  BY DEF free_mpfcb
<1>7. WaitInv
  <2>1. PICK M, wq : M = objcb.mpf /\ wq = wait_queue
    OBVIOUS
  <2>2. NoneNeedless(M, wq)
    BY <1>4, <2>1 DEF NoneNeedless
  <2>3. CallFits(idle, M, wq)
    BY PlacesElsewhere, ElsewhereFits
  <2>4. \A u \in Task : CallFits(call[u], M, wq)
    BY <1>2, <2>3
  <2>. QED
    BY <2>1, <2>2, <2>4 DEF WaitInv
<1>8. Pool!Init
  <2>1. \A m \in Mpf : ~objcb.mpf[m].mpfid
    BY <1>5, <1>6
  <2>. QED
    BY <1>4, <2>1 DEF Pool!Init, mpfcb
<1>. QED
  BY <1>7, <1>8

\* The calls of mempfix.c that enter.
LEMMA CallsRefine ==
  ASSUME MInv, WaitInv, MpfCalls
  PROVE  WaitInv' /\ PoolStep
<1>1. ASSUME NEW tpri \in MpfAtr, tk_cre_mpf(tpri)
      PROVE  WaitInv' /\ PoolStep
  BY <1>1, MempfixAssumption, CreateRefines
<1>2. ASSUME NEW m \in Mpf, tk_del_mpf(m)
      PROVE  WaitInv' /\ PoolStep
  <2>1. "del" \in {"del", "get", "rel"} /\ "TMO_POL" \in TMO /\ 0 \in Int
    BY DEF TMO
  <2>2. /\ CHECK_DISPATCH /\ call[ctxtsk] = idle
        /\ LockStep(Begun("del", m, "TMO_POL", 0))
    BY <1>2, <2>1, EntryForms
  <2>. QED
    BY <2>1, <2>2, EntryRefines
<1>3. ASSUME NEW m \in Mpf, NEW tm \in MpfTmo, tk_get_mpf(m, tm)
      PROVE  WaitInv' /\ PoolStep
  <2>1. "get" \in {"del", "get", "rel"} /\ tm \in TMO /\ 0 \in Int
    BY MempfixAssumption
  <2>2. /\ CHECK_DISPATCH /\ call[ctxtsk] = idle
        /\ LockStep(Begun("get", m, tm, 0))
    BY <1>3, <2>1, EntryForms
  <2>. QED
    BY <2>1, <2>2, EntryRefines
<1>4. ASSUME NEW m \in Mpf, NEW b \in Block, tk_rel_mpf(m, b)
      PROVE  WaitInv' /\ PoolStep
  <2>1. "rel" \in {"del", "get", "rel"} /\ "TMO_POL" \in TMO /\ b \in Int
    BY DEF TMO, Block
  <2>2. /\ CHECK_DISPATCH /\ call[ctxtsk] = idle
        /\ LockStep(Begun("rel", m, "TMO_POL", b))
    BY <1>4, <2>1, EntryForms
  <2>. QED
    BY <2>1, <2>2, EntryRefines
<1>. QED
  BY <1>1, <1>2, <1>3, <1>4 DEF MpfCalls

\* The calls of the task layer and the interrupts.
LEMMA TaskCallsRefine ==
  ASSUME MInv, WaitInv, MpfTaskCalls
  PROVE  WaitInv' /\ PoolStep
<1>1. ASSUME NEW t \in Task, ter_tsk(t)
      PROVE  WaitInv' /\ PoolStep
  BY <1>1, TerminateRefines
<1>2. Disturbed \subseteq Task
  BY MempfixAssumption
<1>3. CASE ~\E t \in Task : ter_tsk(t)
  <2>1. call' = call
    BY <1>3 DEF MpfTaskCalls
  <2>. QED
    BY <1>2, <1>3, <2>1, StartRefines, ReleaseRefines, SuspendRefines, ResumeRefines,
       PriorityRefines, ExitRefines, TimeoutRefines, SystemRefines DEF MpfTaskCalls
<1>. QED
  BY <1>1, <1>3

\* Every step is a step of TKPool or changes nothing there, and keeps WaitInv.
LEMMA NextRefines ==
  ASSUME MInv, BlockInv, WaitInv, [MpfNext]_mpfvars
  PROVE  WaitInv' /\ PoolStep
<1>1. CASE UNCHANGED mpfvars
  <2>1. objcb'.mpf = objcb.mpf /\ wait_queue' = wait_queue /\ call' = call
    BY <1>1 DEF mpfvars, vars, kernvars
  <2>2. SameQueues
    BY <2>1 DEF SameQueues
  <2>3. CallsFit(objcb.mpf, wait_queue)
    BY <2>1, SameCallsFit
  <2>. QED
    BY <2>1, <2>2, <2>3, StutterStep
<1>2. CASE MpfCalls
  BY <1>2, CallsRefine
<1>3. CASE MpfSteps
  BY <1>3, LockRetryRefines, UnlockRefines, CreatedRefines, DeletedRefines, GetRefines,
     TakeRefines, WaitRefines, ReturnRefines, FreeRefines DEF MpfSteps
<1>4. CASE MpfTaskCalls
  BY <1>4, TaskCallsRefine
<1>. QED
  BY <1>1, <1>2, <1>3, <1>4 DEF MpfNext

\* The calls of mempfix.c, spread over several critical sections under the kernel lock,
\* take effect at one moment each: a task waits only when no block is free, a block that
\* comes back goes to the first waiting task, and no block is out twice.
THEOREM MempfixImplementsPool == MpfSpec => PoolPromise
<1>1. MpfInit => MInv /\ BlockInv /\ WaitInv /\ Pool!Init
  BY InitMInv, InitBlocks, InitWaits
<1>2. MInv /\ BlockInv /\ WaitInv /\ [MpfNext]_mpfvars
        => MInv' /\ BlockInv' /\ WaitInv' /\ [Pool!Next]_(Pool!poolvars)
  BY NextMInv, NextBlocks, NextRefines DEF PoolStep
<1>. QED
  BY <1>1, <1>2, PTL DEF MpfSpec, PoolPromise, Pool!Spec

=============================================================================
