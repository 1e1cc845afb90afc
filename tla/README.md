# A TLA+ verification of the T-Kernel 2.0 kernel

The repository is a distribution of T-Kernel 2.0, a real-time kernel for one
CPU, with its system manager, drivers, the T2EX extension and a small
application. This directory holds TLA+ models of the kernel's own logic
(`srcpkg/tkernel_source/kernel/tkernel/src`): the task layer, the objects tasks
synchronise and communicate with, and the timer; and of the device management of
the system manager that is built on it. TLC configurations check them on small
instances, TLAPS proofs establish the safety properties of the task layer, of the
semaphores, of the timer and of the device management for every instance.

Paths below are relative to `src/srcpkg/tkernel_source/kernel/tkernel/src`
unless they start with another directory; `cpu/` stands for
`kernel/sysdepend/cpu/em1d/`.

## 1. The system

### How it executes

There is one CPU. A system call of the kernel is a C function whose body is a
critical section: `BEGIN_CRITICAL_SECTION` disables interrupts,
`END_CRITICAL_SECTION` (`cpu/cpu_status.h:30`) enables them again and, when
`ctxtsk` is no longer `schedtsk`, dispatching is enabled and the call was not
made by a handler, enters the dispatcher. Nothing can come between two statements of a
critical section, so **one critical section is one action** of the models. A
blocking call (`tk_slp_tsk`, `tk_wai_sem`, ...) is the critical section that
begins the wait; the value the call returns later is written by whoever ends
the wait (`wait_release_ok`, `wait_release_ng`, `wait_release_tmout`).

Concurrency comes from

* **preemption**: after any critical section another task may be dispatched;
* **handlers**: interrupt, cyclic and alarm handlers run between any two critical
  sections and make the same calls. They do so also between the entry of a
  call by a task and its critical section, and while the dispatcher has interrupts
  enabled;
* **the timer handler**, which ends waits that time out and time slices that
  expire, one queue element after the other.

### Components

| Component | Source | State | Operations | Correct when |
|---|---|---|---|---|
| Scheduler | `ready_queue.h`, `task.c` | task queues per priority, `bitmap`, `top_priority`, `klocktsk`, `schedtsk` | make_ready, make_non_ready, reschedule, change_task_priority, rotations, time slices | the caches agree with the queues, `schedtsk` is the first task of the highest priority, FIFO within a priority |
| Task management and synchronisation | `task_manage.c`, `task_sync.c` | the TCBs, `free_tcb` | create to delete, priorities, suspend/resume, sleep/wakeup, task events, prohibited waits | a TCB is linked exactly where its state says; nested suspensions balance; no wakeup is lost |
| Waiting | `wait.c`, `wait.h` | `tskque` and `wtmeb` of a TCB | make_wait, wait_release*, wait_delete, gcb_* | a task is queued and timed only while it waits |
| Dispatcher | `cpu/cpu_support.S`, `cpu/cpu_calls.c` | `ctxtsk`, `dispatch_disabled` | dispatch_entry, tk_dis_dsp, tk_ena_dsp | the highest task executes, a task with dispatching disabled keeps the CPU |
| Timer | `timer.c`, `tkdev_timer.h` | `current_time`, `timer_queue`, the hardware counter | timer_handler, timer_insert, timer_delete | an event occurs neither early nor late, and only for the wait or handler that registered it |
| Semaphores | `semaphore.c` | count, wait queue, attributes | cre, del, sig, wai | units are conserved, no task waits for units that are there, no overtaking |
| Mutexes | `mutex.c` | holder, wait queue, per-task list of held mutexes | cre, del, loc, unl, and hooks for priority, release and task end | exclusion; priority inheritance and ceilings exact, transitive and given back |
| Event flags | `eventflag.c` | pattern, wait queue | cre, del, set, clr, wai | no task waits for a pattern that is set |
| Mailboxes | `mailbox.c` | message list, wait queue | cre, del, snd, rcv | messages and waiting tasks never coexist; order |
| Message buffers | `messagebuf.c` | ring buffer, two wait queues | cre, del, snd, rcv | the ring is a FIFO channel; no task waits without need |
| Rendezvous ports | `rendezvous.c` | two wait queues, rendezvous numbers | cal, acp, fwd, rpl | a reply reaches the call it belongs to, once |
| Memory pools | `mempfix.c`, `mempool.c` | free lists, wait queues | cre, del, get, rel | blocks are conserved |
| Kernel lock | `klock.c` | `klocked`, `klockwait`, lock queue | LockOBJ, UnlockOBJ | exclusion, the lock holder runs first, no task is left queued for a free lock |
| Time, cyclic and alarm handlers | `time_calls.c` | handler control blocks | set/get time, cre, del, sta, stp | a stopped handler does not run, a started one runs in its phase, once per interval |
| Subsystems | `subsystem.c` | subsystem and resource control blocks | def, sta, cln, LockSVC | resources cleaned up once |
| Device management | `kernel/sysmgr/src/device.c`, `deviceio.c` | devices, open descriptors, requests | register, open, close, read, write, wait, abort | one task at a time opens or closes the driver; requests are given up when nobody has them; a close ends |
| Fast locks | `lib/libtk/src/fastlock.c`, `fastmlock.c` | a counter or flag word, a kernel object | Lock, Unlock | exclusion, no lost wakeup |

The components meet at four places. Every object calls `make_wait` and the
`wait_release` family, which change the ready queue and the timer queue. The
task layer calls back into the object a task waits for through the hooks of its
`WSPEC` (`wait.h:30`): `chg_pri_hook` when its priority changes, `rel_wai_hook`
when its wait ends for another reason than the object's. Mutexes change
priorities of other tasks (`change_task_priority`), which reorders ready and wait
queues and calls hooks again, recursively along a chain of holders. And the end
of a task releases its mutexes (`signal_all_mutex`). The device management is a client
of the kernel: it lets tasks wait at a semaphore nobody signals and ends that wait with
`tk_dis_wai` (`sysmgr.h:64`).

What is hard here: orders of calls in which an object changes for a reason other
than its own calls (timeout, `tk_rel_wai`, `tk_ter_tsk`, `tk_chg_pri`, suspension,
deletion); caches (`bitmap`, `top_priority`, `schedtsk`) that each call corrects
for its own case only; the window in which `ctxtsk # schedtsk`; TCBs with a
single link field. The `hazards` of `PROJECT.json` list them line by line.

## 2. The modules

| Module | Models | EXTENDS |
|---|---|---|
| `TKTask` | `task.h`, `ready_queue.h`, `task.c`, `wait.c`, `wait.h` as operators on a kernel state | |
| `TKTaskCalls` | one action per call of `task_manage.c` and `task_sync.c`, the dispatcher, the timer handler, system start | `TKTask` |
| `TKTaskSpec` | the task layer on its own: `TaskSpec` and its safety properties | `TKTaskCalls` |
| `TKRoundRobin` | time slices and the dispatcher over time, with fairness and a fixed set of tasks | `TKTaskCalls` |
| `TKSemaphore` | `semaphore.c`, composed with the task layer | `TKTaskCalls` |
| `TKMutex` | `mutex.c`, composed with the task layer | `TKTaskCalls` |
| `TKKLock` | `klock.c`: the kernel lock (`LockOBJ`, `UnlockOBJ`) | `TKTaskCalls` |
| `TKMempfix` | `mempfix.c`, whose calls are sequences of steps under that lock, composed with the task layer | `TKKLock` |
| `TKPool` | abstract: what the calls of `mempfix.c` promise, each of them one atomic action | |
| `TKEventflag`, `TKMailbox`, `TKMessageBuffer`, `TKRendezvous` | `eventflag.c`, `mailbox.c`, `messagebuf.c`, `rendezvous.c`: control blocks, calls and hooks | `TKTaskCalls` |
| `TKComm` | these four composed with the task layer: dispatch of the hooks, the calls that disturb a wait | the four |
| `TKChannel` | abstract: what mailboxes and message buffers promise, a channel with waiting receivers and senders | |
| `TKTimer` | `timer.c`, the handlers of `time_calls.c`, the timer of the board | |
| `TKDeviceIO` | `deviceio.c`: open, close, requests, abort | |
| `MC...` | instances for TLC | |
| `TKSequenceLemmas` | proofs: what appending, removing and taking the head do to a sequence without repetitions | |
| `TKKernelLemmas` | proofs about the queues and the helpers of `TKTask`, for any set of objects and any waits | `TKTaskCalls` |
| `TKTaskProofs` | proofs about the task layer on its own | `TKTaskSpec` |
| `TKSemaphoreProofs` | proofs about the semaphores composed with the task layer | `TKSemaphore` |
| `TKMempfixLemmas`, `TKMempfixProofs` | proofs about the kernel lock and the memory pools: what the helpers do while tasks queue for locks; the invariants, and that `TKPool` is implemented | `TKMempfix` |
| `TKTimerProofs` | proofs about the timer | `TKTimer` |
| `TKDeviceProofs` | proofs about the device management: types and effects of the actions; the invariants | `TKDeviceIO` |

### State and its correspondence to the code

`TKTask` gathers what the C helpers read and write in a record `k` (the
operator `Kernel`): `tcb`, the array of TCBs; `rq`, the ready queue with
`tskque`, `bitmap`, `top_priority` and `klocktsk`; `schedtsk`;
`wq`, the wait queue of each object; `ctxtsk`, the task whose context is loaded; `obj`, the control blocks of the objects.
A C helper becomes an operator from one
such record to the next, so that a system call, which chains several helpers,
is the composition of their operators and remains one action. `Becomes(k)`
assigns the variables.

* A TCB is a record with the fields of `task.h:66` the logic reads. A link
  field is represented by the queues that contain the task; the field `wid` of
  a TCB is the wait queue of the object it waits for.
* `wtmeb` is a flag: a timeout is registered or not. These modules do not model time; any
  registered timeout may be due at any timer interrupt. This covers every order the timer
  queue of `TKTimer` can produce, and more.
* `slicecnt` counts the timer periods a task has used of its `slicetime`.
* Return codes are kept where another actor writes them, i.e. in the results of waits that properties refer to;
  otherwise a call that fails a check is an action that changes nothing and is left out.

### Hooks

The hooks of a wait specification call from the task layer into the object's file.
Here the module of the object composes them: it defines `released(t)` or `left(t)`,
the kernel after `wait_release` and the object's `rel_wai_hook`, and hands it to the
action of the task layer (`tk_rel_wai(t, released(t))`, `timer_handler_event`,
`tk_dis_wai`, `tk_ter_tsk`, `tk_ext_tsk`), which does the rest of the call. The
order of the source is kept: the hook still sees the wait fields, which the call clears
afterwards. `tk_chg_pri` applies `chg_pri_hook` in the same way.

### Calls under the kernel lock

The calls of `mempfix.c` hold the lock of their pool over code that runs with
interrupts enabled. `call[t]` says which call task `t` is in and where; a step is
one critical section or one piece of code that only the lock protects. `LockOBJ` is a
loop: a task that queued for the lock and was taken out of that queue without getting it
(suspension, priority change) tries again. `held` is the application's side: the
blocks it may return. A task that `tk_ter_tsk` ends on its way to the
lock drops out of its call; a holder of the lock cannot be ended (`task_manage.c:389`).
`ENABLE_INTERRUPT` does not dispatch, so after it the task either reaches `UnlockOBJ`
or is interrupted first; `EnableThenUnlock` has both.

### Tasks and handlers

A call that cannot block may be made by the current task or by a handler, at
any moment: its action has no guard on the context. `END_CRITICAL_SECTION`
decides between "no dispatch" (a handler, or dispatching disabled) and "the
dispatcher is entered at once" (a task), so both are behaviours. Blocking calls,
`tk_ext_tsk`, `tk_exd_tsk`, `tk_cre_tsk`, `tk_del_tsk` and `tk_ter_tsk` belong to the task portion and need a current task
that is READY with no dispatch pending. For blocking calls the code checks it
(`CHECK_DISPATCH`, `check.h:244`); a handler that terminates or deletes tasks
is not modelled. A handler may change the state of the current task
between its call and its critical section; `make_wait` accounts for this
(`wait.c:93`) and so does the model.

The dispatcher is three actions, as interrupts are enabled between them:
`dispatch_entry` saves the outgoing context, `dispatch_save` clears `ctxtsk`,
and `dispatch_to` takes whatever `schedtsk` is by then or idles.

The timer handler is `timer_handler_begin`, any number of
`timer_handler_event`, one for each event that is due, and
`timer_handler_end`. They are separate actions because an event may be a cyclic or alarm handler:
its callback enables interrupts and runs the application's function
(`time_calls.c:297`, `:769`), so that calls of any handler come between two
events. Which handler is called when is the subject of `TKTimer`.

### Communication

An object is a control block in `objcb` and one or two wait queues; `winfo` of a TCB is what
the task waits for. Messages of a message buffer are cells of the ring, `<<m, i>>` the
`i`-th of message `m`, so that a ring that mixes up its positions delivers other cells than were
sent. Packets of a mailbox are linked through `nextmsg` as in the code; `given` is
the application's side, the packets it must not send again. `mbf_to_msg` blanks the cells it
has read: nothing may rely on them. A rendezvous number is a caller and a count;
`told` is every number an acceptor was ever given, and the application may reply to any of them
or forward it at any time. `limit` records the size of the reply that the caller's buffer was
made for, which the code does not keep.

### The timer

The unit of `TKTimer` is the microsecond. `hw` is the counter and its pending interrupt,
`current_time` the software clock, `now` the time that has really passed; `due` records, for every
event, the time of `now` that was asked for. `get_hw_timer_usec` rounds a finer count: the result
is `ofs` or `ofs + 1`, chosen nondeterministically. (At a resolution below the microsecond the
formula can make a wait up to one microsecond shorter than asked for; the model does not see this.)
The interrupt is held back for less than a period, as the comment in `tkdev_timer.h:134` assumes.
`CallPossible` is where a call may come from: a task or handler while `timer_handler` is not
active, or another interrupt while it calls a handler. `call_cychdr` sets the next time
and then calls; the handler's own calls, and those of interrupts that nest, come between the call
and `handler_return`. A handler of time 0 is called by whoever starts it with interrupts disabled,
and may start another (`calls` counts them).

### Device management

A section under `LockDM` is an action; the driver's functions are called outside of it, and `tsk[t]`
says which of them task `t` is in, or where it waits. `SyncWaitDM` and `SyncSignalDM` are what
`tk_wai_sem`, `tk_dis_wai` and `tk_ena_wai` make of them: a signal disables the semaphore waits of a task,
which ends the wait it is in or the next one. `LockDAbort` is part of the action that takes it.
All tasks belong to one resource group. The driver may answer a request at any time and in any way; of
its functions only opening, closing and requests that `abortfn` was called for must return.

## 3. The checks

Every run deletes, creates, starts and ends objects and tasks freely, with
deadlock checking on. All are safety runs unless fairness is mentioned.

| Run | Question | Instance |
|---|---|---|
| `task_life` | Are tasks always linked where their state says, and is the ready queue with its caches and `schedtsk` right? Is a task overtaken by one of its own priority? May the task that executes do so? | 3 tasks, 2 priorities, creation, start, exit, deletion, termination, suspension, priority change, rotation, dispatching disabled |
| `task_sync` | Do the flags WAIT and SUSPEND, the counters and the timeout agree, whatever handlers do in between? Is a wakeup, a task event or a prohibition ever missed by a task that sleeps? | 2 tasks of one priority, two wakeups, two nested suspensions, one event, both kinds of waits prohibited |
| `round_robin` | Do tasks of one priority share the CPU when each is preempted before every timer interrupt? Does a task that stays selected get the CPU? | 2 workers, 1 urgent task, slices of 0 and 2 |
| `semaphore` | Are the units conserved, is nobody overtaken, is a task ever left waiting for units that are there? | 3 tasks, 2 priorities, 2 units, each of `TA_TFIFO`, `TA_TPRI`, `TA_CNT` with `TA_NODISWAI`; suspension and prohibited waits for one task |
| `mutex` | Is priority inheritance exact, transitive and given back? Do wait queues, locks, lists and ceilings agree? | 2 workers and a supervisor of priority 0, 2 mutexes locked in one order: one inheriting or of ceiling 1, one inheriting, `TA_TFIFO` or of ceiling 0; the supervisor may be suspended |
| `mempfix` | Do the spread-out calls implement the atomic ones of `TKPool`; is the lock exclusive and its holder known; is no task and no block lost or linked twice? | 2 workers and a supervisor of priority 0, 2 blocks, `TA_TFIFO` and `TA_TPRI`, timeouts and polling; the supervisor is suspended and changes its priority |
| `comm` | Is an event given once, to those entitled to it? Do the packets of a mailbox and the ring of a message buffer implement a channel? | 3 tasks, 2 priorities; an event flag of 2 bits, a mailbox with 3 packets of 2 priorities, or a message buffer of 0 or 8 cells with messages of 1 and 3 cells and headers of 2 |
| `rendezvous` | Does every call meet an acceptor of its pattern, and every reply the right call? | a caller and 2 others, 2 ports with different attributes and sizes, 2 pattern bits, 2 rendezvous numbers, timeouts, prohibited calls and rendezvous |
| `timer` | Does every event occur neither early nor late; are the interval and the phase of a cyclic handler kept? | a task, a cyclic and an alarm handler, a period of 2, times 0, 1 and 3, two nested calls, unbounded time |
| `device_io` | Is the driver opened and closed once and by one task at a time; are requests given up only when nobody has them; does a close end? | 3 tasks, a device and a subunit, 2 descriptors, 2 requests, 2 modes that exclude each other, with and without `TDA_OPENREQ` |
| `mutex_terminate` (violation) | Is a terminated task out of every wait queue, with deadlocks allowed? | 2 mutexes in any order |
| `device_close` (violation) | Is the driver opened and closed by one task at a time, when a task that returns from the driver runs between `UnlockDAbort` and the test of `abort_cnt`? | as `device_io`, `Overlap = {"preempt"}` |

**Bounds.** Three tasks are the least that give a running task, a head and a
tail of a queue; two priorities give a preempting and a preempted class. Two units
distinguish a request for one from a request for two, the case in which the
head of a queue blocks another. `MaxWup` and `MaxSus` stand for
`INT_MAX` (the code compares for equality before it increments). The actions of the task layer have
no bound of their own; the state space is finite through these constants.

A ring of 8 cells holds two messages of the short kind or one of the long one and part of
another; with headers of 2 cells the end of the ring falls behind a header, into a message and between two
messages, and 0 cells give the message buffer that only hands over. The three kinds
of objects of `comm` exist one at a time (`OnlyFlg`, ...): they share no state but the tasks. Its waits have
no timeout: `tk_rel_wai` ends them in the same way, and the queues and hooks do not tell the two apart; the
semaphore and rendezvous runs have timeouts. A second rendezvous of the same caller is where an old number could
be mistaken (`MaxRdv`).

`TKTimer` compares times with one another only. `TimerView` therefore identifies states that differ in how
late everything happens, and in the part of a time that has passed which only its phase is needed of, so that
the run covers unbounded time. The times below, at and above the period give events that are
due before the next interrupt, and intervals the handler has to catch up with.

Two descriptors and two requests on a device with one subunit are the least for an open
that overlaps with a close of another descriptor, on the same unit and on the whole device, and for an abort that
counts to two; three tasks let a third return while one closes and one waits for its turn.

**Symmetry.** Symmetry is over tasks (bits, packets) that are interchangeable in the specification
and in every property of the run; no liveness property is checked under symmetry. `CloseEnds` is stated
of the tasks in `Followed`: tasks of `TKDeviceIO` do not differ, so one stands for all.

**Overlap.** Three things tasks may do at the same time break the abort of requests in `deviceio.c`, and each makes
properties of `device_io` fail. The constant `Overlap` names them; the passing run excludes
them, as the others are worth checking in a system that avoids these. `"preempt"` is the finding below; without
it no task comes back from the driver with a request of the descriptor while `abort_check` is due (`Undisturbed`).
`"any"`: a wait for any request takes over requests that another task still has in `execfn` (`deviceio.c:710`), so that
`abort_cnt` counts one task where two will count themselves down, and the request is freed by one task
while the other uses it. `"sync"`: a descriptor is closed between the two halves of `tk_srea_dev`; `waitcomplete` then
decrements `syncreq` through a pointer it has not set (`deviceio.c:817`).

**Pools.** In the run `mempfix` the supervisor of priority 0 stands for every disturbance by
suspension and change of priority. What `LockExclusive` says of `klocktsk` is stated for a system with one pool:
there is one `klocktsk` for all locks, and `make_ready` (`task.c:194`) lets a task of higher
priority preempt a lock holder without a look at it. With two pools such a task can lock the other one and
overwrite `klocktsk`, although `ready_queue.h:40` excludes two READY lock holders; the first holder
then loses its precedence, not the exclusion. The model assumes of the application that
it returns only blocks it holds, and that it does not create a pool while it still returns blocks
to the previous one of that control block (the code cannot tell the two apart).

**Refinement.** `PoolPromise` states that `MpfSpec` implements `TKPool!Spec` under the mapping
`Pool` in `TKMempfix`: a pool exists while `mpfid` is set, its blocks are out unless they are on
the free list or were never used, its queue is the wait queue. The moment a call takes
effect is the step that changes these, e.g. `get_take`; the test of `frbcnt` and
the step that relies on it are different steps, which is why it could fail.
`MailboxPromise` and `MbfPromise` state the same of `TKChannel!Spec`. For a mailbox `pending` is the chain of links
from `mq_head`; for a message buffer it is what `mbf_to_msg` would read from the ring, one message after
the other, so that every step must leave the ring readable. A receive from a full buffer may admit
several waiting senders at once; whether it admits all that fit is `NoNeedlessWait`.

**Lock order.** `MtxRank` is an assumption about the application: with distinct
ranks a task only locks mutexes in ascending rank, so tasks do not deadlock. With
equal ranks any order is allowed. The passing runs use ascending
ranks where two mutexes exist; the violation runs show what happens without it.

**Fairness.** `RoundRobinSpec` has strong fairness on the three dispatcher
steps and weak fairness on the beginning and the end of the timer handler. The dispatcher
is the code the CPU executes when it is entered; handlers may run in between and
change its guard (`schedtsk` may equal `ctxtsk` again), so the guards are not
continuously enabled, but a finite interrupt load lets the dispatcher make its next step if
it is entered again and again. The timer interrupt recurs, and its handler cannot be preempted by a task.
Nothing is assumed of tasks: a task may compute for ever.
In `TKDeviceIO` tasks execute (weak fairness on the steps that only need the CPU: no step of another task
disables them for long), and the driver comes back from `openfn` and `closefn` and from every request that it
was told to abort, which is what `abortfn` is for. Nothing is assumed of other requests.

**Findings.**

1. `mutex_terminate`: two tasks each hold a `TA_INHERIT` mutex the other waits for.
   `_ter_tsk` (`task_manage.c:282-290`) cancels the wait of the task
   and then calls its `rel_wai_hook`. `mtx_rel_wai` resets the holder's priority; the
   change is passed along the chain and returns to the task being terminated,
   which is put back into the wait queue it left (`mutex.c:269`). `make_dormant` leaves it there.
2. `device_close`: `abort_allrequest` (`deviceio.c:428-433`) releases `LockDAbort` and then reads `abort_cnt`. If the
   last task with a request runs in between, it counts to 0 and signals; the closing task sees 0, does not wait, and keeps
   the signal. Its next `SyncWaitDM`, in the queue of those that open and close, returns at once,
   and it calls `closefn` while another task is in `openfn` or `closefn`.
3. Without a run of its own: deleting a mutex of two such deadlocked tasks. `_tk_del_mtx` (`mutex.c:391`) releases the mutex while it still
   names its holder; the change of priority returns to the holder through the
   waiting task and raises it again (`mutex.c:273-277`), and after `wait_delete` nothing justifies that priority. `PriorityRule`
   is violated with the constants of `mutex_terminate` and a third priority.

## 4. The proofs

`TKTaskProofs` proves, for every set of tasks, any number of priorities and
any limits, from the assumptions `TaskAssumption`, `CallsAssumption` and
`SpecAssumption` named in the modules (sentinels are no tasks, there is a
priority, `free_tcb` lists each TCB once):

`TypeCorrect`, `QueuesConsistent`, `CachesConsistent`, `SchedtskSelected`,
`HighestRuns`, `WaitAndSuspendConsistent`, `CallerMayRun` and `NothingMissed`, each
`TaskSpec => []P` for the property of the corresponding run, and `OrderPreserved`, which is
`TaskSpec => FifoWithinPriority`.

None of the invariants is inductive alone: `schedtsk` is right only because the caches
are, the caches only because every READY task is in the queue of its priority exactly
once, and that needs each TCB to be linked where its state says, which
needs the rules about its wait fields. The inductive invariant `IInv` is their
conjunction:

* `KInv`: the ready queue contains the READY tasks, each once, at its priority;
  `bitmap` marks the non-empty queues, `top_priority` is the first of them, `schedtsk` the
  task selected from it;
* `TaskOK`, for every task: its state, wait fields, timeout, counters and
  prohibitions fit together;
* `CtxInv`: the current task is RUNNING or READY unless the
  dispatcher is under way; with dispatching disabled it is READY;
* `FreeInv`: `free_tcb` lists the non-existent tasks, each once.

`TKKernelLemmas` has what insertion, removal and rotation do to a sequence without
repetitions, and one lemma per helper of `TKTask`, which says that it
preserves `KInv` and what it leaves alone. `TKTaskProofs` then has one lemma
per action, and `Invariance` combines them.

`OrderPreserved` is an action property, and no consequence of `IInv` alone: it needs what each helper does to the
order of the task queues. `Orderly` says that a queue keeps its order but for its last task, `Arranged` that every queue is orderly
and one task at most has joined one. A call may move two tasks, the one it is about and `schedtsk`, which
`charge_preempted` puts at the end of its queue when its time slice is over. `MovedCharged` allows that when they are
in different queues or are the same task; the remaining case is excluded by the callers: `make_ready` charges
only when the new task is of a higher priority (`MakeReadyQueues`), and a task that is requeued does not
displace the top of the queue it joins (`MovedToTop`). `StepKept` shows for every action that the queues are `Arranged`, and
`FifoKept` concludes: two tasks that are in one queue before and after the step cannot both have joined it.

`TKSemaphoreProofs` proves of `SemSpec`, for every set of tasks and semaphores, any number of priorities and any maximum, from
`TaskAssumption`, `CallsAssumption` and `SemAssumption`:

* `QueuesConsistent`: a queue holds exactly the tasks that wait for its semaphore, each once, in the order of its
  attribute, and each with a request that can be met (`SemQueuesMatchStates`);
* `NobodyWaitsInVain`: the head of a queue, with `TA_CNT` every task in it, asks for more than is there (`NoGrantableWaiter`);
* `CountWithinLimits` and `ReadyQueueRight`: the count keeps within its limits, and the ready queue, its caches and
  `schedtsk` remain right although one call may release several tasks.

`NoGrantableWaiter` is not inductive alone. Every call that gives units or takes a task out of a queue runs a loop that starts at
the head and stops at the first request that is too large; that the tasks behind it cannot go on either holds only if the
queue is in order and complete, and if the queue was settled before. The inductive invariant `IInv` is `Good(Kernel, {})`, where `Good(k, X)` is
the conjunction of

* `Links(k, X)`: `KInv`, the wait fields of every task agree with its state (`Fits`), and `QueueRight` for every
  semaphore: its queue holds the waiting tasks, sorted with `TA_TPRI`;
* `Settled(k, s)`, for every semaphore: nobody who could go on is left in the queue.

Both are stated of a kernel state in the middle of a call: `X` are the tasks that have been unlinked from their queue and have not
changed state yet, as in `wait_release_ng` and `_ter_tsk`, and within a call the semaphore whose hook is still to run is not `Settled`.
The loops of `tk_sig_sem`, `sem_chg_pri` and `wait_delete` are recursive functions of the number of tasks visited; `VisitRuns` and
`DeleteRuns` prove that such functions exist, so that the definitions mean what they say. `VisitLoop` and `DeleteLoop` carry a loop
invariant from one task to the next: what has been visited has gone or was refused, and what is left is the rest of the queue at the
start. The induction of both is an argument by a least counterexample (`LeastElement`).
`RelWaiHook` and `WaitFails` then carry `Good` through a wait that fails, `Reorder` through a change of
priority, `Enqueue` and `BlockedGood` through a wait that begins; `Inductive` combines the actions.

`TKMempfixProofs` proves of `MpfSpec`, for any tasks, priorities, pools, numbers of blocks and attributes, from
`TaskAssumption`, `CallsAssumption`, `LockAssumption` and `MempfixAssumption` (the table of pools is finite, like the code's):

* `KernelLockExclusive`: `LockOBJ` and `UnlockOBJ` exclude each other although the holder may be suspended, terminated or lose the
  CPU inside a call (`LockExclusive`). What the property says of `klocktsk` it says for a single pool: with several, a task that
  preempts a holder and locks another pool overwrites it, and then it only ever names a READY holder (`LockTask`);
* `MempfixLinkedOnce`: a task is linked once, where its state, `klockwait` and `wid` say (`LinkedOnce`);
* `MempfixBlocksConserved`: no block is lost or in two places, whoever is terminated in the middle of a call (`BlocksConserved`);
* `MempfixImplementsPool`: what the calls do over several critical sections is what `TKPool` does in one step (`PoolPromise`).

The invariant of the task layer, `KInv`, does not hold here: a task that queues for a lock is READY but not in the ready queue, it
may be suspended and resumed there, and a suspended task may have the lock. Every helper that moves a task had to be looked at
again. The inductive invariant `MInv` (`KernelLockInvariant`) is the conjunction of

* `Links(k, L, X)`: the ready queue holds the READY tasks that do not queue for a lock, a wait queue of a lock those that queue for
  it, any other wait queue the tasks that wait there; `bitmap`, `top_priority` and `schedtsk` agree with that, and `klocktsk`
  names a READY holder. `L` gives for each task the lock its call is about, `X` are the tasks that are unlinked in the
  middle of a helper;
* `Locks(k, calls)`: a task inside has the lock, one that still is in `LockOBJ` may have been handed it, and only for a lock that
  is taken does a task queue (`TaskLocks`); one task has a lock at a time (`OneHolder`); it counts as taken exactly while
  somebody has it (`Taken`).

`TKMempfixLemmas` has one lemma per helper for `Links` and one per kind of step of a call for `Locks`: to take the lock at once, to
queue for it, to move on inside, to give it back, to leave by a wait. `UnlockObject` is the longest: the lock passes from the holder
to the head of the queue in one step, through a state in which it is taken and nobody has it. `BlockInv` adds what the blocks
need: each block that has ever been used is on the free list, with the application or on its way back, in one of these places,
once (`Places`); a call that is about to take or free a block has seen that the pool exists and has one (`StepOK`), and
`LockExclusive` keeps it true; a control block on the free list is no pool and is not being made one, and one that is being made a
pool is so by one task, while nobody returns blocks to its predecessor (`Listed`, `Makers`). `BlocksConserved` counts blocks;
`PlacesCounted` gets from places to numbers.

`MempfixImplementsPool` is the refinement, `MpfSpec => PoolPromise`. Under `MInv` and `BlockInv` it needs `WaitInv`, which says why the test and the
step that relies on it may be apart: tasks wait only for a pool that exists and has no free block (`NoneNeedless`); a task about to
wait still has that reason, and one about to free a block still finds nobody waiting (`CallFits`). No other task can spoil either, as
only the task under the lock adds to the queue or changes the pool, and everybody else only takes tasks out of the queue, or moves them
(`Shrink`). From the control blocks and the queues `PoolSet`, `Outs` and `Waiters` compute the variables of `TKPool`; `PoolTaken`, `PoolWaited`
and their like say which of its actions a change of them is; the lemmas `...Refines` go through the actions of `TKMempfix`, and
through what the helpers of the scheduler do to the queues (`Drops`, `Undisturbed`, `Reordered`).

`TKTimerProofs` proves, for every timer period, any tasks, handlers, times and
attributes and any nesting of calls, from `TimerAssumption` alone, each of the properties of the run `timer` as
`Spec => []P` or `Spec => P`: `TimerQueueConsistent`, `NothingEarly`, `NothingLate`, `CyclicCalledOnce`
and `CyclicPhaseKept`; and the types, `TimerTypeCorrect`. The proofs do not use the view by which TLC
identifies states, so they also confirm what the run shows for unbounded time. The inductive
invariant `IInv` is the conjunction of

* `ClockInv`: real time is the software clock plus what the timer device has counted since,
  its pending interrupt included, although a call may come between the interrupt and its handler;
* `EventInv`: the queue is ordered and without repetitions; the time of an event is the one asked for, or
  one microsecond later; and unless `timer_handler` is active no linked event has passed;
* `StateInv`: what is linked agrees with the states of tasks and handlers.

`NeverEarly` needs the first two: an event is taken out when the software clock reaches it, and
that clock is never ahead. `NeverLate` needs the order, since `timer_handler` stops at the first event that has
not passed, and `CalledOncePerInterval` that an interval is never 0. The lemmas `Enqueued` and `Deleted` say
what `enqueue_tmeb` and `timer_delete` do to an ordered queue, `NextTime` what `cyc_next_time` computes.

`TKDeviceProofs` proves of `TKDeviceIO`, for any tasks, units, descriptors, requests, modes and either value of
`TDA_OPENREQ`, from `DeviceAssumption` (the tables of tasks and control blocks are finite, unit 0 is the device,
an open mode reads or writes):

* whatever tasks do at the same time: the types (`TypesCorrect`), and that excluding modes are respected
  (`ModesAreRespected`), which is inductive with the types, as `chkopenmode` looks at every descriptor in use;
* with `Overlap = {}`, the hypothesis of the run `device_io`: the inductive invariant (`DeviceInvariance`), and from it
  `SerialOpensAndCloses`, `DriverIsOpenWhileUsed` and `RequestsInDriverAreLive`. The hypothesis is needed: the run
  `device_close` violates the first without it, and section 3 says what the other overlaps break.

The three properties hang together, so that `IInv` has to say what all of the device management relies on:

* `Descriptors`: a descriptor is opened or closed by one task, and its `resid` tells how far that is;
* `SyncQueue`: `syncq` links the tasks that open and close, once each; only its first calls the driver; and waits
  are disabled only for the task whose turn it is or whose aborts have been counted down to 0. This is what keeps a signal
  of an abort from ending the wait in the queue, and so needs the next part;
* `Aborts`: `abort_cnt` is the number of tasks that are in the driver with a request of the descriptor, from the
  moment `abort_allrequest` marks them until the last is back, and none is left there when the descriptor is
  drained. `BusyCount` proves that what the loop of `abort_allrequest` counts, requests, are as many as the tasks;
* `Requests`: a request is in the queue of its descriptor, once, and names it; the one that a task has in the driver
  carries that task's id, which no other task has;
* `Waits`: `nwaireq`, `waitone` and `syncreq` count the tasks that wait as they should, without which a wait for any request could take
  over a request another task has;
* `OpenCount`: how often the driver is open is what `chkopen` computes from the descriptors, minus the call that is under way.

The first half of `TKDeviceProofs` states what each action does to the variables it changes; the second has, for each part of the
invariant, one lemma per kind of change and one that goes through the actions (`DescriptorsKept`, ..., `OpenCountKept`).

Model-checked only: the liveness properties (`WorkersShareCpu`, `SelectedTaskRuns`, `CloseEnds`: the prover does not handle ENABLED, hence not
fairness), of the semaphores `UnitsConserved` and `NoOvertaking` (they compare two states by a sum over the tasks a step grants),
mutexes, event flags, mailboxes, message buffers and rendezvous,
and the refinements of `TKChannel`. `TKMutex` follows chains of holders with recursive operators, which the
prover does not support; the loops of `TKEventflag` and `TKMessageBuffer` are folds, about
which facts need an induction that the provers cannot instantiate, unless the loop is a recursive function like those of the semaphores.

## 5. What is not modelled

See `components` in `PROJECT.json` for the reasons part by part. In the modelled files: the
debugger's `td_` calls, `tk_ref_`, `tk_inf_` and `tk_get_` calls (they only read), registers, stacks and
coprocessors, object names, parameter checks that return an error before any
change, the power-saving mode while idle, and profiling hooks. `LockSVC` and its
companions in `klock.c` belong to the subsystems. Of `time_calls.c`: the system time, which is an offset no event
depends on, and `tk_dly_tsk`. Times do not overflow in the model; the code counts microseconds in 64 bits. In
`deviceio.c`: suspension, break and cleanup of a resource group, the registration of drivers.

The call of a cyclic or alarm handler is one step: that another interrupt deletes the handler after
interrupts have been enabled and before its address is read (`time_calls.c:297-298`, `:769-770`) is not distinguished.

Most of the repository by size is not the system's own logic: the BSD network stack, the FAT file system and the C library
of T2EX, wolfSSL and wolfMQTT are third-party code with tests of their own. The models keep to
the kernel and what is built on it directly.

## 6. Plan

1. Proofs: event flags and `NoNeedlessWait`, along the lines of the semaphores; that mailboxes implement `TKChannel`,
   along those of `MempfixImplementsPool`.
2. `TKFastLock`, `TKFastMLock`: `lib/libtk`, refining an abstract lock, with released waits.
3. `mempool.c`: the free-list allocator, under the kernel lock of `TKMempfix`.
4. Suspension of devices and the cleanup of a resource group in `TKDeviceIO`.
