----------------------------- MODULE TKDeviceIO -----------------------------
(***************************************************************************)
(* Device management: opening and closing a device, and the requests that  *)
(* the tasks of a resource group start and wait for on their descriptors   *)
(* (deviceio.c).                                                           *)
(*                                                                         *)
(* All of it happens in sections under LockDM, which are atomic here.  The *)
(* driver's functions are called outside of them; a task is "at" the       *)
(* function it has called or the point where it waits.  The sections under *)
(* LockDAbort lie within one action too: a task that returns from a request*)
(* needs the lock, hence sees the abort of its descriptor before or after. *)
(***************************************************************************)
EXTENDS Integers, Sequences, SequencesExt, FiniteSets

CONSTANTS
  Task,        \* the tasks of the resource group
  Opn,         \* open control blocks (MaxOpnDev), which the descriptors name
  Req,         \* request control blocks (MaxReqDev)
  Unit,        \* the device, 0, and its subunits
  Modes,       \* the open modes: subsets of {"READ", "WRITE", "REXCL", "WEXCL"}
  Followed,    \* the tasks whose closes CloseEnds follows; tasks do not differ
  Overlap,     \* what tasks do at the same time, see below
  None

\* Three things that tasks may do at the same time break the abort of requests; only
\* the ones named by Overlap happen.
\*   "preempt"  a task that returns from the driver runs between UnlockDAbort and the
\*              test of abort_cnt by the task that closes (abort_allrequest)
\*   "any"      a task starts a request while another waits for any request of the
\*              descriptor, or the other way round
\*   "sync"     a descriptor is closed during synchronous input and output on it
ASSUME DeviceAssumption ==
  /\ 0 \in Unit /\ Unit \subseteq Nat
  /\ \A mode \in Modes : mode \cap {"READ", "WRITE"} # {}
  /\ Overlap \subseteq {"preempt", "any", "sync"}
  /\ Followed \subseteq Task
  /\ None \notin Task \cup Opn \cup Req
  /\ IsFiniteSet(Task) /\ IsFiniteSet(Opn) /\ IsFiniteSet(Req)  \* fixed tables

VARIABLES
  devcb,    \* syncq, the tasks that open and close, and openreq (TDA_OPENREQ)
  opncb,    \* the open control blocks
  reqcb,    \* the request control blocks
  tsk,      \* what every task is at
  masked,   \* the tasks whose semaphore waits are disabled (tk_dis_wai)
  opened    \* by unit: how often the driver has been opened and not closed

vars == <<devcb, opncb, reqcb, tsk, masked, opened>>

FreeOpn == [inuse |-> FALSE, unitno |-> 0, omode |-> {}, resid |-> 0, requestq |-> <<>>,
            syncreq |-> 0, waitone |-> 0, waireqlst |-> <<>>, abort_tskid |-> None,
            abort_cnt |-> 0]
FreeReq == [opncb |-> None, tskid |-> None]

\* at: the driver's function or the wait the task is in; dd, requests: of what; any: it
\* waits for any request; sync: for a synchronous one; aborted: abortfn was called for it.
Idle == [at |-> "idle", dd |-> None, requests |-> <<>>, any |-> FALSE, sync |-> FALSE,
         aborted |-> FALSE]

at(t) == tsk[t].at
goto(t, label) == tsk' = [tsk EXCEPT ![t].at = label]

-----------------------------------------------------------------------------
\* SyncWaitDM waits for a semaphore that is never signalled and then enables waits again
\* (tk_ena_wai); SyncSignalDM disables the waits of the task (tk_dis_wai), which ends this
\* wait, or the next one if the task does not wait yet.
signalled(t) == t \in masked

\* Slip: waits stay disabled.
SyncWaitDM_disabled(t) == masked

SyncWaitDM(t) == masked \ {t}
SyncSignalDM(m, t) == m \cup {t}

\* QueRemove, of a queue that holds no element twice.
without(queue, x) ==
  IF x \in ToSet(queue) THEN RemoveAt(queue, CHOOSE i \in DOMAIN queue : queue[i] = x) ELSE queue

\* leaveSyncWait: t leaves the queue, and whoever is first then is woken up; m is masked.
leaveSyncWait(m, t) ==
  LET rest == without(devcb.syncq, t) IN
  /\ devcb' = [devcb EXCEPT !.syncq = rest]
  /\ masked' = IF rest = <<>> THEN m ELSE SyncSignalDM(m, Head(rest))

\* Slip: a subunit does not care for the whole device.
chkopenmode_unit(unitno, omode) ==
  LET others == {o \in Opn : opncb[o].inuse /\ (unitno = 0 \/ opncb[o].unitno = unitno)}
      some(mode) == \E o \in others : mode \in opncb[o].omode
  IN /\ "REXCL" \in omode => ~some("READ")
     /\ "WEXCL" \in omode => ~some("WRITE")
     /\ "READ" \in omode => ~some("REXCL")
     /\ "WRITE" \in omode => ~some("WEXCL")

\* chkopenmode: the open excludes nobody and is excluded by nobody.
chkopenmode(unitno, omode) ==
  LET others == {o \in Opn : opncb[o].inuse /\ (unitno = 0 \/ opncb[o].unitno \in {0, unitno})}
      some(mode) == \E o \in others : mode \in opncb[o].omode
  IN /\ "REXCL" \in omode => ~some("READ")
     /\ "WEXCL" \in omode => ~some("WRITE")
     /\ "READ" \in omode => ~some("REXCL")
     /\ "WRITE" \in omode => ~some("WEXCL")

\* Slip: a device that is being closed is not taken for open.
chkopen_closing(unitno, o) ==
  \E p \in Opn \ {o} : opncb[p].inuse /\ opncb[p].unitno = unitno /\ opncb[p].resid = 1

\* chkopen: the unit is open otherwise, or being closed.
chkopen(unitno, o) ==
  \E p \in Opn \ {o} : opncb[p].inuse /\ opncb[p].unitno = unitno /\ opncb[p].resid # 0

driver_called(unitno, o) == ~chkopen(unitno, o) \/ devcb.openreq

-----------------------------------------------------------------------------
\* Open.  resid is 0 until the open is completed, then 1, and -1 while closing.

\* One that is the first in syncq calls openfn, unless the unit is open already.
tk_opn_dev(t, o, unitno, omode) ==
  LET cb == [FreeOpn EXCEPT !.inuse = TRUE, !.unitno = unitno, !.omode = omode]
      entering(label) ==
        /\ opncb' = [opncb EXCEPT ![o] = cb]
        /\ devcb' = [devcb EXCEPT !.syncq = Append(@, t)]
        /\ tsk' = [tsk EXCEPT ![t] = [Idle EXCEPT !.at = label, !.dd = o]]
  IN
  /\ at(t) = "idle"
  /\ ~opncb[o].inuse
  /\ chkopenmode(unitno, omode)
  /\ \/ devcb.syncq # <<>> /\ entering("open_sync")
     \/ devcb.syncq = <<>> /\ driver_called(unitno, o) /\ entering("openfn")
     \/ /\ devcb.syncq = <<>> /\ ~driver_called(unitno, o)
        /\ opncb' = [opncb EXCEPT ![o] = [cb EXCEPT !.resid = 1]]
        /\ UNCHANGED <<devcb, tsk>>
  /\ UNCHANGED <<reqcb, masked, opened>>

open_completed(m, t, o) ==
  /\ opncb' = [opncb EXCEPT ![o].resid = 1]
  /\ leaveSyncWait(m, t)
  /\ tsk' = [tsk EXCEPT ![t] = Idle]

open_turn(t) ==
  LET o == tsk[t].dd IN
  /\ at(t) = "open_sync"
  /\ signalled(t)
  /\ IF driver_called(opncb[o].unitno, o)
     THEN goto(t, "openfn") /\ masked' = SyncWaitDM(t) /\ UNCHANGED <<devcb, opncb>>
     ELSE open_completed(SyncWaitDM(t), t, o)
  /\ UNCHANGED <<reqcb, opened>>

openfn_succeeds(t) ==
  LET o == tsk[t].dd IN
  /\ at(t) = "openfn"
  /\ open_completed(masked, t, o)
  /\ opened' = [opened EXCEPT ![opncb[o].unitno] = @ + 1]
  /\ UNCHANGED reqcb

openfn_fails(t) ==
  /\ at(t) = "openfn"
  /\ opncb' = [opncb EXCEPT ![tsk[t].dd] = FreeOpn]
  /\ leaveSyncWait(masked, t)
  /\ tsk' = [tsk EXCEPT ![t] = Idle]
  /\ UNCHANGED <<reqcb, opened>>

-----------------------------------------------------------------------------
\* Requests.  nwaireq is the length of waireqlst.

\* A task that is back from the driver is counted by a task that waits for the abort of
\* all requests, and the last one signals it.
returned(cb) == IF cb.abort_tskid = None THEN cb ELSE [cb EXCEPT !.abort_cnt = @ - 1]

\* Slip: the first one signals it.
notify_first(cb) ==
  masked' = IF cb.abort_tskid # None THEN SyncSignalDM(masked, cb.abort_tskid) ELSE masked

notify(cb) ==
  masked' = IF cb.abort_tskid # None /\ returned(cb).abort_cnt = 0
            THEN SyncSignalDM(masked, cb.abort_tskid) ELSE masked

request(t, o, sync) ==
  LET cb == opncb[o] IN
  /\ at(t) = "idle"
  /\ cb.resid = 1
  /\ sync \/ "any" \notin Overlap => cb.waireqlst = <<>>
  /\ \E r \in Req :
       /\ reqcb[r].opncb = None
       /\ reqcb' = [reqcb EXCEPT ![r] = [opncb |-> o, tskid |-> t]]
       /\ opncb' = [opncb EXCEPT ![o] = [cb EXCEPT
            !.requestq = Append(cb.requestq, r),
            !.syncreq = IF sync THEN cb.syncreq + 1 ELSE cb.syncreq]]
       /\ tsk' = [tsk EXCEPT ![t] =
            [Idle EXCEPT !.at = "execfn", !.dd = o, !.requests = <<r>>, !.sync = sync]]
  /\ UNCHANGED <<devcb, masked, opened>>

execfn_succeeds(t) ==
  LET o == tsk[t].dd r == tsk[t].requests[1] cb == opncb[o] IN
  /\ at(t) = "execfn"
  /\ reqcb' = [reqcb EXCEPT ![r].tskid = None]
  /\ opncb' = [opncb EXCEPT ![o] = returned(cb)]
  /\ notify(cb)
  /\ tsk' = [tsk EXCEPT ![t] = IF @.sync THEN [@ EXCEPT !.at = "sync", !.aborted = FALSE] ELSE Idle]
  /\ UNCHANGED <<devcb, opened>>

execfn_fails(t) ==
  LET o == tsk[t].dd r == tsk[t].requests[1] cb == opncb[o] IN
  /\ at(t) = "execfn"
  /\ reqcb' = [reqcb EXCEPT ![r] = FreeReq]
  /\ opncb' = [opncb EXCEPT ![o] = [returned(cb) EXCEPT
       !.requestq = without(cb.requestq, r),
       !.syncreq = IF tsk[t].sync THEN cb.syncreq - 1 ELSE cb.syncreq]]
  /\ notify(cb)
  /\ tsk' = [tsk EXCEPT ![t] = Idle]
  /\ UNCHANGED <<devcb, opened>>

\* check_reqid, and nobody waits for r or for any request of the descriptor.
waitable(o, r) ==
  r \in ToSet(opncb[o].requestq) /\ opncb[o].waireqlst = <<>> /\ reqcb[r].tskid = None

\* waitcomplete for one request, r.
wait_for_one(t, o, r, sync) ==
  /\ waitable(o, r)
  /\ reqcb' = [reqcb EXCEPT ![r].tskid = t]
  /\ opncb' = [opncb EXCEPT ![o].waitone = @ + 1]
  /\ tsk' = [tsk EXCEPT ![t] =
       [Idle EXCEPT !.at = "waitfn", !.dd = o, !.requests = <<r>>, !.sync = sync]]
  /\ UNCHANGED <<devcb, masked, opened>>

tk_wai_dev(t, o, r) ==
  /\ at(t) = "idle"
  /\ opncb[o].resid = 1
  /\ wait_for_one(t, o, r, FALSE)

\* waitcomplete for any of the requests (reqid is 0).
tk_wai_dev_any(t, o) ==
  LET queue == opncb[o].requestq IN
  /\ at(t) = "idle"
  /\ opncb[o].resid = 1
  /\ opncb[o].waireqlst = <<>> /\ opncb[o].waitone = 0 /\ opncb[o].syncreq = 0
  /\ queue # <<>>
  /\ "any" \in Overlap \/ \A r \in ToSet(queue) : reqcb[r].tskid = None
  /\ reqcb' = [r \in Req |-> IF r \in ToSet(queue) THEN [reqcb[r] EXCEPT !.tskid = t] ELSE reqcb[r]]
  /\ opncb' = [opncb EXCEPT ![o].waireqlst = queue]
  /\ tsk' = [tsk EXCEPT ![t] =
       [Idle EXCEPT !.at = "waitfn", !.dd = o, !.requests = queue, !.any = TRUE]]
  /\ UNCHANGED <<devcb, masked, opened>>

\* The second half of tk_srea_dev and tk_swri_dev; it fails when another task has waited
\* for the request meanwhile.  When the descriptor is being closed by now, waitcomplete
\* decrements syncreq through a pointer it has not set.
sync_wait(t) ==
  LET o == tsk[t].dd IN
  /\ at(t) = "sync"
  /\ IF opncb[o].resid = 1
     THEN \/ wait_for_one(t, o, tsk[t].requests[1], TRUE)
          \/ /\ ~waitable(o, tsk[t].requests[1])
             /\ opncb' = [opncb EXCEPT ![o].syncreq = @ - 1]
             /\ tsk' = [tsk EXCEPT ![t] = Idle]
             /\ UNCHANGED <<devcb, reqcb, masked, opened>>
     ELSE /\ tsk' = [tsk EXCEPT ![t] = Idle]
          /\ \/ UNCHANGED opncb
             \/ \E p \in Opn : opncb' = [opncb EXCEPT ![p].syncreq = @ - 1]
          /\ UNCHANGED <<devcb, reqcb, masked, opened>>

\* waitfn has completed the i-th request of t; 0 stands for its errors.
waitfn_returns(t, i) ==
  LET o == tsk[t].dd requests == tsk[t].requests cb == opncb[o]
      completed(r) == i # 0 /\ r = requests[i]
  IN
  /\ at(t) = "waitfn"
  /\ reqcb' = [r \in Req |-> IF completed(r) THEN FreeReq
                             ELSE IF r \in ToSet(requests) THEN [reqcb[r] EXCEPT !.tskid = None]
                             ELSE reqcb[r]]
  /\ opncb' = [opncb EXCEPT ![o] = [returned(cb) EXCEPT
       !.requestq = IF i = 0 THEN cb.requestq ELSE without(cb.requestq, requests[i]),
       !.waireqlst = IF tsk[t].any THEN <<>> ELSE cb.waireqlst,
       !.waitone = IF tsk[t].any THEN cb.waitone ELSE cb.waitone - 1,
       !.syncreq = IF tsk[t].sync THEN cb.syncreq - 1 ELSE cb.syncreq]]
  /\ notify(cb)
  /\ tsk' = [tsk EXCEPT ![t] = Idle]
  /\ UNCHANGED <<devcb, opened>>

-----------------------------------------------------------------------------
\* Close

tk_cls_dev(t, o) ==
  /\ at(t) = "idle"
  /\ opncb[o].resid = 1
  /\ "sync" \in Overlap \/ opncb[o].syncreq = 0
  /\ opncb' = [opncb EXCEPT ![o].resid = -1]
  /\ tsk' = [tsk EXCEPT ![t] = [Idle EXCEPT !.at = "close", !.dd = o]]
  /\ UNCHANGED <<devcb, reqcb, masked, opened>>

\* abort_allrequest: abortfn is called for every task that is in the driver with a request
\* of the descriptor, once for one that waits for any.
abort_allrequest(t) ==
  LET o == tsk[t].dd
      list == opncb[o].waireqlst
      busy == IF list # <<>> THEN {Head(list)}
              ELSE {r \in ToSet(opncb[o].requestq) : reqcb[r].tskid # None}
      victims == {reqcb[r].tskid : r \in busy}
  IN
  /\ at(t) = "close"
  /\ opncb' = [opncb EXCEPT ![o] = [@ EXCEPT
       !.abort_tskid = t, !.abort_cnt = Cardinality(busy)]]
  /\ tsk' = [u \in Task |-> IF u = t THEN [tsk[u] EXCEPT !.at = "abort_check"]
                            ELSE IF u \in victims THEN [tsk[u] EXCEPT !.aborted = TRUE] ELSE tsk[u]]
  /\ UNCHANGED <<devcb, reqcb, masked, opened>>

\* abort_cnt is read when LockDAbort has been released.
abort_check(t) ==
  /\ at(t) = "abort_check"
  /\ goto(t, IF opncb[tsk[t].dd].abort_cnt > 0 THEN "abort_sync" ELSE "abort_done")
  /\ UNCHANGED <<devcb, opncb, reqcb, masked, opened>>

abort_sync(t) ==
  /\ at(t) = "abort_sync"
  /\ signalled(t)
  /\ masked' = SyncWaitDM(t)
  /\ goto(t, "abort_done")
  /\ UNCHANGED <<devcb, opncb, reqcb, opened>>

\* What remains in the request queue is waited for, one request after the other.
drain(t, queue) ==
  tsk' = [tsk EXCEPT ![t] = IF queue = <<>>
            THEN [@ EXCEPT !.at = "close_enter", !.requests = <<>>]
            ELSE [@ EXCEPT !.at = "drain", !.requests = <<Head(queue)>>]]

abort_done(t) ==
  LET o == tsk[t].dd IN
  /\ at(t) = "abort_done"
  /\ opncb' = [opncb EXCEPT ![o].abort_tskid = None]
  /\ drain(t, opncb[o].requestq)
  /\ UNCHANGED <<devcb, reqcb, masked, opened>>

\* Slip: the request is freed but stays in the queue.
drained_queued(t) ==
  /\ at(t) = "drain"
  /\ reqcb' = [reqcb EXCEPT ![tsk[t].requests[1]] = FreeReq]
  /\ drain(t, opncb[tsk[t].dd].requestq)
  /\ UNCHANGED <<devcb, opncb, masked, opened>>

drained(t) ==
  LET o == tsk[t].dd
      r == tsk[t].requests[1]
      rest == without(opncb[o].requestq, r)
  IN
  /\ at(t) = "drain"
  /\ reqcb' = [reqcb EXCEPT ![r] = FreeReq]
  /\ opncb' = [opncb EXCEPT ![o].requestq = rest]
  /\ drain(t, rest)
  /\ UNCHANGED <<devcb, masked, opened>>

\* close_device: closefn is called for the last open of the unit.
close_enter(t) ==
  LET o == tsk[t].dd
      entering(label) ==
        /\ devcb' = [devcb EXCEPT !.syncq = Append(@, t)]
        /\ goto(t, label)
        /\ UNCHANGED opncb
  IN
  /\ at(t) = "close_enter"
  /\ \/ devcb.syncq # <<>> /\ entering("close_sync")
     \/ devcb.syncq = <<>> /\ driver_called(opncb[o].unitno, o) /\ entering("closefn")
     \/ /\ devcb.syncq = <<>> /\ ~driver_called(opncb[o].unitno, o)
        /\ opncb' = [opncb EXCEPT ![o] = FreeOpn]
        /\ tsk' = [tsk EXCEPT ![t] = Idle]
        /\ UNCHANGED devcb
  /\ UNCHANGED <<reqcb, masked, opened>>

close_completed(m, t, o) ==
  /\ opncb' = [opncb EXCEPT ![o] = FreeOpn]
  /\ leaveSyncWait(m, t)
  /\ tsk' = [tsk EXCEPT ![t] = Idle]

close_turn(t) ==
  LET o == tsk[t].dd IN
  /\ at(t) = "close_sync"
  /\ signalled(t)
  /\ IF driver_called(opncb[o].unitno, o)
     THEN goto(t, "closefn") /\ masked' = SyncWaitDM(t) /\ UNCHANGED <<devcb, opncb>>
     ELSE close_completed(SyncWaitDM(t), t, o)
  /\ UNCHANGED <<reqcb, opened>>

closefn_returns(t) ==
  LET o == tsk[t].dd IN
  /\ at(t) = "closefn"
  /\ close_completed(masked, t, o)
  /\ opened' = [opened EXCEPT ![opncb[o].unitno] = @ - 1]
  /\ UNCHANGED reqcb

-----------------------------------------------------------------------------
Init ==
  /\ devcb \in [syncq : {<<>>}, openreq : BOOLEAN]
  /\ opncb = [o \in Opn |-> FreeOpn]
  /\ reqcb = [r \in Req |-> FreeReq]
  /\ tsk = [t \in Task |-> Idle]
  /\ masked = {}
  /\ opened = [unitno \in Unit |-> 0]

Calls(t) ==
  \E o \in Opn :
    \/ \E unitno \in Unit, omode \in Modes : tk_opn_dev(t, o, unitno, omode)
    \/ tk_cls_dev(t, o)
    \/ \E sync \in BOOLEAN : request(t, o, sync)
    \/ \E r \in Req : tk_wai_dev(t, o, r)
    \/ tk_wai_dev_any(t, o)

\* t does not run between UnlockDAbort and the test of abort_cnt by the task that closes.
Undisturbed(t) ==
  "preempt" \in Overlap \/ \A u \in Task : ~(at(u) = "abort_check" /\ tsk[u].dd = tsk[t].dd)

DriverReturns(t) ==
  \/ openfn_succeeds(t) \/ openfn_fails(t)
  \/ Undisturbed(t) /\ (execfn_succeeds(t) \/ execfn_fails(t))
  \/ /\ Undisturbed(t)
     /\ \E i \in 0 .. Cardinality(Req) :
          i \in {0} \cup DOMAIN tsk[t].requests /\ waitfn_returns(t, i)
  \/ closefn_returns(t)

Proceeds(t) ==
  \/ open_turn(t)
  \/ sync_wait(t)
  \/ abort_allrequest(t) \/ abort_check(t) \/ abort_sync(t) \/ abort_done(t) \/ drained(t)
  \/ close_enter(t) \/ close_turn(t)

Next == \E t \in Task : Calls(t) \/ DriverReturns(t) \/ Proceeds(t)

\* Tasks execute, the driver opens and closes, and it answers requests that are aborted.
DriverAnswers(t) == (tsk[t].aborted \/ at(t) \in {"openfn", "closefn"}) /\ DriverReturns(t)

Spec ==
  /\ Init
  /\ [][Next]_vars
  /\ \A t \in Task : WF_vars(Proceeds(t)) /\ WF_vars(DriverAnswers(t))

-----------------------------------------------------------------------------
\* "Multiple tasks can initiate open/close processing, so ensure processing only by one
\* task at a time" (_tk_opn_dev, close_device): the driver is not opened or closed by two
\* tasks at once, although a task is let in by disabling its waits, which a signal that
\* comes too early or is not consumed does to some other wait.
OpenCloseSerialised ==
  \A t, u \in Task : at(t) \in {"openfn", "closefn"} /\ at(u) \in {"openfn", "closefn"} => t = u

\* The driver is opened with the first open of a unit and closed with the last (or every
\* time, with TDA_OPENREQ), although opens fail and overlap with closes (chkopen).
DriverOpenWhileUsed ==
  (\A t \in Task : at(t) \notin {"openfn", "closefn"}) =>
    \A unitno \in Unit :
      LET used == {o \in Opn : opncb[o].inuse /\ opncb[o].unitno = unitno /\ opncb[o].resid # 0} IN
      opened[unitno] = IF devcb.openreq \/ used = {} THEN Cardinality(used) ELSE 1

\* A mode that excludes readers or writers does so on the unit and on the whole device,
\* also against opens that are not completed and closes that have begun (chkopenmode).
ModesRespected ==
  \A o, p \in Opn :
    /\ o # p
    /\ opncb[o].inuse /\ opncb[p].inuse
    /\ opncb[o].unitno = opncb[p].unitno \/ 0 \in {opncb[o].unitno, opncb[p].unitno}
    => /\ ~("REXCL" \in opncb[o].omode /\ "READ" \in opncb[p].omode)
       /\ ~("WEXCL" \in opncb[o].omode /\ "WRITE" \in opncb[p].omode)

\* A request that a task has in the driver (execfn, waitfn) stays registered with its
\* descriptor until that task is back, and is in the hands of no other task.  When a
\* descriptor is drained and closed, nobody is in the driver with a request of it: "Wait
\* for completion of abort request processing" (abort_allrequest).
DriverHasLiveRequests ==
  /\ \A o \in Opn : opncb[o].waitone =
       Cardinality({t \in Task : at(t) = "waitfn" /\ tsk[t].dd = o /\ ~tsk[t].any})
  /\ \A t \in Task : at(t) \in {"execfn", "waitfn", "drain"} =>
    \A r \in ToSet(tsk[t].requests) :
      /\ reqcb[r].opncb = tsk[t].dd
      /\ r \in ToSet(opncb[tsk[t].dd].requestq)
      /\ \A u \in Task \ {t} :
           at(u) \in {"execfn", "waitfn", "drain"} => r \notin ToSet(tsk[u].requests)
      /\ \A u \in Task :
           at(u) \in {"drain", "close_enter", "close_sync", "closefn"} =>
             at(t) = "drain" \/ tsk[u].dd # tsk[t].dd

\* A task that closes a descriptor gets through: whoever has requests in the driver, waits
\* for them or opens and closes as well, the abort is answered, counted and signalled.
CloseEnds ==
  \A t \in Followed : at(t) = "close" ~> at(t) = "idle"

=============================================================================
