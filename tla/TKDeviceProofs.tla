--------------------------- MODULE TKDeviceProofs ---------------------------
(***************************************************************************)
(* What the actions of TKDeviceIO do, field by field, and its invariants,  *)
(* for all tasks, descriptors and requests.                                *)
(*                                                                         *)
(* Types and open modes hold whatever tasks do at the same time.  The other*)
(* invariants hold when Overlap is empty: IInv is the inductive invariant, *)
(* the conjunction of what holds of the descriptors (Descriptors), of the  *)
(* queue of those that open and close (SyncQueue), of the aborts (Aborts), *)
(* of the requests (Requests), of the waits for them (Waits) and of the    *)
(* driver's opens (OpenCount).                                             *)
(***************************************************************************)
EXTENDS TKDeviceIO, TKSequenceLemmas, FiniteSetTheorems, FunctionTheorems

USE DEF at

-----------------------------------------------------------------------------
(* Types *)

Opening == {"open_sync", "openfn"}
Aborting == {"abort_check", "abort_sync", "abort_done"}
Drained == {"abort_done", "drain", "close_enter", "close_sync", "closefn"}
Closing == {"close", "abort_check", "abort_sync"} \cup Drained
Serving == {"execfn", "waitfn"}
Labels == {"idle", "sync"} \cup Opening \cup Closing \cup Serving

OpnRecord == [inuse : BOOLEAN, unitno : Unit, omode : Modes \cup {{}}, resid : -1 .. 1,
              requestq : Seq(Req), syncreq : Int, waitone : Int, waireqlst : Seq(Req),
              abort_tskid : Task \cup {None}, abort_cnt : Int]
ReqRecord == [opncb : Opn \cup {None}, tskid : Task \cup {None}]
TaskRecord == [at : Labels, dd : Opn \cup {None}, requests : Seq(Req), any : BOOLEAN,
               sync : BOOLEAN, aborted : BOOLEAN]

TypeOK ==
  /\ devcb \in [syncq : Seq(Task), openreq : BOOLEAN]
  /\ opncb \in [Opn -> OpnRecord]
  /\ reqcb \in [Req -> ReqRecord]
  /\ tsk \in [Task -> TaskRecord]
  /\ masked \subseteq Task
  /\ opened \in [Unit -> Int]
  /\ \A t \in Task :
       /\ at(t) # "idle" => tsk[t].dd \in Opn
       /\ at(t) \in Serving \cup {"sync", "drain"} => tsk[t].requests # <<>>

\* What Next is made of, without the nesting.
LEMMA Actions ==
  ASSUME Next
  PROVE  \E t \in Task :
    \/ \E o \in Opn, unitno \in Unit, omode \in Modes : tk_opn_dev(t, o, unitno, omode)
    \/ \E o \in Opn : tk_cls_dev(t, o)
    \/ \E o \in Opn, sync \in BOOLEAN : request(t, o, sync)
    \/ \E o \in Opn, r \in Req : tk_wai_dev(t, o, r)
    \/ \E o \in Opn : tk_wai_dev_any(t, o)
    \/ openfn_succeeds(t) \/ openfn_fails(t) \/ closefn_returns(t)
    \/ Undisturbed(t) /\ (execfn_succeeds(t) \/ execfn_fails(t))
    \/ Undisturbed(t) /\ \E i \in {0} \cup DOMAIN tsk[t].requests : waitfn_returns(t, i)
    \/ open_turn(t) \/ sync_wait(t)
    \/ abort_allrequest(t) \/ abort_check(t) \/ abort_sync(t) \/ abort_done(t) \/ drained(t)
    \/ close_enter(t) \/ close_turn(t)
BY DEF Next, Calls, DriverReturns, Proceeds

\* The records are built of the fields' types.
LEMMA Records ==
  /\ FreeOpn \in OpnRecord
  /\ FreeReq \in ReqRecord
  /\ Idle \in TaskRecord
BY DeviceAssumption DEF FreeOpn, FreeReq, Idle, OpnRecord, ReqRecord, TaskRecord, Labels

\* without gives a sequence.
LEMMA WithoutType ==
  ASSUME NEW S, NEW q \in Seq(S), NEW x
  PROVE  without(q, x) \in Seq(S)
<1>1. CASE x \in ToSet(q)
  <2>. DEFINE i == CHOOSE i \in DOMAIN q : q[i] = x
  <2>1. i \in 1 .. Len(q)
    BY <1>1, Elements
  <2>. HIDE DEF i
  <2>2. RemoveAt(q, i) \in Seq(S)
    BY <2>1, RemovedAt
  <2>. QED
    BY <1>1, <2>2 DEF without, i
<1>. QED
  BY <1>1 DEF without

\* What may be assigned to the fields of an open control block.
LEMMA OpnFields ==
  ASSUME NEW c \in OpnRecord, NEW x
  PROVE  /\ x \in -1 .. 1 => [c EXCEPT !.resid = x] \in OpnRecord
         /\ x \in Seq(Req) => [c EXCEPT !.requestq = x] \in OpnRecord
         /\ x \in Seq(Req) => [c EXCEPT !.waireqlst = x] \in OpnRecord
         /\ x \in Int => [c EXCEPT !.syncreq = x] \in OpnRecord
         /\ x \in Int => [c EXCEPT !.waitone = x] \in OpnRecord
         /\ x \in Int => [c EXCEPT !.abort_cnt = x] \in OpnRecord
         /\ x \in Task \cup {None} => [c EXCEPT !.abort_tskid = x] \in OpnRecord
BY DEF OpnRecord

\* One control block is assigned.
LEMMA OpnAssigned ==
  ASSUME opncb \in [Opn -> OpnRecord], NEW o \in Opn, NEW c \in OpnRecord,
         opncb' = [opncb EXCEPT ![o] = c]
  PROVE  /\ opncb' \in [Opn -> OpnRecord]
         /\ opncb'[o] = c
         /\ \A p \in Opn \ {o} : opncb'[p] = opncb[p]
OBVIOUS

-----------------------------------------------------------------------------
(* What the actions do, field by field *)

\* Where t is afterwards.
Becomes(t, label, o, requests, any, sync) ==
  /\ tsk'[t].at = label /\ tsk'[t].dd = o /\ tsk'[t].requests = requests
  /\ tsk'[t].any = any /\ tsk'[t].sync = sync

\* No other task moves (abort_allrequest only sets its aborted).
OtherTasks(t) ==
  \A u \in Task \ {t} :
    /\ tsk'[u].at = tsk[u].at /\ tsk'[u].dd = tsk[u].dd /\ tsk'[u].requests = tsk[u].requests
    /\ tsk'[u].any = tsk[u].any /\ tsk'[u].sync = tsk[u].sync

\* What an action leaves alone of an open control block, and all other ones.
KeepsOpen(o) == /\ opncb'[o].inuse = opncb[o].inuse
                /\ opncb'[o].unitno = opncb[o].unitno
                /\ opncb'[o].omode = opncb[o].omode
KeepsAbort(o) == /\ opncb'[o].abort_tskid = opncb[o].abort_tskid
                 /\ opncb'[o].abort_cnt = opncb[o].abort_cnt
KeepsWaits(o) == /\ opncb'[o].waireqlst = opncb[o].waireqlst
                 /\ opncb'[o].waitone = opncb[o].waitone
                 /\ opncb'[o].syncreq = opncb[o].syncreq
OtherOpns(o) == \A p \in Opn \ {o} : opncb'[p] = opncb[p]

\* The assignments to tsk: its type, t and the others.
LEMMA TaskAssigned ==
  ASSUME tsk \in [Task -> TaskRecord], NEW t \in Task, NEW c \in TaskRecord,
         tsk' = [tsk EXCEPT ![t] = c]
  PROVE  /\ tsk' \in [Task -> TaskRecord]
         /\ Becomes(t, c.at, c.dd, c.requests, c.any, c.sync) /\ OtherTasks(t)
<1>1. /\ tsk' \in [Task -> TaskRecord]
      /\ tsk'[t] = c
      /\ \A u \in Task \ {t} : tsk'[u] = tsk[u]
  OBVIOUS
<1>. QED
  BY <1>1 DEF Becomes, OtherTasks

\* A task is back from a call.
LEMMA TaskDone ==
  ASSUME tsk \in [Task -> TaskRecord], NEW t \in Task, tsk' = [tsk EXCEPT ![t] = Idle]
  PROVE  /\ tsk' \in [Task -> TaskRecord]
         /\ Becomes(t, "idle", None, <<>>, FALSE, FALSE) /\ OtherTasks(t)
<1>1. /\ Idle \in TaskRecord
      /\ Idle.at = "idle" /\ Idle.dd = None /\ Idle.requests = <<>>
      /\ Idle.any = FALSE /\ Idle.sync = FALSE
  BY Records DEF Idle
<1>. QED
  BY <1>1, TaskAssigned

\* A task opens or closes a descriptor.
LEMMA TaskOpens ==
  ASSUME tsk \in [Task -> TaskRecord], NEW t \in Task, NEW label \in Labels, NEW o \in Opn,
         tsk' = [tsk EXCEPT ![t] =
           [Idle EXCEPT !.at = label, !.dd = o]]
  PROVE  /\ tsk' \in [Task -> TaskRecord]
         /\ Becomes(t, label, o, <<>>, FALSE, FALSE)
         /\ OtherTasks(t)
<1>. DEFINE d == [Idle EXCEPT !.at = label, !.dd = o]
<1>1. d = [Idle EXCEPT !.at = label, !.dd = o] /\ tsk' = [tsk EXCEPT ![t] = d]
  OBVIOUS
<1>. HIDE DEF d
<1>2. ASSUME NEW c \in TaskRecord, d = [c EXCEPT !.at = label, !.dd = o]
      PROVE  /\ d \in TaskRecord
             /\ d.at = label
             /\ d.dd = o
             /\ d.requests = c.requests
             /\ d.any = c.any
             /\ d.sync = c.sync
  BY <1>2 DEF TaskRecord
<1>3. /\ d \in TaskRecord
      /\ d.at = label
      /\ d.dd = o
      /\ d.requests = <<>>
      /\ d.any = FALSE
      /\ d.sync = FALSE
  BY <1>1, <1>2, Records DEF Idle
<1>. QED
  BY <1>1, <1>3, TaskAssigned

\* A task calls the driver with a request or waits for one.
LEMMA TaskServed ==
  ASSUME tsk \in [Task -> TaskRecord], NEW t \in Task, NEW label \in Labels, NEW o \in Opn,
         NEW requests \in Seq(Req), NEW sync \in BOOLEAN,
         tsk' = [tsk EXCEPT ![t] =
           [Idle EXCEPT !.at = label, !.dd = o, !.requests = requests, !.sync = sync]]
  PROVE  /\ tsk' \in [Task -> TaskRecord]
         /\ Becomes(t, label, o, requests, FALSE, sync)
         /\ OtherTasks(t)
<1>. DEFINE d == [Idle EXCEPT !.at = label, !.dd = o, !.requests = requests, !.sync = sync]
<1>1. d = [Idle EXCEPT !.at = label, !.dd = o, !.requests = requests, !.sync = sync]
      /\ tsk' = [tsk EXCEPT ![t] = d]
  OBVIOUS
<1>. HIDE DEF d
<1>2. ASSUME NEW c \in TaskRecord,
             d = [c EXCEPT !.at = label, !.dd = o, !.requests = requests, !.sync = sync]
      PROVE  /\ d \in TaskRecord
             /\ d.at = label
             /\ d.dd = o
             /\ d.requests = requests
             /\ d.any = c.any
             /\ d.sync = sync
  BY <1>2 DEF TaskRecord
<1>3. /\ d \in TaskRecord
      /\ d.at = label
      /\ d.dd = o
      /\ d.requests = requests
      /\ d.any = FALSE
      /\ d.sync = sync
  BY <1>1, <1>2, Records DEF Idle
<1>. QED
  BY <1>1, <1>3, TaskAssigned

\* A task waits for any of the requests.
LEMMA TaskWaits ==
  ASSUME tsk \in [Task -> TaskRecord], NEW t \in Task, NEW label \in Labels, NEW o \in Opn,
         NEW requests \in Seq(Req),
         tsk' = [tsk EXCEPT ![t] =
           [Idle EXCEPT !.at = label, !.dd = o, !.requests = requests, !.any = TRUE]]
  PROVE  /\ tsk' \in [Task -> TaskRecord]
         /\ Becomes(t, label, o, requests, TRUE, FALSE)
         /\ OtherTasks(t)
<1>. DEFINE d == [Idle EXCEPT !.at = label, !.dd = o, !.requests = requests, !.any = TRUE]
<1>1. d = [Idle EXCEPT !.at = label, !.dd = o, !.requests = requests, !.any = TRUE]
      /\ tsk' = [tsk EXCEPT ![t] = d]
  OBVIOUS
<1>. HIDE DEF d
<1>2. ASSUME NEW c \in TaskRecord,
             d = [c EXCEPT !.at = label, !.dd = o, !.requests = requests, !.any = TRUE]
      PROVE  /\ d \in TaskRecord
             /\ d.at = label
             /\ d.dd = o
             /\ d.requests = requests
             /\ d.any = TRUE
             /\ d.sync = c.sync
  BY <1>2 DEF TaskRecord
<1>3. /\ d \in TaskRecord
      /\ d.at = label
      /\ d.dd = o
      /\ d.requests = requests
      /\ d.any = TRUE
      /\ d.sync = FALSE
  BY <1>1, <1>2, Records DEF Idle
<1>4. /\ tsk' \in [Task -> TaskRecord]
      /\ Becomes(t, d.at, d.dd, d.requests, d.any, d.sync) /\ OtherTasks(t)
  BY <1>1, <1>3, TaskAssigned
<1>. QED
  BY <1>3, <1>4 DEF Becomes

\* A task goes on.
LEMMA TaskGoes ==
  ASSUME tsk \in [Task -> TaskRecord], NEW t \in Task, NEW label \in Labels,
         tsk' = [tsk EXCEPT ![t] =
           [@ EXCEPT !.at = label]]
  PROVE  /\ tsk' \in [Task -> TaskRecord]
         /\ Becomes(t, label, tsk[t].dd, tsk[t].requests, tsk[t].any, tsk[t].sync)
         /\ OtherTasks(t)
<1>. DEFINE d == [tsk[t] EXCEPT !.at = label]
<1>1. d = [tsk[t] EXCEPT !.at = label] /\ tsk' = [tsk EXCEPT ![t] = d]
  OBVIOUS
<1>. HIDE DEF d
<1>2. ASSUME NEW c \in TaskRecord, d = [c EXCEPT !.at = label]
      PROVE  /\ d \in TaskRecord
             /\ d.at = label
             /\ d.dd = c.dd
             /\ d.requests = c.requests
             /\ d.any = c.any
             /\ d.sync = c.sync
  BY <1>2 DEF TaskRecord
<1>3. /\ d \in TaskRecord
      /\ d.at = label
      /\ d.dd = tsk[t].dd
      /\ d.requests = tsk[t].requests
      /\ d.any = tsk[t].any
      /\ d.sync = tsk[t].sync
  BY <1>1, <1>2, Records
<1>. QED
  BY <1>1, <1>3, TaskAssigned

\* A task goes on with another request.
LEMMA TaskDrains ==
  ASSUME tsk \in [Task -> TaskRecord], NEW t \in Task, NEW label \in Labels,
         NEW requests \in Seq(Req),
         tsk' = [tsk EXCEPT ![t] =
           [@ EXCEPT !.at = label, !.requests = requests]]
  PROVE  /\ tsk' \in [Task -> TaskRecord]
         /\ Becomes(t, label, tsk[t].dd, requests, tsk[t].any, tsk[t].sync)
         /\ OtherTasks(t)
<1>. DEFINE d == [tsk[t] EXCEPT !.at = label, !.requests = requests]
<1>1. d = [tsk[t] EXCEPT !.at = label, !.requests = requests] /\ tsk' = [tsk EXCEPT ![t] = d]
  OBVIOUS
<1>. HIDE DEF d
<1>2. ASSUME NEW c \in TaskRecord, d = [c EXCEPT !.at = label, !.requests = requests]
      PROVE  /\ d \in TaskRecord
             /\ d.at = label
             /\ d.dd = c.dd
             /\ d.requests = requests
             /\ d.any = c.any
             /\ d.sync = c.sync
  BY <1>2 DEF TaskRecord
<1>3. /\ d \in TaskRecord
      /\ d.at = label
      /\ d.dd = tsk[t].dd
      /\ d.requests = requests
      /\ d.any = tsk[t].any
      /\ d.sync = tsk[t].sync
  BY <1>1, <1>2, Records
<1>. QED
  BY <1>1, <1>3, TaskAssigned

\* A task goes on, and nothing of it is aborted any more.
LEMMA TaskSecondHalf ==
  ASSUME tsk \in [Task -> TaskRecord], NEW t \in Task, NEW label \in Labels,
         tsk' = [tsk EXCEPT ![t] =
           [@ EXCEPT !.at = label, !.aborted = FALSE]]
  PROVE  /\ tsk' \in [Task -> TaskRecord]
         /\ Becomes(t, label, tsk[t].dd, tsk[t].requests, tsk[t].any, tsk[t].sync)
         /\ OtherTasks(t)
<1>. DEFINE d == [tsk[t] EXCEPT !.at = label, !.aborted = FALSE]
<1>1. d = [tsk[t] EXCEPT !.at = label, !.aborted = FALSE] /\ tsk' = [tsk EXCEPT ![t] = d]
  OBVIOUS
<1>. HIDE DEF d
<1>2. ASSUME NEW c \in TaskRecord, d = [c EXCEPT !.at = label, !.aborted = FALSE]
      PROVE  /\ d \in TaskRecord
             /\ d.at = label
             /\ d.dd = c.dd
             /\ d.requests = c.requests
             /\ d.any = c.any
             /\ d.sync = c.sync
  BY <1>2 DEF TaskRecord
<1>3. /\ d \in TaskRecord
      /\ d.at = label
      /\ d.dd = tsk[t].dd
      /\ d.requests = tsk[t].requests
      /\ d.any = tsk[t].any
      /\ d.sync = tsk[t].sync
  BY <1>1, <1>2, Records
<1>. QED
  BY <1>1, <1>3, TaskAssigned

\* The assignments to one field of an open control block.
LEMMA OpnFieldAssigned ==
  ASSUME opncb \in [Opn -> OpnRecord], NEW o \in Opn, NEW x
  PROVE  /\ x \in -1 .. 1 /\ opncb' = [opncb EXCEPT ![o].resid = x] =>
              opncb' \in [Opn -> OpnRecord] /\ OtherOpns(o)
         /\ x \in Seq(Req) /\ opncb' = [opncb EXCEPT ![o].requestq = x] =>
              opncb' \in [Opn -> OpnRecord] /\ OtherOpns(o)
         /\ x \in Seq(Req) /\ opncb' = [opncb EXCEPT ![o].waireqlst = x] =>
              opncb' \in [Opn -> OpnRecord] /\ OtherOpns(o)
         /\ x \in Int /\ opncb' = [opncb EXCEPT ![o].waitone = x] =>
              opncb' \in [Opn -> OpnRecord] /\ OtherOpns(o)
         /\ x \in Int /\ opncb' = [opncb EXCEPT ![o].syncreq = x] =>
              opncb' \in [Opn -> OpnRecord] /\ OtherOpns(o)
         /\ x \in Task \cup {None} /\ opncb' = [opncb EXCEPT ![o].abort_tskid = x] =>
              opncb' \in [Opn -> OpnRecord] /\ OtherOpns(o)
<1>1. opncb[o] \in OpnRecord
  OBVIOUS
<1>2. ASSUME x \in -1 .. 1, opncb' = [opncb EXCEPT ![o].resid = x]
      PROVE  opncb' \in [Opn -> OpnRecord] /\ OtherOpns(o)
  <2>. DEFINE c == [opncb[o] EXCEPT !.resid = x]
  <2>1. c \in OpnRecord
    BY <1>1, <1>2, OpnFields
  <2>2. opncb' = [opncb EXCEPT ![o] = c]
    BY <1>2
  <2>. HIDE DEF c
  <2>. QED
    BY <2>1, <2>2, OpnAssigned DEF OtherOpns
<1>3. ASSUME x \in Seq(Req), opncb' = [opncb EXCEPT ![o].requestq = x]
      PROVE  opncb' \in [Opn -> OpnRecord] /\ OtherOpns(o)
  <2>. DEFINE c == [opncb[o] EXCEPT !.requestq = x]
  <2>1. c \in OpnRecord
    BY <1>1, <1>3, OpnFields
  <2>2. opncb' = [opncb EXCEPT ![o] = c]
    BY <1>3
  <2>. HIDE DEF c
  <2>. QED
    BY <2>1, <2>2, OpnAssigned DEF OtherOpns
<1>4. ASSUME x \in Seq(Req), opncb' = [opncb EXCEPT ![o].waireqlst = x]
      PROVE  opncb' \in [Opn -> OpnRecord] /\ OtherOpns(o)
  <2>. DEFINE c == [opncb[o] EXCEPT !.waireqlst = x]
  <2>1. c \in OpnRecord
    BY <1>1, <1>4, OpnFields
  <2>2. opncb' = [opncb EXCEPT ![o] = c]
    BY <1>4
  <2>. HIDE DEF c
  <2>. QED
    BY <2>1, <2>2, OpnAssigned DEF OtherOpns
<1>5. ASSUME x \in Int, opncb' = [opncb EXCEPT ![o].waitone = x]
      PROVE  opncb' \in [Opn -> OpnRecord] /\ OtherOpns(o)
  <2>. DEFINE c == [opncb[o] EXCEPT !.waitone = x]
  <2>1. c \in OpnRecord
    BY <1>1, <1>5, OpnFields
  <2>2. opncb' = [opncb EXCEPT ![o] = c]
    BY <1>5
  <2>. HIDE DEF c
  <2>. QED
    BY <2>1, <2>2, OpnAssigned DEF OtherOpns
<1>6. ASSUME x \in Int, opncb' = [opncb EXCEPT ![o].syncreq = x]
      PROVE  opncb' \in [Opn -> OpnRecord] /\ OtherOpns(o)
  <2>. DEFINE c == [opncb[o] EXCEPT !.syncreq = x]
  <2>1. c \in OpnRecord
    BY <1>1, <1>6, OpnFields
  <2>2. opncb' = [opncb EXCEPT ![o] = c]
    BY <1>6
  <2>. HIDE DEF c
  <2>. QED
    BY <2>1, <2>2, OpnAssigned DEF OtherOpns
<1>7. ASSUME x \in Task \cup {None}, opncb' = [opncb EXCEPT ![o].abort_tskid = x]
      PROVE  opncb' \in [Opn -> OpnRecord] /\ OtherOpns(o)
  <2>. DEFINE c == [opncb[o] EXCEPT !.abort_tskid = x]
  <2>1. c \in OpnRecord
    BY <1>1, <1>7, OpnFields
  <2>2. opncb' = [opncb EXCEPT ![o] = c]
    BY <1>7
  <2>. HIDE DEF c
  <2>. QED
    BY <2>1, <2>2, OpnAssigned DEF OtherOpns
<1>. QED
  BY <1>2, <1>3, <1>4, <1>5, <1>6, <1>7

\* The queue and the waits that leaveSyncWait leaves behind.
Leaves(m, t) ==
  LET rest == without(devcb.syncq, t) IN
  /\ devcb'.syncq = rest /\ devcb'.openreq = devcb.openreq
  /\ masked' = IF rest = <<>> THEN m ELSE m \cup {Head(rest)}

\* leaveSyncWait is Leaves, and keeps the types.
LEMMA LeaveEffect ==
  ASSUME TypeOK, NEW t \in Task, NEW m \in SUBSET Task, leaveSyncWait(m, t)
  PROVE  /\ devcb' \in [syncq : Seq(Task), openreq : BOOLEAN]
         /\ masked' \subseteq Task
         /\ Leaves(m, t)
<1>. DEFINE rest == without(devcb.syncq, t)
<1>1. devcb \in [syncq : Seq(Task), openreq : BOOLEAN] /\ rest \in Seq(Task)
  BY WithoutType DEF TypeOK
<1>2. rest # <<>> => Head(rest) \in Task
  BY <1>1
<1>3. devcb' = [devcb EXCEPT !.syncq = rest]
      /\ masked' = IF rest = <<>> THEN m ELSE m \cup {Head(rest)}
  BY DEF leaveSyncWait, SyncSignalDM
<1>4. devcb' \in [syncq : Seq(Task), openreq : BOOLEAN] /\ devcb'.syncq = rest
      /\ devcb'.openreq = devcb.openreq
  <2>. HIDE DEF rest
  <2>. QED
    BY <1>1, <1>3
<1>. QED
  BY <1>2, <1>3, <1>4 DEF Leaves

\* A task enters the queue of those that open and close.
LEMMA EnterEffect ==
  ASSUME TypeOK, NEW t \in Task, devcb' = [devcb EXCEPT !.syncq = Append(@, t)]
  PROVE  /\ devcb' \in [syncq : Seq(Task), openreq : BOOLEAN]
         /\ devcb'.syncq = Append(devcb.syncq, t) /\ devcb'.openreq = devcb.openreq
<1>. DEFINE longer == Append(devcb.syncq, t)
<1>1. devcb \in [syncq : Seq(Task), openreq : BOOLEAN] /\ longer \in Seq(Task)
  BY AppendProperties DEF TypeOK
<1>2. devcb' = [devcb EXCEPT !.syncq = longer]
  OBVIOUS
<1>. HIDE DEF longer
<1>3. devcb' \in [syncq : Seq(Task), openreq : BOOLEAN] /\ devcb'.syncq = longer
      /\ devcb'.openreq = devcb.openreq
  BY <1>1, <1>2
<1>. QED
  BY <1>3 DEF longer

\* tk_opn_dev registers the open, in the queue or completed.
OpenEffect(t, o, unitno, omode) ==
  /\ at(t) = "idle" /\ ~opncb[o].inuse /\ chkopenmode(unitno, omode)
  /\ OtherOpns(o) /\ OtherTasks(t)
  /\ opncb'[o].inuse /\ opncb'[o].unitno = unitno /\ opncb'[o].omode = omode
  /\ opncb'[o].requestq = <<>> /\ opncb'[o].waireqlst = <<>>
  /\ opncb'[o].waitone = 0 /\ opncb'[o].syncreq = 0
  /\ opncb'[o].abort_tskid = None
  /\ reqcb' = reqcb /\ masked' = masked /\ opened' = opened
  /\ devcb'.openreq = devcb.openreq
  /\ \/ /\ opncb'[o].resid = 0
        /\ Becomes(t, "open_sync", o, <<>>, FALSE, FALSE) /\ devcb.syncq # <<>>
        /\ devcb'.syncq = Append(devcb.syncq, t)
     \/ /\ opncb'[o].resid = 0
        /\ Becomes(t, "openfn", o, <<>>, FALSE, FALSE) /\ devcb.syncq = <<>>
        /\ devcb'.syncq = Append(devcb.syncq, t)
        /\ driver_called(unitno, o)
     \/ /\ opncb'[o].resid = 1
        /\ tsk' = tsk /\ devcb.syncq = <<>> /\ devcb' = devcb
        /\ ~driver_called(unitno, o)

\* The step has this effect and keeps the types.
LEMMA OpenStep ==
  ASSUME TypeOK, NEW t \in Task, NEW o \in Opn, NEW unitno \in Unit, NEW omode \in Modes,
         tk_opn_dev(t, o, unitno, omode)
  PROVE  TypeOK' /\ OpenEffect(t, o, unitno, omode)
<1>. USE DEF OpenEffect
<1>. DEFINE cb == [FreeOpn EXCEPT !.inuse = TRUE, !.unitno = unitno, !.omode = omode]
            entering(label) ==
              /\ opncb' = [opncb EXCEPT ![o] = cb]
              /\ devcb' = [devcb EXCEPT !.syncq = Append(@, t)]
              /\ tsk' = [tsk EXCEPT ![t] = [Idle EXCEPT !.at = label, !.dd = o]]
            rest(c) == /\ c.inuse /\ c.unitno = unitno /\ c.omode = omode
                       /\ c.requestq = <<>> /\ c.waireqlst = <<>> /\ c.waitone = 0
                       /\ c.syncreq = 0 /\ c.abort_tskid = None
            cb1 == [cb EXCEPT !.resid = 1]
<1>1. /\ at(t) = "idle" /\ ~opncb[o].inuse /\ chkopenmode(unitno, omode)
      /\ reqcb' = reqcb /\ masked' = masked /\ opened' = opened
      /\ \/ devcb.syncq # <<>> /\ entering("open_sync")
         \/ devcb.syncq = <<>> /\ driver_called(unitno, o) /\ entering("openfn")
         \/ /\ devcb.syncq = <<>> /\ ~driver_called(unitno, o)
            /\ opncb' = [opncb EXCEPT ![o] = cb1]
            /\ devcb' = devcb /\ tsk' = tsk
  BY DEF tk_opn_dev
<1>2. cb \in OpnRecord /\ rest(cb) /\ cb.resid = 0
  <2>1. ASSUME NEW c \in OpnRecord
        PROVE  [c EXCEPT !.inuse = TRUE, !.unitno = unitno, !.omode = omode] \in OpnRecord
    BY DEF OpnRecord
  <2>2. cb \in OpnRecord
    BY <2>1, Records
  <2>. QED
    BY <2>2 DEF FreeOpn
<1>. HIDE DEF cb
<1>3. cb1 \in OpnRecord /\ rest(cb1) /\ cb1.resid = 1
  BY <1>2 DEF OpnRecord
<1>. HIDE DEF cb1
<1>4. /\ devcb \in [syncq : Seq(Task), openreq : BOOLEAN]
      /\ opncb \in [Opn -> OpnRecord]
      /\ tsk \in [Task -> TaskRecord]
  BY DEF TypeOK
<1>5. ASSUME NEW label \in Opening, entering(label)
      PROVE  /\ TypeOK' /\ OtherOpns(o) /\ OtherTasks(t)
             /\ opncb'[o] = cb
             /\ Becomes(t, label, o, <<>>, FALSE, FALSE)
             /\ devcb'.openreq = devcb.openreq
             /\ devcb'.syncq = Append(devcb.syncq, t)
  <2>1. /\ opncb' \in [Opn -> OpnRecord] /\ OtherOpns(o)
        /\ opncb'[o] = cb
    BY <1>2, <1>4, <1>5, OpnAssigned DEF OtherOpns
  <2>2. /\ tsk' \in [Task -> TaskRecord]
        /\ Becomes(t, label, o, <<>>, FALSE, FALSE) /\ OtherTasks(t)
    BY <1>4, <1>5, TaskOpens DEF Labels
  <2>3. /\ devcb' \in [syncq : Seq(Task), openreq : BOOLEAN]
        /\ devcb'.syncq = Append(devcb.syncq, t) /\ devcb'.openreq = devcb.openreq
    BY <1>5, EnterEffect
  <2>. QED
    BY <1>1, <2>1, <2>2, <2>3 DEF TypeOK, OtherTasks, Becomes, Opening, Serving
<1>6. ASSUME opncb' = [opncb EXCEPT ![o] = cb1], devcb' = devcb, tsk' = tsk
      PROVE  /\ TypeOK' /\ OtherOpns(o) /\ OtherTasks(t)
             /\ opncb'[o] = cb1
  <2>1. /\ opncb' \in [Opn -> OpnRecord] /\ OtherOpns(o)
        /\ opncb'[o] = cb1
    BY <1>3, <1>4, <1>6, OpnAssigned DEF OtherOpns
  <2>. QED
    BY <1>1, <1>6, <2>1 DEF TypeOK, OtherTasks
<1>. HIDE DEF entering, rest
<1>7. CASE devcb.syncq # <<>> /\ entering("open_sync")
  BY <1>1, <1>2, <1>5, <1>7 DEF Opening, rest
<1>8. CASE devcb.syncq = <<>> /\ driver_called(unitno, o) /\ entering("openfn")
  BY <1>1, <1>2, <1>5, <1>8 DEF Opening, rest
<1>9. CASE /\ devcb.syncq = <<>> /\ ~driver_called(unitno, o)
           /\ opncb' = [opncb EXCEPT ![o] = cb1]
           /\ devcb' = devcb /\ tsk' = tsk
  BY <1>1, <1>3, <1>6, <1>9 DEF rest
<1>. QED
  BY <1>1, <1>7, <1>8, <1>9

\* The types hold when they do for the variables and for the task that moves.
LEMMA TypesKept ==
  ASSUME TypeOK, NEW t \in Task, OtherTasks(t),
         devcb' \in [syncq : Seq(Task), openreq : BOOLEAN],
         opncb' \in [Opn -> OpnRecord],
         reqcb' \in [Req -> ReqRecord],
         tsk' \in [Task -> TaskRecord],
         masked' \subseteq Task,
         opened' \in [Unit -> Int],
         tsk'[t].at # "idle" => tsk'[t].dd \in Opn,
         tsk'[t].at \in Serving \cup {"sync", "drain"} => tsk'[t].requests # <<>>
  PROVE  TypeOK'
<1>1. ASSUME NEW u \in Task
      PROVE  /\ tsk'[u].at # "idle" => tsk'[u].dd \in Opn
             /\ tsk'[u].at \in Serving \cup {"sync", "drain"} => tsk'[u].requests # <<>>
  <2>1. CASE u = t
    BY <2>1
  <2>2. CASE u # t
    BY <2>2 DEF TypeOK, OtherTasks
  <2>. QED
    BY <2>1, <2>2
<1>. QED
  BY <1>1 DEF TypeOK

\* The requests, the waits and the abort of o stay as they are, when only resid changes.
KeepsRest(o) ==
  /\ KeepsOpen(o) /\ KeepsAbort(o) /\ KeepsWaits(o)
  /\ opncb'[o].requestq = opncb[o].requestq

\* t has opened o.
Opened(m, t, o) ==
  /\ opncb'[o].resid = 1 /\ KeepsRest(o) /\ OtherOpns(o)
  /\ Becomes(t, "idle", None, <<>>, FALSE, FALSE) /\ OtherTasks(t)
  /\ Leaves(m, t)

\* o is free again.
Freed(o) == opncb' = [opncb EXCEPT ![o] = FreeOpn] /\ opncb'[o] = FreeOpn /\ OtherOpns(o)

\* t has closed o, or could not open it.
Closed(m, t, o) ==
  /\ Freed(o)
  /\ Becomes(t, "idle", None, <<>>, FALSE, FALSE) /\ OtherTasks(t)
  /\ Leaves(m, t)

\* open_completed does this.
LEMMA CompletedEffect ==
  ASSUME TypeOK, NEW t \in Task, NEW o \in Opn, NEW m \in SUBSET Task, open_completed(m, t, o),
         reqcb' = reqcb, opened' \in [Unit -> Int]
  PROVE  TypeOK' /\ Opened(m, t, o)
<1>1. opncb' = [opncb EXCEPT ![o].resid = 1] /\ tsk' = [tsk EXCEPT ![t] = Idle]
      /\ leaveSyncWait(m, t)
  BY DEF open_completed
<1>2. opncb \in [Opn -> OpnRecord] /\ tsk \in [Task -> TaskRecord]
  BY DEF TypeOK
<1>3. opncb' \in [Opn -> OpnRecord] /\ OtherOpns(o)
  <2>1. 1 \in -1 .. 1
    OBVIOUS
  <2>. QED
    BY <1>1, <1>2, <2>1, OpnFieldAssigned, Zenon
<1>4. opncb'[o].resid = 1 /\ KeepsRest(o)
  BY <1>1, <1>2 DEF OpnRecord, KeepsRest, KeepsOpen, KeepsAbort, KeepsWaits
<1>5. /\ tsk' \in [Task -> TaskRecord]
      /\ Becomes(t, "idle", None, <<>>, FALSE, FALSE) /\ OtherTasks(t)
  BY <1>1, <1>2, TaskDone
<1>6. /\ devcb' \in [syncq : Seq(Task), openreq : BOOLEAN]
      /\ masked' \subseteq Task
      /\ Leaves(m, t)
  BY <1>1, LeaveEffect
<1>7. TypeOK'
  BY <1>3, <1>5, <1>6 DEF TypeOK, Becomes, OtherTasks, Serving
<1>. QED
  BY <1>3, <1>4, <1>5, <1>6, <1>7 DEF Opened

\* A descriptor is freed and its task done.
LEMMA ClosedEffect ==
  ASSUME TypeOK, NEW t \in Task, NEW o \in Opn, NEW m \in SUBSET Task,
         opncb' = [opncb EXCEPT ![o] = FreeOpn], tsk' = [tsk EXCEPT ![t] = Idle],
         leaveSyncWait(m, t), reqcb' = reqcb, opened' \in [Unit -> Int]
  PROVE  TypeOK' /\ Closed(m, t, o)
<1>1. opncb \in [Opn -> OpnRecord] /\ tsk \in [Task -> TaskRecord]
  BY DEF TypeOK
<1>2. opncb' \in [Opn -> OpnRecord] /\ OtherOpns(o) /\ opncb'[o] = FreeOpn
  BY <1>1, Records, OpnAssigned DEF OtherOpns
<1>3. /\ tsk' \in [Task -> TaskRecord]
      /\ Becomes(t, "idle", None, <<>>, FALSE, FALSE) /\ OtherTasks(t)
  BY <1>1, TaskDone
<1>4. /\ devcb' \in [syncq : Seq(Task), openreq : BOOLEAN]
      /\ masked' \subseteq Task
      /\ Leaves(m, t)
  BY LeaveEffect
<1>5. TypeOK'
  BY <1>2, <1>3, <1>4 DEF TypeOK, Becomes, OtherTasks, Serving
<1>. QED
  BY <1>2, <1>3, <1>4, <1>5 DEF Closed, Freed

\* t moves on and nothing else changes but masked.
Moves(t, label) ==
  /\ Becomes(t, label, tsk[t].dd, tsk[t].requests, tsk[t].any, tsk[t].sync) /\ OtherTasks(t)

\* goto with the control blocks unchanged.
LEMMA MoveEffect ==
  ASSUME TypeOK, NEW t \in Task, NEW label \in Labels, goto(t, label),
         at(t) # "idle", label \notin Serving \cup {"sync", "drain"},
         devcb' = devcb, opncb' = opncb, reqcb' = reqcb, opened' = opened, masked' \subseteq Task
  PROVE  TypeOK' /\ Moves(t, label)
<1>1. /\ tsk' \in [Task -> TaskRecord]
      /\ Becomes(t, label, tsk[t].dd, tsk[t].requests, tsk[t].any, tsk[t].sync)
      /\ OtherTasks(t)
  BY TaskGoes DEF TypeOK, goto
<1>. QED
  BY <1>1 DEF TypeOK, Becomes, OtherTasks, Moves

\* A task whose turn it is calls openfn, or has opened the descriptor without it.
OpenTurnEffect(t) ==
  LET o == tsk[t].dd IN
  /\ at(t) = "open_sync" /\ o \in Opn /\ t \in masked
  /\ reqcb' = reqcb /\ opened' = opened
  /\ \/ /\ driver_called(opncb[o].unitno, o)
        /\ Moves(t, "openfn") /\ masked' = masked \ {t}
        /\ devcb' = devcb /\ opncb' = opncb
     \/ /\ ~driver_called(opncb[o].unitno, o)
        /\ Opened(masked \ {t}, t, o)

\* The step has this effect and keeps the types.
LEMMA OpenTurnStep ==
  ASSUME TypeOK, NEW t \in Task, open_turn(t)
  PROVE  TypeOK' /\ OpenTurnEffect(t)
<1>. USE DEF OpenTurnEffect
<1>. DEFINE o == tsk[t].dd
            called == driver_called(opncb[o].unitno, o)
<1>1. /\ at(t) = "open_sync" /\ t \in masked
      /\ reqcb' = reqcb /\ opened' = opened
      /\ called => goto(t, "openfn") /\ masked' = masked \ {t} /\ devcb' = devcb /\ opncb' = opncb
      /\ ~called => open_completed(masked \ {t}, t, o)
  BY DEF open_turn, signalled, SyncWaitDM
<1>2. o \in Opn /\ masked \ {t} \in SUBSET Task /\ opened \in [Unit -> Int]
  BY <1>1 DEF TypeOK
<1>. HIDE DEF called
<1>3. CASE called
  BY <1>1, <1>2, <1>3, MoveEffect DEF Labels, Opening, Serving, called
<1>4. CASE ~called
  BY <1>1, <1>2, <1>4, CompletedEffect DEF called
<1>. QED
  BY <1>3, <1>4

\* The driver has opened the unit.
OpenfnSucceedsEffect(t) ==
  LET o == tsk[t].dd IN
  /\ at(t) = "openfn" /\ o \in Opn
  /\ reqcb' = reqcb
  /\ opened' = [opened EXCEPT ![opncb[o].unitno] = @ + 1]
  /\ Opened(masked, t, o)

\* The step has this effect and keeps the types.
LEMMA OpenfnSucceedsStep ==
  ASSUME TypeOK, NEW t \in Task, openfn_succeeds(t)
  PROVE  TypeOK' /\ OpenfnSucceedsEffect(t)
<1>. USE DEF OpenfnSucceedsEffect
<1>1. tsk[t].dd \in Opn /\ masked \in SUBSET Task
  BY DEF TypeOK, openfn_succeeds
<1>2. opened' \in [Unit -> Int]
  <2>1. opncb[tsk[t].dd].unitno \in Unit
    BY <1>1 DEF TypeOK, OpnRecord
  <2>2. opened \in [Unit -> Int] /\ opened' = [opened EXCEPT ![opncb[tsk[t].dd].unitno] = @ + 1]
    BY DEF TypeOK, openfn_succeeds
  <2>3. PICK unitno \in Unit : opened' = [opened EXCEPT ![unitno] = opened[unitno] + 1]
    BY <2>1, <2>2
  <2>. QED
    BY <2>2, <2>3
<1>. QED
  BY <1>1, <1>2, CompletedEffect DEF openfn_succeeds

\* The driver could not open the unit.
OpenfnFailsEffect(t) ==
  /\ at(t) = "openfn" /\ tsk[t].dd \in Opn
  /\ reqcb' = reqcb /\ opened' = opened
  /\ Closed(masked, t, tsk[t].dd)

\* The step has this effect and keeps the types.
LEMMA OpenfnFailsStep ==
  ASSUME TypeOK, NEW t \in Task, openfn_fails(t)
  PROVE  TypeOK' /\ OpenfnFailsEffect(t)
<1>. USE DEF OpenfnFailsEffect
<1>1. tsk[t].dd \in Opn /\ masked \in SUBSET Task /\ opened \in [Unit -> Int]
  BY DEF TypeOK, openfn_fails
<1>. QED
  BY <1>1, ClosedEffect DEF openfn_fails

\* The driver has closed the unit.
ClosefnEffect(t) ==
  LET o == tsk[t].dd IN
  /\ at(t) = "closefn" /\ o \in Opn
  /\ reqcb' = reqcb
  /\ opened' = [opened EXCEPT ![opncb[o].unitno] = @ - 1]
  /\ Closed(masked, t, o)

\* The step has this effect and keeps the types.
LEMMA ClosefnStep ==
  ASSUME TypeOK, NEW t \in Task, closefn_returns(t)
  PROVE  TypeOK' /\ ClosefnEffect(t)
<1>. USE DEF ClosefnEffect
<1>1. tsk[t].dd \in Opn /\ masked \in SUBSET Task
  BY DEF TypeOK, closefn_returns
<1>2. opened' \in [Unit -> Int]
  <2>1. opncb[tsk[t].dd].unitno \in Unit
    BY <1>1 DEF TypeOK, OpnRecord
  <2>2. opened \in [Unit -> Int] /\ opened' = [opened EXCEPT ![opncb[tsk[t].dd].unitno] = @ - 1]
    BY DEF TypeOK, closefn_returns
  <2>3. PICK unitno \in Unit : opened' = [opened EXCEPT ![unitno] = opened[unitno] - 1]
    BY <2>1, <2>2
  <2>. QED
    BY <2>2, <2>3
<1>. QED
  BY <1>1, <1>2, ClosedEffect DEF closefn_returns, close_completed

\* A task whose turn it is calls closefn, or has closed the descriptor without it.
CloseTurnEffect(t) ==
  LET o == tsk[t].dd IN
  /\ at(t) = "close_sync" /\ o \in Opn /\ t \in masked
  /\ reqcb' = reqcb /\ opened' = opened
  /\ \/ /\ driver_called(opncb[o].unitno, o)
        /\ Moves(t, "closefn") /\ masked' = masked \ {t}
        /\ devcb' = devcb /\ opncb' = opncb
     \/ /\ ~driver_called(opncb[o].unitno, o)
        /\ Closed(masked \ {t}, t, o)

\* The step has this effect and keeps the types.
LEMMA CloseTurnStep ==
  ASSUME TypeOK, NEW t \in Task, close_turn(t)
  PROVE  TypeOK' /\ CloseTurnEffect(t)
<1>. USE DEF CloseTurnEffect
<1>. DEFINE o == tsk[t].dd
            called == driver_called(opncb[o].unitno, o)
<1>1. /\ at(t) = "close_sync" /\ t \in masked
      /\ reqcb' = reqcb /\ opened' = opened
      /\ called => goto(t, "closefn") /\ masked' = masked \ {t} /\ devcb' = devcb /\ opncb' = opncb
      /\ ~called => close_completed(masked \ {t}, t, o)
  BY DEF close_turn, signalled, SyncWaitDM
<1>2. o \in Opn /\ masked \ {t} \in SUBSET Task /\ opened \in [Unit -> Int]
  BY <1>1 DEF TypeOK
<1>. HIDE DEF called
<1>3. CASE called
  BY <1>1, <1>2, <1>3, MoveEffect DEF Labels, Closing, Drained, Serving, called
<1>4. CASE ~called
  BY <1>1, <1>2, <1>4, ClosedEffect DEF called, close_completed
<1>. QED
  BY <1>3, <1>4

\* A task that closes enters the queue, or is done when nobody is in it and the driver
\* need not be called.
CloseEnterEffect(t) ==
  LET o == tsk[t].dd IN
  /\ at(t) = "close_enter" /\ o \in Opn
  /\ reqcb' = reqcb /\ opened' = opened /\ masked' = masked
  /\ devcb'.openreq = devcb.openreq
  /\ \/ /\ Moves(t, "close_sync") /\ opncb' = opncb /\ devcb.syncq # <<>>
        /\ devcb'.syncq = Append(devcb.syncq, t)
     \/ /\ Moves(t, "closefn") /\ opncb' = opncb /\ devcb.syncq = <<>>
        /\ devcb'.syncq = Append(devcb.syncq, t)
        /\ driver_called(opncb[o].unitno, o)
     \/ /\ Freed(o) /\ Becomes(t, "idle", None, <<>>, FALSE, FALSE) /\ OtherTasks(t)
        /\ devcb.syncq = <<>> /\ devcb' = devcb
        /\ ~driver_called(opncb[o].unitno, o)

\* The step has this effect and keeps the types.
LEMMA CloseEnterStep ==
  ASSUME TypeOK, NEW t \in Task, close_enter(t)
  PROVE  TypeOK' /\ CloseEnterEffect(t)
<1>. USE DEF CloseEnterEffect
<1>. DEFINE o == tsk[t].dd
            entering(label) ==
              /\ devcb' = [devcb EXCEPT !.syncq = Append(@, t)]
              /\ goto(t, label)
              /\ opncb' = opncb
<1>1. /\ at(t) = "close_enter"
      /\ reqcb' = reqcb /\ opened' = opened /\ masked' = masked
      /\ \/ devcb.syncq # <<>> /\ entering("close_sync")
         \/ devcb.syncq = <<>> /\ driver_called(opncb[o].unitno, o) /\ entering("closefn")
         \/ /\ devcb.syncq = <<>> /\ ~driver_called(opncb[o].unitno, o)
            /\ opncb' = [opncb EXCEPT ![o] = FreeOpn]
            /\ tsk' = [tsk EXCEPT ![t] = Idle]
            /\ devcb' = devcb
  BY DEF close_enter
<1>2. o \in Opn /\ opncb \in [Opn -> OpnRecord] /\ tsk \in [Task -> TaskRecord]
  BY <1>1 DEF TypeOK
<1>3. ASSUME NEW label \in {"close_sync", "closefn"}, entering(label)
      PROVE  /\ TypeOK' /\ Moves(t, label) /\ opncb' = opncb
             /\ devcb'.openreq = devcb.openreq
             /\ devcb'.syncq = Append(devcb.syncq, t)
  <2>0. /\ opncb' = opncb /\ reqcb' = reqcb /\ opened' = opened /\ masked' = masked
        /\ o \in Opn
    BY <1>1, <1>2, <1>3
  <2>1. /\ devcb' \in [syncq : Seq(Task), openreq : BOOLEAN]
        /\ devcb'.syncq = Append(devcb.syncq, t) /\ devcb'.openreq = devcb.openreq
    BY <1>3, EnterEffect
  <2>2. /\ tsk' \in [Task -> TaskRecord]
        /\ Becomes(t, label, tsk[t].dd, tsk[t].requests, tsk[t].any, tsk[t].sync)
        /\ OtherTasks(t)
    BY <1>2, <1>3, TaskGoes DEF Labels, Closing, Drained, goto
  <2>. QED
    BY <2>0, <2>1, <2>2 DEF TypeOK, Moves, Becomes, OtherTasks, Serving
<1>4. ASSUME devcb' = devcb, opncb' = [opncb EXCEPT ![o] = FreeOpn],
             tsk' = [tsk EXCEPT ![t] = Idle]
      PROVE  /\ TypeOK' /\ Freed(o)
             /\ Becomes(t, "idle", None, <<>>, FALSE, FALSE) /\ OtherTasks(t)
  <2>1. opncb' \in [Opn -> OpnRecord] /\ OtherOpns(o) /\ opncb'[o] = FreeOpn
    BY <1>2, <1>4, Records, OpnAssigned DEF OtherOpns
  <2>2. /\ tsk' \in [Task -> TaskRecord]
        /\ Becomes(t, "idle", None, <<>>, FALSE, FALSE) /\ OtherTasks(t)
    BY <1>2, <1>4, TaskDone
  <2>. QED
    BY <1>1, <1>4, <2>1, <2>2 DEF TypeOK, Becomes, OtherTasks, Freed, Serving
<1>. HIDE DEF entering
<1>. QED
  BY <1>1, <1>2, <1>3, <1>4

\* No other request control block changes.
OtherReqs(r) == \A x \in Req \ {r} : reqcb'[x] = reqcb[x]

\* The assignments to a request control block.
LEMMA ReqAssigned ==
  ASSUME reqcb \in [Req -> ReqRecord], NEW r \in Req
  PROVE  /\ \A o \in Opn, t \in Task :
              reqcb' = [reqcb EXCEPT ![r] = [opncb |-> o, tskid |-> t]] =>
                /\ reqcb' \in [Req -> ReqRecord] /\ OtherReqs(r)
                /\ reqcb'[r].opncb = o /\ reqcb'[r].tskid = t
         /\ \A t \in Task \cup {None} :
              reqcb' = [reqcb EXCEPT ![r].tskid = t] =>
                /\ reqcb' \in [Req -> ReqRecord] /\ OtherReqs(r)
                /\ reqcb'[r].opncb = reqcb[r].opncb /\ reqcb'[r].tskid = t
         /\ reqcb' = [reqcb EXCEPT ![r] = FreeReq] =>
              /\ reqcb' \in [Req -> ReqRecord] /\ OtherReqs(r)
              /\ reqcb'[r].opncb = None /\ reqcb'[r].tskid = None
<1>1. ASSUME NEW c \in ReqRecord, reqcb' = [reqcb EXCEPT ![r] = c]
      PROVE  /\ reqcb' \in [Req -> ReqRecord] /\ OtherReqs(r)
             /\ reqcb'[r] = c
  BY <1>1 DEF OtherReqs
<1>2. ASSUME NEW o \in Opn, NEW t \in Task,
             reqcb' = [reqcb EXCEPT ![r] = [opncb |-> o, tskid |-> t]]
      PROVE  /\ reqcb' \in [Req -> ReqRecord] /\ OtherReqs(r)
             /\ reqcb'[r].opncb = o /\ reqcb'[r].tskid = t
  <2>. DEFINE c == [opncb |-> o, tskid |-> t]
  <2>1. c \in ReqRecord /\ c.opncb = o /\ c.tskid = t
    BY DEF ReqRecord
  <2>. HIDE DEF c
  <2>. QED
    BY <1>1, <1>2, <2>1 DEF c
<1>3. ASSUME NEW t \in Task \cup {None}, reqcb' = [reqcb EXCEPT ![r].tskid = t]
      PROVE  /\ reqcb' \in [Req -> ReqRecord] /\ OtherReqs(r)
             /\ reqcb'[r].opncb = reqcb[r].opncb /\ reqcb'[r].tskid = t
  <2>. DEFINE c == [reqcb[r] EXCEPT !.tskid = t]
  <2>1. c \in ReqRecord /\ c.opncb = reqcb[r].opncb /\ c.tskid = t
    BY DEF ReqRecord
  <2>2. reqcb' = [reqcb EXCEPT ![r] = c]
    BY <1>3
  <2>. HIDE DEF c
  <2>. QED
    BY <1>1, <2>1, <2>2
<1>4. FreeReq \in ReqRecord /\ FreeReq.opncb = None /\ FreeReq.tskid = None
  BY Records DEF FreeReq
<1>. QED
  BY <1>1, <1>2, <1>3, <1>4

\* A task is back from the driver: the abort's count, and the signal of the last one.
Counted(o) ==
  LET cb == opncb[o] IN
  /\ opncb'[o].abort_tskid = cb.abort_tskid
  /\ opncb'[o].abort_cnt = IF cb.abort_tskid = None THEN cb.abort_cnt ELSE cb.abort_cnt - 1
  /\ masked' = IF cb.abort_tskid # None /\ cb.abort_cnt - 1 = 0
               THEN masked \cup {cb.abort_tskid} ELSE masked

\* returned changes the count only.
LEMMA ReturnedRecord ==
  ASSUME NEW c \in OpnRecord
  PROVE  /\ returned(c) \in OpnRecord
         /\ returned(c).inuse = c.inuse /\ returned(c).unitno = c.unitno
         /\ returned(c).omode = c.omode /\ returned(c).resid = c.resid
         /\ returned(c).requestq = c.requestq /\ returned(c).waireqlst = c.waireqlst
         /\ returned(c).waitone = c.waitone /\ returned(c).syncreq = c.syncreq
         /\ returned(c).abort_tskid = c.abort_tskid
         /\ returned(c).abort_cnt = IF c.abort_tskid = None THEN c.abort_cnt ELSE c.abort_cnt - 1
<1>1. CASE c.abort_tskid = None
  BY <1>1 DEF returned
<1>2. CASE c.abort_tskid # None
  <2>. DEFINE d == [c EXCEPT !.abort_cnt = c.abort_cnt - 1]
  <2>1. returned(c) = d
    BY <1>2 DEF returned
  <2>2. c.abort_cnt - 1 \in Int
    BY DEF OpnRecord
  <2>3. d \in OpnRecord
    BY <2>2, OpnFields
  <2>4. /\ d.inuse = c.inuse /\ d.unitno = c.unitno
        /\ d.omode = c.omode /\ d.resid = c.resid
        /\ d.requestq = c.requestq /\ d.waireqlst = c.waireqlst
        /\ d.waitone = c.waitone /\ d.syncreq = c.syncreq
        /\ d.abort_tskid = c.abort_tskid
        /\ d.abort_cnt = c.abort_cnt - 1
    BY DEF OpnRecord
  <2>. HIDE DEF d
  <2>. QED
    BY <1>2, <2>1, <2>3, <2>4
<1>. QED
  BY <1>1, <1>2

\* notify masks the task that waits for the abort.
LEMMA NotifyEffect ==
  ASSUME TypeOK, NEW o \in Opn, notify(opncb[o]), NEW c, c = returned(opncb[o]),
         opncb'[o].abort_tskid = c.abort_tskid, opncb'[o].abort_cnt = c.abort_cnt
  PROVE  Counted(o) /\ masked' \subseteq Task
<1>. DEFINE cb == opncb[o]
<1>1. cb \in OpnRecord /\ masked \subseteq Task
  BY DEF TypeOK
<1>2. /\ c.abort_tskid = cb.abort_tskid
      /\ c.abort_cnt = IF cb.abort_tskid = None THEN cb.abort_cnt ELSE cb.abort_cnt - 1
  BY <1>1, ReturnedRecord
<1>3. masked' = IF cb.abort_tskid # None /\ c.abort_cnt = 0
                THEN masked \cup {cb.abort_tskid} ELSE masked
  BY DEF notify, SyncSignalDM
<1>4. cb.abort_tskid \in Task \cup {None}
  BY <1>1 DEF OpnRecord
<1>. QED
  BY <1>1, <1>2, <1>3, <1>4 DEF Counted

\* tk_rea_dev, tk_wri_dev and the first half of the synchronous calls: a request is
\* registered and handed to the driver.
RequestEffect(t, o, sync) ==
  /\ at(t) = "idle" /\ opncb[o].resid = 1
  /\ sync \/ "any" \notin Overlap => opncb[o].waireqlst = <<>>
  /\ devcb' = devcb /\ masked' = masked /\ opened' = opened
  /\ OtherOpns(o) /\ OtherTasks(t)
  /\ KeepsOpen(o) /\ KeepsAbort(o) /\ opncb'[o].resid = opncb[o].resid
  /\ opncb'[o].waireqlst = opncb[o].waireqlst /\ opncb'[o].waitone = opncb[o].waitone
  /\ opncb'[o].syncreq = IF sync THEN opncb[o].syncreq + 1 ELSE opncb[o].syncreq
  /\ \E r \in Req :
       /\ reqcb[r].opncb = None
       /\ reqcb'[r].opncb = o /\ reqcb'[r].tskid = t /\ OtherReqs(r)
       /\ opncb'[o].requestq = Append(opncb[o].requestq, r)
       /\ Becomes(t, "execfn", o, <<r>>, FALSE, sync)

\* The step has this effect and keeps the types.
LEMMA RequestStep ==
  ASSUME TypeOK, NEW t \in Task, NEW o \in Opn, NEW sync \in BOOLEAN, request(t, o, sync)
  PROVE  TypeOK' /\ RequestEffect(t, o, sync)
<1>. USE DEF RequestEffect
<1>. DEFINE cb == opncb[o]
            syncreq == IF sync THEN cb.syncreq + 1 ELSE cb.syncreq
<1>1. /\ at(t) = "idle" /\ cb.resid = 1
      /\ sync \/ "any" \notin Overlap => cb.waireqlst = <<>>
      /\ devcb' = devcb /\ masked' = masked /\ opened' = opened
  BY DEF request
<1>2. /\ opncb \in [Opn -> OpnRecord] /\ cb \in OpnRecord
      /\ reqcb \in [Req -> ReqRecord] /\ tsk \in [Task -> TaskRecord]
  BY DEF TypeOK
<1>3. PICK r \in Req :
        /\ reqcb[r].opncb = None
        /\ reqcb' = [reqcb EXCEPT ![r] = [opncb |-> o, tskid |-> t]]
        /\ opncb' = [opncb EXCEPT ![o] = [cb EXCEPT
             !.requestq = Append(cb.requestq, r), !.syncreq = syncreq]]
        /\ tsk' = [tsk EXCEPT ![t] =
             [Idle EXCEPT !.at = "execfn", !.dd = o, !.requests = <<r>>, !.sync = sync]]
  BY Zenon DEF request
<1>. DEFINE queue == Append(cb.requestq, r)
            c == [cb EXCEPT !.requestq = queue, !.syncreq = syncreq]
<1>4. /\ reqcb' \in [Req -> ReqRecord] /\ OtherReqs(r)
      /\ reqcb'[r].opncb = o /\ reqcb'[r].tskid = t
  BY <1>2, <1>3, ReqAssigned
<1>5. /\ tsk' \in [Task -> TaskRecord]
      /\ Becomes(t, "execfn", o, <<r>>, FALSE, sync) /\ OtherTasks(t)
  <2>1. <<r>> \in Seq(Req) /\ "execfn" \in Labels
    BY DEF Labels, Serving
  <2>2. tsk' = [tsk EXCEPT ![t] =
          [Idle EXCEPT !.at = "execfn", !.dd = o, !.requests = <<r>>, !.sync = sync]]
    BY <1>3, Zenon
  <2>3. tsk \in [Task -> TaskRecord]
    BY <1>2
  <2>. QED
    BY <2>1, <2>2, <2>3, TaskServed, Zenon
<1>6. queue \in Seq(Req) /\ syncreq \in Int
  BY <1>2, AppendProperties DEF OpnRecord
<1>7. opncb' = [opncb EXCEPT ![o] = c]
  BY <1>3, Zenon
<1>. HIDE DEF queue, syncreq
<1>8. /\ c \in OpnRecord
      /\ c.inuse = cb.inuse /\ c.unitno = cb.unitno /\ c.omode = cb.omode /\ c.resid = cb.resid
      /\ c.requestq = queue /\ c.waireqlst = cb.waireqlst /\ c.waitone = cb.waitone
      /\ c.syncreq = syncreq /\ c.abort_tskid = cb.abort_tskid /\ c.abort_cnt = cb.abort_cnt
  <2>. HIDE DEF cb
  <2>. QED
    BY <1>2, <1>6 DEF OpnRecord
<1>. HIDE DEF c
<1>9. /\ opncb' \in [Opn -> OpnRecord] /\ OtherOpns(o)
      /\ opncb'[o] = c
  BY <1>2, <1>7, <1>8, OpnAssigned DEF OtherOpns
<1>10. TypeOK'
  <2>1. tsk'[t].requests # <<>> /\ tsk'[t].dd = o
    BY <1>5 DEF Becomes
  <2>2. devcb' \in [syncq : Seq(Task), openreq : BOOLEAN] /\ masked' \subseteq Task
        /\ opened' \in [Unit -> Int]
    BY <1>1 DEF TypeOK
  <2>. QED
    BY <1>4, <1>5, <1>9, <2>1, <2>2, TypesKept
<1>. QED
  BY <1>1, <1>3, <1>4, <1>5, <1>8, <1>9, <1>10 DEF KeepsOpen, KeepsAbort, queue, syncreq

\* What a return from the driver keeps of the descriptor.
KeepsDescriptor(o) ==
  KeepsOpen(o) /\ opncb'[o].resid = opncb[o].resid

\* The driver has taken a request (execfn).
ExecSucceedsEffect(t) ==
  LET o == tsk[t].dd r == tsk[t].requests[1] IN
  /\ at(t) = "execfn" /\ o \in Opn /\ r \in Req
  /\ devcb' = devcb /\ opened' = opened
  /\ reqcb'[r].opncb = reqcb[r].opncb /\ reqcb'[r].tskid = None /\ OtherReqs(r)
  /\ OtherOpns(o) /\ KeepsDescriptor(o) /\ KeepsWaits(o)
  /\ opncb'[o].requestq = opncb[o].requestq
  /\ Counted(o)
  /\ \/ /\ tsk[t].sync
        /\ Becomes(t, "sync", o, tsk[t].requests, tsk[t].any, tsk[t].sync)
     \/ /\ ~tsk[t].sync
        /\ Becomes(t, "idle", None, <<>>, FALSE, FALSE)
  /\ OtherTasks(t)

\* The step has this effect and keeps the types.
LEMMA ExecSucceedsStep ==
  ASSUME TypeOK, NEW t \in Task, execfn_succeeds(t)
  PROVE  TypeOK' /\ ExecSucceedsEffect(t)
<1>. USE DEF ExecSucceedsEffect
<1>. DEFINE o == tsk[t].dd
            r == tsk[t].requests[1]
            cb == opncb[o]
            c == returned(cb)
<1>1. /\ at(t) = "execfn"
      /\ reqcb' = [reqcb EXCEPT ![r].tskid = None]
      /\ opncb' = [opncb EXCEPT ![o] = c]
      /\ notify(cb)
      /\ tsk' = [tsk EXCEPT ![t] = IF @.sync THEN [@ EXCEPT !.at = "sync", !.aborted = FALSE] ELSE Idle]
      /\ devcb' = devcb /\ opened' = opened
  BY DEF execfn_succeeds
<1>2. /\ o \in Opn /\ tsk[t].requests # <<>>
      /\ opncb \in [Opn -> OpnRecord] /\ cb \in OpnRecord
      /\ reqcb \in [Req -> ReqRecord] /\ tsk \in [Task -> TaskRecord]
      /\ devcb \in [syncq : Seq(Task), openreq : BOOLEAN] /\ opened \in [Unit -> Int]
  BY <1>1 DEF TypeOK, Serving
<1>3. r \in Req
  <2>1. tsk[t].requests \in Seq(Req)
    BY <1>2 DEF TaskRecord
  <2>. QED
    BY <1>2, <2>1
<1>4. /\ c \in OpnRecord
      /\ c.inuse = cb.inuse /\ c.unitno = cb.unitno
      /\ c.omode = cb.omode /\ c.resid = cb.resid
      /\ c.requestq = cb.requestq /\ c.waireqlst = cb.waireqlst
      /\ c.waitone = cb.waitone /\ c.syncreq = cb.syncreq
  BY <1>2, ReturnedRecord
<1>. HIDE DEF c
<1>5. opncb' \in [Opn -> OpnRecord] /\ OtherOpns(o) /\ opncb'[o] = c
  BY <1>1, <1>2, <1>4, OpnAssigned DEF OtherOpns
<1>6. KeepsDescriptor(o) /\ KeepsWaits(o) /\ opncb'[o].requestq = opncb[o].requestq
  BY <1>4, <1>5 DEF KeepsDescriptor, KeepsOpen, KeepsWaits
<1>7. Counted(o) /\ masked' \subseteq Task
  BY <1>1, <1>2, <1>5, NotifyEffect DEF c
<1>8. /\ reqcb' \in [Req -> ReqRecord] /\ OtherReqs(r)
      /\ reqcb'[r].opncb = reqcb[r].opncb /\ reqcb'[r].tskid = None
  BY <1>1, <1>2, <1>3, ReqAssigned
<1>. HIDE DEF o, r, cb
<1>9. CASE tsk[t].sync
  <2>1. tsk' = [tsk EXCEPT ![t] = [@ EXCEPT !.at = "sync", !.aborted = FALSE]]
    BY <1>1, <1>9
  <2>2. /\ tsk' \in [Task -> TaskRecord]
        /\ Becomes(t, "sync", tsk[t].dd, tsk[t].requests, tsk[t].any, tsk[t].sync)
        /\ OtherTasks(t)
    BY <1>2, <2>1, TaskSecondHalf DEF Labels
  <2>3. TypeOK'
    BY <1>1, <1>2, <1>5, <1>7, <1>8, <2>2, TypesKept DEF Becomes, o
  <2>. QED
    BY <1>1, <1>2, <1>3, <1>5, <1>6, <1>7, <1>8, <1>9, <2>2, <2>3 DEF o, r
<1>10. CASE ~tsk[t].sync
  <2>1. tsk' = [tsk EXCEPT ![t] = Idle]
    BY <1>1, <1>10
  <2>2. /\ tsk' \in [Task -> TaskRecord]
        /\ Becomes(t, "idle", None, <<>>, FALSE, FALSE) /\ OtherTasks(t)
    BY <1>2, <2>1, TaskDone
  <2>3. TypeOK'
    BY <1>1, <1>2, <1>5, <1>7, <1>8, <2>2, TypesKept DEF Becomes, Serving
  <2>. QED
    BY <1>1, <1>2, <1>3, <1>5, <1>6, <1>7, <1>8, <1>10, <2>2, <2>3 DEF o, r
<1>. QED
  BY <1>9, <1>10

\* The driver has refused a request (execfn).
ExecFailsEffect(t) ==
  LET o == tsk[t].dd r == tsk[t].requests[1] IN
  /\ at(t) = "execfn" /\ o \in Opn /\ r \in Req
  /\ devcb' = devcb /\ opened' = opened
  /\ reqcb'[r].opncb = None /\ reqcb'[r].tskid = None /\ OtherReqs(r)
  /\ OtherOpns(o) /\ KeepsDescriptor(o)
  /\ opncb'[o].waireqlst = opncb[o].waireqlst /\ opncb'[o].waitone = opncb[o].waitone
  /\ opncb'[o].syncreq = IF tsk[t].sync THEN opncb[o].syncreq - 1 ELSE opncb[o].syncreq
  /\ opncb'[o].requestq = without(opncb[o].requestq, r)
  /\ Counted(o)
  /\ Becomes(t, "idle", None, <<>>, FALSE, FALSE) /\ OtherTasks(t)

\* The step has this effect and keeps the types.
LEMMA ExecFailsStep ==
  ASSUME TypeOK, NEW t \in Task, execfn_fails(t)
  PROVE  TypeOK' /\ ExecFailsEffect(t)
<1>. USE DEF ExecFailsEffect
<1>. DEFINE o == tsk[t].dd
            r == tsk[t].requests[1]
            cb == opncb[o]
            c == returned(cb)
            queue == without(cb.requestq, r)
            syncreq == IF tsk[t].sync THEN cb.syncreq - 1 ELSE cb.syncreq
            d == [c EXCEPT !.requestq = queue, !.syncreq = syncreq]
<1>1. /\ at(t) = "execfn"
      /\ reqcb' = [reqcb EXCEPT ![r] = FreeReq]
      /\ opncb' = [opncb EXCEPT ![o] = d]
      /\ notify(cb)
      /\ tsk' = [tsk EXCEPT ![t] = Idle]
      /\ devcb' = devcb /\ opened' = opened
  BY Zenon DEF execfn_fails
<1>2. /\ o \in Opn /\ tsk[t].requests # <<>>
      /\ opncb \in [Opn -> OpnRecord] /\ cb \in OpnRecord
      /\ reqcb \in [Req -> ReqRecord] /\ tsk \in [Task -> TaskRecord]
      /\ devcb \in [syncq : Seq(Task), openreq : BOOLEAN] /\ opened \in [Unit -> Int]
  BY <1>1 DEF TypeOK, Serving
<1>3. r \in Req
  <2>1. tsk[t].requests \in Seq(Req)
    BY <1>2 DEF TaskRecord
  <2>. QED
    BY <1>2, <2>1
<1>4. /\ c \in OpnRecord
      /\ c.inuse = cb.inuse /\ c.unitno = cb.unitno
      /\ c.omode = cb.omode /\ c.resid = cb.resid
      /\ c.waireqlst = cb.waireqlst /\ c.waitone = cb.waitone
  BY <1>2, ReturnedRecord
<1>5. queue \in Seq(Req) /\ syncreq \in Int
  <2>1. cb.requestq \in Seq(Req) /\ cb.syncreq \in Int
    BY <1>2 DEF OpnRecord
  <2>. QED
    BY <2>1, WithoutType
<1>. HIDE DEF c, queue, syncreq
<1>6. /\ d \in OpnRecord
      /\ d.inuse = c.inuse /\ d.unitno = c.unitno
      /\ d.omode = c.omode /\ d.resid = c.resid
      /\ d.requestq = queue /\ d.waireqlst = c.waireqlst
      /\ d.waitone = c.waitone /\ d.syncreq = syncreq
      /\ d.abort_tskid = c.abort_tskid /\ d.abort_cnt = c.abort_cnt
  BY <1>4, <1>5 DEF OpnRecord
<1>. HIDE DEF d
<1>7. opncb' \in [Opn -> OpnRecord] /\ OtherOpns(o) /\ opncb'[o] = d
  BY <1>1, <1>2, <1>6, OpnAssigned DEF OtherOpns
<1>8. KeepsDescriptor(o)
  BY <1>4, <1>6, <1>7 DEF KeepsDescriptor, KeepsOpen
<1>9. Counted(o) /\ masked' \subseteq Task
  BY <1>1, <1>2, <1>6, <1>7, NotifyEffect DEF c
<1>10. /\ reqcb' \in [Req -> ReqRecord] /\ OtherReqs(r)
       /\ reqcb'[r].opncb = None /\ reqcb'[r].tskid = None
  BY <1>1, <1>2, <1>3, ReqAssigned
<1>11. /\ tsk' \in [Task -> TaskRecord]
       /\ Becomes(t, "idle", None, <<>>, FALSE, FALSE) /\ OtherTasks(t)
  BY <1>1, <1>2, TaskDone
<1>12. TypeOK'
  BY <1>1, <1>2, <1>7, <1>9, <1>10, <1>11, TypesKept DEF Becomes, Serving
<1>. QED
  BY <1>1, <1>2, <1>3, <1>4, <1>6, <1>7, <1>8, <1>9, <1>10, <1>11, <1>12 DEF queue, syncreq

\* A task calls waitfn for one request.
WaitsForOneOf(t, o, r, sync) ==
  /\ waitable(o, r)
  /\ devcb' = devcb /\ masked' = masked /\ opened' = opened
  /\ reqcb'[r].opncb = reqcb[r].opncb /\ reqcb'[r].tskid = t /\ OtherReqs(r)
  /\ OtherOpns(o) /\ KeepsDescriptor(o) /\ KeepsAbort(o)
  /\ opncb'[o].requestq = opncb[o].requestq /\ opncb'[o].waireqlst = opncb[o].waireqlst
  /\ opncb'[o].waitone = opncb[o].waitone + 1 /\ opncb'[o].syncreq = opncb[o].syncreq
  /\ Becomes(t, "waitfn", o, <<r>>, FALSE, sync) /\ OtherTasks(t)

\* waitcomplete for one request, of tk_wai_dev and of the synchronous calls.
LEMMA WaitForOneStep ==
  ASSUME TypeOK, NEW t \in Task, NEW o \in Opn, NEW r \in Req, NEW sync \in BOOLEAN,
         wait_for_one(t, o, r, sync)
  PROVE  TypeOK' /\ WaitsForOneOf(t, o, r, sync)
<1>. DEFINE cb == opncb[o]
<1>1. /\ waitable(o, r)
      /\ reqcb' = [reqcb EXCEPT ![r].tskid = t]
      /\ opncb' = [opncb EXCEPT ![o].waitone = cb.waitone + 1]
      /\ devcb' = devcb /\ masked' = masked /\ opened' = opened
  BY DEF wait_for_one
<1>2. tsk' = [tsk EXCEPT ![t] =
        [Idle EXCEPT !.at = "waitfn", !.dd = o, !.requests = <<r>>, !.sync = sync]]
  BY Zenon DEF wait_for_one
<1>3. /\ opncb \in [Opn -> OpnRecord] /\ cb \in OpnRecord
      /\ reqcb \in [Req -> ReqRecord] /\ tsk \in [Task -> TaskRecord]
      /\ devcb \in [syncq : Seq(Task), openreq : BOOLEAN] /\ opened \in [Unit -> Int]
      /\ masked \subseteq Task
  BY DEF TypeOK
<1>4. cb.waitone + 1 \in Int
  BY <1>3 DEF OpnRecord
<1>5. opncb' \in [Opn -> OpnRecord] /\ OtherOpns(o)
  BY <1>1, <1>3, <1>4, OpnFieldAssigned, Zenon
<1>6. /\ KeepsDescriptor(o) /\ KeepsAbort(o)
      /\ opncb'[o].requestq = opncb[o].requestq /\ opncb'[o].waireqlst = opncb[o].waireqlst
      /\ opncb'[o].waitone = opncb[o].waitone + 1 /\ opncb'[o].syncreq = opncb[o].syncreq
  <2>1. opncb' = [opncb EXCEPT ![o].waitone = cb.waitone + 1] /\ opncb \in [Opn -> OpnRecord]
    BY <1>1, <1>3
  <2>. QED
    BY <2>1 DEF OpnRecord, KeepsDescriptor, KeepsOpen, KeepsAbort
<1>7. /\ reqcb' \in [Req -> ReqRecord] /\ OtherReqs(r)
      /\ reqcb'[r].opncb = reqcb[r].opncb /\ reqcb'[r].tskid = t
  <2>1. reqcb' = [reqcb EXCEPT ![r].tskid = t] /\ reqcb \in [Req -> ReqRecord]
    BY <1>1, <1>3
  <2>. QED
    BY <2>1, ReqAssigned
<1>8. /\ tsk' \in [Task -> TaskRecord]
      /\ Becomes(t, "waitfn", o, <<r>>, FALSE, sync) /\ OtherTasks(t)
  <2>1. <<r>> \in Seq(Req) /\ "waitfn" \in Labels
    BY DEF Labels, Serving
  <2>2. tsk \in [Task -> TaskRecord]
    BY <1>3
  <2>. QED
    BY <1>2, <2>1, <2>2, TaskServed, Zenon
<1>9. TypeOK'
  <2>1. tsk'[t].requests # <<>> /\ tsk'[t].dd = o
    BY <1>8 DEF Becomes
  <2>. QED
    BY <1>1, <1>3, <1>5, <1>7, <1>8, <2>1, TypesKept
<1>. QED
  BY <1>1, <1>5, <1>6, <1>7, <1>8, <1>9 DEF WaitsForOneOf

\* The second half of a synchronous call: it waits for its request, or fails.
SyncWaitEffect(t) ==
  LET o == tsk[t].dd r == tsk[t].requests[1] IN
  /\ at(t) = "sync" /\ o \in Opn
  /\ \/ opncb[o].resid = 1 /\ r \in Req /\ WaitsForOneOf(t, o, r, TRUE)
     \/ \E p \in Opn :
          /\ opncb[o].resid = 1 => p = o
          /\ devcb' = devcb /\ reqcb' = reqcb /\ masked' = masked /\ opened' = opened
          /\ OtherOpns(p) /\ KeepsDescriptor(p) /\ KeepsAbort(p)
          /\ opncb'[p].requestq = opncb[p].requestq
          /\ opncb'[p].waireqlst = opncb[p].waireqlst
          /\ opncb'[p].waitone = opncb[p].waitone
          /\ opncb'[p].syncreq \in {opncb[p].syncreq, opncb[p].syncreq - 1}
          /\ opncb[o].resid = 1 => opncb'[p].syncreq = opncb[p].syncreq - 1
          /\ Becomes(t, "idle", None, <<>>, FALSE, FALSE) /\ OtherTasks(t)

\* The step has this effect and keeps the types.
LEMMA SyncWaitStep ==
  ASSUME TypeOK, NEW t \in Task, sync_wait(t)
  PROVE  TypeOK' /\ SyncWaitEffect(t)
<1>. USE DEF SyncWaitEffect
<1>. DEFINE o == tsk[t].dd
            r == tsk[t].requests[1]
<1>1. /\ at(t) = "sync"
      /\ \/ opncb[o].resid = 1 /\ wait_for_one(t, o, r, TRUE)
         \/ /\ tsk' = [tsk EXCEPT ![t] = Idle]
            /\ \/ opncb[o].resid # 1 /\ opncb' = opncb
               \/ \E p \in Opn : /\ opncb[o].resid = 1 => p = o
                                 /\ opncb' = [opncb EXCEPT ![p].syncreq = opncb[p].syncreq - 1]
            /\ devcb' = devcb /\ reqcb' = reqcb /\ masked' = masked /\ opened' = opened
  <2>1. at(t) = "sync" /\ o \in Opn
    BY DEF sync_wait, TypeOK
  <2>. QED
    BY <2>1 DEF sync_wait
<1>2. /\ o \in Opn /\ tsk[t].requests # <<>>
      /\ opncb \in [Opn -> OpnRecord]
      /\ reqcb \in [Req -> ReqRecord] /\ tsk \in [Task -> TaskRecord]
      /\ devcb \in [syncq : Seq(Task), openreq : BOOLEAN] /\ opened \in [Unit -> Int]
      /\ masked \subseteq Task
  BY <1>1 DEF TypeOK
<1>3. r \in Req
  <2>1. tsk[t].requests \in Seq(Req)
    BY <1>2 DEF TaskRecord
  <2>. QED
    BY <1>2, <2>1
<1>. HIDE DEF o, r
<1>4. CASE opncb[o].resid = 1 /\ wait_for_one(t, o, r, TRUE)
  BY <1>1, <1>2, <1>3, <1>4, WaitForOneStep DEF o, r
<1>5. ASSUME tsk' = [tsk EXCEPT ![t] = Idle],
             devcb' = devcb, reqcb' = reqcb, masked' = masked, opened' = opened,
             opncb' \in [Opn -> OpnRecord]
      PROVE  /\ TypeOK'
             /\ Becomes(t, "idle", None, <<>>, FALSE, FALSE) /\ OtherTasks(t)
  <2>1. /\ tsk' \in [Task -> TaskRecord]
        /\ Becomes(t, "idle", None, <<>>, FALSE, FALSE) /\ OtherTasks(t)
    BY <1>2, <1>5, TaskDone
  <2>2. tsk'[t].at = "idle"
    BY <2>1 DEF Becomes
  <2>. QED
    BY <1>2, <1>5, <2>1, <2>2, TypesKept DEF Serving
<1>6. CASE /\ tsk' = [tsk EXCEPT ![t] = Idle]
           /\ opncb[o].resid # 1 /\ opncb' = opncb
           /\ devcb' = devcb /\ reqcb' = reqcb /\ masked' = masked /\ opened' = opened
  <2>1. OtherOpns(o) /\ KeepsDescriptor(o) /\ KeepsAbort(o)
    BY <1>6 DEF OtherOpns, KeepsDescriptor, KeepsOpen, KeepsAbort
  <2>. QED
    BY <1>1, <1>2, <1>5, <1>6, <2>1 DEF o
<1>7. ASSUME NEW p \in Opn, opncb[o].resid = 1 => p = o,
             opncb' = [opncb EXCEPT ![p].syncreq = opncb[p].syncreq - 1],
             tsk' = [tsk EXCEPT ![t] = Idle],
             devcb' = devcb, reqcb' = reqcb, masked' = masked, opened' = opened
      PROVE  /\ TypeOK'
             /\ OtherOpns(p) /\ KeepsDescriptor(p) /\ KeepsAbort(p)
             /\ opncb'[p].requestq = opncb[p].requestq
             /\ opncb'[p].waireqlst = opncb[p].waireqlst
             /\ opncb'[p].waitone = opncb[p].waitone
             /\ opncb'[p].syncreq = opncb[p].syncreq - 1
             /\ Becomes(t, "idle", None, <<>>, FALSE, FALSE) /\ OtherTasks(t)
  <2>1. opncb[p].syncreq - 1 \in Int
    BY <1>2 DEF OpnRecord
  <2>2. opncb' \in [Opn -> OpnRecord] /\ OtherOpns(p)
    BY <1>2, <1>7, <2>1, OpnFieldAssigned, Zenon
  <2>3. /\ KeepsDescriptor(p) /\ KeepsAbort(p)
        /\ opncb'[p].requestq = opncb[p].requestq
        /\ opncb'[p].waireqlst = opncb[p].waireqlst
        /\ opncb'[p].waitone = opncb[p].waitone
        /\ opncb'[p].syncreq = opncb[p].syncreq - 1
    BY <1>2, <1>7 DEF OpnRecord, KeepsDescriptor, KeepsOpen, KeepsAbort
  <2>. QED
    BY <1>5, <1>7, <2>2, <2>3
<1>. QED
  BY <1>1, <1>2, <1>4, <1>6, <1>7 DEF o

\* A task calls waitfn for all requests of the descriptor.
WaitAnyEffect(t, o) ==
  LET queue == opncb[o].requestq IN
  /\ at(t) = "idle" /\ opncb[o].resid = 1
  /\ opncb[o].waireqlst = <<>> /\ opncb[o].waitone = 0 /\ opncb[o].syncreq = 0
  /\ queue # <<>> /\ queue \in Seq(Req)
  /\ "any" \in Overlap \/ \A r \in ToSet(queue) : reqcb[r].tskid = None
  /\ devcb' = devcb /\ masked' = masked /\ opened' = opened
  /\ \A r \in Req :
       /\ reqcb'[r].opncb = reqcb[r].opncb
       /\ reqcb'[r].tskid = IF r \in ToSet(queue) THEN t ELSE reqcb[r].tskid
  /\ OtherOpns(o) /\ KeepsDescriptor(o) /\ KeepsAbort(o)
  /\ opncb'[o].requestq = queue /\ opncb'[o].waireqlst = queue
  /\ opncb'[o].waitone = opncb[o].waitone /\ opncb'[o].syncreq = opncb[o].syncreq
  /\ Becomes(t, "waitfn", o, queue, TRUE, FALSE) /\ OtherTasks(t)

\* The step has this effect and keeps the types.
LEMMA WaitAnyStep ==
  ASSUME TypeOK, NEW t \in Task, NEW o \in Opn, tk_wai_dev_any(t, o)
  PROVE  TypeOK' /\ WaitAnyEffect(t, o)
<1>. USE DEF WaitAnyEffect
<1>. DEFINE queue == opncb[o].requestq
<1>1. /\ at(t) = "idle" /\ opncb[o].resid = 1
      /\ opncb[o].waireqlst = <<>> /\ opncb[o].waitone = 0 /\ opncb[o].syncreq = 0
      /\ queue # <<>>
      /\ "any" \in Overlap \/ \A r \in ToSet(queue) : reqcb[r].tskid = None
      /\ reqcb' = [r \in Req |->
           IF r \in ToSet(queue) THEN [reqcb[r] EXCEPT !.tskid = t] ELSE reqcb[r]]
      /\ opncb' = [opncb EXCEPT ![o].waireqlst = queue]
      /\ devcb' = devcb /\ masked' = masked /\ opened' = opened
  BY DEF tk_wai_dev_any
<1>2. tsk' = [tsk EXCEPT ![t] =
        [Idle EXCEPT !.at = "waitfn", !.dd = o, !.requests = queue, !.any = TRUE]]
  BY Zenon DEF tk_wai_dev_any
<1>3. /\ opncb \in [Opn -> OpnRecord]
      /\ reqcb \in [Req -> ReqRecord] /\ tsk \in [Task -> TaskRecord]
      /\ devcb \in [syncq : Seq(Task), openreq : BOOLEAN] /\ opened \in [Unit -> Int]
      /\ masked \subseteq Task
  BY DEF TypeOK
<1>4. queue \in Seq(Req)
  BY <1>3 DEF OpnRecord
<1>5. opncb' \in [Opn -> OpnRecord] /\ OtherOpns(o)
  BY <1>1, <1>3, <1>4, OpnFieldAssigned, Zenon
<1>6. /\ KeepsDescriptor(o) /\ KeepsAbort(o)
      /\ opncb'[o].requestq = queue /\ opncb'[o].waireqlst = queue
      /\ opncb'[o].waitone = opncb[o].waitone /\ opncb'[o].syncreq = opncb[o].syncreq
  <2>1. opncb' = [opncb EXCEPT ![o].waireqlst = queue] /\ opncb \in [Opn -> OpnRecord]
    BY <1>1, <1>3
  <2>. QED
    BY <2>1 DEF OpnRecord, KeepsDescriptor, KeepsOpen, KeepsAbort
<1>7. /\ reqcb' \in [Req -> ReqRecord]
      /\ \A r \in Req :
           /\ reqcb'[r].opncb = reqcb[r].opncb
           /\ reqcb'[r].tskid = IF r \in ToSet(queue) THEN t ELSE reqcb[r].tskid
  <2>1. ASSUME NEW r \in Req
        PROVE  /\ [reqcb[r] EXCEPT !.tskid = t] \in ReqRecord
               /\ [reqcb[r] EXCEPT !.tskid = t].opncb = reqcb[r].opncb
               /\ [reqcb[r] EXCEPT !.tskid = t].tskid = t
    BY <1>3 DEF ReqRecord
  <2>. HIDE DEF queue
  <2>. QED
    BY <1>1, <1>3, <2>1
<1>8. /\ tsk' \in [Task -> TaskRecord]
      /\ Becomes(t, "waitfn", o, queue, TRUE, FALSE) /\ OtherTasks(t)
  <2>1. "waitfn" \in Labels
    BY DEF Labels, Serving
  <2>2. tsk \in [Task -> TaskRecord]
    BY <1>3
  <2>. QED
    BY <1>2, <1>4, <2>1, <2>2, TaskWaits, Zenon
<1>9. TypeOK'
  <2>1. tsk'[t].requests # <<>> /\ tsk'[t].dd = o
    BY <1>1, <1>8 DEF Becomes
  <2>. QED
    BY <1>1, <1>3, <1>5, <1>7, <1>8, <2>1, TypesKept
<1>. QED
  BY <1>1, <1>4, <1>5, <1>6, <1>7, <1>8, <1>9

\* The driver is back from waitfn, with the i-th request completed or with an error.
WaitfnEffect(t, i) ==
  LET o == tsk[t].dd requests == tsk[t].requests IN
  /\ at(t) = "waitfn" /\ o \in Opn /\ requests \in Seq(Req)
  /\ devcb' = devcb /\ opened' = opened
  /\ \A r \in Req :
       /\ r \notin ToSet(requests) => reqcb'[r] = reqcb[r]
       /\ r \in ToSet(requests) => reqcb'[r].tskid = None
       /\ ~(i # 0 /\ r = requests[i]) => reqcb'[r].opncb = reqcb[r].opncb
  /\ i # 0 => requests[i] \in Req /\ requests[i] \in ToSet(requests)
  /\ OtherOpns(o) /\ KeepsDescriptor(o)
  /\ opncb'[o].requestq =
       IF i = 0 THEN opncb[o].requestq ELSE without(opncb[o].requestq, requests[i])
  /\ opncb'[o].waireqlst = IF tsk[t].any THEN <<>> ELSE opncb[o].waireqlst
  /\ opncb'[o].waitone = IF tsk[t].any THEN opncb[o].waitone ELSE opncb[o].waitone - 1
  /\ opncb'[o].syncreq = IF tsk[t].sync THEN opncb[o].syncreq - 1 ELSE opncb[o].syncreq
  /\ Counted(o)
  /\ Becomes(t, "idle", None, <<>>, FALSE, FALSE) /\ OtherTasks(t)

\* The step has this effect and keeps the types.
LEMMA WaitfnStep ==
  ASSUME TypeOK, NEW t \in Task, NEW i \in {0} \cup DOMAIN tsk[t].requests, waitfn_returns(t, i)
  PROVE  TypeOK' /\ WaitfnEffect(t, i)
<1>. USE DEF WaitfnEffect
<1>. DEFINE o == tsk[t].dd
            requests == tsk[t].requests
            cb == opncb[o]
            c == returned(cb)
            queue == IF i = 0 THEN cb.requestq ELSE without(cb.requestq, requests[i])
            list == IF tsk[t].any THEN <<>> ELSE cb.waireqlst
            waitone == IF tsk[t].any THEN cb.waitone ELSE cb.waitone - 1
            syncreq == IF tsk[t].sync THEN cb.syncreq - 1 ELSE cb.syncreq
            d == [c EXCEPT !.requestq = queue, !.waireqlst = list,
                           !.waitone = waitone, !.syncreq = syncreq]
            completed(r) == i # 0 /\ r = requests[i]
<1>1. /\ at(t) = "waitfn"
      /\ reqcb' = [r \in Req |-> IF completed(r) THEN FreeReq
                                 ELSE IF r \in ToSet(requests) THEN [reqcb[r] EXCEPT !.tskid = None]
                                 ELSE reqcb[r]]
      /\ opncb' = [opncb EXCEPT ![o] = d]
      /\ notify(cb)
      /\ tsk' = [tsk EXCEPT ![t] = Idle]
      /\ devcb' = devcb /\ opened' = opened
  BY Zenon DEF waitfn_returns
<1>2. /\ o \in Opn /\ requests # <<>>
      /\ opncb \in [Opn -> OpnRecord] /\ cb \in OpnRecord
      /\ reqcb \in [Req -> ReqRecord] /\ tsk \in [Task -> TaskRecord]
      /\ devcb \in [syncq : Seq(Task), openreq : BOOLEAN] /\ opened \in [Unit -> Int]
  BY <1>1 DEF TypeOK, Serving
<1>3. requests \in Seq(Req)
  BY <1>2 DEF TaskRecord
<1>4. i # 0 => requests[i] \in Req /\ requests[i] \in ToSet(requests)
  BY <1>3, Elements DEF ToSet
<1>5. /\ c \in OpnRecord
      /\ c.inuse = cb.inuse /\ c.unitno = cb.unitno
      /\ c.omode = cb.omode /\ c.resid = cb.resid
  BY <1>2, ReturnedRecord
<1>6. /\ queue \in Seq(Req) /\ syncreq \in Int
      /\ list \in Seq(Req) /\ waitone \in Int
  <2>1. /\ cb.requestq \in Seq(Req) /\ cb.syncreq \in Int
        /\ cb.waireqlst \in Seq(Req) /\ cb.waitone \in Int
    BY <1>2 DEF OpnRecord
  <2>2. <<>> \in Seq(Req)
    OBVIOUS
  <2>. QED
    BY <2>1, <2>2, WithoutType
<1>. HIDE DEF c, queue, list, waitone, syncreq
<1>7. /\ d \in OpnRecord
      /\ d.inuse = c.inuse /\ d.unitno = c.unitno
      /\ d.omode = c.omode /\ d.resid = c.resid
      /\ d.requestq = queue /\ d.waireqlst = list
      /\ d.waitone = waitone /\ d.syncreq = syncreq
      /\ d.abort_tskid = c.abort_tskid /\ d.abort_cnt = c.abort_cnt
  BY <1>5, <1>6 DEF OpnRecord
<1>. HIDE DEF d
<1>8. opncb' \in [Opn -> OpnRecord] /\ OtherOpns(o) /\ opncb'[o] = d
  BY <1>1, <1>2, <1>7, OpnAssigned DEF OtherOpns
<1>9. KeepsDescriptor(o)
  BY <1>5, <1>7, <1>8 DEF KeepsDescriptor, KeepsOpen
<1>10. Counted(o) /\ masked' \subseteq Task
  BY <1>1, <1>2, <1>7, <1>8, NotifyEffect DEF c
<1>11. /\ reqcb' \in [Req -> ReqRecord]
       /\ \A r \in Req :
            /\ r \notin ToSet(requests) => reqcb'[r] = reqcb[r]
            /\ r \in ToSet(requests) => reqcb'[r].tskid = None
            /\ ~completed(r) => reqcb'[r].opncb = reqcb[r].opncb
  <2>1. ASSUME NEW r \in Req
        PROVE  /\ [reqcb[r] EXCEPT !.tskid = None] \in ReqRecord
               /\ [reqcb[r] EXCEPT !.tskid = None].opncb = reqcb[r].opncb
               /\ [reqcb[r] EXCEPT !.tskid = None].tskid = None
    BY <1>2 DEF ReqRecord
  <2>2. FreeReq \in ReqRecord /\ FreeReq.tskid = None
    BY Records DEF FreeReq
  <2>3. \A r \in Req : completed(r) => r \in ToSet(requests)
    BY <1>4
  <2>. HIDE DEF requests, completed
  <2>. QED
    BY <1>1, <1>2, <2>1, <2>2, <2>3
<1>12. /\ tsk' \in [Task -> TaskRecord]
       /\ Becomes(t, "idle", None, <<>>, FALSE, FALSE) /\ OtherTasks(t)
  BY <1>1, <1>2, TaskDone
<1>13. TypeOK'
  BY <1>1, <1>2, <1>8, <1>10, <1>11, <1>12, TypesKept DEF Becomes, Serving
<1>. QED
  BY <1>1, <1>2, <1>3, <1>4, <1>7, <1>8, <1>9, <1>10, <1>11, <1>12, <1>13
  DEF queue, list, waitone, syncreq

\* A task begins to close a descriptor.
CloseEffect(t, o) ==
  /\ at(t) = "idle" /\ opncb[o].resid = 1
  /\ "sync" \in Overlap \/ opncb[o].syncreq = 0
  /\ devcb' = devcb /\ reqcb' = reqcb /\ masked' = masked /\ opened' = opened
  /\ OtherOpns(o) /\ KeepsRest(o) /\ opncb'[o].resid = -1
  /\ Becomes(t, "close", o, <<>>, FALSE, FALSE) /\ OtherTasks(t)

\* The step has this effect and keeps the types.
LEMMA CloseStep ==
  ASSUME TypeOK, NEW t \in Task, NEW o \in Opn, tk_cls_dev(t, o)
  PROVE  TypeOK' /\ CloseEffect(t, o)
<1>. USE DEF CloseEffect
<1>1. /\ at(t) = "idle" /\ opncb[o].resid = 1
      /\ "sync" \in Overlap \/ opncb[o].syncreq = 0
      /\ opncb' = [opncb EXCEPT ![o].resid = -1]
      /\ tsk' = [tsk EXCEPT ![t] = [Idle EXCEPT !.at = "close", !.dd = o]]
      /\ devcb' = devcb /\ reqcb' = reqcb /\ masked' = masked /\ opened' = opened
  BY DEF tk_cls_dev
<1>2. /\ opncb \in [Opn -> OpnRecord]
      /\ reqcb \in [Req -> ReqRecord] /\ tsk \in [Task -> TaskRecord]
      /\ devcb \in [syncq : Seq(Task), openreq : BOOLEAN] /\ opened \in [Unit -> Int]
      /\ masked \subseteq Task
  BY DEF TypeOK
<1>3. opncb' \in [Opn -> OpnRecord] /\ OtherOpns(o)
  <2>1. -1 \in -1 .. 1
    OBVIOUS
  <2>. QED
    BY <1>1, <1>2, <2>1, OpnFieldAssigned, Zenon
<1>4. opncb'[o].resid = -1 /\ KeepsRest(o)
  BY <1>1, <1>2 DEF OpnRecord, KeepsRest, KeepsOpen, KeepsAbort, KeepsWaits
<1>5. /\ tsk' \in [Task -> TaskRecord]
      /\ Becomes(t, "close", o, <<>>, FALSE, FALSE) /\ OtherTasks(t)
  BY <1>1, <1>2, TaskOpens DEF Labels, Closing
<1>6. TypeOK'
  BY <1>1, <1>2, <1>3, <1>5, TypesKept DEF Becomes, Serving
<1>. QED
  BY <1>1, <1>3, <1>4, <1>5, <1>6

\* The requests of o that abort_allrequest aborts.
busy(o) ==
  IF opncb[o].waireqlst # <<>> THEN {Head(opncb[o].waireqlst)}
  ELSE {r \in ToSet(opncb[o].requestq) : reqcb[r].tskid # None}

\* The abort of the requests that are in the driver begins.
AbortEffect(t) ==
  LET o == tsk[t].dd IN
  /\ at(t) = "close" /\ o \in Opn
  /\ devcb' = devcb /\ reqcb' = reqcb /\ masked' = masked /\ opened' = opened
  /\ OtherOpns(o) /\ KeepsDescriptor(o) /\ KeepsWaits(o)
  /\ opncb'[o].requestq = opncb[o].requestq
  /\ opncb'[o].abort_tskid = t /\ opncb'[o].abort_cnt = Cardinality(busy(o))
  /\ Moves(t, "abort_check")

\* The step has this effect and keeps the types.
LEMMA AbortStep ==
  ASSUME TypeOK, NEW t \in Task, abort_allrequest(t)
  PROVE  TypeOK' /\ AbortEffect(t)
<1>. USE DEF AbortEffect
<1>. DEFINE o == tsk[t].dd
            cb == opncb[o]
            n == Cardinality(busy(o))
            c == [cb EXCEPT !.abort_tskid = t, !.abort_cnt = n]
<1>1. /\ at(t) = "close"
      /\ devcb' = devcb /\ reqcb' = reqcb /\ masked' = masked /\ opened' = opened
  BY DEF abort_allrequest
<1>2. /\ o \in Opn
      /\ opncb \in [Opn -> OpnRecord] /\ cb \in OpnRecord
      /\ reqcb \in [Req -> ReqRecord] /\ tsk \in [Task -> TaskRecord]
      /\ devcb \in [syncq : Seq(Task), openreq : BOOLEAN] /\ opened \in [Unit -> Int]
      /\ masked \subseteq Task
  BY <1>1 DEF TypeOK
<1>3. n \in Int
  <2>1. cb.waireqlst \in Seq(Req) /\ cb.requestq \in Seq(Req)
    BY <1>2 DEF OpnRecord
  <2>2. busy(o) \subseteq Req
    BY <2>1, Elements DEF busy
  <2>. QED
    BY <2>2, DeviceAssumption, FS_Subset, FS_CardinalityType
<1>4. opncb' = [opncb EXCEPT ![o] = c]
  BY Zenon DEF abort_allrequest, busy
<1>5. \E victims : tsk' = [u \in Task |->
        IF u = t THEN [tsk[u] EXCEPT !.at = "abort_check"]
        ELSE IF u \in victims THEN [tsk[u] EXCEPT !.aborted = TRUE] ELSE tsk[u]]
  BY Zenon DEF abort_allrequest
<1>6. PICK victims : tsk' = [u \in Task |->
        IF u = t THEN [tsk[u] EXCEPT !.at = "abort_check"]
        ELSE IF u \in victims THEN [tsk[u] EXCEPT !.aborted = TRUE] ELSE tsk[u]]
  BY <1>5
<1>7. ASSUME NEW u \in Task
      PROVE  /\ [tsk[u] EXCEPT !.at = "abort_check"] \in TaskRecord
             /\ [tsk[u] EXCEPT !.aborted = TRUE] \in TaskRecord
  BY <1>2 DEF TaskRecord, Labels, Closing
<1>8. /\ tsk' \in [Task -> TaskRecord]
      /\ tsk'[t] = [tsk[t] EXCEPT !.at = "abort_check"]
      /\ \A u \in Task \ {t} : tsk'[u] = tsk[u] \/ tsk'[u] = [tsk[u] EXCEPT !.aborted = TRUE]
  BY <1>2, <1>6, <1>7
<1>9. Moves(t, "abort_check")
  <2>1. Becomes(t, "abort_check", tsk[t].dd, tsk[t].requests, tsk[t].any, tsk[t].sync)
    BY <1>2, <1>8 DEF TaskRecord, Becomes
  <2>2. ASSUME NEW d \in TaskRecord, NEW e, e = d \/ e = [d EXCEPT !.aborted = TRUE]
        PROVE  /\ e.at = d.at /\ e.dd = d.dd /\ e.requests = d.requests
               /\ e.any = d.any /\ e.sync = d.sync
    BY <2>2 DEF TaskRecord
  <2>3. ASSUME NEW u \in Task \ {t}
        PROVE  /\ tsk'[u].at = tsk[u].at /\ tsk'[u].dd = tsk[u].dd
               /\ tsk'[u].requests = tsk[u].requests
               /\ tsk'[u].any = tsk[u].any /\ tsk'[u].sync = tsk[u].sync
    <3>1. tsk[u] \in TaskRecord
          /\ (tsk'[u] = tsk[u] \/ tsk'[u] = [tsk[u] EXCEPT !.aborted = TRUE])
      BY <1>2, <1>8
    <3>. QED
      BY ONLY <2>2, <3>1
  <2>. QED
    BY <2>1, <2>3 DEF Moves, OtherTasks
<1>. HIDE DEF n
<1>10. /\ c \in OpnRecord
       /\ c.inuse = cb.inuse /\ c.unitno = cb.unitno /\ c.omode = cb.omode /\ c.resid = cb.resid
       /\ c.requestq = cb.requestq /\ c.waireqlst = cb.waireqlst /\ c.waitone = cb.waitone
       /\ c.syncreq = cb.syncreq /\ c.abort_tskid = t /\ c.abort_cnt = n
  <2>. HIDE DEF cb
  <2>. QED
    BY <1>2, <1>3 DEF OpnRecord
<1>. HIDE DEF c
<1>11. opncb' \in [Opn -> OpnRecord] /\ OtherOpns(o) /\ opncb'[o] = c
  BY <1>2, <1>4, <1>10, OpnAssigned DEF OtherOpns
<1>12. KeepsDescriptor(o) /\ KeepsWaits(o)
  BY <1>10, <1>11 DEF KeepsDescriptor, KeepsOpen, KeepsWaits
<1>13. TypeOK'
  BY <1>1, <1>2, <1>8, <1>9, <1>11, TypesKept DEF Moves, Becomes, Serving
<1>. QED
  BY <1>1, <1>2, <1>9, <1>10, <1>11, <1>12, <1>13 DEF n

\* The test of abort_cnt.
AbortCheckEffect(t) ==
  /\ at(t) = "abort_check" /\ tsk[t].dd \in Opn
  /\ devcb' = devcb /\ opncb' = opncb /\ reqcb' = reqcb /\ masked' = masked
  /\ opened' = opened
  /\ IF opncb[tsk[t].dd].abort_cnt > 0 THEN Moves(t, "abort_sync") ELSE Moves(t, "abort_done")

\* The step has this effect and keeps the types.
LEMMA AbortCheckStep ==
  ASSUME TypeOK, NEW t \in Task, abort_check(t)
  PROVE  TypeOK' /\ AbortCheckEffect(t)
<1>. USE DEF AbortCheckEffect
<1>1. /\ at(t) = "abort_check"
      /\ devcb' = devcb /\ opncb' = opncb /\ reqcb' = reqcb /\ masked' = masked
      /\ opened' = opened
      /\ goto(t, IF opncb[tsk[t].dd].abort_cnt > 0 THEN "abort_sync" ELSE "abort_done")
  BY DEF abort_check
<1>2. tsk[t].dd \in Opn /\ masked \subseteq Task
  BY <1>1 DEF TypeOK
<1>3. CASE opncb[tsk[t].dd].abort_cnt > 0
  <2>1. goto(t, "abort_sync")
    BY <1>1, <1>3
  <2>. QED
    BY <1>1, <1>2, <1>3, <2>1, MoveEffect DEF Labels, Closing, Serving
<1>4. CASE ~(opncb[tsk[t].dd].abort_cnt > 0)
  <2>1. goto(t, "abort_done")
    BY <1>1, <1>4
  <2>. QED
    BY <1>1, <1>2, <1>4, <2>1, MoveEffect DEF Labels, Closing, Drained, Serving
<1>. QED
  BY <1>3, <1>4

\* The last of the aborted tasks has signalled.
AbortSyncEffect(t) ==
  /\ at(t) = "abort_sync" /\ tsk[t].dd \in Opn /\ t \in masked
  /\ devcb' = devcb /\ opncb' = opncb /\ reqcb' = reqcb /\ masked' = masked \ {t}
  /\ opened' = opened
  /\ Moves(t, "abort_done")

\* The step has this effect and keeps the types.
LEMMA AbortSyncStep ==
  ASSUME TypeOK, NEW t \in Task, abort_sync(t)
  PROVE  TypeOK' /\ AbortSyncEffect(t)
<1>. USE DEF AbortSyncEffect
<1>1. /\ at(t) = "abort_sync" /\ t \in masked
      /\ devcb' = devcb /\ opncb' = opncb /\ reqcb' = reqcb /\ masked' = masked \ {t}
      /\ opened' = opened
      /\ goto(t, "abort_done")
  BY DEF abort_sync, signalled, SyncWaitDM
<1>2. tsk[t].dd \in Opn /\ masked \subseteq Task
  BY <1>1 DEF TypeOK
<1>. QED
  BY <1>1, <1>2, MoveEffect DEF Labels, Closing, Drained, Serving

\* The task that closes waits for the first of the remaining requests, or for none.
Drains(t, queue) ==
  /\ \/ /\ queue = <<>>
        /\ Becomes(t, "close_enter", tsk[t].dd, <<>>, tsk[t].any, tsk[t].sync)
     \/ /\ queue # <<>> /\ Head(queue) \in ToSet(queue)
        /\ Becomes(t, "drain", tsk[t].dd, <<Head(queue)>>, tsk[t].any, tsk[t].sync)
  /\ OtherTasks(t)

\* drain does this.
LEMMA DrainEffect ==
  ASSUME tsk \in [Task -> TaskRecord], NEW t \in Task, NEW queue \in Seq(Req), drain(t, queue)
  PROVE  /\ tsk' \in [Task -> TaskRecord]
         /\ Drains(t, queue)
         /\ tsk'[t].at \in {"close_enter", "drain"} /\ tsk'[t].dd = tsk[t].dd
         /\ tsk'[t].at = "drain" => tsk'[t].requests # <<>>
<1>1. CASE queue = <<>>
  <2>1. tsk' = [tsk EXCEPT ![t] = [@ EXCEPT !.at = "close_enter", !.requests = <<>>]]
    BY <1>1 DEF drain
  <2>2. "close_enter" \in Labels /\ <<>> \in Seq(Req)
    BY DEF Labels, Closing, Drained
  <2>3. /\ tsk' \in [Task -> TaskRecord]
        /\ Becomes(t, "close_enter", tsk[t].dd, <<>>, tsk[t].any, tsk[t].sync)
        /\ OtherTasks(t)
    BY <2>1, <2>2, TaskDrains
  <2>. QED
    BY <1>1, <2>3 DEF Drains, Becomes
<1>2. CASE queue # <<>>
  <2>1. tsk' = [tsk EXCEPT ![t] = [@ EXCEPT !.at = "drain", !.requests = <<Head(queue)>>]]
    BY <1>2 DEF drain
  <2>2. Head(queue) \in Req /\ Head(queue) \in ToSet(queue)
    <3>1. queue[1] \in ToSet(queue) /\ Head(queue) = queue[1]
      BY <1>2, Elements, HeadTailProperties, EmptySeq
    <3>. QED
      BY <3>1, Elements
  <2>3. "drain" \in Labels /\ <<Head(queue)>> \in Seq(Req) /\ <<Head(queue)>> # <<>>
    BY <2>2 DEF Labels, Closing, Drained
  <2>4. /\ tsk' \in [Task -> TaskRecord]
        /\ Becomes(t, "drain", tsk[t].dd, <<Head(queue)>>, tsk[t].any, tsk[t].sync)
        /\ OtherTasks(t)
    BY <2>1, <2>3, TaskDrains
  <2>. QED
    BY <1>2, <2>2, <2>3, <2>4 DEF Drains, Becomes
<1>. QED
  BY <1>1, <1>2

\* The abort is over.
AbortDoneEffect(t) ==
  LET o == tsk[t].dd IN
  /\ at(t) = "abort_done" /\ o \in Opn
  /\ devcb' = devcb /\ reqcb' = reqcb /\ masked' = masked /\ opened' = opened
  /\ OtherOpns(o) /\ KeepsDescriptor(o) /\ KeepsWaits(o)
  /\ opncb'[o].requestq = opncb[o].requestq
  /\ opncb'[o].abort_tskid = None
  /\ opncb[o].requestq \in Seq(Req)
  /\ Drains(t, opncb[o].requestq)

\* The step has this effect and keeps the types.
LEMMA AbortDoneStep ==
  ASSUME TypeOK, NEW t \in Task, abort_done(t)
  PROVE  TypeOK' /\ AbortDoneEffect(t)
<1>. USE DEF AbortDoneEffect
<1>. DEFINE o == tsk[t].dd
<1>1. /\ at(t) = "abort_done"
      /\ opncb' = [opncb EXCEPT ![o].abort_tskid = None]
      /\ drain(t, opncb[o].requestq)
      /\ devcb' = devcb /\ reqcb' = reqcb /\ masked' = masked /\ opened' = opened
  BY DEF abort_done
<1>2. /\ o \in Opn
      /\ opncb \in [Opn -> OpnRecord] /\ opncb[o] \in OpnRecord
      /\ reqcb \in [Req -> ReqRecord] /\ tsk \in [Task -> TaskRecord]
      /\ devcb \in [syncq : Seq(Task), openreq : BOOLEAN] /\ opened \in [Unit -> Int]
      /\ masked \subseteq Task
  BY <1>1 DEF TypeOK
<1>3. opncb[o].requestq \in Seq(Req)
  BY <1>2 DEF OpnRecord
<1>. HIDE DEF o
<1>4. opncb' \in [Opn -> OpnRecord] /\ OtherOpns(o)
  BY <1>1, <1>2, OpnFieldAssigned
<1>5. /\ KeepsDescriptor(o) /\ KeepsWaits(o)
      /\ opncb'[o].requestq = opncb[o].requestq
      /\ opncb'[o].abort_tskid = None
  BY <1>1, <1>2 DEF OpnRecord, KeepsDescriptor, KeepsOpen, KeepsWaits
<1>6. /\ tsk' \in [Task -> TaskRecord]
      /\ Drains(t, opncb[o].requestq)
      /\ tsk'[t].at \in {"close_enter", "drain"} /\ tsk'[t].dd = tsk[t].dd
      /\ tsk'[t].at = "drain" => tsk'[t].requests # <<>>
  BY <1>1, <1>2, <1>3, DrainEffect
<1>7. TypeOK'
  <2>1. OtherTasks(t)
    BY <1>6 DEF Drains
  <2>. QED
    BY <1>1, <1>2, <1>4, <1>6, <2>1, TypesKept DEF Serving, o
<1>. QED
  BY <1>1, <1>2, <1>3, <1>4, <1>5, <1>6, <1>7 DEF o

\* A remaining request is completed and unregistered.
DrainedEffect(t) ==
  LET o == tsk[t].dd r == tsk[t].requests[1] rest == without(opncb[o].requestq, r) IN
  /\ at(t) = "drain" /\ o \in Opn /\ r \in Req
  /\ devcb' = devcb /\ masked' = masked /\ opened' = opened
  /\ reqcb'[r].opncb = None /\ reqcb'[r].tskid = None /\ OtherReqs(r)
  /\ OtherOpns(o) /\ KeepsDescriptor(o) /\ KeepsAbort(o) /\ KeepsWaits(o)
  /\ opncb'[o].requestq = rest
  /\ Drains(t, rest)

\* The step has this effect and keeps the types.
LEMMA DrainedStep ==
  ASSUME TypeOK, NEW t \in Task, drained(t)
  PROVE  TypeOK' /\ DrainedEffect(t)
<1>. USE DEF DrainedEffect
<1>. DEFINE o == tsk[t].dd
            r == tsk[t].requests[1]
            rest == without(opncb[o].requestq, r)
<1>1. /\ at(t) = "drain"
      /\ reqcb' = [reqcb EXCEPT ![r] = FreeReq]
      /\ opncb' = [opncb EXCEPT ![o].requestq = rest]
      /\ drain(t, rest)
      /\ devcb' = devcb /\ masked' = masked /\ opened' = opened
  BY DEF drained
<1>2. /\ o \in Opn /\ tsk[t].requests # <<>>
      /\ opncb \in [Opn -> OpnRecord] /\ opncb[o] \in OpnRecord
      /\ reqcb \in [Req -> ReqRecord] /\ tsk \in [Task -> TaskRecord]
      /\ devcb \in [syncq : Seq(Task), openreq : BOOLEAN] /\ opened \in [Unit -> Int]
      /\ masked \subseteq Task
  BY <1>1 DEF TypeOK
<1>3. rest \in Seq(Req)
  <2>1. opncb[o].requestq \in Seq(Req)
    BY <1>2 DEF OpnRecord
  <2>. QED
    BY <2>1, WithoutType
<1>4. r \in Req
  <2>1. tsk[t].requests \in Seq(Req)
    BY <1>2 DEF TaskRecord
  <2>. QED
    BY <1>2, <2>1
<1>. HIDE DEF o, rest, r
<1>5. opncb' \in [Opn -> OpnRecord] /\ OtherOpns(o)
  BY <1>1, <1>2, <1>3, OpnFieldAssigned
<1>6. /\ KeepsDescriptor(o) /\ KeepsAbort(o) /\ KeepsWaits(o)
      /\ opncb'[o].requestq = rest
  BY <1>1, <1>2 DEF OpnRecord, KeepsDescriptor, KeepsOpen, KeepsAbort, KeepsWaits
<1>7. /\ tsk' \in [Task -> TaskRecord]
      /\ Drains(t, rest)
      /\ tsk'[t].at \in {"close_enter", "drain"} /\ tsk'[t].dd = tsk[t].dd
      /\ tsk'[t].at = "drain" => tsk'[t].requests # <<>>
  BY <1>1, <1>2, <1>3, DrainEffect
<1>8. /\ reqcb' \in [Req -> ReqRecord] /\ OtherReqs(r)
      /\ reqcb'[r].opncb = None /\ reqcb'[r].tskid = None
  BY <1>1, <1>2, <1>4, ReqAssigned
<1>9. TypeOK'
  <2>1. OtherTasks(t)
    BY <1>7 DEF Drains
  <2>. QED
    BY <1>1, <1>2, <1>5, <1>7, <1>8, <2>1, TypesKept DEF Serving, o
<1>. QED
  BY <1>1, <1>2, <1>4, <1>5, <1>6, <1>7, <1>8, <1>9 DEF o, r, rest

-----------------------------------------------------------------------------
\* tk_wai_dev.
WaiEffect(t, o, r) ==
  at(t) = "idle" /\ opncb[o].resid = 1 /\ WaitsForOneOf(t, o, r, FALSE)

\* The step has this effect and keeps the types.
LEMMA WaiStep ==
  ASSUME TypeOK, NEW t \in Task, NEW o \in Opn, NEW r \in Req, tk_wai_dev(t, o, r)
  PROVE  TypeOK' /\ WaiEffect(t, o, r)
<1>1. /\ at(t) = "idle" /\ opncb[o].resid = 1
      /\ wait_for_one(t, o, r, FALSE) /\ FALSE \in BOOLEAN
  BY DEF tk_wai_dev
<1>2. TypeOK' /\ WaitsForOneOf(t, o, r, FALSE)
  BY <1>1, WaitForOneStep, Zenon
<1>. QED
  BY <1>1, <1>2 DEF WaiEffect

\* The effects of the steps of t.
StepEffect(t) ==
  \/ \E o \in Opn, unitno \in Unit, omode \in Modes : OpenEffect(t, o, unitno, omode)
  \/ \E o \in Opn : CloseEffect(t, o)
  \/ \E o \in Opn, sync \in BOOLEAN : RequestEffect(t, o, sync)
  \/ \E o \in Opn, r \in Req : WaiEffect(t, o, r)
  \/ \E o \in Opn : WaitAnyEffect(t, o)
  \/ OpenfnSucceedsEffect(t) \/ OpenfnFailsEffect(t) \/ ClosefnEffect(t)
  \/ Undisturbed(t) /\ (ExecSucceedsEffect(t) \/ ExecFailsEffect(t))
  \/ Undisturbed(t) /\ \E i \in {0} \cup DOMAIN tsk[t].requests : WaitfnEffect(t, i)
  \/ OpenTurnEffect(t) \/ SyncWaitEffect(t)
  \/ AbortEffect(t) \/ AbortCheckEffect(t) \/ AbortSyncEffect(t) \/ AbortDoneEffect(t)
  \/ DrainedEffect(t) \/ CloseEnterEffect(t) \/ CloseTurnEffect(t)

\* Every step has one of these effects, and keeps the types.
LEMMA Steps ==
  ASSUME TypeOK, Next
  PROVE  TypeOK' /\ \E t \in Task : StepEffect(t)
<1>1. PICK t \in Task :
        \/ \E o \in Opn, unitno \in Unit, omode \in Modes : tk_opn_dev(t, o, unitno, omode)
        \/ \E o \in Opn : tk_cls_dev(t, o)
        \/ \E o \in Opn, sync \in BOOLEAN : request(t, o, sync)
        \/ \E o \in Opn, r \in Req : tk_wai_dev(t, o, r)
        \/ \E o \in Opn : tk_wai_dev_any(t, o)
        \/ openfn_succeeds(t) \/ openfn_fails(t) \/ closefn_returns(t)
        \/ Undisturbed(t) /\ (execfn_succeeds(t) \/ execfn_fails(t))
        \/ Undisturbed(t) /\ \E i \in {0} \cup DOMAIN tsk[t].requests : waitfn_returns(t, i)
        \/ open_turn(t) \/ sync_wait(t)
        \/ abort_allrequest(t) \/ abort_check(t) \/ abort_sync(t) \/ abort_done(t) \/ drained(t)
        \/ close_enter(t) \/ close_turn(t)
  BY Actions, Zenon
<1>. SUFFICES TypeOK' /\ StepEffect(t)
  OBVIOUS
<1>. USE DEF StepEffect
<1>2. CASE \E o \in Opn, unitno \in Unit, omode \in Modes : tk_opn_dev(t, o, unitno, omode)
  BY <1>2, OpenStep, Zenon
<1>3. CASE \E o \in Opn : tk_cls_dev(t, o)
  BY <1>3, CloseStep, Zenon
<1>4. CASE \E o \in Opn, sync \in BOOLEAN : request(t, o, sync)
  BY <1>4, RequestStep, Zenon
<1>5. CASE \E o \in Opn, r \in Req : tk_wai_dev(t, o, r)
  BY <1>5, WaiStep, Zenon
<1>6. CASE \E o \in Opn : tk_wai_dev_any(t, o)
  BY <1>6, WaitAnyStep, Zenon
<1>7. CASE openfn_succeeds(t)
  BY <1>7, OpenfnSucceedsStep, Zenon
<1>8. CASE openfn_fails(t)
  BY <1>8, OpenfnFailsStep, Zenon
<1>9. CASE closefn_returns(t)
  BY <1>9, ClosefnStep, Zenon
<1>10. CASE Undisturbed(t) /\ execfn_succeeds(t)
  BY <1>10, ExecSucceedsStep, Zenon
<1>11. CASE Undisturbed(t) /\ execfn_fails(t)
  BY <1>11, ExecFailsStep, Zenon
<1>12. CASE Undisturbed(t) /\ \E i \in {0} \cup DOMAIN tsk[t].requests : waitfn_returns(t, i)
  BY <1>12, WaitfnStep, Zenon
<1>13. CASE open_turn(t)
  BY <1>13, OpenTurnStep, Zenon
<1>14. CASE sync_wait(t)
  BY <1>14, SyncWaitStep, Zenon
<1>15. CASE abort_allrequest(t)
  BY <1>15, AbortStep, Zenon
<1>16. CASE abort_check(t)
  BY <1>16, AbortCheckStep, Zenon
<1>17. CASE abort_sync(t)
  BY <1>17, AbortSyncStep, Zenon
<1>18. CASE abort_done(t)
  BY <1>18, AbortDoneStep, Zenon
<1>19. CASE drained(t)
  BY <1>19, DrainedStep, Zenon
<1>20. CASE close_enter(t)
  BY <1>20, CloseEnterStep, Zenon
<1>21. CASE close_turn(t)
  BY <1>21, CloseTurnStep, Zenon
<1>. HIDE DEF StepEffect
<1>. QED
  BY <1>1, <1>2, <1>3, <1>4, <1>5, <1>6, <1>7, <1>8, <1>9, <1>10, <1>11, <1>12, <1>13, <1>14,
     <1>15, <1>16, <1>17, <1>18, <1>19, <1>20, <1>21, Zenon

-----------------------------------------------------------------------------
(* Open modes *)

\* No descriptor is opened: what is in use was so, of the same unit and in the same mode.
NoneOpened ==
  \A o \in Opn : opncb'[o].inuse => opncb[o].inuse /\ KeepsOpen(o)

\* Only tk_opn_dev opens a descriptor.
LEMMA OpensOrNot ==
  ASSUME NEW t \in Task, StepEffect(t), TypeOK
  PROVE  \/ NoneOpened
         \/ \E o \in Opn, unitno \in Unit, omode \in Modes : OpenEffect(t, o, unitno, omode)
<1>1. ASSUME NEW o \in Opn, OtherOpns(o), KeepsOpen(o)
      PROVE  NoneOpened
  BY <1>1 DEF OtherOpns, NoneOpened, KeepsOpen
<1>2. ASSUME NEW o \in Opn, Freed(o)
      PROVE  NoneOpened
  <2>1. ~opncb'[o].inuse
    BY <1>2 DEF Freed, FreeOpn
  <2>2. OtherOpns(o)
    BY <1>2 DEF Freed
  <2>. QED
    BY <2>1, <2>2 DEF OtherOpns, NoneOpened, KeepsOpen
<1>3. ASSUME opncb' = opncb
      PROVE  NoneOpened
  BY <1>3 DEF NoneOpened, KeepsOpen
<1>. USE DEF KeepsRest, KeepsDescriptor
<1>4. ASSUME NEW o \in Opn, \/ CloseEffect(t, o) \/ WaitAnyEffect(t, o)
                            \/ \E r \in Req : WaiEffect(t, o, r)
                            \/ \E sync \in BOOLEAN : RequestEffect(t, o, sync)
      PROVE  NoneOpened
  BY <1>1, <1>4 DEF CloseEffect, WaitAnyEffect, WaiEffect, WaitsForOneOf, RequestEffect
<1>5. CASE OpenfnSucceedsEffect(t) \/ OpenTurnEffect(t)
  BY <1>1, <1>3, <1>5 DEF OpenfnSucceedsEffect, OpenTurnEffect, Opened
<1>6. CASE OpenfnFailsEffect(t) \/ ClosefnEffect(t) \/ CloseEnterEffect(t) \/ CloseTurnEffect(t)
  BY <1>2, <1>3, <1>6 DEF OpenfnFailsEffect, ClosefnEffect, CloseEnterEffect, CloseTurnEffect,
     Closed
<1>7. CASE ExecSucceedsEffect(t) \/ ExecFailsEffect(t)
  BY <1>1, <1>7 DEF ExecSucceedsEffect, ExecFailsEffect
<1>8. CASE \E i \in {0} \cup DOMAIN tsk[t].requests : WaitfnEffect(t, i)
  BY <1>1, <1>8 DEF WaitfnEffect
<1>9. CASE SyncWaitEffect(t)
  <2>1. \E p \in Opn : OtherOpns(p) /\ KeepsDescriptor(p)
    BY <1>9 DEF SyncWaitEffect, WaitsForOneOf
  <2>. QED
    BY <1>1, <2>1
<1>10. CASE AbortEffect(t) \/ AbortDoneEffect(t) \/ DrainedEffect(t)
  BY <1>1, <1>10 DEF AbortEffect, AbortDoneEffect, DrainedEffect
<1>11. CASE AbortCheckEffect(t) \/ AbortSyncEffect(t)
  BY <1>3, <1>11 DEF AbortCheckEffect, AbortSyncEffect
<1>. QED
  BY <1>4, <1>5, <1>6, <1>7, <1>8, <1>9, <1>10, <1>11, Zenon DEF StepEffect

\* All is free at the start.
LEMMA TypeInit ==
  ASSUME Init
  PROVE  TypeOK
<1>1. /\ opncb \in [Opn -> OpnRecord] /\ reqcb \in [Req -> ReqRecord]
      /\ tsk \in [Task -> TaskRecord]
  BY Records DEF Init
<1>2. devcb \in [syncq : Seq(Task), openreq : BOOLEAN]
  <2>1. {<<>>} \subseteq Seq(Task)
    OBVIOUS
  <2>2. devcb \in [syncq : {<<>>}, openreq : BOOLEAN]
    BY DEF Init
  <2>. QED
    BY <2>1, <2>2
<1>3. masked \subseteq Task /\ opened \in [Unit -> Int]
  BY DEF Init
<1>4. \A t \in Task : at(t) = "idle"
  BY DEF Init, Idle
<1>. QED
  BY <1>1, <1>2, <1>3, <1>4 DEF TypeOK, Serving

\* The variables keep their types: descriptors, requests and tasks refer to control
\* blocks that exist, and a task that is anywhere in a call has a descriptor (deviceio.c).
THEOREM TypesCorrect == Spec => []TypeOK
<1>1. TypeOK /\ UNCHANGED vars => TypeOK'
  BY DEF TypeOK, vars
<1>2. TypeOK /\ [Next]_vars => TypeOK'
  BY <1>1, Steps
<1>. QED
  BY <1>2, TypeInit, PTL DEF Spec

\* An open that chkopenmode lets in is compatible with the opens that there are.
LEMMA ModesStep ==
  ASSUME ModesRespected, NEW t \in Task, NEW o \in Opn, NEW unitno \in Unit,
         NEW omode \in Modes, OpenEffect(t, o, unitno, omode)
  PROVE  ModesRespected'
<1>1. /\ chkopenmode(unitno, omode)
      /\ opncb'[o].inuse /\ opncb'[o].unitno = unitno /\ opncb'[o].omode = omode
      /\ OtherOpns(o)
  BY Zenon DEF OpenEffect
<1>2. ASSUME NEW p \in Opn \ {o}, opncb[p].inuse,
             unitno = opncb[p].unitno \/ 0 \in {unitno, opncb[p].unitno}
      PROVE  /\ "REXCL" \in omode => "READ" \notin opncb[p].omode
             /\ "WEXCL" \in omode => "WRITE" \notin opncb[p].omode
             /\ "READ" \in omode => "REXCL" \notin opncb[p].omode
             /\ "WRITE" \in omode => "WEXCL" \notin opncb[p].omode
  <2>. DEFINE others == {q \in Opn : opncb[q].inuse
                                      /\ (unitno = 0 \/ opncb[q].unitno \in {0, unitno})}
  <2>1. p \in others
    BY <1>2
  <2>. HIDE DEF others
  <2>. QED
    BY <1>1, <2>1 DEF chkopenmode, others
<1>. QED
  BY <1>1, <1>2 DEF ModesRespected, OtherOpns

\* An open mode that excludes readers or writers does so whatever is opened and closed at
\* the same time, and whatever overlaps (chkopenmode).
THEOREM ModesAreRespected == Spec => []ModesRespected
<1>1. Init => ModesRespected
  BY DEF Init, ModesRespected, FreeOpn
<1>2. TypeOK /\ ModesRespected /\ [Next]_vars => ModesRespected'
  <2>1. CASE UNCHANGED vars
    BY <2>1 DEF ModesRespected, vars
  <2>2. ASSUME NoneOpened, ModesRespected
        PROVE  ModesRespected'
    BY <2>2 DEF NoneOpened, KeepsOpen, ModesRespected
  <2>. QED
    BY <2>1, <2>2, Steps, OpensOrNot, ModesStep, Zenon
<1>. QED
  BY <1>1, <1>2, TypesCorrect, PTL DEF Spec

-----------------------------------------------------------------------------
(* The descriptors *)

\* The state of t's descriptor is the one that t has brought it into.
DescriptorFits(t) ==
  LET cb == opncb[tsk[t].dd] IN
  /\ at(t) # "idle" => cb.inuse
  /\ at(t) \in Opening => cb.resid = 0
  /\ at(t) \in Closing => cb.resid = -1
  /\ at(t) \in Serving \cup {"sync"} => cb.resid # 0
  /\ at(t) \in Serving \cup {"sync"} /\ tsk[t].sync => cb.resid = 1
  /\ at(t) = "sync" => tsk[t].sync

\* A descriptor is opened or closed by one task.
Descriptors ==
  /\ \A o \in Opn : opncb[o].resid # 0 => opncb[o].inuse
  /\ \A t \in Task : DescriptorFits(t)
  /\ \A t, u \in Task :
       at(t) \in Opening \cup Closing /\ at(u) \in Opening \cup Closing /\ tsk[t].dd = tsk[u].dd
       => t = u

\* The tasks that are in the driver with a request of o.
InDriver(o) == {t \in Task : at(t) \in Serving /\ tsk[t].dd = o}

\* The abort of requests: who counts, and how many are in the driver.
Aborts ==
  /\ \A t \in Task : at(t) \in Aborting => opncb[tsk[t].dd].abort_tskid = t
  /\ \A o \in Opn : opncb[o].abort_tskid # None =>
       /\ opncb[o].abort_tskid \in Task
       /\ at(opncb[o].abort_tskid) \in Aborting
       /\ tsk[opncb[o].abort_tskid].dd = o
       /\ opncb[o].abort_cnt = Cardinality(InDriver(o))
  /\ \A t \in Task : at(t) \in Drained => InDriver(tsk[t].dd) = {}

\* The synchronous requests of o that are not completed.
Synchronous(o) == {t \in Task : at(t) \in Serving \cup {"sync"} /\ tsk[t].dd = o /\ tsk[t].sync}

\* What is in use, opened or closed does not change.
SameDescriptors == \A o \in Opn : KeepsDescriptor(o)

\* t goes on opening or closing, is done, or works with a descriptor that is open.
GoesOn(t) ==
  \/ tsk'[t].at = "idle"
  \/ /\ tsk'[t].dd = tsk[t].dd
     /\ \/ at(t) \in Opening /\ tsk'[t].at \in Opening
        \/ at(t) \in Closing /\ tsk'[t].at \in Closing
  \/ /\ tsk'[t].at \in Serving \cup {"sync"}
     /\ opncb[tsk'[t].dd].resid # 0 /\ (tsk'[t].sync => opncb[tsk'[t].dd].resid = 1)
     /\ tsk'[t].at = "sync" => tsk'[t].sync

\* A step that leaves the descriptors as they are.
LEMMA DescriptorsStay ==
  ASSUME Descriptors, TypeOK, NEW t \in Task, OtherTasks(t), SameDescriptors, TypeOK', GoesOn(t)
  PROVE  Descriptors'
<1>. USE DEF KeepsDescriptor, KeepsOpen, OtherTasks, GoesOn
<1>1. ASSUME NEW u \in Task, at(u) # "idle" PROVE tsk[u].dd \in Opn
  BY <1>1 DEF TypeOK
<1>2. ASSUME NEW u \in Task, tsk'[u].at # "idle" PROVE tsk'[u].dd \in Opn
  BY <1>2 DEF TypeOK
<1>3. DescriptorFits(t)'
  BY <1>1, <1>2 DEF Descriptors, DescriptorFits, SameDescriptors, Opening, Closing, Drained,
     Serving
<1>4. ASSUME NEW u \in Task \ {t} PROVE DescriptorFits(u)'
  BY <1>1, <1>2 DEF Descriptors, DescriptorFits, SameDescriptors, Opening, Closing, Drained,
     Serving
<1>5. \A o \in Opn : opncb'[o].resid # 0 => opncb'[o].inuse
  BY DEF Descriptors, SameDescriptors
<1>6. tsk'[t].at \in Opening \cup Closing =>
        at(t) \in Opening \cup Closing /\ tsk'[t].dd = tsk[t].dd
  BY DEF Opening, Closing, Drained, Serving
<1>7. \A u, v \in Task :
        tsk'[u].at \in Opening \cup Closing /\ tsk'[v].at \in Opening \cup Closing
          /\ tsk'[u].dd = tsk'[v].dd => u = v
  BY <1>6 DEF Descriptors
<1>. QED
  BY <1>3, <1>4, <1>5, <1>7 DEF Descriptors

\* Where a task can be that is not idle.
LEMMA Placed ==
  ASSUME TypeOK, NEW t \in Task
  PROVE  /\ at(t) # "idle" => /\ tsk[t].dd \in Opn
                              /\ at(t) \in Opening \cup Closing \cup Serving \cup {"sync"}
         /\ tsk[t].sync \in BOOLEAN /\ tsk[t].any \in BOOLEAN
         /\ tsk[t].requests \in Seq(Req)
         /\ at(t) \in Serving \cup {"sync", "drain"} => tsk[t].requests # <<>>
<1>1. tsk[t] \in TaskRecord
  BY DEF TypeOK
<1>2. at(t) \in Labels
  BY <1>1 DEF TaskRecord
<1>. QED
  BY <1>1, <1>2 DEF TypeOK, TaskRecord, Labels

\* Nobody has a descriptor that is not in use, and nobody else has one that is being
\* opened, or closed by a task that has drained it.
LEMMA Alone ==
  ASSUME TypeOK, Descriptors, Aborts
  PROVE  /\ \A o \in Opn, u \in Task : ~opncb[o].inuse /\ at(u) # "idle" => tsk[u].dd # o
         /\ \A t \in Task, u \in Task :
              t # u /\ at(t) \in Opening \cup Drained /\ at(u) # "idle" => tsk[u].dd # tsk[t].dd
<1>1. ASSUME NEW o \in Opn, NEW u \in Task, ~opncb[o].inuse, at(u) # "idle"
      PROVE  tsk[u].dd # o
  BY <1>1 DEF Descriptors, DescriptorFits
<1>2. ASSUME NEW t \in Task, NEW u \in Task, t # u, at(t) \in Opening \cup Drained, at(u) # "idle"
      PROVE  tsk[u].dd # tsk[t].dd
  <2>1. at(u) \notin Opening \cup Closing \/ tsk[u].dd # tsk[t].dd
    BY <1>2 DEF Descriptors, Closing
  <2>2. CASE at(t) \in Opening
    BY <1>2, <2>1, <2>2, Placed DEF Descriptors, DescriptorFits
  <2>3. CASE at(t) \in Drained
    <3>1. InDriver(tsk[t].dd) = {} /\ opncb[tsk[t].dd].resid = -1
      BY <1>2, <2>3 DEF Aborts, Descriptors, DescriptorFits, Closing
    <3>. QED
      BY <1>2, <2>1, <3>1, Placed DEF Descriptors, DescriptorFits, InDriver
  <2>. QED
    BY <1>2, <2>2, <2>3
<1>. QED
  BY <1>1, <1>2

\* Descriptors is kept.  A descriptor is closed when nobody opens it and no synchronous
\* request is pending, and freed when nobody has a request of it in the driver.
LEMMA DescriptorsKept ==
  ASSUME Overlap = {}, TypeOK, TypeOK', Descriptors, Aborts,
         \A o \in Opn : opncb[o].syncreq = 0 => Synchronous(o) = {},
         NEW t \in Task, StepEffect(t)
  PROVE  Descriptors'
<1>. USE DEF KeepsDescriptor, KeepsRest, KeepsOpen, OtherOpns
<1>1. ASSUME NEW u \in Task, at(u) # "idle" PROVE tsk[u].dd \in Opn
  BY <1>1 DEF TypeOK
<1>2. ASSUME NEW o \in Opn, NEW unitno \in Unit, NEW omode \in Modes,
             OpenEffect(t, o, unitno, omode)
      PROVE  Descriptors'
  <2>1. ASSUME NEW u \in Task, at(u) # "idle" PROVE tsk[u].dd # o
    BY <1>2, <2>1, Alone DEF OpenEffect
  <2>. QED
    BY <1>1, <1>2, <2>1 DEF OpenEffect, Descriptors, DescriptorFits, OtherTasks, Becomes,
       Opening, Closing, Drained, Serving
<1>3. ASSUME NEW o \in Opn, CloseEffect(t, o)
      PROVE  Descriptors'
  <2>1. ASSUME NEW u \in Task, at(u) # "idle", tsk[u].dd = o
        PROVE  at(u) \in Serving /\ ~tsk[u].sync
    <3>1. opncb[o].resid = 1 /\ Synchronous(o) = {}
      BY <1>3 DEF CloseEffect
    <3>. QED
      BY <2>1, <3>1, Placed DEF Descriptors, DescriptorFits, Synchronous
  <2>. QED
    BY <1>1, <1>3, <2>1 DEF CloseEffect, Descriptors, DescriptorFits, OtherTasks, Becomes,
       Opening, Closing, Drained, Serving
<1>4. ASSUME NEW o \in Opn, NEW m, Opened(m, t, o), at(t) \in Opening, o = tsk[t].dd
      PROVE  Descriptors'
  <2>1. ASSUME NEW u \in Task \ {t}, at(u) # "idle" PROVE tsk[u].dd # o
    BY <1>4, <2>1, Alone
  <2>. QED
    BY <1>1, <1>4, <2>1 DEF Opened, Descriptors, DescriptorFits, OtherTasks, Becomes,
       Opening, Closing, Drained, Serving
<1>5. ASSUME NEW o \in Opn, Freed(o), OtherTasks(t), tsk'[t].at = "idle", o = tsk[t].dd,
             at(t) \in Opening \/ at(t) \in Drained
      PROVE  Descriptors'
  <2>1. ASSUME NEW u \in Task \ {t}, at(u) # "idle" PROVE tsk[u].dd # o
    BY <1>5, <2>1, Alone
  <2>2. ~opncb'[o].inuse /\ opncb'[o].resid = 0
    BY <1>5 DEF Freed, FreeOpn
  <2>. QED
    BY <1>1, <1>5, <2>1, <2>2 DEF Freed, Descriptors, DescriptorFits, OtherTasks,
       Opening, Closing, Drained, Serving
<1>6. ASSUME NEW o \in Opn, OtherOpns(o), KeepsDescriptor(o) PROVE SameDescriptors
  BY <1>6 DEF SameDescriptors
<1>7. ASSUME opncb' = opncb PROVE SameDescriptors
  BY <1>7 DEF SameDescriptors
<1>8. ASSUME OtherTasks(t), SameDescriptors, GoesOn(t) PROVE Descriptors'
  BY <1>8, DescriptorsStay
<1>. HIDE DEF OtherOpns, KeepsDescriptor, KeepsOpen
<1>. USE DEF GoesOn, Becomes, Moves
<1>9. CASE \E o \in Opn, sync \in BOOLEAN : RequestEffect(t, o, sync)
  BY <1>6, <1>8, <1>9 DEF RequestEffect, KeepsDescriptor, Serving
<1>10. CASE \E o \in Opn, r \in Req : WaiEffect(t, o, r)
  BY <1>6, <1>8, <1>10 DEF WaiEffect, WaitsForOneOf, Serving
<1>11. CASE \E o \in Opn : WaitAnyEffect(t, o)
  BY <1>6, <1>8, <1>11 DEF WaitAnyEffect, Serving
<1>12. CASE ExecSucceedsEffect(t)
  <2>1. at(t) = "execfn" => opncb[tsk[t].dd].resid # 0
    BY DEF Descriptors, DescriptorFits, Serving
  <2>2. at(t) = "execfn" /\ tsk[t].sync => opncb[tsk[t].dd].resid = 1
    BY DEF Descriptors, DescriptorFits, Serving
  <2>. QED
    BY <1>6, <1>8, <1>12, <2>1, <2>2 DEF ExecSucceedsEffect
<1>13. CASE ExecFailsEffect(t)
  BY <1>6, <1>8, <1>13 DEF ExecFailsEffect
<1>14. CASE \E i \in {0} \cup DOMAIN tsk[t].requests : WaitfnEffect(t, i)
  BY <1>6, <1>8, <1>14 DEF WaitfnEffect
<1>15. CASE SyncWaitEffect(t)
  BY <1>6, <1>8, <1>15 DEF SyncWaitEffect, WaitsForOneOf, Serving
<1>16. CASE AbortEffect(t)
  BY <1>6, <1>8, <1>16 DEF AbortEffect, Closing
<1>17. CASE AbortCheckEffect(t)
  BY <1>7, <1>8, <1>17 DEF AbortCheckEffect, Closing, Drained
<1>18. CASE AbortSyncEffect(t)
  BY <1>7, <1>8, <1>18 DEF AbortSyncEffect, Closing, Drained
<1>19. CASE AbortDoneEffect(t)
  BY <1>6, <1>8, <1>19 DEF AbortDoneEffect, Drains, Closing, Drained
<1>20. CASE DrainedEffect(t)
  BY <1>6, <1>8, <1>20 DEF DrainedEffect, Drains, Closing, Drained
<1>21. CASE CloseEnterEffect(t)
  BY <1>5, <1>7, <1>8, <1>21 DEF CloseEnterEffect, Closing, Drained
<1>22. CASE CloseTurnEffect(t)
  BY <1>5, <1>7, <1>8, <1>22 DEF CloseTurnEffect, Closed, Closing, Drained
<1>23. CASE OpenTurnEffect(t)
  BY <1>4, <1>7, <1>8, <1>23 DEF OpenTurnEffect, Opening
<1>24. CASE OpenfnSucceedsEffect(t)
  BY <1>4, <1>24 DEF OpenfnSucceedsEffect, Opening
<1>25. CASE OpenfnFailsEffect(t)
  BY <1>5, <1>25 DEF OpenfnFailsEffect, Closed, Opening
<1>26. CASE ClosefnEffect(t)
  BY <1>5, <1>26 DEF ClosefnEffect, Closed, Drained
<1>. HIDE DEF GoesOn, Becomes, Moves
<1>. QED
  BY <1>2, <1>3, <1>9, <1>10, <1>11, <1>12, <1>13, <1>14, <1>15, <1>16, <1>17, <1>18, <1>19,
     <1>20, <1>21, <1>22, <1>23, <1>24, <1>25, <1>26, Zenon DEF StepEffect

-----------------------------------------------------------------------------
(* The queue of those that open and close *)

Queueing == {"open_sync", "openfn", "close_sync", "closefn"}
Calling == {"openfn", "closefn"}

\* The queue links who opens and closes, only its first task calls the driver, and waits
\* are disabled for the task whose turn it is, or whose aborts have been counted.
SyncQueue ==
  /\ devcb.syncq \in Unrepeated(Task)
  /\ ToSet(devcb.syncq) = {t \in Task : at(t) \in Queueing}
  /\ \A t \in Task : at(t) \in Calling => t = Head(devcb.syncq)
  /\ \A t \in masked :
       \/ at(t) \in {"open_sync", "close_sync"} /\ t = Head(devcb.syncq)
       \/ at(t) = "abort_sync" /\ opncb[tsk[t].dd].abort_cnt = 0

\* The first of the queue is done.  Whoever is first then waits for its turn.
LEMMA SyncQueueLeft ==
  ASSUME SyncQueue, TypeOK, NEW t \in Task, OtherTasks(t), tsk'[t].at = "idle",
         at(t) \in Queueing, t = Head(devcb.syncq), Leaves(masked \ {t}, t),
         \A u \in masked \ {t} : at(u) = "abort_sync" /\ opncb[tsk[u].dd].abort_cnt = 0 =>
                                    opncb'[tsk[u].dd].abort_cnt = 0
  PROVE  SyncQueue'
<1>. DEFINE q == devcb.syncq
            rest == WithoutElement(q, t)
<1>1. /\ q \in Unrepeated(Task) /\ ToSet(q) = {u \in Task : at(u) \in Queueing}
      /\ masked \subseteq Task
  BY DEF SyncQueue, TypeOK
<1>2. /\ rest \in Unrepeated(Task)
      /\ ToSet(rest) = ToSet(q) \ {t}
  BY <1>1, Removed
<1>3. /\ devcb'.syncq = rest
      /\ masked' = IF rest = <<>> THEN masked \ {t} ELSE (masked \ {t}) \cup {Head(rest)}
  BY DEF Leaves, without, WithoutElement
<1>4. rest # <<>> => Head(rest) \in ToSet(q) \ {t}
  BY <1>2, TailElements
<1>. HIDE DEF rest, q
<1>5. ToSet(rest) = {u \in Task : tsk'[u].at \in Queueing}
  BY <1>1, <1>2 DEF OtherTasks, Queueing
<1>6. \A u \in Task \ {t} : at(u) \notin Calling
  BY DEF SyncQueue
<1>7. \A u \in Task : tsk'[u].at \notin Calling
  BY <1>6 DEF OtherTasks, Calling
<1>8. ASSUME NEW u \in masked \ {t}
      PROVE  tsk'[u].at = "abort_sync" /\ opncb'[tsk'[u].dd].abort_cnt = 0
  BY <1>1 DEF SyncQueue, OtherTasks
<1>9. rest # <<>> => tsk'[Head(rest)].at \in {"open_sync", "close_sync"}
  BY <1>1, <1>2, <1>4, <1>5, <1>7 DEF Queueing, Calling
<1>. QED
  BY <1>2, <1>3, <1>5, <1>7, <1>8, <1>9 DEF SyncQueue

\* A step that has nothing to do with the queue.
LEMMA SyncQueueStays ==
  ASSUME SyncQueue, TypeOK, NEW t \in Task, OtherTasks(t), devcb' = devcb,
         at(t) \notin Queueing, tsk'[t].at \notin Queueing, masked' \subseteq Task,
         \A u \in masked' : \/ u \in masked /\ at(u) \in {"open_sync", "close_sync"}
                            \/ tsk'[u].at = "abort_sync" /\ opncb'[tsk'[u].dd].abort_cnt = 0
  PROVE  SyncQueue'
<1>1. {u \in Task : tsk'[u].at \in Queueing} = {u \in Task : at(u) \in Queueing}
  BY DEF OtherTasks
<1>2. \A u \in Task : tsk'[u].at \in Calling => u = Head(devcb.syncq)
  BY DEF SyncQueue, OtherTasks, Queueing, Calling
<1>3. ASSUME NEW u \in masked', u \in masked, at(u) \in {"open_sync", "close_sync"}
      PROVE  tsk'[u].at \in {"open_sync", "close_sync"} /\ u = Head(devcb.syncq)
  BY <1>3 DEF SyncQueue, OtherTasks, Queueing
<1>. QED
  BY <1>1, <1>2, <1>3 DEF SyncQueue

\* A task enters the queue; it calls the driver at once when the queue was empty.
LEMMA SyncQueueEntered ==
  ASSUME SyncQueue, TypeOK, NEW t \in Task, OtherTasks(t), masked' = masked,
         devcb'.syncq = Append(devcb.syncq, t),
         at(t) \notin Queueing, at(t) # "abort_sync", tsk'[t].at \in Queueing,
         tsk'[t].at \in Calling => devcb.syncq = <<>>,
         \A u \in masked \ {t} : at(u) = "abort_sync" /\ opncb[tsk[u].dd].abort_cnt = 0 =>
                                    opncb'[tsk[u].dd].abort_cnt = 0
  PROVE  SyncQueue'
<1>. DEFINE q == devcb.syncq
<1>1. /\ q \in Unrepeated(Task) /\ q \in Seq(Task) /\ masked \subseteq Task
      /\ ToSet(q) = {u \in Task : at(u) \in Queueing}
  BY DEF SyncQueue, TypeOK, Unrepeated
<1>2. t \notin ToSet(q)
  BY <1>1
<1>3. Append(q, t) \in Unrepeated(Task) /\ ToSet(Append(q, t)) = ToSet(q) \cup {t}
  BY <1>1, <1>2, Appended
<1>4. Head(Append(q, t)) = IF q = <<>> THEN t ELSE Head(q)
  BY <1>1, AppendedHead
<1>5. q = <<>> => ToSet(q) = {}
  BY <1>1, Elements
<1>. HIDE DEF q
<1>6. ToSet(Append(q, t)) = {u \in Task : tsk'[u].at \in Queueing}
  BY <1>1, <1>3 DEF OtherTasks
<1>7. devcb'.syncq = Append(q, t)
  BY DEF q
<1>8. ASSUME NEW u \in Task, tsk'[u].at \in Calling PROVE u = Head(devcb'.syncq)
  <2>1. CASE u = t
    BY <1>4, <1>7, <1>8, <2>1 DEF q
  <2>2. CASE u # t
    <3>1. at(u) \in Calling /\ at(u) \in Queueing
      BY <1>8, <2>2 DEF OtherTasks, Calling, Queueing
    <3>2. u = Head(q) /\ u \in ToSet(q)
      BY <1>1, <3>1 DEF SyncQueue, q
    <3>. QED
      BY <1>4, <1>5, <1>7, <3>2
  <2>. QED
    BY <2>1, <2>2
<1>9. ASSUME NEW u \in masked
      PROVE  \/ tsk'[u].at \in {"open_sync", "close_sync"} /\ u = Head(devcb'.syncq)
             \/ tsk'[u].at = "abort_sync" /\ opncb'[tsk'[u].dd].abort_cnt = 0
  <2>1. u \in Task /\ u # t
    BY <1>1 DEF SyncQueue, Queueing
  <2>2. CASE at(u) \in {"open_sync", "close_sync"}
    <3>1. u = Head(q) /\ u \in ToSet(q)
      BY <1>1, <2>1, <2>2 DEF SyncQueue, Queueing, q
    <3>. QED
      BY <1>4, <1>5, <1>7, <2>1, <2>2, <3>1 DEF OtherTasks
  <2>3. CASE at(u) = "abort_sync" /\ opncb[tsk[u].dd].abort_cnt = 0
    BY <2>1, <2>3 DEF OtherTasks
  <2>. QED
    BY <2>2, <2>3 DEF SyncQueue
<1>. QED
  BY <1>3, <1>6, <1>7, <1>8, <1>9 DEF SyncQueue

\* The first of the queue calls the driver.
LEMMA SyncQueueTurn ==
  ASSUME SyncQueue, TypeOK, NEW t \in Task, OtherTasks(t), devcb' = devcb, opncb' = opncb,
         at(t) \in {"open_sync", "close_sync"}, t \in masked, masked' = masked \ {t},
         tsk'[t].at \in Calling
  PROVE  SyncQueue'
<1>1. t = Head(devcb.syncq)
  BY DEF SyncQueue
<1>2. {u \in Task : tsk'[u].at \in Queueing} = {u \in Task : at(u) \in Queueing}
  BY DEF OtherTasks, Queueing, Calling
<1>3. \A u \in masked' : u \in Task \ {t} /\ at(u) = "abort_sync"
      /\ opncb[tsk[u].dd].abort_cnt = 0
  BY <1>1 DEF SyncQueue, TypeOK
<1>. QED
  BY <1>1, <1>2, <1>3 DEF SyncQueue, OtherTasks

-----------------------------------------------------------------------------
(* Tasks in the driver *)

\* A set of tasks that gains or loses one.
LEMMA Sizes ==
  ASSUME NEW S \in SUBSET Task, NEW t
  PROVE  /\ Cardinality(S \cup {t}) = IF t \in S THEN Cardinality(S) ELSE Cardinality(S) + 1
         /\ Cardinality(S \ {t}) = IF t \in S THEN Cardinality(S) - 1 ELSE Cardinality(S)
<1>1. IsFiniteSet(S)
  BY DeviceAssumption, FS_Subset
<1>. QED
  BY <1>1, FS_AddElement, FS_RemoveElement

\* The size of a set of tasks.
LEMMA Size ==
  ASSUME NEW S \in SUBSET Task
  PROVE  /\ Cardinality(S) \in Nat
         /\ Cardinality(S) = 0 <=> S = {}
<1>1. IsFiniteSet(S)
  BY DeviceAssumption, FS_Subset
<1>. QED
  BY <1>1, FS_CardinalityType, FS_EmptySet

\* A step of t changes the tasks in the driver by t.
LEMMA InDriverMoves ==
  ASSUME NEW t \in Task, OtherTasks(t), NEW o
  PROVE  InDriver(o)' = IF tsk'[t].at \in Serving /\ tsk'[t].dd = o
                        THEN InDriver(o) \cup {t} ELSE InDriver(o) \ {t}
BY DEF InDriver, OtherTasks

\* The count of an abort is a number, and positive while a task is in the driver.
LEMMA AbortCount ==
  ASSUME Aborts, NEW o \in Opn, opncb[o].abort_tskid # None
  PROVE  /\ opncb[o].abort_cnt = Cardinality(InDriver(o))
         /\ opncb[o].abort_cnt \in Nat
         /\ opncb[o].abort_cnt = 0 <=> InDriver(o) = {}
<1>1. InDriver(o) \in SUBSET Task
  BY DEF InDriver
<1>. QED
  BY <1>1, Size DEF Aborts

\* The task that t counts down for waits at abort_sync when t is the last one.
LEMMA LastOne ==
  ASSUME NEW t \in Task, Overlap = {}, TypeOK, SyncQueue, Aborts, Undisturbed(t),
         at(t) \in Serving, NEW o \in Opn, o = tsk[t].dd, Counted(o), OtherOpns(o),
         OtherTasks(t)
  PROVE  \A u \in masked' : \/ u \in masked /\ at(u) \in {"open_sync", "close_sync"}
                            \/ tsk'[u].at = "abort_sync" /\ opncb'[tsk'[u].dd].abort_cnt = 0
<1>. SUFFICES ASSUME NEW u \in masked'
              PROVE  \/ u \in masked /\ at(u) \in {"open_sync", "close_sync"}
                     \/ tsk'[u].at = "abort_sync" /\ opncb'[tsk'[u].dd].abort_cnt = 0
  OBVIOUS
<1>1. t \in InDriver(o)
  BY DEF InDriver
<1>2. CASE u \in masked /\ at(u) = "abort_sync" /\ opncb[tsk[u].dd].abort_cnt = 0
  <2>1. u \in Task /\ u # t /\ tsk[u].dd \in Opn
    BY <1>2 DEF TypeOK, Serving
  <2>2. opncb[tsk[u].dd].abort_tskid = u /\ u # None
    BY <1>2, <2>1, DeviceAssumption DEF Aborts, Aborting
  <2>3. tsk[u].dd # o
    BY <1>1, <1>2, <2>1, <2>2, AbortCount
  <2>. QED
    BY <1>2, <2>1, <2>3 DEF OtherOpns, OtherTasks
<1>3. CASE u \notin masked
  <2>1. /\ opncb[o].abort_tskid # None /\ opncb[o].abort_cnt - 1 = 0
        /\ u = opncb[o].abort_tskid
        /\ opncb'[o].abort_cnt = opncb[o].abort_cnt - 1
    BY <1>3 DEF Counted
  <2>2. u \in Task /\ at(u) \in Aborting /\ tsk[u].dd = o
    BY <2>1 DEF Aborts
  <2>3. at(u) # "abort_check"
    BY <2>2 DEF Undisturbed
  <2>4. at(u) # "abort_done"
    BY <1>1, <2>2 DEF Aborts, Drained
  <2>5. at(u) = "abort_sync" /\ u # t
    BY <2>2, <2>3, <2>4 DEF Aborting, Serving
  <2>. QED
    BY <2>1, <2>2, <2>5 DEF OtherTasks
<1>. QED
  BY <1>2, <1>3 DEF SyncQueue

\* SyncQueue is kept.
LEMMA SyncQueueKept ==
  ASSUME Overlap = {}, TypeOK, TypeOK', Descriptors, SyncQueue, Aborts,
         NEW t \in Task, StepEffect(t)
  PROVE  SyncQueue'
<1>. DEFINE waked(u) == at(u) = "abort_sync" /\ opncb[tsk[u].dd].abort_cnt = 0
            stays(u) == waked(u) => opncb'[tsk[u].dd].abort_cnt = 0
<1>1. ASSUME NEW u \in masked
      PROVE  /\ u \in Task
             /\ waked(u) => tsk[u].dd \in Opn /\ opncb[tsk[u].dd].inuse
             /\ at(u) \in {"open_sync", "close_sync"} \/ waked(u)
  BY DEF SyncQueue, TypeOK, Descriptors, DescriptorFits
<1>2. ASSUME NEW o \in Opn, OtherOpns(o), \A u \in masked \ {t} : waked(u) => tsk[u].dd # o
      PROVE  \A u \in masked \ {t} : stays(u)
  BY <1>1, <1>2 DEF OtherOpns
<1>3. ASSUME NEW o \in Opn, OtherOpns(o), opncb'[o].abort_cnt = opncb[o].abort_cnt
      PROVE  \A u \in masked \ {t} : stays(u)
  BY <1>1, <1>3 DEF OtherOpns
<1>4. ASSUME opncb' = opncb
      PROVE  \A u \in masked \ {t} : stays(u)
  BY <1>4
<1>5. ASSUME at(t) \in Opening \cup Closing
      PROVE  \A u \in masked \ {t} : waked(u) => tsk[u].dd # tsk[t].dd
  BY <1>1, <1>5 DEF Descriptors, Closing
<1>6. ASSUME \A u \in masked \ {t} : stays(u), masked' = masked, OtherTasks(t), devcb' = devcb,
             at(t) \notin Queueing, tsk'[t].at \notin Queueing, at(t) # "abort_sync"
      PROVE  SyncQueue'
  <2>1. t \notin masked
    BY <1>1, <1>6 DEF Queueing
  <2>2. \A u \in masked : \/ at(u) \in {"open_sync", "close_sync"}
                          \/ tsk'[u].at = "abort_sync" /\ opncb'[tsk'[u].dd].abort_cnt = 0
    BY <1>1, <1>6, <2>1 DEF OtherTasks
  <2>. QED
    BY <1>6, <2>2, SyncQueueStays DEF TypeOK
<1>7. ASSUME NEW o \in Opn, at(t) \in Serving, o = tsk[t].dd, Counted(o), OtherOpns(o),
             OtherTasks(t),
             tsk'[t].at \in {"idle", "sync"}, devcb' = devcb, Undisturbed(t)
      PROVE  SyncQueue'
  <2>1. masked' \subseteq Task
    BY DEF TypeOK
  <2>. QED
    BY <1>7, <2>1, LastOne, SyncQueueStays DEF Serving, Queueing
<1>8. ASSUME NEW m, Leaves(m, t), OtherTasks(t), tsk'[t].at = "idle",
             \/ at(t) \in Calling /\ m = masked
             \/ at(t) \in {"open_sync", "close_sync"} /\ t \in masked /\ m = masked \ {t},
             \A u \in masked \ {t} : stays(u)
      PROVE  SyncQueue'
  <2>1. m = masked \ {t} /\ t = Head(devcb.syncq) /\ at(t) \in Queueing
    BY <1>1, <1>8 DEF SyncQueue, Calling, Queueing
  <2>. QED
    BY <1>8, <2>1, SyncQueueLeft
<1>9. ASSUME devcb'.syncq = Append(devcb.syncq, t), OtherTasks(t), masked' = masked,
             at(t) \in {"idle", "close_enter"}, tsk'[t].at \in Queueing,
             tsk'[t].at \in Calling => devcb.syncq = <<>>,
             \A u \in masked \ {t} : stays(u)
      PROVE  SyncQueue'
  BY <1>9, SyncQueueEntered DEF Queueing
<1>. USE DEF KeepsDescriptor, KeepsRest, KeepsAbort, Becomes, Moves
<1>. HIDE DEF stays, waked
<1>10. CASE \E o \in Opn, unitno \in Unit, omode \in Modes : OpenEffect(t, o, unitno, omode)
  <2>1. PICK o \in Opn, unitno \in Unit, omode \in Modes : OpenEffect(t, o, unitno, omode)
    BY <1>10
  <2>2. \A u \in masked \ {t} : stays(u)
    BY <1>1, <1>2, <2>1 DEF OpenEffect
  <2>3. CASE tsk' = tsk /\ devcb' = devcb
    BY <1>6, <2>1, <2>2, <2>3 DEF OpenEffect, Queueing
  <2>4. CASE devcb'.syncq = Append(devcb.syncq, t)
    BY <1>9, <2>1, <2>2, <2>4 DEF OpenEffect, Queueing, Calling
  <2>. QED
    BY <2>1, <2>3, <2>4 DEF OpenEffect
<1>11. CASE \E o \in Opn : CloseEffect(t, o)
  BY <1>3, <1>6, <1>11 DEF CloseEffect, Queueing
<1>12. CASE \E o \in Opn, sync \in BOOLEAN : RequestEffect(t, o, sync)
  BY <1>3, <1>6, <1>12 DEF RequestEffect, Queueing
<1>13. CASE \E o \in Opn, r \in Req : WaiEffect(t, o, r)
  BY <1>3, <1>6, <1>13 DEF WaiEffect, WaitsForOneOf, Queueing
<1>14. CASE \E o \in Opn : WaitAnyEffect(t, o)
  BY <1>3, <1>6, <1>14 DEF WaitAnyEffect, Queueing
<1>15. CASE Undisturbed(t) /\ (ExecSucceedsEffect(t) \/ ExecFailsEffect(t))
  BY <1>7, <1>15 DEF ExecSucceedsEffect, ExecFailsEffect, Serving
<1>16. CASE Undisturbed(t) /\ \E i \in {0} \cup DOMAIN tsk[t].requests : WaitfnEffect(t, i)
  BY <1>7, <1>16 DEF WaitfnEffect, Serving
<1>17. CASE SyncWaitEffect(t)
  BY <1>3, <1>6, <1>17 DEF SyncWaitEffect, WaitsForOneOf, Queueing
<1>18. CASE AbortEffect(t)
  BY <1>2, <1>5, <1>6, <1>18 DEF AbortEffect, Queueing, Closing
<1>19. CASE AbortCheckEffect(t)
  BY <1>4, <1>6, <1>19 DEF AbortCheckEffect, Queueing
<1>20. CASE AbortSyncEffect(t)
  <2>1. \A u \in masked \ {t} : stays(u)
    BY <1>4, <1>20 DEF AbortSyncEffect
  <2>2. \A u \in masked' : \/ u \in masked /\ at(u) \in {"open_sync", "close_sync"}
                           \/ tsk'[u].at = "abort_sync" /\ opncb'[tsk'[u].dd].abort_cnt = 0
    BY <1>1, <1>20, <2>1 DEF AbortSyncEffect, OtherTasks, stays, waked
  <2>3. masked' \subseteq Task
    BY DEF TypeOK
  <2>. QED
    BY <1>20, <2>2, <2>3, SyncQueueStays DEF AbortSyncEffect, Queueing
<1>21. CASE AbortDoneEffect(t)
  BY <1>2, <1>5, <1>6, <1>21 DEF AbortDoneEffect, Drains, Queueing, Closing, Drained
<1>22. CASE DrainedEffect(t)
  BY <1>3, <1>6, <1>22 DEF DrainedEffect, Drains, Queueing
<1>23. ASSUME NEW o \in Opn, o = tsk[t].dd, Freed(o), at(t) \in Opening \cup Closing
       PROVE  \A u \in masked \ {t} : stays(u)
  BY <1>2, <1>5, <1>23 DEF Freed
<1>24. CASE CloseEnterEffect(t)
  <2>1. \A u \in masked \ {t} : stays(u)
    BY <1>4, <1>23, <1>24 DEF CloseEnterEffect, Closing, Drained
  <2>2. CASE devcb'.syncq = Append(devcb.syncq, t)
    BY <1>9, <1>24, <2>1, <2>2 DEF CloseEnterEffect, Queueing, Calling
  <2>3. CASE devcb' = devcb /\ tsk'[t].at = "idle" /\ OtherTasks(t)
    BY <1>6, <1>24, <2>1, <2>3 DEF CloseEnterEffect, Queueing
  <2>. QED
    BY <1>24, <2>2, <2>3 DEF CloseEnterEffect
<1>25. CASE CloseTurnEffect(t)
  <2>1. CASE devcb' = devcb /\ opncb' = opncb /\ masked' = masked \ {t} /\ Moves(t, "closefn")
    BY <1>25, <2>1, SyncQueueTurn DEF CloseTurnEffect, Calling
  <2>2. CASE Closed(masked \ {t}, t, tsk[t].dd)
    BY <1>8, <1>23, <1>25, <2>2 DEF CloseTurnEffect, Closed, Closing, Drained
  <2>. QED
    BY <1>25, <2>1, <2>2 DEF CloseTurnEffect
<1>26. CASE OpenTurnEffect(t)
  <2>1. CASE devcb' = devcb /\ opncb' = opncb /\ masked' = masked \ {t} /\ Moves(t, "openfn")
    BY <1>26, <2>1, SyncQueueTurn DEF OpenTurnEffect, Calling
  <2>2. CASE Opened(masked \ {t}, t, tsk[t].dd)
    BY <1>3, <1>8, <1>26, <2>2 DEF OpenTurnEffect, Opened
  <2>. QED
    BY <1>26, <2>1, <2>2 DEF OpenTurnEffect
<1>27. CASE OpenfnSucceedsEffect(t)
  BY <1>3, <1>8, <1>27 DEF OpenfnSucceedsEffect, Opened, Calling
<1>28. CASE OpenfnFailsEffect(t)
  BY <1>8, <1>23, <1>28 DEF OpenfnFailsEffect, Closed, Calling, Opening
<1>29. CASE ClosefnEffect(t)
  BY <1>8, <1>23, <1>29 DEF ClosefnEffect, Closed, Calling, Closing, Drained
<1>. HIDE DEF KeepsDescriptor, KeepsRest, KeepsAbort, Becomes, Moves
<1>. QED
  BY <1>10, <1>11, <1>12, <1>13, <1>14, <1>15, <1>16, <1>17, <1>18, <1>19, <1>20, <1>21, <1>22,
     <1>24, <1>25, <1>26, <1>27, <1>28, <1>29, Zenon DEF StepEffect

-----------------------------------------------------------------------------
(* The requests *)

\* The requests in a descriptor's queue are its own.
QueueFits(o) ==
  /\ opncb[o].requestq \in Unrepeated(Req)
  /\ \A r \in ToSet(opncb[o].requestq) : reqcb[r].opncb = o

\* A request is in the hands of a task that is in the driver with it.
HandFits(r) ==
  reqcb[r].tskid # None =>
    /\ reqcb[r].tskid \in Task /\ at(reqcb[r].tskid) \in Serving
    /\ r \in ToSet(tsk[reqcb[r].tskid].requests)

\* What a task has in the driver is in its hands and in the queue of the descriptor.
RequestsFit(t) ==
  /\ at(t) \in Serving \cup {"drain"} =>
       ToSet(tsk[t].requests) \subseteq ToSet(opncb[tsk[t].dd].requestq)
  /\ at(t) \in Serving => \A r \in ToSet(tsk[t].requests) : reqcb[r].tskid = t
  /\ at(t) \in Serving \cup {"sync", "drain"} /\ ~tsk[t].any =>
       \E r \in Req : tsk[t].requests = <<r>>

Requests ==
  /\ \A o \in Opn : QueueFits(o)
  /\ \A r \in Req : HandFits(r)
  /\ \A t \in Task : RequestsFit(t)

\* A task with one request.
LEMMA One ==
  ASSUME NEW r \in Req
  PROVE  <<r>> \in Seq(Req) /\ ToSet(<<r>>) = {r} /\ <<r>>[1] = r
<1>. DEFINE q == <<r>>
<1>1. q \in Seq(Req) /\ Len(q) = 1 /\ q[1] = r
  OBVIOUS
<1>. HIDE DEF q
<1>2. ToSet(q) = {q[i] : i \in 1 .. Len(q)}
  BY <1>1, Elements
<1>3. q \in Seq(Req) /\ ToSet(q) = {r} /\ q[1] = r
  BY <1>1, <1>2
<1>. QED
  BY <1>3 DEF q

\* What is in no queue is in no hand.
LEMMA RequestSets ==
  ASSUME TypeOK
  PROVE  /\ \A o \in Opn : ToSet(opncb[o].requestq) \subseteq Req
         /\ \A t \in Task : ToSet(tsk[t].requests) \subseteq Req
<1>1. ASSUME NEW o \in Opn PROVE opncb[o].requestq \in Seq(Req)
  BY DEF TypeOK, OpnRecord
<1>2. ASSUME NEW t \in Task PROVE tsk[t].requests \in Seq(Req)
  BY Placed
<1>. QED
  BY <1>1, <1>2, Elements

USE DEF QueueFits, HandFits, RequestsFit

\* Two tasks do not have the same request.
LEMMA NotShared ==
  ASSUME TypeOK, Descriptors, Aborts, Requests, NEW t \in Task, NEW u \in Task \ {t},
         at(t) \in Serving \cup {"drain"}, at(u) \in Serving \cup {"drain"}
  PROVE  ToSet(tsk[t].requests) \cap ToSet(tsk[u].requests) = {}
<1>. SUFFICES ASSUME NEW r \in Req, r \in ToSet(tsk[t].requests), r \in ToSet(tsk[u].requests)
              PROVE  FALSE
  BY RequestSets
<1>1. tsk[t].dd \in Opn /\ tsk[u].dd \in Opn
  BY DEF TypeOK, Serving
<1>2. r \in ToSet(opncb[tsk[t].dd].requestq) /\ r \in ToSet(opncb[tsk[u].dd].requestq)
  BY DEF Requests
<1>3. tsk[t].dd = tsk[u].dd
  BY <1>1, <1>2 DEF Requests
<1>4. CASE at(t) \in Serving /\ at(u) \in Serving
  BY <1>4 DEF Requests
<1>5. CASE at(t) = "drain" /\ at(u) = "drain"
  BY <1>3, <1>5 DEF Descriptors, Closing, Drained
<1>6. CASE at(t) \in Serving /\ at(u) = "drain"
  BY <1>3, <1>6 DEF Aborts, Drained, InDriver
<1>7. CASE at(t) = "drain" /\ at(u) \in Serving
  BY <1>3, <1>7 DEF Aborts, Drained, InDriver
<1>. QED
  BY <1>4, <1>5, <1>6, <1>7

\* A step that leaves the requests as they are; a task that drains turns to one of them.
LEMMA RequestsStay ==
  ASSUME Requests, TypeOK, NEW t \in Task, OtherTasks(t), reqcb' = reqcb,
         \A o \in Opn : opncb'[o].requestq = opncb[o].requestq,
         at(t) \notin Serving, tsk'[t].at \notin Serving \cup {"sync"},
         tsk'[t].at = "drain" =>
           /\ tsk'[t].dd = tsk[t].dd
           /\ \E r \in Req : r \in ToSet(opncb[tsk[t].dd].requestq) /\ tsk'[t].requests = <<r>>,
         TypeOK'
  PROVE  Requests'
<1>1. ASSUME NEW u \in Task
      PROVE  /\ at(u) # "idle" => tsk[u].dd \in Opn
             /\ tsk'[u].at # "idle" => tsk'[u].dd \in Opn
  BY DEF TypeOK
<1>2. \A r \in Req : reqcb[r].tskid # None => reqcb[r].tskid # t
  BY DEF Requests
<1>3. \A r \in Req : reqcb[r].tskid # None =>
        /\ tsk'[reqcb[r].tskid].at \in Serving
        /\ r \in ToSet(tsk'[reqcb[r].tskid].requests)
  BY <1>2 DEF Requests, OtherTasks
<1>4. ASSUME NEW u \in Task \ {t}
      PROVE  /\ tsk'[u].at \in Serving \cup {"drain"} =>
                  ToSet(tsk'[u].requests) \subseteq ToSet(opncb'[tsk'[u].dd].requestq)
             /\ tsk'[u].at \in Serving => \A r \in ToSet(tsk'[u].requests) : reqcb[r].tskid = u
             /\ tsk'[u].at \in Serving \cup {"sync", "drain"} /\ ~tsk'[u].any =>
                  \E r \in Req : tsk'[u].requests = <<r>>
  BY <1>1 DEF Requests, OtherTasks, Serving
<1>5. ASSUME tsk'[t].at = "drain"
      PROVE  /\ ToSet(tsk'[t].requests) \subseteq ToSet(opncb'[tsk'[t].dd].requestq)
             /\ \E r \in Req : tsk'[t].requests = <<r>>
  <2>1. PICK r \in Req : r \in ToSet(opncb[tsk[t].dd].requestq) /\ tsk'[t].requests = <<r>>
    BY <1>5
  <2>2. tsk'[t].dd = tsk[t].dd /\ tsk'[t].dd \in Opn
    BY <1>1, <1>5
  <2>3. ToSet(tsk'[t].requests) = {r}
    BY <2>1, One
  <2>. QED
    BY <2>1, <2>2, <2>3
<1>6. \A o \in Opn : /\ opncb'[o].requestq \in Unrepeated(Req)
                     /\ \A r \in ToSet(opncb'[o].requestq) : reqcb[r].opncb = o
  BY DEF Requests
<1>. QED
  BY <1>3, <1>4, <1>5, <1>6 DEF Requests

\* A descriptor that no other task uses has no requests any more.
LEMMA RequestsFreed ==
  ASSUME Requests, TypeOK, NEW t \in Task, OtherTasks(t), reqcb' = reqcb, TypeOK',
         NEW o \in Opn, OtherOpns(o), opncb'[o].requestq = <<>>,
         \A u \in Task \ {t} : at(u) # "idle" => tsk[u].dd # o,
         at(t) \notin Serving, tsk'[t].at \notin Serving \cup {"sync", "drain"}
  PROVE  Requests'
<1>1. ASSUME NEW u \in Task
      PROVE  at(u) # "idle" => tsk[u].dd \in Opn
  BY DEF TypeOK
<1>2. <<>> \in Unrepeated(Req) /\ ToSet(<<>>) = {}
  BY EmptySequence
<1>3. \A r \in Req : reqcb[r].tskid # None => reqcb[r].tskid # t
  BY DEF Requests
<1>4. \A r \in Req : reqcb[r].tskid # None =>
        /\ tsk'[reqcb[r].tskid].at \in Serving
        /\ r \in ToSet(tsk'[reqcb[r].tskid].requests)
  BY <1>3 DEF Requests, OtherTasks
<1>5. ASSUME NEW u \in Task \ {t}
      PROVE  /\ tsk'[u].at \in Serving \cup {"drain"} =>
                  ToSet(tsk'[u].requests) \subseteq ToSet(opncb'[tsk'[u].dd].requestq)
             /\ tsk'[u].at \in Serving => \A r \in ToSet(tsk'[u].requests) : reqcb[r].tskid = u
             /\ tsk'[u].at \in Serving \cup {"sync", "drain"} /\ ~tsk'[u].any =>
                  \E r \in Req : tsk'[u].requests = <<r>>
  <2>1. CASE at(u) # "idle"
    <3>1. tsk[u].dd \in Opn /\ opncb'[tsk[u].dd] = opncb[tsk[u].dd]
      BY <1>1, <2>1 DEF OtherOpns
    <3>. QED
      BY <3>1 DEF Requests, OtherTasks
  <2>2. CASE at(u) = "idle"
    BY <2>2 DEF OtherTasks, Serving
  <2>. QED
    BY <2>1, <2>2
<1>6. ASSUME NEW p \in Opn
      PROVE  /\ opncb'[p].requestq \in Unrepeated(Req)
             /\ \A r \in ToSet(opncb'[p].requestq) : reqcb[r].opncb = p
  <2>1. CASE p = o
    BY <1>2, <2>1
  <2>2. CASE p # o
    <3>1. opncb'[p] = opncb[p]
      BY <2>2 DEF OtherOpns
    <3>. QED
      BY <3>1 DEF Requests
  <2>. QED
    BY <2>1, <2>2
<1>. QED
  BY <1>4, <1>5, <1>6 DEF Requests

\* A task waits for requests of o that nobody waits for.
LEMMA RequestsTaken ==
  ASSUME Requests, TypeOK, TypeOK', NEW t \in Task, OtherTasks(t), NEW o \in Opn,
         \A p \in Opn : opncb'[p].requestq = opncb[p].requestq,
         at(t) \notin Serving, tsk'[t].at = "waitfn", tsk'[t].dd = o,
         ToSet(tsk'[t].requests) \subseteq ToSet(opncb[o].requestq),
         tsk'[t].any \/ \E r \in Req : tsk'[t].requests = <<r>>,
         \A r \in Req :
           /\ reqcb'[r].opncb = reqcb[r].opncb
           /\ r \in ToSet(tsk'[t].requests) => reqcb[r].tskid = None /\ reqcb'[r].tskid = t
           /\ r \notin ToSet(tsk'[t].requests) => reqcb'[r].tskid = reqcb[r].tskid
  PROVE  Requests'
<1>. DEFINE mine == ToSet(tsk'[t].requests)
<1>1. ASSUME NEW u \in Task
      PROVE  at(u) # "idle" => tsk[u].dd \in Opn
  BY DEF TypeOK
<1>2. /\ \A p \in Opn : ToSet(opncb[p].requestq) \subseteq Req
      /\ \A u \in Task : ToSet(tsk[u].requests) \subseteq Req
  BY RequestSets
<1>. HIDE DEF mine
<1>3. ASSUME NEW r \in Req, reqcb'[r].tskid # None
      PROVE  /\ reqcb'[r].tskid \in Task /\ tsk'[reqcb'[r].tskid].at \in Serving
             /\ r \in ToSet(tsk'[reqcb'[r].tskid].requests)
  <2>1. CASE r \in mine
    BY <2>1 DEF Serving, mine
  <2>2. CASE r \notin mine
    <3>1. reqcb'[r].tskid = reqcb[r].tskid /\ reqcb[r].tskid # t
      BY <1>3, <2>2 DEF mine, Requests
    <3>. QED
      BY <1>3, <3>1 DEF Requests, OtherTasks
  <2>. QED
    BY <2>1, <2>2
<1>4. ASSUME NEW u \in Task \ {t}
      PROVE  RequestsFit(u)'
  <2>1. CASE at(u) # "idle"
    <3>1. tsk[u].dd \in Opn /\ ToSet(tsk[u].requests) \subseteq Req /\ u # None
      BY <1>1, <1>2, <2>1, DeviceAssumption
    <3>2. ASSUME at(u) \in Serving, NEW r \in ToSet(tsk[u].requests)
          PROVE  reqcb'[r].tskid = u
      <4>1. reqcb[r].tskid = u /\ r \in Req
        BY <3>1, <3>2 DEF Requests
      <4>. QED
        BY <3>1, <4>1
    <3>. QED
      BY <3>1, <3>2 DEF Requests, OtherTasks
  <2>2. CASE at(u) = "idle"
    BY <2>2 DEF OtherTasks, Serving
  <2>. QED
    BY <2>1, <2>2
<1>5. RequestsFit(t)'
  <2>1. \A r \in mine : reqcb'[r].tskid = t
    BY <1>2 DEF mine
  <2>. QED
    BY <2>1 DEF mine
<1>6. \A p \in Opn : QueueFits(p)'
  BY <1>2 DEF Requests
<1>7. \A r \in Req : HandFits(r)'
  BY <1>3
<1>. HIDE DEF QueueFits, HandFits, RequestsFit
<1>. QED
  BY <1>4, <1>5, <1>6, <1>7 DEF Requests

\* A new request.
LEMMA RequestsAdded ==
  ASSUME Requests, TypeOK, TypeOK', NEW t \in Task, OtherTasks(t), NEW o \in Opn, OtherOpns(o),
         NEW r \in Req, reqcb[r].opncb = None, reqcb'[r].opncb = o, reqcb'[r].tskid = t,
         OtherReqs(r), opncb'[o].requestq = Append(opncb[o].requestq, r),
         at(t) = "idle", tsk'[t].at = "execfn", tsk'[t].dd = o, tsk'[t].requests = <<r>>
  PROVE  Requests'
<1>. DEFINE q == opncb[o].requestq
<1>1. ASSUME NEW u \in Task
      PROVE  at(u) # "idle" => tsk[u].dd \in Opn
  BY DEF TypeOK
<1>2. /\ \A p \in Opn : ToSet(opncb[p].requestq) \subseteq Req
      /\ \A u \in Task : ToSet(tsk[u].requests) \subseteq Req
  BY RequestSets
<1>3. \A p \in Opn : r \notin ToSet(opncb[p].requestq)
  BY DeviceAssumption DEF Requests
<1>4. q \in Unrepeated(Req) /\ Append(q, r) \in Unrepeated(Req)
      /\ ToSet(Append(q, r)) = ToSet(q) \cup {r}
  <2>1. q \in Unrepeated(Req) /\ r \notin ToSet(q)
    BY <1>3 DEF Requests
  <2>. QED
    BY <2>1, Appended
<1>5. \A p \in Opn : ToSet(opncb[p].requestq) \subseteq ToSet(opncb'[p].requestq)
  BY <1>4 DEF OtherOpns
<1>6. ASSUME NEW p \in Opn
      PROVE  /\ opncb'[p].requestq \in Unrepeated(Req)
             /\ \A x \in ToSet(opncb'[p].requestq) : reqcb'[x].opncb = p
  <2>1. \A x \in ToSet(opncb[p].requestq) : reqcb'[x].opncb = p
    BY <1>2, <1>3 DEF OtherReqs, Requests
  <2>2. CASE p = o
    BY <1>4, <2>1, <2>2
  <2>3. CASE p # o
    BY <2>1, <2>3 DEF OtherOpns, Requests
  <2>. QED
    BY <2>2, <2>3
<1>7. ToSet(tsk'[t].requests) = {r}
  BY One
<1>8. ASSUME NEW x \in Req, reqcb'[x].tskid # None
      PROVE  /\ reqcb'[x].tskid \in Task /\ tsk'[reqcb'[x].tskid].at \in Serving
             /\ x \in ToSet(tsk'[reqcb'[x].tskid].requests)
  <2>1. CASE x = r
    BY <1>7, <2>1 DEF Serving
  <2>2. CASE x # r
    <3>1. reqcb'[x] = reqcb[x] /\ reqcb[x].tskid # t
      BY <1>8, <2>2 DEF OtherReqs, Requests, Serving
    <3>. QED
      BY <1>8, <3>1 DEF Requests, OtherTasks
  <2>. QED
    BY <2>1, <2>2
<1>9. ASSUME NEW u \in Task \ {t}
      PROVE  RequestsFit(u)'
  <2>1. CASE at(u) # "idle"
    <3>1. tsk[u].dd \in Opn /\ ToSet(tsk[u].requests) \subseteq Req
      BY <1>1, <1>2, <2>1
    <3>2. ASSUME at(u) \in Serving, NEW x \in ToSet(tsk[u].requests)
          PROVE  reqcb'[x].tskid = u
      <4>1. reqcb[x].tskid = u /\ x \in Req /\ x \in ToSet(opncb[tsk[u].dd].requestq)
        BY <3>1, <3>2 DEF Requests
      <4>. QED
        BY <1>3, <3>1, <4>1 DEF OtherReqs
    <3>3. at(u) \in Serving \cup {"drain"} =>
            ToSet(tsk[u].requests) \subseteq ToSet(opncb'[tsk[u].dd].requestq)
      BY <1>5, <3>1 DEF Requests
    <3>4. at(u) \in Serving \cup {"sync", "drain"} /\ ~tsk[u].any =>
            \E x \in Req : tsk[u].requests = <<x>>
      BY DEF Requests
    <3>. QED
      BY <3>2, <3>3, <3>4 DEF OtherTasks
  <2>2. CASE at(u) = "idle"
    BY <2>2 DEF OtherTasks, Serving
  <2>. QED
    BY <2>1, <2>2
<1>10. RequestsFit(t)'
  BY <1>4, <1>7
<1>11. /\ \A p \in Opn : QueueFits(p)'
       /\ \A x \in Req : HandFits(x)'
  BY <1>6, <1>8
<1>. HIDE DEF QueueFits, HandFits, RequestsFit
<1>. QED
  BY <1>9, <1>10, <1>11 DEF Requests

\* A task is back from the driver, or has drained a request: its requests are in no hands,
\* and those that are gone leave the queue.
LEMMA RequestsDone ==
  ASSUME Requests, TypeOK, TypeOK', NEW t \in Task, OtherTasks(t), NEW o \in Opn, o = tsk[t].dd,
         at(t) \in Serving \cup {"drain"}, tsk'[t].at \notin Serving,
         \A u \in Task \ {t} : at(u) \in Serving \cup {"drain"} =>
           ToSet(tsk[t].requests) \cap ToSet(tsk[u].requests) = {},
         NEW gone, gone \subseteq ToSet(tsk[t].requests), OtherOpns(o),
         opncb'[o].requestq \in Unrepeated(Req),
         ToSet(opncb'[o].requestq) = ToSet(opncb[o].requestq) \ gone,
         \A r \in Req :
           /\ r \notin ToSet(tsk[t].requests) => reqcb'[r] = reqcb[r]
           /\ r \in ToSet(tsk[t].requests) => reqcb'[r].tskid = None
           /\ r \notin gone => reqcb'[r].opncb = reqcb[r].opncb,
         tsk'[t].at \in {"sync", "drain"} =>
           /\ tsk'[t].dd = o
           /\ \E r \in Req : tsk'[t].requests = <<r>>
                             /\ (tsk'[t].at = "drain" => r \in ToSet(opncb'[o].requestq))
  PROVE  Requests'
<1>1. ASSUME NEW u \in Task
      PROVE  at(u) # "idle" => tsk[u].dd \in Opn
  BY DEF TypeOK
<1>2. /\ \A p \in Opn : ToSet(opncb[p].requestq) \subseteq Req
      /\ \A u \in Task : ToSet(tsk[u].requests) \subseteq Req
  BY RequestSets
<1>3. gone \subseteq ToSet(opncb[o].requestq)
  BY DEF Requests
<1>4. ASSUME NEW p \in Opn PROVE QueueFits(p)'
  <2>1. CASE p = o
    BY <1>2, <2>1 DEF Requests
  <2>2. CASE p # o
    <3>1. opncb'[p] = opncb[p]
      BY <2>2 DEF OtherOpns
    <3>2. \A r \in ToSet(opncb[p].requestq) : r \in Req \ gone
      BY <1>2, <1>3, <2>2 DEF Requests
    <3>. QED
      BY <3>1, <3>2 DEF Requests
  <2>. QED
    BY <2>1, <2>2
<1>5. ASSUME NEW r \in Req PROVE HandFits(r)'
  <2>. SUFFICES ASSUME reqcb'[r].tskid # None
                PROVE  /\ reqcb'[r].tskid \in Task /\ tsk'[reqcb'[r].tskid].at \in Serving
                       /\ r \in ToSet(tsk'[reqcb'[r].tskid].requests)
    OBVIOUS
  <2>1. r \notin ToSet(tsk[t].requests) /\ reqcb'[r] = reqcb[r]
    OBVIOUS
  <2>2. reqcb[r].tskid # t
    BY <2>1 DEF Requests
  <2>. QED
    BY <2>1, <2>2 DEF Requests, OtherTasks
<1>6. ASSUME NEW u \in Task \ {t} PROVE RequestsFit(u)'
  <2>1. CASE at(u) # "idle"
    <3>1. tsk[u].dd \in Opn /\ ToSet(tsk[u].requests) \subseteq Req
      BY <1>1, <1>2, <2>1
    <3>2. ASSUME at(u) \in Serving, NEW r \in ToSet(tsk[u].requests)
          PROVE  reqcb'[r].tskid = u
      <4>1. reqcb[r].tskid = u /\ r \in Req /\ r \notin ToSet(tsk[t].requests)
        BY <3>1, <3>2 DEF Requests
      <4>. QED
        BY <4>1
    <3>3. ASSUME at(u) \in Serving \cup {"drain"}
          PROVE  ToSet(tsk[u].requests) \subseteq ToSet(opncb'[tsk[u].dd].requestq)
      <4>1. ToSet(tsk[u].requests) \subseteq ToSet(opncb[tsk[u].dd].requestq) \ gone
        BY <3>3 DEF Requests
      <4>. QED
        BY <3>1, <4>1 DEF OtherOpns
    <3>4. at(u) \in Serving \cup {"sync", "drain"} /\ ~tsk[u].any =>
            \E r \in Req : tsk[u].requests = <<r>>
      BY DEF Requests
    <3>. QED
      BY <3>2, <3>3, <3>4 DEF OtherTasks
  <2>2. CASE at(u) = "idle"
    BY <2>2 DEF OtherTasks, Serving
  <2>. QED
    BY <2>1, <2>2
<1>7. RequestsFit(t)'
  <2>1. CASE tsk'[t].at \in {"sync", "drain"}
    <3>1. PICK r \in Req : /\ tsk'[t].requests = <<r>>
                           /\ tsk'[t].at = "drain" => r \in ToSet(opncb'[o].requestq)
      BY <2>1
    <3>2. ToSet(tsk'[t].requests) = {r}
      BY <3>1, One
    <3>. QED
      BY <2>1, <3>1, <3>2
  <2>2. CASE tsk'[t].at \notin {"sync", "drain"}
    BY <2>2
  <2>. QED
    BY <2>1, <2>2
<1>. HIDE DEF QueueFits, HandFits, RequestsFit
<1>. QED
  BY <1>4, <1>5, <1>6, <1>7 DEF Requests

\* QueRemove of a request of the queue.
LEMMA QueueWithout ==
  ASSUME NEW q \in Unrepeated(Req), NEW r \in Req
  PROVE  without(q, r) \in Unrepeated(Req) /\ ToSet(without(q, r)) = ToSet(q) \ {r}
BY Removed DEF without, WithoutElement

\* Requests is kept.
LEMMA RequestsKept ==
  ASSUME Overlap = {}, TypeOK, TypeOK', Descriptors, Aborts, Requests,
         \A u \in Task : tsk[u].any => at(u) = "waitfn",
         NEW t \in Task, StepEffect(t)
  PROVE  Requests'
<1>. USE DEF Becomes, Moves
<1>1. ASSUME NEW u \in Task
      PROVE  /\ at(u) # "idle" => tsk[u].dd \in Opn
             /\ ToSet(tsk[u].requests) \subseteq Req
  BY RequestSets DEF TypeOK
<1>2. ASSUME NEW o \in Opn, OtherOpns(o), opncb'[o].requestq = opncb[o].requestq
      PROVE  \A p \in Opn : opncb'[p].requestq = opncb[p].requestq
  BY <1>2 DEF OtherOpns
<1>3. ASSUME reqcb' = reqcb, OtherTasks(t), \A p \in Opn : opncb'[p].requestq = opncb[p].requestq,
             at(t) \notin Serving, tsk'[t].at \notin Serving \cup {"sync", "drain"}
      PROVE  Requests'
  BY <1>3, RequestsStay
<1>4. ASSUME reqcb' = reqcb, OtherTasks(t), NEW o \in Opn, Freed(o), tsk'[t].at = "idle",
             at(t) \in Opening \cup Drained, o = tsk[t].dd
      PROVE  Requests'
  <2>1. at(t) \notin Serving
    BY <1>4 DEF Serving, Opening, Drained
  <2>2. \A u \in Task \ {t} : at(u) # "idle" => tsk[u].dd # o
    BY <1>4, Alone
  <2>3. opncb'[o].requestq = <<>> /\ OtherOpns(o)
    BY <1>4 DEF Freed, FreeOpn
  <2>. QED
    BY <1>4, <2>1, <2>2, <2>3, RequestsFreed DEF Serving
<1>5. ASSUME NEW o \in Opn, QueueFits(o), NEW r \in Req
      PROVE  /\ without(opncb[o].requestq, r) \in Unrepeated(Req)
             /\ ToSet(without(opncb[o].requestq, r)) = ToSet(opncb[o].requestq) \ {r}
  BY <1>5, QueueWithout
<1>6. at(t) \in Serving \cup {"drain"} =>
        \A u \in Task \ {t} : at(u) \in Serving \cup {"drain"} =>
           ToSet(tsk[t].requests) \cap ToSet(tsk[u].requests) = {}
  BY NotShared
<1>7. at(t) \in {"execfn", "sync", "drain"} =>
        /\ tsk[t].requests[1] \in Req
        /\ tsk[t].requests = <<tsk[t].requests[1]>>
        /\ ToSet(tsk[t].requests) = {tsk[t].requests[1]}
  <2>. SUFFICES ASSUME at(t) \in {"execfn", "sync", "drain"}
                PROVE  /\ tsk[t].requests[1] \in Req
                       /\ tsk[t].requests = <<tsk[t].requests[1]>>
                       /\ ToSet(tsk[t].requests) = {tsk[t].requests[1]}
    OBVIOUS
  <2>1. ~tsk[t].any
    OBVIOUS
  <2>2. PICK r \in Req : tsk[t].requests = <<r>>
    BY <2>1 DEF Requests, Serving
  <2>. QED
    BY <2>2, One
<1>. USE DEF KeepsDescriptor, KeepsRest, KeepsAbort
<1>. HIDE DEF QueueFits, HandFits, RequestsFit
<1>8. CASE \E o \in Opn, unitno \in Unit, omode \in Modes : OpenEffect(t, o, unitno, omode)
  <2>1. PICK o \in Opn, unitno \in Unit, omode \in Modes : OpenEffect(t, o, unitno, omode)
    BY <1>8
  <2>2. \A u \in Task \ {t} : at(u) # "idle" => tsk[u].dd # o
    BY <2>1, Alone DEF OpenEffect
  <2>3. /\ at(t) = "idle" /\ OtherOpns(o) /\ OtherTasks(t) /\ opncb'[o].requestq = <<>>
        /\ reqcb' = reqcb /\ tsk'[t].at \in {"open_sync", "openfn", "idle"}
    BY <2>1 DEF OpenEffect
  <2>. QED
    BY <2>2, <2>3, RequestsFreed DEF Serving
<1>9. CASE \E o \in Opn : CloseEffect(t, o)
  BY <1>2, <1>3, <1>9 DEF CloseEffect, Serving
<1>10. CASE \E o \in Opn, sync \in BOOLEAN : RequestEffect(t, o, sync)
  <2>1. PICK o \in Opn, sync \in BOOLEAN : RequestEffect(t, o, sync)
    BY <1>10
  <2>. QED
    BY <2>1, RequestsAdded DEF RequestEffect
<1>11. ASSUME NEW o \in Opn, NEW r \in Req, NEW sync, WaitsForOneOf(t, o, r, sync),
              at(t) \notin Serving
       PROVE  Requests'
  <2>1. ToSet(tsk'[t].requests) = {r} /\ tsk'[t].requests = <<r>>
    BY <1>11, One DEF WaitsForOneOf
  <2>2. r \in ToSet(opncb[o].requestq) /\ reqcb[r].tskid = None
    BY <1>11 DEF WaitsForOneOf, waitable
  <2>3. \A x \in Req : /\ reqcb'[x].opncb = reqcb[x].opncb
                       /\ x = r => reqcb'[x].tskid = t
                       /\ x # r => reqcb'[x].tskid = reqcb[x].tskid
    BY <1>11 DEF WaitsForOneOf, OtherReqs
  <2>4. \A p \in Opn : opncb'[p].requestq = opncb[p].requestq
    BY <1>2, <1>11 DEF WaitsForOneOf
  <2>5. OtherTasks(t) /\ tsk'[t].at = "waitfn" /\ tsk'[t].dd = o
    BY <1>11 DEF WaitsForOneOf
  <2>. QED
    BY <1>11, <2>1, <2>2, <2>3, <2>4, <2>5, RequestsTaken
<1>12. CASE \E o \in Opn, r \in Req : WaiEffect(t, o, r)
  BY <1>11, <1>12 DEF WaiEffect, Serving
<1>13. CASE \E o \in Opn : WaitAnyEffect(t, o)
  <2>1. PICK o \in Opn : WaitAnyEffect(t, o)
    BY <1>13
  <2>2. \A p \in Opn : opncb'[p].requestq = opncb[p].requestq
    BY <1>2, <2>1 DEF WaitAnyEffect
  <2>3. tsk'[t].requests = opncb[o].requestq /\ at(t) \notin Serving
    BY <2>1 DEF WaitAnyEffect, Serving
  <2>4. \A r \in Req :
          /\ reqcb'[r].opncb = reqcb[r].opncb
          /\ r \in ToSet(tsk'[t].requests) => reqcb[r].tskid = None /\ reqcb'[r].tskid = t
          /\ r \notin ToSet(tsk'[t].requests) => reqcb'[r].tskid = reqcb[r].tskid
    BY <2>1, <2>3 DEF WaitAnyEffect
  <2>5. OtherTasks(t) /\ tsk'[t].at = "waitfn" /\ tsk'[t].dd = o /\ tsk'[t].any
    BY <2>1 DEF WaitAnyEffect
  <2>. QED
    BY <2>2, <2>3, <2>4, <2>5, RequestsTaken
<1>14. CASE ExecSucceedsEffect(t)
  <2>. DEFINE o == tsk[t].dd r == tsk[t].requests[1] gone == {}
  <2>1. /\ at(t) = "execfn" /\ o \in Opn /\ r \in Req /\ OtherTasks(t) /\ OtherOpns(o)
        /\ opncb'[o].requestq = opncb[o].requestq
        /\ reqcb'[r].opncb = reqcb[r].opncb /\ reqcb'[r].tskid = None /\ OtherReqs(r)
        /\ \/ tsk'[t].at = "sync" /\ tsk'[t].dd = o /\ tsk'[t].requests = tsk[t].requests
           \/ tsk'[t].at = "idle"
    BY <1>14 DEF ExecSucceedsEffect
  <2>2. opncb[o].requestq \in Unrepeated(Req)
    BY <2>1 DEF Requests, QueueFits
  <2>3. ToSet(tsk[t].requests) = {r} /\ tsk[t].requests = <<r>>
    BY <1>7, <2>1
  <2>4. ToSet(opncb'[o].requestq) = ToSet(opncb[o].requestq) \ gone
    BY <2>1
  <2>5. \A x \in Req :
          /\ x \notin ToSet(tsk[t].requests) => reqcb'[x] = reqcb[x]
          /\ x \in ToSet(tsk[t].requests) => reqcb'[x].tskid = None
          /\ x \notin gone => reqcb'[x].opncb = reqcb[x].opncb
    BY <2>1, <2>3 DEF OtherReqs
  <2>6. tsk'[t].at \in {"sync", "drain"} =>
          /\ tsk'[t].dd = o
          /\ \E x \in Req : tsk'[t].requests = <<x>>
                            /\ (tsk'[t].at = "drain" => x \in ToSet(opncb'[o].requestq))
    BY <2>1, <2>3
  <2>7. o = tsk[t].dd
    OBVIOUS
  <2>. HIDE DEF o, r, gone
  <2>8. at(t) \in Serving \cup {"drain"} /\ tsk'[t].at \notin Serving
    BY <2>1 DEF Serving
  <2>9. gone \subseteq ToSet(tsk[t].requests) /\ opncb'[o].requestq \in Unrepeated(Req)
    BY <2>1, <2>2 DEF gone
  <2>10. o \in Opn /\ OtherTasks(t) /\ OtherOpns(o)
    BY <2>1
  <2>. QED
    BY <1>6, <2>4, <2>5, <2>6, <2>7, <2>8, <2>9, <2>10, RequestsDone
<1>15. CASE ExecFailsEffect(t) \/ DrainedEffect(t)
  <2>. DEFINE o == tsk[t].dd r == tsk[t].requests[1] gone == {r}
  <2>1. /\ at(t) \in {"execfn", "drain"} /\ o \in Opn /\ r \in Req /\ OtherTasks(t)
        /\ OtherOpns(o)
        /\ opncb'[o].requestq = without(opncb[o].requestq, r)
        /\ reqcb'[r].tskid = None /\ OtherReqs(r)
    BY <1>15 DEF ExecFailsEffect, DrainedEffect, Drains
  <2>2. /\ opncb'[o].requestq \in Unrepeated(Req)
        /\ ToSet(opncb'[o].requestq) = ToSet(opncb[o].requestq) \ gone
    BY <1>5, <2>1 DEF Requests
  <2>3. ToSet(tsk[t].requests) = {r} /\ tsk[t].requests = <<r>>
    BY <1>7, <2>1
  <2>4. \A x \in Req :
          /\ x \notin ToSet(tsk[t].requests) => reqcb'[x] = reqcb[x]
          /\ x \in ToSet(tsk[t].requests) => reqcb'[x].tskid = None
          /\ x \notin gone => reqcb'[x].opncb = reqcb[x].opncb
    BY <2>1, <2>3 DEF OtherReqs
  <2>5. \/ tsk'[t].at \in {"idle", "close_enter"}
        \/ /\ tsk'[t].at = "drain" /\ tsk'[t].dd = o
           /\ \E x \in Req : x \in ToSet(opncb'[o].requestq) /\ tsk'[t].requests = <<x>>
    <3>1. CASE ExecFailsEffect(t)
      BY <3>1 DEF ExecFailsEffect
    <3>2. CASE DrainedEffect(t)
      <4>1. ToSet(opncb[o].requestq) \subseteq Req
        BY <2>1, RequestSets
      <4>. QED
        BY <2>1, <2>2, <3>2, <4>1 DEF DrainedEffect, Drains
    <3>. QED
      BY <1>15, <3>1, <3>2
  <2>6. o = tsk[t].dd
    OBVIOUS
  <2>. HIDE DEF o, r, gone
  <2>7. tsk'[t].at \in {"sync", "drain"} =>
          /\ tsk'[t].dd = o
          /\ \E x \in Req : tsk'[t].requests = <<x>>
                            /\ (tsk'[t].at = "drain" => x \in ToSet(opncb'[o].requestq))
    BY <2>5
  <2>8. at(t) \in Serving \cup {"drain"} /\ tsk'[t].at \notin Serving
    BY <2>1, <2>5 DEF Serving
  <2>9. gone \subseteq ToSet(tsk[t].requests) /\ o \in Opn /\ OtherTasks(t) /\ OtherOpns(o)
    BY <2>1, <2>3 DEF gone
  <2>10. \A u \in Task \ {t} : at(u) \in Serving \cup {"drain"} =>
           ToSet(tsk[t].requests) \cap ToSet(tsk[u].requests) = {}
    BY <1>6, <2>8
  <2>. HIDE DEF Becomes, Moves, KeepsDescriptor, KeepsRest, KeepsAbort
  <2>. QED
    BY <2>2, <2>4, <2>6, <2>7, <2>8, <2>9, <2>10, RequestsDone
<1>16. CASE \E i \in {0} \cup DOMAIN tsk[t].requests : WaitfnEffect(t, i)
  <2>1. PICK i \in {0} \cup DOMAIN tsk[t].requests : WaitfnEffect(t, i)
    BY <1>16
  <2>. DEFINE o == tsk[t].dd
              requests == tsk[t].requests
              gone == IF i = 0 THEN {} ELSE {requests[i]}
  <2>2. /\ at(t) = "waitfn" /\ o \in Opn /\ OtherTasks(t) /\ OtherOpns(o)
        /\ tsk'[t].at = "idle"
        /\ i # 0 => requests[i] \in Req /\ requests[i] \in ToSet(requests)
        /\ opncb'[o].requestq =
             IF i = 0 THEN opncb[o].requestq ELSE without(opncb[o].requestq, requests[i])
    BY <2>1 DEF WaitfnEffect
  <2>3. \A r \in Req :
          /\ r \notin ToSet(requests) => reqcb'[r] = reqcb[r]
          /\ r \in ToSet(requests) => reqcb'[r].tskid = None
          /\ r \notin gone => reqcb'[r].opncb = reqcb[r].opncb
    BY <2>1 DEF WaitfnEffect
  <2>4. /\ opncb'[o].requestq \in Unrepeated(Req)
        /\ ToSet(opncb'[o].requestq) = ToSet(opncb[o].requestq) \ gone
    <3>1. opncb[o].requestq \in Unrepeated(Req) /\ QueueFits(o)
      BY <2>2 DEF Requests, QueueFits
    <3>. QED
      BY <1>5, <2>2, <3>1
  <2>5. gone \subseteq ToSet(requests) /\ o = tsk[t].dd /\ requests = tsk[t].requests
    BY <2>2
  <2>. HIDE DEF o, requests, gone
  <2>6. at(t) \in Serving \cup {"drain"} /\ tsk'[t].at \notin Serving
    BY <2>2 DEF Serving
  <2>7. tsk'[t].at \notin {"sync", "drain"} /\ o \in Opn /\ OtherTasks(t) /\ OtherOpns(o)
    BY <2>2
  <2>. QED
    BY <1>6, <2>3, <2>4, <2>5, <2>6, <2>7, RequestsDone
<1>17. CASE SyncWaitEffect(t)
  <2>1. at(t) \notin Serving
    BY <1>17 DEF SyncWaitEffect, Serving
  <2>2. CASE WaitsForOneOf(t, tsk[t].dd, tsk[t].requests[1], TRUE)
    BY <1>1, <1>7, <1>11, <1>17, <2>1, <2>2 DEF SyncWaitEffect
  <2>3. CASE ~WaitsForOneOf(t, tsk[t].dd, tsk[t].requests[1], TRUE)
    <3>1. PICK p \in Opn : /\ OtherOpns(p) /\ opncb'[p].requestq = opncb[p].requestq
                           /\ reqcb' = reqcb /\ tsk'[t].at = "idle" /\ OtherTasks(t)
      BY <1>17, <2>3 DEF SyncWaitEffect
    <3>. QED
      BY <1>2, <1>3, <2>1, <3>1 DEF Serving
  <2>. QED
    BY <2>2, <2>3
<1>18. CASE AbortEffect(t)
  BY <1>2, <1>3, <1>18 DEF AbortEffect, Serving
<1>19. CASE AbortCheckEffect(t)
  BY <1>3, <1>19 DEF AbortCheckEffect, Serving
<1>20. CASE AbortSyncEffect(t)
  BY <1>3, <1>20 DEF AbortSyncEffect, Serving
<1>21. CASE AbortDoneEffect(t)
  <2>. DEFINE o == tsk[t].dd
  <2>1. /\ at(t) = "abort_done" /\ o \in Opn /\ OtherTasks(t) /\ reqcb' = reqcb
        /\ \A p \in Opn : opncb'[p].requestq = opncb[p].requestq
        /\ Drains(t, opncb[o].requestq)
    BY <1>2, <1>21 DEF AbortDoneEffect, Drains
  <2>2. ToSet(opncb[o].requestq) \subseteq Req
    BY <2>1, RequestSets
  <2>3. tsk'[t].at \in {"drain", "close_enter"}
    BY <2>1 DEF Drains
  <2>4. tsk'[t].at = "drain" =>
           /\ tsk'[t].dd = tsk[t].dd
           /\ \E r \in Req : r \in ToSet(opncb[tsk[t].dd].requestq) /\ tsk'[t].requests = <<r>>
    BY <2>1, <2>2 DEF Drains
  <2>. HIDE DEF o
  <2>5. at(t) \notin Serving /\ tsk'[t].at \notin Serving \cup {"sync"}
    BY <2>1, <2>3 DEF Serving
  <2>. QED
    BY <2>1, <2>4, <2>5, RequestsStay
<1>22. CASE CloseEnterEffect(t)
  BY <1>3, <1>4, <1>22 DEF CloseEnterEffect, Serving, Drained
<1>23. CASE CloseTurnEffect(t)
  BY <1>3, <1>4, <1>23 DEF CloseTurnEffect, Closed, Serving, Drained
<1>24. CASE OpenTurnEffect(t)
  BY <1>2, <1>3, <1>24 DEF OpenTurnEffect, Opened, Serving
<1>25. CASE OpenfnSucceedsEffect(t)
  BY <1>2, <1>3, <1>25 DEF OpenfnSucceedsEffect, Opened, Serving
<1>26. CASE OpenfnFailsEffect(t)
  BY <1>4, <1>26 DEF OpenfnFailsEffect, Closed, Opening
<1>27. CASE ClosefnEffect(t)
  BY <1>4, <1>27 DEF ClosefnEffect, Closed, Drained
<1>. HIDE DEF KeepsDescriptor, KeepsRest, KeepsAbort, Becomes, Moves
<1>. QED
  BY <1>8, <1>9, <1>10, <1>12, <1>13, <1>14, <1>15, <1>16, <1>17, <1>18, <1>19, <1>20, <1>21,
     <1>22, <1>23, <1>24, <1>25, <1>26, <1>27, Zenon DEF StepEffect

-----------------------------------------------------------------------------
(* The waits for requests *)

WaitsForOne(o) == {t \in Task : at(t) = "waitfn" /\ tsk[t].dd = o /\ ~tsk[t].any}

\* A task that waits for any request waits for what waireqlst lists.
AnyFits(t) ==
  tsk[t].any =>
    at(t) = "waitfn" /\ ~tsk[t].sync /\ opncb[tsk[t].dd].waireqlst = tsk[t].requests

\* It is the only one in the driver.
ListFits(o) ==
  opncb[o].waireqlst # <<>> => \E t \in Task : tsk[t].any /\ InDriver(o) = {t}

\* waitone and syncreq count the tasks.
CountsFit(o) ==
  /\ opncb[o].waitone = Cardinality(WaitsForOne(o))
  /\ opncb[o].syncreq = Cardinality(Synchronous(o))

Waits ==
  /\ \A t \in Task : AnyFits(t)
  /\ \A o \in Opn : ListFits(o)
  /\ \A o \in Opn : CountsFit(o)

USE DEF AnyFits, ListFits, CountsFit

\* A step of t changes these sets by t.
LEMMA CountedMove ==
  ASSUME NEW t \in Task, OtherTasks(t), NEW o
  PROVE  /\ WaitsForOne(o)' = IF tsk'[t].at = "waitfn" /\ tsk'[t].dd = o /\ ~tsk'[t].any
                              THEN WaitsForOne(o) \cup {t} ELSE WaitsForOne(o) \ {t}
         /\ Synchronous(o)' = IF tsk'[t].at \in Serving \cup {"sync"} /\ tsk'[t].dd = o
                                 /\ tsk'[t].sync
                              THEN Synchronous(o) \cup {t} ELSE Synchronous(o) \ {t}
BY DEF WaitsForOne, Synchronous, OtherTasks

\* A count follows its set when t enters or leaves.
LEMMA CountFollows ==
  ASSUME NEW S \in SUBSET Task, NEW t \in Task, NEW n, n = Cardinality(S), NEW in \in BOOLEAN,
         NEW T, T = IF in THEN S \cup {t} ELSE S \ {t}
  PROVE  /\ t \in S /\ ~in => n - 1 = Cardinality(T)
         /\ t \notin S /\ in => n + 1 = Cardinality(T)
         /\ (t \in S <=> in) => n = Cardinality(T)
BY Sizes, Size

\* The counts of a descriptor that t has nothing to do with.
LEMMA CountsElsewhere ==
  ASSUME NEW t \in Task, OtherTasks(t), NEW o \in Opn, CountsFit(o),
         opncb'[o].waitone = opncb[o].waitone, opncb'[o].syncreq = opncb[o].syncreq,
         at(t) \in Serving \cup {"sync"} => tsk[t].dd # o,
         tsk'[t].at \in Serving \cup {"sync"} => tsk'[t].dd # o
  PROVE  CountsFit(o)'
<1>1. t \notin WaitsForOne(o) /\ t \notin Synchronous(o)
  BY DEF WaitsForOne, Synchronous, Serving
<1>2. WaitsForOne(o)' = WaitsForOne(o) \ {t} /\ Synchronous(o)' = Synchronous(o) \ {t}
  BY CountedMove DEF Serving
<1>3. WaitsForOne(o)' = WaitsForOne(o) /\ Synchronous(o)' = Synchronous(o)
  BY <1>1, <1>2
<1>. QED
  BY <1>3

\* A step that has nothing to do with requests in the driver.
LEMMA WaitsStay ==
  ASSUME Waits, TypeOK, NEW t \in Task, OtherTasks(t), \A o \in Opn : KeepsWaits(o),
         at(t) \notin Serving \cup {"sync"}, tsk'[t].at \notin Serving \cup {"sync"}, ~tsk'[t].any
  PROVE  Waits'
<1>. USE DEF KeepsWaits
<1>1. ASSUME NEW u \in Task
      PROVE  at(u) # "idle" => tsk[u].dd \in Opn
  BY DEF TypeOK
<1>2. ASSUME NEW u \in Task PROVE AnyFits(u)'
  BY <1>1 DEF Waits, OtherTasks
<1>3. ASSUME NEW o \in Opn PROVE ListFits(o)'
  <2>1. InDriver(o)' = InDriver(o)
    BY InDriverMoves DEF InDriver
  <2>2. ~tsk[t].any
    BY DEF Waits, Serving
  <2>. QED
    BY <2>1, <2>2 DEF Waits, OtherTasks
<1>4. ASSUME NEW o \in Opn PROVE CountsFit(o)'
  BY CountsElsewhere DEF Waits
<1>. HIDE DEF AnyFits, ListFits, CountsFit
<1>. QED
  BY <1>2, <1>3, <1>4 DEF Waits

\* A descriptor that no other task uses is assigned without requests.
LEMMA WaitsFreed ==
  ASSUME Waits, TypeOK, NEW t \in Task, OtherTasks(t), NEW o \in Opn, OtherOpns(o),
         opncb'[o].waireqlst = <<>>, opncb'[o].waitone = 0, opncb'[o].syncreq = 0,
         \A u \in Task \ {t} : at(u) # "idle" => tsk[u].dd # o,
         at(t) \notin Serving \cup {"sync"}, tsk'[t].at \notin Serving \cup {"sync"}, ~tsk'[t].any
  PROVE  Waits'
<1>1. ASSUME NEW u \in Task
      PROVE  at(u) # "idle" => tsk[u].dd \in Opn
  BY DEF TypeOK
<1>2. ASSUME NEW u \in Task PROVE AnyFits(u)'
  <2>1. CASE u # t
    <3>1. tsk[u].any => opncb'[tsk[u].dd] = opncb[tsk[u].dd]
      BY <1>1, <2>1 DEF Waits, OtherOpns
    <3>. QED
      BY <2>1, <3>1 DEF Waits, OtherTasks
  <2>. QED
    BY <2>1
<1>3. ASSUME NEW p \in Opn PROVE ListFits(p)'
  <2>1. CASE p # o
    <3>1. InDriver(p)' = InDriver(p)
      BY InDriverMoves DEF InDriver
    <3>2. ~tsk[t].any
      BY DEF Waits, Serving
    <3>. QED
      BY <2>1, <3>1, <3>2 DEF Waits, OtherTasks, OtherOpns
  <2>. QED
    BY <2>1
<1>4. ASSUME NEW p \in Opn PROVE CountsFit(p)'
  <2>1. CASE p # o
    BY <2>1, CountsElsewhere DEF Waits, OtherOpns
  <2>2. CASE p = o
    <3>1. WaitsForOne(o)' = {} /\ Synchronous(o)' = {}
      BY DEF WaitsForOne, Synchronous, OtherTasks, Serving
    <3>. QED
      BY <2>2, <3>1, FS_EmptySet
  <2>. QED
    BY <2>1, <2>2
<1>. HIDE DEF AnyFits, ListFits, CountsFit
<1>. QED
  BY <1>2, <1>3, <1>4 DEF Waits

\* A step of t that is about requests of o.
LEMMA WaitsMoved ==
  ASSUME Waits, TypeOK, NEW t \in Task, OtherTasks(t), NEW o \in Opn, OtherOpns(o),
         at(t) # "idle" => tsk[t].dd = o, tsk'[t].at # "idle" => tsk'[t].dd = o,
         AnyFits(t)', ListFits(o)', CountsFit(o)',
         \/ opncb'[o].waireqlst = opncb[o].waireqlst
         \/ \A u \in Task \ {t} : tsk[u].any => tsk[u].dd # o
  PROVE  Waits'
<1>1. ASSUME NEW u \in Task
      PROVE  at(u) # "idle" => tsk[u].dd \in Opn
  BY DEF TypeOK
<1>2. ASSUME NEW u \in Task PROVE AnyFits(u)'
  <2>1. CASE u # t
    <3>1. tsk[u].any => opncb'[tsk[u].dd].waireqlst = opncb[tsk[u].dd].waireqlst
      BY <1>1, <2>1 DEF Waits, OtherOpns
    <3>. QED
      BY <2>1, <3>1 DEF Waits, OtherTasks
  <2>. QED
    BY <2>1
<1>3. ASSUME NEW p \in Opn PROVE ListFits(p)'
  <2>1. CASE p # o
    <3>1. InDriver(p)' = InDriver(p)
      BY <2>1, InDriverMoves DEF InDriver, Serving
    <3>2. \A u \in InDriver(p) : u \in Task \ {t}
      BY <2>1 DEF InDriver, Serving
    <3>. QED
      BY <2>1, <3>1, <3>2 DEF Waits, OtherTasks, OtherOpns
  <2>. QED
    BY <2>1
<1>4. ASSUME NEW p \in Opn PROVE CountsFit(p)'
  <2>1. CASE p # o
    <3>1. at(t) \in Serving \cup {"sync"} => tsk[t].dd # p
      BY <2>1 DEF Serving
    <3>2. tsk'[t].at \in Serving \cup {"sync"} => tsk'[t].dd # p
      BY <2>1 DEF Serving
    <3>. QED
      BY <2>1, <3>1, <3>2, CountsElsewhere DEF Waits, OtherOpns
  <2>. QED
    BY <2>1
<1>. HIDE DEF AnyFits, ListFits, CountsFit
<1>. QED
  BY <1>2, <1>3, <1>4 DEF Waits

\* The counts follow when t enters the driver, leaves it, or goes on in it.
LEMMA CountsMoved ==
  ASSUME NEW t \in Task, OtherTasks(t), NEW o \in Opn, CountsFit(o), TypeOK, TypeOK'
  PROVE  LET cb == opncb[o] cb1 == opncb'[o]
             one == at(t) = "waitfn" /\ tsk[t].dd = o /\ ~tsk[t].any
             one1 == tsk'[t].at = "waitfn" /\ tsk'[t].dd = o /\ ~tsk'[t].any
             sync == at(t) \in Serving \cup {"sync"} /\ tsk[t].dd = o /\ tsk[t].sync
             sync1 == tsk'[t].at \in Serving \cup {"sync"} /\ tsk'[t].dd = o /\ tsk'[t].sync
         IN  /\ \/ one /\ ~one1 /\ cb1.waitone = cb.waitone - 1
                \/ ~one /\ one1 /\ cb1.waitone = cb.waitone + 1
                \/ (one <=> one1) /\ cb1.waitone = cb.waitone
             /\ \/ sync /\ ~sync1 /\ cb1.syncreq = cb.syncreq - 1
                \/ ~sync /\ sync1 /\ cb1.syncreq = cb.syncreq + 1
                \/ (sync <=> sync1) /\ cb1.syncreq = cb.syncreq
             => CountsFit(o)'
<1>. DEFINE one == at(t) = "waitfn" /\ tsk[t].dd = o /\ ~tsk[t].any
            one1 == tsk'[t].at = "waitfn" /\ tsk'[t].dd = o /\ ~tsk'[t].any
            sync == at(t) \in Serving \cup {"sync"} /\ tsk[t].dd = o /\ tsk[t].sync
            sync1 == tsk'[t].at \in Serving \cup {"sync"} /\ tsk'[t].dd = o /\ tsk'[t].sync
            S == WaitsForOne(o)
            Y == Synchronous(o)
<1>1. /\ S \in SUBSET Task /\ (t \in S <=> one)
      /\ Y \in SUBSET Task /\ (t \in Y <=> sync)
  BY DEF WaitsForOne, Synchronous
<1>2. /\ WaitsForOne(o)' = IF one1 THEN S \cup {t} ELSE S \ {t}
      /\ Synchronous(o)' = IF sync1 THEN Y \cup {t} ELSE Y \ {t}
  BY CountedMove
<1>3. /\ opncb[o].waitone = Cardinality(S) /\ opncb[o].syncreq = Cardinality(Y)
      /\ one1 \in BOOLEAN /\ sync1 \in BOOLEAN
  BY Placed
<1>4. CountsFit(o)' <=> /\ opncb'[o].waitone = Cardinality(WaitsForOne(o)')
                        /\ opncb'[o].syncreq = Cardinality(Synchronous(o)')
  OBVIOUS
<1>. HIDE DEF S, Y, one1, sync1, one, sync, CountsFit
<1>5. /\ one /\ ~one1 => opncb[o].waitone - 1 = Cardinality(WaitsForOne(o)')
      /\ ~one /\ one1 => opncb[o].waitone + 1 = Cardinality(WaitsForOne(o)')
      /\ (one <=> one1) => opncb[o].waitone = Cardinality(WaitsForOne(o)')
  BY <1>1, <1>2, <1>3, CountFollows
<1>6. /\ sync /\ ~sync1 => opncb[o].syncreq - 1 = Cardinality(Synchronous(o)')
      /\ ~sync /\ sync1 => opncb[o].syncreq + 1 = Cardinality(Synchronous(o)')
      /\ (sync <=> sync1) => opncb[o].syncreq = Cardinality(Synchronous(o)')
  BY <1>1, <1>2, <1>3, CountFollows
<1>7. /\ \/ one /\ ~one1 /\ opncb'[o].waitone = opncb[o].waitone - 1
         \/ ~one /\ one1 /\ opncb'[o].waitone = opncb[o].waitone + 1
         \/ (one <=> one1) /\ opncb'[o].waitone = opncb[o].waitone
      /\ \/ sync /\ ~sync1 /\ opncb'[o].syncreq = opncb[o].syncreq - 1
         \/ ~sync /\ sync1 /\ opncb'[o].syncreq = opncb[o].syncreq + 1
         \/ (sync <=> sync1) /\ opncb'[o].syncreq = opncb[o].syncreq
      => CountsFit(o)'
  BY <1>4, <1>5, <1>6
<1>. QED
  BY <1>7 DEF one, one1, sync, sync1

\* Waits is kept.
LEMMA WaitsKept ==
  ASSUME Overlap = {}, TypeOK, TypeOK', Descriptors, Aborts, Requests, Waits,
         NEW t \in Task, StepEffect(t)
  PROVE  Waits'
<1>. USE DEF Becomes, Moves
<1>. HIDE DEF QueueFits, HandFits, RequestsFit
<1>1. /\ at(t) # "idle" => tsk[t].dd \in Opn
      /\ tsk[t].sync \in BOOLEAN /\ tsk[t].any \in BOOLEAN
      /\ tsk[t].any => at(t) = "waitfn"
  BY Placed DEF Waits
<1>2. ASSUME NEW o \in Opn, OtherOpns(o), KeepsWaits(o)
      PROVE  \A p \in Opn : KeepsWaits(p)
  BY <1>2 DEF OtherOpns, KeepsWaits
<1>3. ASSUME opncb' = opncb
      PROVE  \A p \in Opn : KeepsWaits(p)
  BY <1>3 DEF KeepsWaits
<1>4. ASSUME OtherTasks(t), \A p \in Opn : KeepsWaits(p), at(t) \notin Serving \cup {"sync"},
             tsk'[t].at \notin Serving \cup {"sync"},
             tsk'[t].any = FALSE \/ tsk'[t].any = tsk[t].any
      PROVE  Waits'
  <2>1. ~tsk'[t].any
    BY <1>1, <1>4 DEF Serving
  <2>. QED
    BY <1>4, <2>1, WaitsStay
<1>5. ASSUME OtherTasks(t), NEW o \in Opn, Freed(o), tsk'[t].at = "idle", ~tsk'[t].any,
             at(t) \in Opening \cup Drained, o = tsk[t].dd
      PROVE  Waits'
  <2>1. at(t) \notin Serving \cup {"sync"}
    BY <1>5 DEF Serving, Opening, Drained
  <2>2. \A u \in Task \ {t} : at(u) # "idle" => tsk[u].dd # o
    BY <1>5, Alone
  <2>3. opncb'[o].waireqlst = <<>> /\ opncb'[o].waitone = 0 /\ opncb'[o].syncreq = 0
        /\ OtherOpns(o)
    BY <1>5 DEF Freed, FreeOpn
  <2>. QED
    BY <1>5, <2>1, <2>2, <2>3, WaitsFreed DEF Serving
<1>6. ASSUME NEW o \in Opn PROVE CountsFit(o) /\ ListFits(o)
  BY <1>6 DEF Waits
<1>. USE DEF KeepsDescriptor, KeepsRest, KeepsAbort, KeepsWaits
<1>7. CASE \E o \in Opn, unitno \in Unit, omode \in Modes : OpenEffect(t, o, unitno, omode)
  <2>1. PICK o \in Opn, unitno \in Unit, omode \in Modes : OpenEffect(t, o, unitno, omode)
    BY <1>7
  <2>2. \A u \in Task \ {t} : at(u) # "idle" => tsk[u].dd # o
    BY <2>1, Alone DEF OpenEffect
  <2>3. /\ at(t) = "idle" /\ OtherOpns(o) /\ OtherTasks(t) /\ opncb'[o].waireqlst = <<>>
        /\ opncb'[o].waitone = 0 /\ opncb'[o].syncreq = 0
        /\ tsk'[t].at \in {"open_sync", "openfn", "idle"}
    BY <2>1 DEF OpenEffect
  <2>4. ~tsk'[t].any
    BY <1>1, <2>1 DEF OpenEffect
  <2>. QED
    BY <2>2, <2>3, <2>4, WaitsFreed DEF Serving
<1>8. CASE \E o \in Opn : CloseEffect(t, o)
  BY <1>2, <1>4, <1>8 DEF CloseEffect, Serving
<1>9. CASE AbortEffect(t)
  BY <1>2, <1>4, <1>9 DEF AbortEffect, Serving
<1>10. CASE AbortCheckEffect(t)
  BY <1>3, <1>4, <1>10 DEF AbortCheckEffect, Serving
<1>11. CASE AbortSyncEffect(t)
  BY <1>3, <1>4, <1>11 DEF AbortSyncEffect, Serving
<1>12. CASE AbortDoneEffect(t)
  BY <1>2, <1>4, <1>12 DEF AbortDoneEffect, Drains, Serving
<1>13. CASE DrainedEffect(t)
  BY <1>2, <1>4, <1>13 DEF DrainedEffect, Drains, Serving
<1>14. CASE CloseEnterEffect(t)
  BY <1>3, <1>4, <1>5, <1>14 DEF CloseEnterEffect, Serving, Drained
<1>15. CASE CloseTurnEffect(t)
  BY <1>3, <1>4, <1>5, <1>15 DEF CloseTurnEffect, Closed, Serving, Drained
<1>16. CASE OpenTurnEffect(t)
  BY <1>2, <1>3, <1>4, <1>16 DEF OpenTurnEffect, Opened, Serving
<1>17. CASE OpenfnSucceedsEffect(t)
  BY <1>2, <1>4, <1>17 DEF OpenfnSucceedsEffect, Opened, Serving
<1>18. CASE OpenfnFailsEffect(t)
  BY <1>5, <1>18 DEF OpenfnFailsEffect, Closed, Opening
<1>19. CASE ClosefnEffect(t)
  BY <1>5, <1>19 DEF ClosefnEffect, Closed, Drained
<1>. HIDE DEF AnyFits, ListFits, CountsFit
<1>20. ASSUME NEW o \in Opn, OtherTasks(t), opncb'[o].waireqlst = <<>>
       PROVE  ListFits(o)'
  BY <1>20 DEF ListFits
\* t is back from the driver, or in a second half.
<1>21. ASSUME NEW o \in Opn, OtherTasks(t), OtherOpns(o), at(t) \in Serving \cup {"sync"},
              ~tsk[t].any, o = tsk[t].dd, ~tsk'[t].any,
              tsk'[t].at = "idle" \/ (tsk'[t].at \in Serving \cup {"sync"} /\ tsk'[t].dd = o),
              opncb'[o].waireqlst = opncb[o].waireqlst, CountsFit(o)',
              at(t) = "sync" => tsk'[t].at = "idle" \/ opncb[o].waireqlst = <<>>
       PROVE  Waits'
  <2>1. AnyFits(t)'
    BY <1>21 DEF AnyFits
  <2>2. ListFits(o)'
    <3>. SUFFICES ASSUME opncb'[o].waireqlst # <<>>
                  PROVE  \E u \in Task : tsk'[u].any /\ InDriver(o)' = {u}
      BY DEF ListFits
    <3>1. PICK u \in Task : tsk[u].any /\ InDriver(o) = {u}
      BY <1>6, <1>21 DEF ListFits
    <3>2. u # t /\ tsk'[u].any
      BY <1>21, <3>1 DEF OtherTasks
    <3>3. t \notin InDriver(o) /\ at(t) \notin Serving
      BY <1>21, <3>1, <3>2 DEF InDriver
    <3>4. tsk'[t].at = "idle"
      BY <1>21, <3>3
    <3>5. InDriver(o)' = InDriver(o)
      <4>1. ~(tsk'[t].at \in Serving /\ tsk'[t].dd = o) /\ OtherTasks(t)
        BY <1>21, <3>4 DEF Serving
      <4>2. InDriver(o)' = InDriver(o) \ {t}
        BY <4>1, InDriverMoves
      <4>. QED
        BY <3>3, <4>2
    <3>. QED
      BY <3>1, <3>2, <3>5
  <2>. QED
    BY <1>21, <2>1, <2>2, WaitsMoved
<1>22. CASE ExecSucceedsEffect(t)
  <2>0. tsk[t].dd \in Opn
    BY <1>1, <1>22 DEF ExecSucceedsEffect
  <2>9. PICK o \in Opn : o = tsk[t].dd
    BY <2>0
  <2>1. /\ at(t) = "execfn" /\ o \in Opn /\ ~tsk[t].any /\ OtherTasks(t) /\ OtherOpns(o)
        /\ opncb'[o].waireqlst = opncb[o].waireqlst /\ opncb'[o].waitone = opncb[o].waitone
        /\ opncb'[o].syncreq = opncb[o].syncreq
        /\ \/ tsk[t].sync /\ tsk'[t].at = "sync" /\ tsk'[t].dd = o /\ tsk'[t].sync /\ ~tsk'[t].any
           \/ ~tsk[t].sync /\ tsk'[t].at = "idle" /\ ~tsk'[t].any
    BY <1>1, <1>22, <2>9 DEF ExecSucceedsEffect
  <2>. HIDE DEF Becomes, Moves, KeepsDescriptor, KeepsRest, KeepsAbort, KeepsWaits
  <2>2. o = tsk[t].dd
    BY <2>9
  <2>3. CountsFit(o)'
    <3>1. CountsFit(o)
      BY <1>6, <2>1
    <3>. QED
      BY <2>1, <2>2, <3>1, CountsMoved DEF Serving
  <2>4. at(t) \in Serving \cup {"sync"} /\ at(t) # "sync"
    BY <2>1 DEF Serving
  <2>. QED
    BY <1>21, <2>1, <2>2, <2>3, <2>4
<1>23. CASE ExecFailsEffect(t)
  <2>0. tsk[t].dd \in Opn
    BY <1>1, <1>23 DEF ExecFailsEffect
  <2>9. PICK o \in Opn : o = tsk[t].dd
    BY <2>0
  <2>1. /\ at(t) = "execfn" /\ o \in Opn /\ ~tsk[t].any /\ OtherTasks(t) /\ OtherOpns(o)
        /\ opncb'[o].waireqlst = opncb[o].waireqlst /\ opncb'[o].waitone = opncb[o].waitone
        /\ opncb'[o].syncreq = IF tsk[t].sync THEN opncb[o].syncreq - 1 ELSE opncb[o].syncreq
        /\ tsk'[t].at = "idle" /\ ~tsk'[t].any
    BY <1>1, <1>23, <2>9 DEF ExecFailsEffect
  <2>. HIDE DEF Becomes, Moves, KeepsDescriptor, KeepsRest, KeepsAbort, KeepsWaits
  <2>2. o = tsk[t].dd
    BY <2>9
  <2>3. CountsFit(o)'
    <3>1. CountsFit(o)
      BY <1>6, <2>1
    <3>. QED
      BY <1>1, <2>1, <2>2, <3>1, CountsMoved DEF Serving
  <2>4. at(t) \in Serving \cup {"sync"} /\ at(t) # "sync"
    BY <2>1 DEF Serving
  <2>. QED
    BY <1>21, <2>1, <2>2, <2>3, <2>4
<1>24. CASE \E i \in {0} \cup DOMAIN tsk[t].requests : WaitfnEffect(t, i)
  <2>0. tsk[t].dd \in Opn
    BY <1>1, <1>24 DEF WaitfnEffect
  <2>9. PICK o \in Opn : o = tsk[t].dd
    BY <2>0
  <2>1. /\ at(t) = "waitfn" /\ o \in Opn /\ OtherTasks(t) /\ OtherOpns(o)
        /\ opncb'[o].waireqlst = IF tsk[t].any THEN <<>> ELSE opncb[o].waireqlst
        /\ opncb'[o].waitone = IF tsk[t].any THEN opncb[o].waitone ELSE opncb[o].waitone - 1
        /\ opncb'[o].syncreq = IF tsk[t].sync THEN opncb[o].syncreq - 1 ELSE opncb[o].syncreq
        /\ tsk'[t].at = "idle" /\ ~tsk'[t].any
    BY <1>24, <2>9 DEF WaitfnEffect
  <2>. HIDE DEF Becomes, Moves, KeepsDescriptor, KeepsRest, KeepsAbort, KeepsWaits
  <2>5. o = tsk[t].dd
    BY <2>9
  <2>2. CountsFit(o)'
    <3>1. CountsFit(o)
      BY <1>6, <2>1
    <3>. QED
      BY <1>1, <2>1, <2>5, <3>1, CountsMoved DEF Serving
  <2>3. CASE ~tsk[t].any
    <3>1. at(t) \in Serving \cup {"sync"} /\ at(t) # "sync"
      BY <2>1 DEF Serving
    <3>2. opncb'[o].waireqlst = opncb[o].waireqlst
      BY <2>1, <2>3
    <3>. QED
      BY <1>21, <2>1, <2>2, <2>3, <2>5, <3>1, <3>2
  <2>4. CASE tsk[t].any
    <3>1. opncb[o].waireqlst # <<>>
      <4>1. tsk[t].requests # <<>> /\ opncb[o].waireqlst = tsk[t].requests
        BY <2>1, <2>4, <2>5, Placed DEF Waits, AnyFits, Serving
      <4>. QED
        BY <4>1
    <3>2. PICK u \in Task : InDriver(o) = {u}
      BY <1>6, <2>1, <3>1 DEF ListFits
    <3>3. t \in InDriver(o)
      BY <2>1, <2>5 DEF InDriver, Serving
    <3>4. \A v \in Task \ {t} : tsk[v].any => tsk[v].dd # o
      <4>1. \A v \in Task : tsk[v].any => at(v) = "waitfn"
        BY DEF Waits, AnyFits
      <4>. QED
        BY <3>2, <3>3, <4>1 DEF InDriver, Serving
    <3>5. ListFits(o)'
      BY <1>20, <2>1, <2>4
    <3>6. AnyFits(t)'
      BY <2>1 DEF AnyFits
    <3>. QED
      BY <2>1, <2>2, <2>5, <3>4, <3>5, <3>6, WaitsMoved
  <2>. QED
    BY <2>3, <2>4
<1>25. CASE \E o \in Opn, sync \in BOOLEAN : RequestEffect(t, o, sync)
  <2>1. PICK o \in Opn, sync \in BOOLEAN : RequestEffect(t, o, sync)
    BY <1>25
  <2>2. /\ at(t) = "idle" /\ OtherTasks(t) /\ OtherOpns(o) /\ opncb[o].waireqlst = <<>>
        /\ opncb'[o].waireqlst = opncb[o].waireqlst /\ opncb'[o].waitone = opncb[o].waitone
        /\ opncb'[o].syncreq = IF sync THEN opncb[o].syncreq + 1 ELSE opncb[o].syncreq
        /\ tsk'[t].at = "execfn" /\ tsk'[t].dd = o /\ ~tsk'[t].any /\ tsk'[t].sync = sync
    BY <2>1 DEF RequestEffect
  <2>. HIDE DEF Becomes, Moves, KeepsDescriptor, KeepsRest, KeepsAbort, KeepsWaits
  <2>3. CountsFit(o)'
    <3>1. CountsFit(o)
      BY <1>6
    <3>. QED
      BY <1>1, <2>2, <3>1, CountsMoved DEF Serving
  <2>4. AnyFits(t)' /\ ListFits(o)'
    BY <1>20, <2>2 DEF AnyFits
  <2>. QED
    BY <2>2, <2>3, <2>4, WaitsMoved
<1>26. ASSUME NEW o \in Opn, NEW r \in Req, NEW sync \in BOOLEAN, WaitsForOneOf(t, o, r, sync),
              \/ at(t) = "idle" /\ ~sync
              \/ at(t) = "sync" /\ tsk[t].dd = o /\ tsk[t].sync /\ sync
       PROVE  Waits'
  <2>1. /\ OtherTasks(t) /\ OtherOpns(o) /\ opncb[o].waireqlst = <<>>
        /\ opncb'[o].waireqlst = opncb[o].waireqlst /\ opncb'[o].waitone = opncb[o].waitone + 1
        /\ opncb'[o].syncreq = opncb[o].syncreq
        /\ tsk'[t].at = "waitfn" /\ tsk'[t].dd = o /\ ~tsk'[t].any /\ tsk'[t].sync = sync
    BY <1>26 DEF WaitsForOneOf, waitable
  <2>. HIDE DEF Becomes, Moves, KeepsDescriptor, KeepsRest, KeepsAbort, KeepsWaits
  <2>2. CountsFit(o)'
    <3>1. CountsFit(o)
      BY <1>6
    <3>. QED
      BY <1>26, <2>1, <3>1, CountsMoved DEF Serving
  <2>3. AnyFits(t)' /\ ListFits(o)'
    BY <1>20, <2>1 DEF AnyFits
  <2>. QED
    BY <1>26, <2>1, <2>2, <2>3, WaitsMoved
<1>27. CASE \E o \in Opn, r \in Req : WaiEffect(t, o, r)
  BY <1>26, <1>27 DEF WaiEffect
<1>28. CASE SyncWaitEffect(t)
  <2>0. tsk[t].dd \in Opn
    BY <1>1, <1>28 DEF SyncWaitEffect
  <2>9. PICK o \in Opn : o = tsk[t].dd
    BY <2>0
  <2>. DEFINE r == tsk[t].requests[1]
  <2>1. at(t) = "sync" /\ o \in Opn /\ tsk[t].sync /\ opncb[o].resid = 1 /\ ~tsk[t].any
    <3>1. at(t) = "sync" /\ o \in Opn
      BY <1>28, <2>9 DEF SyncWaitEffect
    <3>. QED
      BY <1>1, <2>9, <3>1 DEF Descriptors, DescriptorFits
  <2>2. CASE r \in Req /\ WaitsForOneOf(t, o, r, TRUE)
    <3>1. TRUE \in BOOLEAN
      OBVIOUS
    <3>. QED
      BY <1>26, <2>1, <2>2, <2>9, <3>1
  <2>3. CASE ~(r \in Req /\ WaitsForOneOf(t, o, r, TRUE))
    <3>1. /\ OtherTasks(t) /\ OtherOpns(o) /\ opncb'[o].waireqlst = opncb[o].waireqlst
          /\ opncb'[o].waitone = opncb[o].waitone /\ opncb'[o].syncreq = opncb[o].syncreq - 1
          /\ tsk'[t].at = "idle" /\ ~tsk'[t].any
      BY <1>28, <2>1, <2>3, <2>9 DEF SyncWaitEffect
    <3>2. o = tsk[t].dd
      BY <2>9
    <3>. HIDE DEF Becomes, Moves, KeepsDescriptor, KeepsRest, KeepsAbort, KeepsWaits
    <3>3. CountsFit(o)'
      <4>1. CountsFit(o)
        BY <1>6, <2>1
      <4>. QED
        BY <2>1, <3>1, <3>2, <4>1, CountsMoved DEF Serving
    <3>. QED
      BY <1>21, <2>1, <3>1, <3>2, <3>3
  <2>. QED
    BY <2>2, <2>3
<1>29. CASE \E o \in Opn : WaitAnyEffect(t, o)
  <2>1. PICK o \in Opn : WaitAnyEffect(t, o)
    BY <1>29
  <2>. DEFINE queue == opncb[o].requestq
  <2>2. /\ at(t) = "idle" /\ OtherTasks(t) /\ OtherOpns(o) /\ opncb[o].waireqlst = <<>>
        /\ queue # <<>> /\ queue \in Seq(Req)
        /\ \A r \in ToSet(queue) : reqcb[r].tskid = None
        /\ opncb'[o].waireqlst = queue /\ opncb'[o].waitone = opncb[o].waitone
        /\ opncb'[o].syncreq = opncb[o].syncreq
        /\ tsk'[t].at = "waitfn" /\ tsk'[t].dd = o /\ tsk'[t].any /\ ~tsk'[t].sync
        /\ tsk'[t].requests = queue
    BY <2>1 DEF WaitAnyEffect
  <2>. HIDE DEF Becomes, Moves, KeepsDescriptor, KeepsRest, KeepsAbort, KeepsWaits, queue
  <2>3. CountsFit(o)'
    <3>1. CountsFit(o)
      BY <1>6
    <3>. QED
      BY <1>1, <2>2, <3>1, CountsMoved DEF Serving
  <2>4. InDriver(o) = {}
    <3>. SUFFICES ASSUME NEW u \in Task, at(u) \in Serving, tsk[u].dd = o
                  PROVE  FALSE
      BY DEF InDriver
    <3>1. tsk[u].requests \in Seq(Req) /\ tsk[u].requests # <<>>
      BY Placed
    <3>2. PICK r : r \in ToSet(tsk[u].requests)
      BY <3>1, Elements
    <3>3. r \in ToSet(queue) /\ reqcb[r].tskid = u
      BY <3>2 DEF Requests, RequestsFit, queue
    <3>. QED
      BY <2>2, <3>3, DeviceAssumption
  <2>5. AnyFits(t)'
    BY <2>2 DEF AnyFits
  <2>6. ListFits(o)'
    <3>1. InDriver(o)' = InDriver(o) \cup {t}
      <4>1. tsk'[t].at \in Serving /\ tsk'[t].dd = o /\ OtherTasks(t)
        BY <2>2 DEF Serving
      <4>. QED
        BY <4>1, InDriverMoves
    <3>. QED
      BY <2>2, <2>4, <3>1 DEF ListFits
  <2>7. \A u \in Task \ {t} : tsk[u].any => tsk[u].dd # o
    <3>1. \A u \in Task : tsk[u].any => at(u) = "waitfn"
      BY DEF Waits, AnyFits
    <3>. QED
      BY <2>4, <3>1 DEF InDriver, Serving
  <2>. QED
    BY <2>2, <2>3, <2>5, <2>6, <2>7, WaitsMoved
<1>. HIDE DEF KeepsDescriptor, KeepsRest, KeepsAbort, KeepsWaits, Becomes, Moves
<1>. QED
  BY <1>7, <1>8, <1>9, <1>10, <1>11, <1>12, <1>13, <1>14, <1>15, <1>16, <1>17, <1>18, <1>19,
     <1>22, <1>23, <1>24, <1>25, <1>27, <1>28, <1>29, Zenon DEF StepEffect

-----------------------------------------------------------------------------
(* The abort of requests *)

\* Aborts, of one descriptor.
Aborted(o) ==
  /\ \A t \in Task : at(t) \in Aborting /\ tsk[t].dd = o => opncb[o].abort_tskid = t
  /\ opncb[o].abort_tskid # None =>
       /\ opncb[o].abort_tskid \in Task
       /\ at(opncb[o].abort_tskid) \in Aborting
       /\ tsk[opncb[o].abort_tskid].dd = o
       /\ opncb[o].abort_cnt = Cardinality(InDriver(o))
  /\ \A t \in Task : at(t) \in Drained /\ tsk[t].dd = o => InDriver(o) = {}

\* Every task has its descriptor.
LEMMA AbortsOfAll ==
  ASSUME TypeOK
  PROVE  Aborts <=> \A o \in Opn : Aborted(o)
<1>1. \A t \in Task : at(t) \in Aborting \cup Drained => tsk[t].dd \in Opn
  BY DEF TypeOK, Aborting, Drained
<1>. QED
  BY <1>1 DEF Aborts, Aborted

\* The descriptors that t has nothing to do with.
LEMMA AbortedElsewhere ==
  ASSUME NEW t \in Task, OtherTasks(t), NEW o \in Opn, Aborted(o), opncb'[o] = opncb[o],
         at(t) # "idle" => tsk[t].dd # o, tsk'[t].at # "idle" => tsk'[t].dd # o
  PROVE  Aborted(o)'
<1>1. InDriver(o)' = InDriver(o)
  BY InDriverMoves DEF InDriver, Serving
<1>2. \A u \in Task : u # t => tsk'[u].at = tsk[u].at /\ tsk'[u].dd = tsk[u].dd
  BY DEF OtherTasks
<1>3. /\ ~(tsk'[t].at \in Aborting \cup Drained /\ tsk'[t].dd = o)
      /\ ~(tsk[t].at \in Aborting \cup Drained /\ tsk[t].dd = o)
  BY DEF Aborting, Drained
<1>. QED
  BY <1>1, <1>2, <1>3 DEF Aborted

\* A step of t that is about o.
LEMMA AbortsMoved ==
  ASSUME Aborts, TypeOK, TypeOK', NEW t \in Task, OtherTasks(t), NEW o \in Opn, OtherOpns(o),
         at(t) # "idle" => tsk[t].dd = o, tsk'[t].at # "idle" => tsk'[t].dd = o,
         Aborted(o)'
  PROVE  Aborts'
<1>1. ASSUME NEW p \in Opn PROVE Aborted(p)'
  <2>1. CASE p # o
    <3>1. opncb'[p] = opncb[p] /\ Aborted(p)
      BY <2>1, AbortsOfAll DEF OtherOpns
    <3>. QED
      BY <2>1, <3>1, AbortedElsewhere
  <2>. QED
    BY <2>1
<1>2. \A u \in Task : tsk'[u].at \in Aborting \cup Drained => tsk'[u].dd \in Opn
  BY DEF TypeOK, Aborting, Drained
<1>. QED
  BY <1>1, <1>2 DEF Aborts, Aborted

\* t neither enters nor leaves the driver, and begins or ends no abort.
LEMMA AbortedStays ==
  ASSUME NEW t \in Task, OtherTasks(t), NEW o \in Opn, Aborted(o), KeepsAbort(o), t # None,
         at(t) # "idle" => tsk[t].dd = o, tsk'[t].at # "idle" => tsk'[t].dd = o,
         at(t) \notin Serving, tsk'[t].at \notin Serving,
         tsk'[t].at \in Aborting <=> at(t) \in Aborting,
         tsk'[t].at \in Drained => at(t) \in Drained \/ InDriver(o) = {}
  PROVE  Aborted(o)'
<1>1. InDriver(o)' = InDriver(o)
  BY InDriverMoves DEF InDriver
<1>2. \A u \in Task : u # t => tsk'[u].at = tsk[u].at /\ tsk'[u].dd = tsk[u].dd
  BY DEF OtherTasks
<1>3. at(t) \in Aborting \cup Drained => tsk[t].dd = o /\ at(t) # "idle"
  BY DEF Aborting, Drained
<1>4. tsk'[t].at \in Aborting \cup Drained => tsk'[t].dd = o /\ tsk'[t].at # "idle"
  BY DEF Aborting, Drained
<1>5. opncb'[o].abort_tskid = opncb[o].abort_tskid /\ opncb'[o].abort_cnt = opncb[o].abort_cnt
  BY DEF KeepsAbort
<1>. QED
  BY <1>1, <1>2, <1>3, <1>4, <1>5 DEF Aborted

\* Nobody aborts the requests of o or drains it.
LEMMA AbortedNot ==
  ASSUME NEW t \in Task, OtherTasks(t), NEW o \in Opn, opncb'[o].abort_tskid = None,
         \A u \in Task \ {t} : at(u) \in Aborting \cup Drained => tsk[u].dd # o,
         tsk'[t].at \notin Aborting,
         tsk'[t].at \in Drained => InDriver(o)' = {}
  PROVE  Aborted(o)'
<1>1. \A u \in Task : u # t => tsk'[u].at = tsk[u].at /\ tsk'[u].dd = tsk[u].dd
  BY DEF OtherTasks
<1>. QED
  BY <1>1 DEF Aborted

\* t leaves the driver.
LEMMA AbortedCounts ==
  ASSUME NEW t \in Task, OtherTasks(t), NEW o \in Opn, Aborted(o), Counted(o), tsk[t].dd = o,
         at(t) \in Serving, tsk'[t].at \in {"idle", "sync"}
  PROVE  Aborted(o)'
<1>1. InDriver(o)' = InDriver(o) \ {t}
  BY InDriverMoves DEF Serving
<1>2. t \in InDriver(o) /\ InDriver(o) \in SUBSET Task
  BY DEF InDriver
<1>3. Cardinality(InDriver(o)') = Cardinality(InDriver(o)) - 1
  BY <1>1, <1>2, Sizes
<1>4. \A u \in Task : u # t => tsk'[u].at = tsk[u].at /\ tsk'[u].dd = tsk[u].dd
  BY DEF OtherTasks
<1>5. at(t) \notin Aborting \cup Drained /\ tsk'[t].at \notin Aborting \cup Drained
  BY DEF Aborting, Drained, Serving
<1>6. opncb'[o].abort_tskid = opncb[o].abort_tskid
      /\ (opncb[o].abort_tskid # None => opncb'[o].abort_cnt = opncb[o].abort_cnt - 1)
  BY DEF Counted
<1>7. \A u \in Task : at(u) \in Drained => tsk[u].dd # o
  BY <1>2 DEF Aborted
<1>. QED
  BY <1>2, <1>3, <1>4, <1>5, <1>6, <1>7 DEF Aborted

\* What is aborted is what is in the driver: one request of every task, and the first one
\* of the task that waits for any.
LEMMA BusyCount ==
  ASSUME TypeOK, Requests, Waits, NEW o \in Opn
  PROVE  Cardinality(busy(o)) = Cardinality(InDriver(o))
<1>1. CASE opncb[o].waireqlst # <<>>
  <2>1. PICK t \in Task : InDriver(o) = {t}
    BY <1>1 DEF Waits, ListFits
  <2>. DEFINE r == Head(opncb[o].waireqlst)
  <2>2. busy(o) = {r}
    BY <1>1 DEF busy
  <2>. HIDE DEF r
  <2>. QED
    BY <2>1, <2>2, FS_Singleton
<1>2. CASE opncb[o].waireqlst = <<>>
  <2>1. ASSUME NEW t \in InDriver(o)
        PROVE  /\ t \in Task /\ at(t) \in Serving /\ tsk[t].dd = o
               /\ \E r \in Req : tsk[t].requests = <<r>>
    <3>1. t \in Task /\ at(t) \in Serving /\ tsk[t].dd = o
      BY <2>1 DEF InDriver
    <3>2. tsk[t].requests # <<>>
      BY <3>1, Placed
    <3>3. ~tsk[t].any
      BY <1>2, <3>1, <3>2 DEF Waits, AnyFits
    <3>. QED
      BY <3>1, <3>3 DEF Requests, RequestsFit
  <2>. DEFINE f == [t \in InDriver(o) |-> tsk[t].requests[1]]
  <2>2. ASSUME NEW t \in InDriver(o)
        PROVE  /\ f[t] \in Req /\ f[t] \in ToSet(opncb[o].requestq)
               /\ reqcb[f[t]].tskid = t
    <3>1. PICK r \in Req : tsk[t].requests = <<r>>
      BY <2>1
    <3>2. ToSet(tsk[t].requests) = {r} /\ f[t] = r
      BY <3>1, One
    <3>. QED
      BY <2>1, <3>2 DEF Requests, RequestsFit
  <2>3. \A t \in InDriver(o) : f[t] \in busy(o)
    BY <1>2, <2>1, <2>2, DeviceAssumption DEF busy
  <2>4. \A t, u \in InDriver(o) : f[t] = f[u] => t = u
    BY <2>2
  <2>5. ASSUME NEW r \in busy(o)
        PROVE  \E t \in InDriver(o) : f[t] = r
    <3>1. r \in Req /\ r \in ToSet(opncb[o].requestq) /\ reqcb[r].tskid # None
      BY <1>2, <2>5, RequestSets DEF busy
    <3>. DEFINE t == reqcb[r].tskid
    <3>2. t \in Task /\ at(t) \in Serving /\ r \in ToSet(tsk[t].requests)
      BY <3>1 DEF Requests, HandFits
    <3>3. tsk[t].dd \in Opn /\ r \in ToSet(opncb[tsk[t].dd].requestq)
      BY <3>2, Placed DEF Requests, RequestsFit, Serving
    <3>4. tsk[t].dd = o
      BY <3>1, <3>3 DEF Requests, QueueFits
    <3>5. t \in InDriver(o)
      BY <3>2, <3>4 DEF InDriver
    <3>6. PICK x \in Req : tsk[t].requests = <<x>>
      BY <2>1, <3>5
    <3>7. ToSet(tsk[t].requests) = {x} /\ f[t] = x
      BY <3>5, <3>6, One
    <3>. QED
      BY <3>2, <3>5, <3>7
  <2>. HIDE DEF f
  <2>6. f \in Bijection(InDriver(o), busy(o))
    <3>1. f \in [InDriver(o) -> busy(o)]
      BY <2>3 DEF f
    <3>. QED
      BY <2>4, <2>5, <3>1, Fun_IsBij
  <2>7. IsFiniteSet(InDriver(o))
    BY DeviceAssumption, FS_Subset DEF InDriver
  <2>. QED
    BY <2>6, <2>7, FS_Bijection, Fun_ExistsBij
<1>. QED
  BY <1>1, <1>2

\* Aborts is kept.  A task that starts to abort is the only one that closes the descriptor
\* (Descriptors), and it waits until the last one is back (SyncQueue).
LEMMA AbortsKept ==
  ASSUME Overlap = {}, TypeOK, TypeOK', Descriptors, SyncQueue, Aborts, Requests, Waits,
         NEW t \in Task, StepEffect(t)
  PROVE  Aborts'
<1>. HIDE DEF AnyFits, ListFits, CountsFit, QueueFits, HandFits, RequestsFit
<1>1. /\ at(t) # "idle" => tsk[t].dd \in Opn
      /\ t # None /\ None \notin Task
  BY Placed, DeviceAssumption
<1>2. ASSUME NEW o \in Opn PROVE Aborted(o)
  BY <1>2, AbortsOfAll
\* A descriptor that is open is not being aborted.
<1>3. ASSUME NEW o \in Opn, opncb[o].resid # -1
      PROVE  /\ opncb[o].abort_tskid = None
             /\ \A u \in Task : at(u) \in Aborting \cup Drained => tsk[u].dd # o
  <2>1. \A u \in Task : at(u) \in Aborting \cup Drained => tsk[u].dd # o
    BY <1>3 DEF Descriptors, DescriptorFits, Closing, Aborting, Drained
  <2>2. Aborted(o)
    BY <1>2
  <2>. QED
    BY <2>1, <2>2 DEF Aborted
\* t goes on without a request in the driver.
<1>4. ASSUME NEW o \in Opn, OtherTasks(t), OtherOpns(o), KeepsAbort(o),
             at(t) # "idle" => tsk[t].dd = o, tsk'[t].at # "idle" => tsk'[t].dd = o,
             at(t) \notin Serving, tsk'[t].at \notin Serving,
             tsk'[t].at \in Aborting <=> at(t) \in Aborting,
             tsk'[t].at \in Drained => at(t) \in Drained \/ InDriver(o) = {}
      PROVE  Aborts'
  <2>1. Aborted(o)'
    BY <1>1, <1>2, <1>4, AbortedStays
  <2>. QED
    BY <1>4, <2>1, AbortsMoved
<1>5. ASSUME opncb' = opncb, NEW o \in Opn
      PROVE  OtherOpns(o) /\ KeepsAbort(o)
  BY <1>5 DEF OtherOpns, KeepsAbort
\* The descriptor of t is freed.
<1>6. ASSUME NEW o \in Opn, Freed(o), OtherTasks(t), o = tsk[t].dd, tsk'[t].at = "idle",
             at(t) \in Opening \cup Drained
      PROVE  Aborts'
  <2>1. \A u \in Task \ {t} : at(u) # "idle" => tsk[u].dd # o
    BY <1>6, Alone
  <2>2. opncb'[o].abort_tskid = None /\ OtherOpns(o)
    BY <1>6 DEF Freed, FreeOpn
  <2>3. Aborted(o)'
    BY <1>6, <2>1, <2>2, AbortedNot DEF Aborting, Drained
  <2>. QED
    BY <1>6, <2>2, <2>3, AbortsMoved
\* t enters the driver.
<1>7. ASSUME NEW o \in Opn, OtherTasks(t), OtherOpns(o), KeepsAbort(o), opncb[o].resid = 1,
             at(t) \in {"idle", "sync"}, tsk'[t].at \in Serving, tsk'[t].dd = o,
             at(t) # "idle" => tsk[t].dd = o
      PROVE  Aborts'
  <2>1. /\ opncb'[o].abort_tskid = None
        /\ \A u \in Task : at(u) \in Aborting \cup Drained => tsk[u].dd # o
    BY <1>3, <1>7 DEF KeepsAbort
  <2>2. tsk'[t].at \notin Aborting /\ tsk'[t].at \notin Drained
    BY <1>7 DEF Aborting, Drained, Serving
  <2>3. Aborted(o)'
    BY <1>7, <2>1, <2>2, AbortedNot
  <2>. QED
    BY <1>7, <2>3, AbortsMoved
\* t leaves the driver.
<1>8. ASSUME NEW o \in Opn, OtherTasks(t), OtherOpns(o), Counted(o), o = tsk[t].dd,
             at(t) \in Serving, tsk'[t].at \in {"idle", "sync"},
             tsk'[t].at = "sync" => tsk'[t].dd = o
      PROVE  Aborts'
  <2>1. Aborted(o)'
    BY <1>2, <1>8, AbortedCounts
  <2>. QED
    BY <1>8, <2>1, AbortsMoved
<1>. USE DEF KeepsDescriptor, KeepsRest, Becomes, Moves
<1>9. CASE \E o \in Opn, unitno \in Unit, omode \in Modes : OpenEffect(t, o, unitno, omode)
  <2>1. PICK o \in Opn, unitno \in Unit, omode \in Modes : OpenEffect(t, o, unitno, omode)
    BY <1>9
  <2>2. \A u \in Task \ {t} : at(u) # "idle" => tsk[u].dd # o
    BY <2>1, Alone DEF OpenEffect
  <2>3. /\ at(t) = "idle" /\ OtherOpns(o) /\ OtherTasks(t) /\ opncb'[o].abort_tskid = None
        /\ tsk'[t].at \in Opening \cup {"idle"}
        /\ tsk'[t].at # "idle" => tsk'[t].dd = o
    BY <2>1 DEF OpenEffect, Opening
  <2>4. Aborted(o)'
    BY <2>2, <2>3, AbortedNot DEF Aborting, Drained, Opening
  <2>. QED
    BY <2>3, <2>4, AbortsMoved
<1>10. CASE \E o \in Opn : CloseEffect(t, o)
  BY <1>4, <1>10 DEF CloseEffect, Serving, Aborting, Drained
<1>11. CASE \E o \in Opn, sync \in BOOLEAN : RequestEffect(t, o, sync)
  BY <1>7, <1>11 DEF RequestEffect, Serving
<1>12. CASE \E o \in Opn, r \in Req : WaiEffect(t, o, r)
  BY <1>7, <1>12 DEF WaiEffect, WaitsForOneOf, Serving
<1>13. CASE \E o \in Opn : WaitAnyEffect(t, o)
  BY <1>7, <1>13 DEF WaitAnyEffect, Serving
<1>14. CASE SyncWaitEffect(t)
  <2>0. tsk[t].dd \in Opn /\ at(t) = "sync"
    BY <1>14 DEF SyncWaitEffect
  <2>1. PICK o \in Opn : o = tsk[t].dd
    BY <2>0
  <2>2. opncb[o].resid = 1
    BY <2>0, <2>1 DEF Descriptors, DescriptorFits
  <2>. DEFINE r == tsk[t].requests[1]
  <2>3. CASE r \in Req /\ WaitsForOneOf(t, o, r, TRUE)
    <3>. HIDE DEF r
    <3>. QED
      BY <1>7, <2>0, <2>1, <2>2, <2>3 DEF WaitsForOneOf, Serving
  <2>4. CASE ~(r \in Req /\ WaitsForOneOf(t, o, r, TRUE))
    BY <1>4, <1>14, <2>0, <2>1, <2>2, <2>4 DEF SyncWaitEffect, Serving, Aborting, Drained
  <2>. QED
    BY <2>3, <2>4
<1>15. CASE ExecSucceedsEffect(t)
  <2>1. PICK o \in Opn : o = tsk[t].dd
    BY <1>15 DEF ExecSucceedsEffect
  <2>. QED
    BY <1>8, <1>15, <2>1 DEF ExecSucceedsEffect, Serving
<1>16. CASE ExecFailsEffect(t)
  <2>1. PICK o \in Opn : o = tsk[t].dd
    BY <1>16 DEF ExecFailsEffect
  <2>. QED
    BY <1>8, <1>16, <2>1 DEF ExecFailsEffect, Serving
<1>17. CASE \E i \in {0} \cup DOMAIN tsk[t].requests : WaitfnEffect(t, i)
  <2>1. PICK o \in Opn : o = tsk[t].dd
    BY <1>17 DEF WaitfnEffect
  <2>. QED
    BY <1>8, <1>17, <2>1 DEF WaitfnEffect, Serving
<1>18. CASE AbortEffect(t)
  <2>1. PICK o \in Opn : o = tsk[t].dd
    BY <1>18 DEF AbortEffect
  <2>2. /\ at(t) = "close" /\ OtherOpns(o) /\ OtherTasks(t)
        /\ opncb'[o].abort_tskid = t /\ opncb'[o].abort_cnt = Cardinality(busy(o))
        /\ tsk'[t].at = "abort_check" /\ tsk'[t].dd = o
    BY <1>18, <2>1 DEF AbortEffect
  <2>3. \A u \in Task \ {t} : at(u) \in Aborting \cup Drained => tsk[u].dd # o
    BY <2>1, <2>2 DEF Descriptors, Closing, Aborting, Drained
  <2>4. opncb'[o].abort_cnt = Cardinality(InDriver(o))
    BY <2>2, BusyCount
  <2>5. InDriver(o)' = InDriver(o)
    BY <2>2, InDriverMoves DEF InDriver, Serving
  <2>6. \A u \in Task : u # t => tsk'[u].at = tsk[u].at /\ tsk'[u].dd = tsk[u].dd
    BY <2>2 DEF OtherTasks
  <2>7. Aborted(o)'
    BY <2>2, <2>3, <2>4, <2>5, <2>6 DEF Aborted, Aborting, Drained
  <2>. QED
    BY <2>1, <2>2, <2>7, AbortsMoved
<1>19. CASE AbortCheckEffect(t)
  <2>1. PICK o \in Opn : o = tsk[t].dd
    BY <1>19 DEF AbortCheckEffect
  <2>2. opncb[o].abort_tskid # None /\ at(t) = "abort_check"
    BY <1>1, <1>19, <2>1 DEF AbortCheckEffect, Aborts, Aborting
  <2>3. ~(opncb[o].abort_cnt > 0) => InDriver(o) = {}
    BY <2>2, AbortCount
  <2>. QED
    BY <1>4, <1>5, <1>19, <2>1, <2>2, <2>3 DEF AbortCheckEffect, Serving, Aborting, Drained
<1>20. CASE AbortSyncEffect(t)
  <2>1. PICK o \in Opn : o = tsk[t].dd
    BY <1>20 DEF AbortSyncEffect
  <2>2. opncb[o].abort_tskid # None /\ at(t) = "abort_sync" /\ t \in masked
    BY <1>1, <1>20, <2>1 DEF AbortSyncEffect, Aborts, Aborting
  <2>3. opncb[o].abort_cnt = 0
    BY <2>1, <2>2 DEF SyncQueue
  <2>4. InDriver(o) = {}
    BY <2>2, <2>3, AbortCount
  <2>. QED
    BY <1>4, <1>5, <1>20, <2>1, <2>2, <2>4 DEF AbortSyncEffect, Serving, Aborting, Drained
<1>21. CASE AbortDoneEffect(t)
  <2>1. PICK o \in Opn : o = tsk[t].dd
    BY <1>21 DEF AbortDoneEffect
  <2>2. /\ at(t) = "abort_done" /\ OtherOpns(o) /\ OtherTasks(t) /\ opncb'[o].abort_tskid = None
        /\ tsk'[t].at \in {"drain", "close_enter"} /\ tsk'[t].dd = o
    BY <1>21, <2>1 DEF AbortDoneEffect, Drains
  <2>3. \A u \in Task \ {t} : at(u) \in Aborting \cup Drained => tsk[u].dd # o
    BY <2>1, <2>2 DEF Descriptors, Closing, Aborting, Drained
  <2>4. InDriver(o)' = {}
    BY <2>1, <2>2, InDriverMoves DEF Aborts, Drained, Serving
  <2>5. Aborted(o)'
    BY <2>2, <2>3, <2>4, AbortedNot DEF Aborting
  <2>. QED
    BY <2>1, <2>2, <2>5, AbortsMoved
<1>22. CASE DrainedEffect(t)
  BY <1>4, <1>22 DEF DrainedEffect, Drains, Serving, Aborting, Drained
<1>23. CASE CloseEnterEffect(t)
  BY <1>4, <1>5, <1>6, <1>23 DEF CloseEnterEffect, Serving, Aborting, Drained
<1>24. CASE CloseTurnEffect(t)
  BY <1>4, <1>5, <1>6, <1>24 DEF CloseTurnEffect, Closed, Serving, Aborting, Drained
<1>25. CASE ClosefnEffect(t)
  BY <1>6, <1>25 DEF ClosefnEffect, Closed, Drained
<1>26. CASE OpenTurnEffect(t)
  BY <1>4, <1>5, <1>26 DEF OpenTurnEffect, Opened, Serving, Aborting, Drained
<1>27. CASE OpenfnSucceedsEffect(t)
  BY <1>4, <1>27 DEF OpenfnSucceedsEffect, Opened, Serving, Aborting, Drained
<1>28. CASE OpenfnFailsEffect(t)
  BY <1>6, <1>28 DEF OpenfnFailsEffect, Closed, Opening
<1>. HIDE DEF KeepsDescriptor, KeepsRest, Becomes, Moves
<1>. QED
  BY <1>9, <1>10, <1>11, <1>12, <1>13, <1>14, <1>15, <1>16, <1>17, <1>18, <1>19, <1>20,
     <1>21, <1>22, <1>23, <1>24, <1>25, <1>26, <1>27, <1>28, Zenon DEF StepEffect

-----------------------------------------------------------------------------
(* The opens of the driver *)

\* The descriptors of a unit that are open or being closed.
used(unitno) ==
  {o \in Opn : opncb[o].inuse /\ opncb[o].unitno = unitno /\ opncb[o].resid # 0}

OpensFit(unitno) ==
  opened[unitno] =
    IF devcb.openreq \/ used(unitno) = {} THEN Cardinality(used(unitno)) ELSE 1

\* Who opens the driver opens the first descriptor, and who closes it closes the last one.
CallFits(t, o, unitno) ==
  at(t) \in Calling /\ tsk[t].dd = o /\ opncb[o].unitno = unitno /\ ~devcb.openreq =>
    used(unitno) = IF at(t) = "openfn" THEN {} ELSE {o}

OpenCount ==
  /\ \A unitno \in Unit : OpensFit(unitno)
  /\ \A t \in Task, o \in Opn, unitno \in Unit : CallFits(t, o, unitno)

\* driver_called tells whether another descriptor of the unit is used.
LEMMA DriverCalled ==
  ASSUME NEW o \in Opn, NEW unitno \in Unit
  PROVE  driver_called(unitno, o) <=> used(unitno) \ {o} = {} \/ devcb.openreq
BY DEF driver_called, chkopen, used

\* A step that is about o changes these sets by o.
LEMMA UsedMoves ==
  ASSUME NEW o \in Opn, OtherOpns(o), NEW unitno
  PROVE  used(unitno)' = IF opncb'[o].inuse /\ opncb'[o].unitno = unitno /\ opncb'[o].resid # 0
                         THEN used(unitno) \cup {o} ELSE used(unitno) \ {o}
BY DEF used, OtherOpns

\* A step after which the same descriptors are used.
LEMMA OpenCountStays ==
  ASSUME OpenCount, TypeOK, NEW t \in Task, OtherTasks(t), NEW o \in Opn, OtherOpns(o),
         devcb'.openreq = devcb.openreq, opened' = opened,
         \A unitno \in Unit : used(unitno)' = used(unitno),
         \/ KeepsOpen(o)
         \/ \A u \in Task \ {t} : at(u) # "idle" => tsk[u].dd # o,
         \A p \in Opn, unitno \in Unit : CallFits(t, p, unitno)'
  PROVE  OpenCount'
<1>1. ASSUME NEW unitno \in Unit PROVE OpensFit(unitno)'
  BY DEF OpenCount, OpensFit
<1>2. ASSUME NEW u \in Task, NEW p \in Opn, NEW unitno \in Unit
      PROVE  CallFits(u, p, unitno)'
  <2>1. CASE u # t
    <3>1. tsk'[u].at = tsk[u].at /\ tsk'[u].dd = tsk[u].dd
      BY <2>1 DEF OtherTasks
    <3>2. at(u) \in Calling /\ tsk[u].dd = p => opncb'[p].unitno = opncb[p].unitno
      BY <2>1 DEF KeepsOpen, OtherOpns, Calling
    <3>3. CallFits(u, p, unitno) /\ used(unitno)' = used(unitno)
      BY DEF OpenCount
    <3>. QED
      BY <3>1, <3>2, <3>3 DEF CallFits
  <2>. QED
    BY <2>1
<1>. QED
  BY <1>1, <1>2 DEF OpenCount

\* A step of the only task that may call the driver.
LEMMA OpenCountMoves ==
  ASSUME NEW t \in Task, OtherTasks(t), \A u \in Task \ {t} : at(u) \notin Calling,
         tsk'[t].at \notin Calling, \A unitno \in Unit : OpensFit(unitno)'
  PROVE  OpenCount'
<1>1. \A u \in Task : tsk'[u].at \notin Calling
  BY DEF OtherTasks
<1>. QED
  BY <1>1 DEF OpenCount, CallFits

\* Only the first of the queue calls the driver, and nobody when it is empty.
LEMMA OnlyCaller ==
  ASSUME TypeOK, SyncQueue, NEW t \in Task,
         \/ devcb.syncq = <<>>
         \/ at(t) \in Calling
         \/ at(t) \in {"open_sync", "close_sync"} /\ t \in masked
  PROVE  \A u \in Task \ {t} : at(u) \notin Calling
<1>1. CASE devcb.syncq = <<>>
  <2>1. ToSet(devcb.syncq) = {}
    BY <1>1, Elements DEF TypeOK
  <2>. QED
    BY <2>1 DEF SyncQueue, Calling, Queueing
<1>2. CASE t = Head(devcb.syncq)
  BY <1>2 DEF SyncQueue
<1>. QED
  BY <1>1, <1>2 DEF SyncQueue

\* A set of descriptors that gains or loses one.
LEMMA UsedSizes ==
  ASSUME NEW S \in SUBSET Opn, NEW o \in Opn
  PROVE  /\ Cardinality(S) \in Nat
         /\ o \notin S => Cardinality(S \cup {o}) = Cardinality(S) + 1
         /\ o \in S => Cardinality(S \ {o}) = Cardinality(S) - 1
         /\ Cardinality({}) = 0
<1>1. IsFiniteSet(S)
  BY DeviceAssumption, FS_Subset
<1>. QED
  BY <1>1, FS_CardinalityType, FS_AddElement, FS_RemoveElement, FS_EmptySet

\* The units of the other descriptors.
LEMMA OpensElsewhere ==
  ASSUME OpenCount, NEW n \in Unit, NEW unitno \in Unit \ {n}, opened \in [Unit -> Int],
         used(unitno)' = used(unitno), devcb'.openreq = devcb.openreq,
         \/ opened' = opened
         \/ \E k \in Int : opened' = [opened EXCEPT ![n] = k]
  PROVE  OpensFit(unitno)'
<1>1. opened'[unitno] = opened[unitno]
  OBVIOUS
<1>. QED
  BY <1>1 DEF OpenCount, OpensFit

\* A descriptor is used from now on.
LEMMA UsedAdded ==
  ASSUME TypeOK, OpenCount, NEW o \in Opn, OtherOpns(o), ~opncb[o].inuse \/ opncb[o].resid = 0,
         NEW n \in Unit, opncb'[o].inuse, opncb'[o].resid = 1, opncb'[o].unitno = n,
         devcb'.openreq = devcb.openreq,
         \/ opened' = opened /\ ~devcb.openreq /\ used(n) # {}
         \/ opened' = [opened EXCEPT ![n] = @ + 1] /\ (devcb.openreq \/ used(n) = {})
  PROVE  \A unitno \in Unit : OpensFit(unitno)'
<1>1. \A unitno \in Unit : o \notin used(unitno) /\ used(unitno) \in SUBSET Opn
  BY DEF used
<1>2. used(n)' = used(n) \cup {o}
  BY UsedMoves
<1>3. ASSUME NEW unitno \in Unit \ {n} PROVE used(unitno)' = used(unitno)
  BY <1>1, UsedMoves
<1>4. opened \in [Unit -> Int]
  BY DEF TypeOK
<1>5. ASSUME NEW unitno \in Unit \ {n} PROVE OpensFit(unitno)'
  BY <1>3, <1>4, OpensElsewhere
<1>6. OpensFit(n)'
  <2>1. /\ Cardinality(used(n)) \in Nat
        /\ Cardinality(used(n)') = Cardinality(used(n)) + 1
        /\ Cardinality({}) = 0
    BY <1>1, <1>2, UsedSizes
  <2>2. opened[n] = IF devcb.openreq \/ used(n) = {} THEN Cardinality(used(n)) ELSE 1
    BY DEF OpenCount, OpensFit
  <2>3. used(n)' # {}
    BY <1>2
  <2>4. CASE opened' = opened /\ ~devcb.openreq /\ used(n) # {}
    BY <2>2, <2>3, <2>4 DEF OpensFit
  <2>5. CASE opened' = [opened EXCEPT ![n] = @ + 1] /\ (devcb.openreq \/ used(n) = {})
    <3>1. opened'[n] = opened[n] + 1 /\ opened[n] = Cardinality(used(n))
      BY <1>4, <2>2, <2>5
    <3>2. ~devcb.openreq => opened'[n] = 1
      BY <2>1, <2>5, <3>1
    <3>3. opened'[n] = Cardinality(used(n)')
      BY <2>1, <3>1
    <3>. QED
      BY <2>3, <3>2, <3>3 DEF OpensFit
  <2>. QED
    BY <2>4, <2>5
<1>. QED
  BY <1>5, <1>6

\* A descriptor is not used any more.
LEMMA UsedRemoved ==
  ASSUME TypeOK, OpenCount, NEW o \in Opn, Freed(o), NEW n \in Unit, n = opncb[o].unitno,
         opncb[o].inuse, opncb[o].resid # 0, devcb'.openreq = devcb.openreq,
         \/ opened' = opened /\ ~devcb.openreq /\ used(n) \ {o} # {}
         \/ opened' = [opened EXCEPT ![n] = @ - 1] /\ (devcb.openreq \/ used(n) = {o})
  PROVE  \A unitno \in Unit : OpensFit(unitno)'
<1>1. \A unitno \in Unit : /\ used(unitno) \in SUBSET Opn
                           /\ o \in used(unitno) <=> unitno = n
  BY DEF used
<1>2. OtherOpns(o) /\ opncb'[o].resid = 0
  BY DEF Freed, FreeOpn
<1>3. used(n)' = used(n) \ {o}
  BY <1>2, UsedMoves
<1>4. ASSUME NEW unitno \in Unit \ {n} PROVE used(unitno)' = used(unitno)
  BY <1>1, <1>2, UsedMoves
<1>5. opened \in [Unit -> Int]
  BY DEF TypeOK
<1>6. ASSUME NEW unitno \in Unit \ {n} PROVE OpensFit(unitno)'
  BY <1>4, <1>5, OpensElsewhere
<1>7. OpensFit(n)'
  <2>1. /\ Cardinality(used(n)) \in Nat
        /\ Cardinality(used(n)') = Cardinality(used(n)) - 1
        /\ Cardinality({}) = 0
    BY <1>1, <1>3, UsedSizes
  <2>2. opened[n] = IF devcb.openreq \/ used(n) = {} THEN Cardinality(used(n)) ELSE 1
    BY DEF OpenCount, OpensFit
  <2>3. used(n) # {}
    BY <1>1
  <2>4. CASE opened' = opened /\ ~devcb.openreq /\ used(n) \ {o} # {}
    BY <1>3, <2>2, <2>3, <2>4 DEF OpensFit
  <2>5. CASE opened' = [opened EXCEPT ![n] = @ - 1] /\ (devcb.openreq \/ used(n) = {o})
    <3>1. opened'[n] = opened[n] - 1
      BY <1>5, <2>5
    <3>2. CASE devcb.openreq
      BY <2>1, <2>2, <3>1, <3>2 DEF OpensFit
    <3>3. CASE ~devcb.openreq
      <4>1. used(n)' = {} /\ opened[n] = 1
        BY <1>3, <2>2, <2>3, <2>5, <3>3
      <4>. QED
        BY <2>1, <3>1, <4>1 DEF OpensFit
    <3>. QED
      BY <3>2, <3>3
  <2>. QED
    BY <2>4, <2>5
<1>. QED
  BY <1>6, <1>7

\* OpenCount is kept.  The task that completes an open or a close is the only one that may
\* be in the driver for it (SyncQueue), and nobody else has the descriptor (Aborts).
LEMMA OpenCountKept ==
  ASSUME Overlap = {}, TypeOK, TypeOK', Descriptors, SyncQueue, Aborts, OpenCount,
         NEW t \in Task, StepEffect(t)
  PROVE  OpenCount'
<1>1. at(t) # "idle" => tsk[t].dd \in Opn /\ opncb[tsk[t].dd].inuse
  BY Placed DEF Descriptors, DescriptorFits
<1>2. ASSUME NEW o \in Opn PROVE opncb[o].unitno \in Unit
  BY DEF TypeOK, OpnRecord
\* A step that is not about descriptors.
<1>3. ASSUME NEW o \in Opn, OtherTasks(t), OtherOpns(o), KeepsOpen(o),
             opncb'[o].resid = 0 <=> opncb[o].resid = 0,
             devcb'.openreq = devcb.openreq, opened' = opened, tsk'[t].at \notin Calling
      PROVE  OpenCount'
  <2>1. \A unitno \in Unit : used(unitno)' = used(unitno)
    BY <1>3 DEF used, OtherOpns, KeepsOpen
  <2>2. \A p \in Opn, unitno \in Unit : CallFits(t, p, unitno)'
    BY <1>3 DEF CallFits
  <2>. QED
    BY <1>3, <2>1, <2>2, OpenCountStays
<1>4. ASSUME NEW o \in Opn, OtherTasks(t), opncb' = opncb, devcb' = devcb, opened' = opened,
             tsk'[t].at \notin Calling
      PROVE  OpenCount'
  <2>1. /\ OtherOpns(o) /\ KeepsOpen(o)
        /\ opncb'[o].resid = 0 <=> opncb[o].resid = 0
    BY <1>4 DEF OtherOpns, KeepsOpen
  <2>2. devcb'.openreq = devcb.openreq
    BY <1>4
  <2>. QED
    BY <1>3, <1>4, <2>1, <2>2, Zenon
\* A step that is about the requests of a descriptor.
<1>25. ASSUME \E o \in Opn : OtherOpns(o) /\ KeepsDescriptor(o),
              OtherTasks(t), devcb' = devcb, opened' = opened, tsk'[t].at \notin Calling
       PROVE  OpenCount'
  <2>1. PICK o \in Opn : OtherOpns(o) /\ KeepsDescriptor(o)
    BY <1>25
  <2>2. /\ KeepsOpen(o) /\ devcb'.openreq = devcb.openreq
        /\ opncb'[o].resid = 0 <=> opncb[o].resid = 0
    BY <1>25, <2>1 DEF KeepsDescriptor
  <2>. QED
    BY <1>3, <1>25, <2>1, <2>2, Zenon
\* t calls the driver.
<1>5. ASSUME NEW o \in Opn, o = tsk[t].dd, OtherTasks(t), opncb' = opncb,
             devcb'.openreq = devcb.openreq, opened' = opened,
             driver_called(opncb[o].unitno, o), tsk'[t].dd = o,
             \/ tsk'[t].at = "openfn" /\ opncb[o].resid = 0
             \/ tsk'[t].at = "closefn" /\ opncb[o].inuse /\ opncb[o].resid # 0
      PROVE  OpenCount'
  <2>1. \A unitno \in Unit : used(unitno)' = used(unitno)
    BY <1>5 DEF used
  <2>2. OtherOpns(o) /\ KeepsOpen(o)
    BY <1>5 DEF OtherOpns, KeepsOpen
  <2>3. ASSUME NEW p \in Opn, NEW unitno \in Unit PROVE CallFits(t, p, unitno)'
    <3>. SUFFICES ASSUME p = o, opncb[o].unitno = unitno, ~devcb.openreq
                  PROVE  used(unitno) = IF tsk'[t].at = "openfn" THEN {} ELSE {o}
      BY <1>5, <2>1 DEF CallFits
    <3>1. used(unitno) \ {o} = {}
      BY <1>5, DriverCalled
    <3>2. o \in used(unitno) <=> opncb[o].inuse /\ opncb[o].resid # 0
      BY DEF used
    <3>. QED
      BY <1>5, <3>1, <3>2
  <2>. QED
    BY <1>5, <2>1, <2>2, <2>3, OpenCountStays
\* t is back, or needs not call it.
<1>6. ASSUME NEW o \in Opn, OtherTasks(t), \A u \in Task \ {t} : at(u) \notin Calling,
             tsk'[t].at \notin Calling, OtherOpns(o), ~opncb[o].inuse \/ opncb[o].resid = 0,
             NEW n \in Unit, opncb'[o].inuse, opncb'[o].resid = 1, opncb'[o].unitno = n,
             devcb'.openreq = devcb.openreq,
             \/ opened' = opened /\ ~driver_called(n, o)
             \/ opened' = [opened EXCEPT ![n] = @ + 1] /\ (devcb.openreq \/ used(n) = {})
      PROVE  OpenCount'
  <2>1. ~driver_called(n, o) => ~devcb.openreq /\ used(n) # {}
    BY DriverCalled
  <2>2. \A unitno \in Unit : OpensFit(unitno)'
    BY <1>6, <2>1, UsedAdded
  <2>. QED
    BY <1>6, <2>2, OpenCountMoves
<1>7. ASSUME NEW o \in Opn, OtherTasks(t), \A u \in Task \ {t} : at(u) \notin Calling,
             tsk'[t].at \notin Calling, Freed(o), NEW n \in Unit, n = opncb[o].unitno,
             opncb[o].inuse, opncb[o].resid # 0, devcb'.openreq = devcb.openreq,
             \/ opened' = opened /\ ~driver_called(n, o)
             \/ opened' = [opened EXCEPT ![n] = @ - 1] /\ (devcb.openreq \/ used(n) = {o})
      PROVE  OpenCount'
  <2>1. ~driver_called(n, o) => ~devcb.openreq /\ used(n) \ {o} # {}
    BY <1>7, DriverCalled
  <2>2. \A unitno \in Unit : OpensFit(unitno)'
    BY <1>7, <2>1, UsedRemoved
  <2>. QED
    BY <1>7, <2>2, OpenCountMoves
<1>. USE DEF KeepsDescriptor, KeepsRest, Becomes, Moves
<1>8. CASE \E o \in Opn, unitno \in Unit, omode \in Modes : OpenEffect(t, o, unitno, omode)
  <2>1. PICK o \in Opn, n \in Unit, omode \in Modes : OpenEffect(t, o, n, omode)
    BY <1>8
  <2>2. /\ ~opncb[o].inuse /\ OtherOpns(o) /\ OtherTasks(t) /\ opened' = opened
        /\ devcb'.openreq = devcb.openreq /\ opncb'[o].inuse /\ opncb'[o].unitno = n
    BY <2>1 DEF OpenEffect
  <2>3. CASE opncb'[o].resid = 0
    <3>1. \A unitno \in Unit : used(unitno)' = used(unitno)
      BY <2>2, <2>3, UsedMoves DEF used
    <3>2. \A u \in Task \ {t} : at(u) # "idle" => tsk[u].dd # o
      BY <2>2, Alone
    <3>3. /\ tsk'[t].dd = o
          /\ tsk'[t].at \in {"open_sync", "openfn"}
          /\ tsk'[t].at = "openfn" => driver_called(n, o)
      BY <2>1, <2>3 DEF OpenEffect
    <3>4. driver_called(n, o) => devcb.openreq \/ used(n) = {}
      BY <2>2, DriverCalled DEF used
    <3>5. ASSUME NEW p \in Opn, NEW unitno \in Unit PROVE CallFits(t, p, unitno)'
      BY <2>2, <3>1, <3>3, <3>4 DEF CallFits, Calling
    <3>. QED
      BY <2>2, <3>1, <3>2, <3>5, OpenCountStays
  <2>4. CASE opncb'[o].resid # 0
    <3>1. /\ opncb'[o].resid = 1 /\ devcb.syncq = <<>> /\ tsk'[t].at = "idle"
          /\ ~driver_called(n, o)
      BY <2>1, <2>4 DEF OpenEffect
    <3>2. \A u \in Task \ {t} : at(u) \notin Calling
      BY <3>1, OnlyCaller
    <3>. QED
      BY <1>6, <2>2, <3>1, <3>2 DEF Calling
  <2>. QED
    BY <2>3, <2>4
<1>9. CASE \E o \in Opn : CloseEffect(t, o)
  BY <1>3, <1>9 DEF CloseEffect, Calling
<1>10. CASE \E o \in Opn, sync \in BOOLEAN : RequestEffect(t, o, sync)
  BY <1>3, <1>10 DEF RequestEffect, Calling
<1>11. CASE \E o \in Opn, r \in Req : WaiEffect(t, o, r)
  BY <1>3, <1>11 DEF WaiEffect, WaitsForOneOf, Calling
<1>12. CASE \E o \in Opn : WaitAnyEffect(t, o)
  BY <1>12, <1>25 DEF WaitAnyEffect, Calling
<1>13. CASE SyncWaitEffect(t)
  BY <1>13, <1>25 DEF SyncWaitEffect, WaitsForOneOf, Calling
<1>14. CASE ExecSucceedsEffect(t) \/ ExecFailsEffect(t)
  BY <1>14, <1>25 DEF ExecSucceedsEffect, ExecFailsEffect, Calling
<1>15. CASE \E i \in {0} \cup DOMAIN tsk[t].requests : WaitfnEffect(t, i)
  BY <1>15, <1>25 DEF WaitfnEffect, Calling
<1>16. CASE AbortEffect(t) \/ AbortDoneEffect(t) \/ DrainedEffect(t)
  BY <1>16, <1>25 DEF AbortEffect, AbortDoneEffect, DrainedEffect, Drains, Calling
<1>17. CASE AbortCheckEffect(t) \/ AbortSyncEffect(t)
  BY <1>4, <1>17 DEF AbortCheckEffect, AbortSyncEffect, Calling
<1>18. CASE OpenTurnEffect(t)
  <2>1. PICK o \in Opn : o = tsk[t].dd
    BY <1>18 DEF OpenTurnEffect
  <2>2. /\ at(t) = "open_sync" /\ t \in masked /\ opened' = opened
        /\ opncb[o].inuse /\ opncb[o].resid = 0
    BY <1>1, <1>18, <2>1 DEF OpenTurnEffect, Descriptors, DescriptorFits, Opening
  <2>3. CASE driver_called(opncb[o].unitno, o)
    BY <1>5, <1>18, <2>1, <2>2, <2>3 DEF OpenTurnEffect
  <2>4. CASE ~driver_called(opncb[o].unitno, o)
    <3>1. Opened(masked \ {t}, t, o)
      BY <1>18, <2>1, <2>4 DEF OpenTurnEffect
    <3>2. \A u \in Task \ {t} : at(u) \notin Calling
      BY <2>2, OnlyCaller
    <3>3. /\ OtherTasks(t) /\ OtherOpns(o) /\ tsk'[t].at \notin Calling
          /\ opncb'[o].inuse /\ opncb'[o].resid = 1 /\ opncb'[o].unitno = opncb[o].unitno
          /\ devcb'.openreq = devcb.openreq
      BY <2>2, <3>1 DEF Opened, Leaves, KeepsOpen, Calling
    <3>. QED
      BY <1>2, <1>6, <2>2, <2>4, <3>2, <3>3
  <2>. QED
    BY <2>3, <2>4
<1>19. CASE OpenfnSucceedsEffect(t)
  <2>1. PICK o \in Opn : o = tsk[t].dd
    BY <1>19 DEF OpenfnSucceedsEffect
  <2>. DEFINE n == opncb[o].unitno
  <2>2. /\ at(t) = "openfn" /\ opened' = [opened EXCEPT ![n] = @ + 1]
        /\ opncb[o].inuse /\ opncb[o].resid = 0 /\ Opened(masked, t, o)
    BY <1>1, <1>19, <2>1 DEF OpenfnSucceedsEffect, Descriptors, DescriptorFits, Opening
  <2>3. \A u \in Task \ {t} : at(u) \notin Calling
    BY <2>2, OnlyCaller DEF Calling
  <2>4. /\ OtherTasks(t) /\ OtherOpns(o) /\ tsk'[t].at \notin Calling
        /\ opncb'[o].inuse /\ opncb'[o].resid = 1 /\ opncb'[o].unitno = n
        /\ devcb'.openreq = devcb.openreq
    BY <2>2 DEF Opened, Leaves, KeepsOpen, Calling
  <2>5. n \in Unit
    BY <1>2
  <2>6. devcb.openreq \/ used(n) = {}
    BY <2>1, <2>2, <2>5 DEF OpenCount, CallFits, Calling
  <2>. QED
    BY <1>6, <2>2, <2>3, <2>4, <2>5, <2>6
<1>20. CASE OpenfnFailsEffect(t)
  <2>1. PICK o \in Opn : o = tsk[t].dd
    BY <1>20 DEF OpenfnFailsEffect
  <2>2. /\ at(t) = "openfn" /\ opened' = opened /\ opncb[o].resid = 0 /\ Closed(masked, t, o)
    BY <1>20, <2>1 DEF OpenfnFailsEffect, Descriptors, DescriptorFits, Opening
  <2>3. /\ OtherTasks(t) /\ OtherOpns(o) /\ tsk'[t].at \notin Calling
        /\ ~opncb'[o].inuse /\ devcb'.openreq = devcb.openreq
    BY <2>2 DEF Closed, Freed, FreeOpn, Leaves, Calling
  <2>4. \A unitno \in Unit : used(unitno)' = used(unitno)
    BY <2>2, <2>3, UsedMoves DEF used
  <2>5. \A u \in Task \ {t} : at(u) # "idle" => tsk[u].dd # o
    BY <2>1, <2>2, Alone DEF Opening
  <2>6. \A p \in Opn, unitno \in Unit : CallFits(t, p, unitno)'
    BY <2>3 DEF CallFits
  <2>. QED
    BY <2>2, <2>3, <2>4, <2>5, <2>6, OpenCountStays
\* t frees its descriptor.
<1>21. ASSUME NEW o \in Opn, o = tsk[t].dd, at(t) \in Drained
       PROVE  opncb[o].inuse /\ opncb[o].resid # 0 /\ opncb[o].unitno \in Unit
  BY <1>1, <1>2, <1>21 DEF Descriptors, DescriptorFits, Closing, Drained
<1>22. CASE CloseEnterEffect(t)
  <2>1. PICK o \in Opn : o = tsk[t].dd
    BY <1>22 DEF CloseEnterEffect
  <2>2. /\ at(t) = "close_enter" /\ opened' = opened /\ devcb'.openreq = devcb.openreq
        /\ OtherTasks(t) /\ opncb[o].inuse /\ opncb[o].resid # 0 /\ opncb[o].unitno \in Unit
    BY <1>21, <1>22, <2>1 DEF CloseEnterEffect, Drained
  <2>3. CASE tsk'[t].at = "close_sync" /\ opncb' = opncb
    <3>1. OtherOpns(o) /\ KeepsOpen(o) /\ opncb'[o].resid = opncb[o].resid
      BY <2>3 DEF OtherOpns, KeepsOpen
    <3>. QED
      BY <1>3, <2>2, <2>3, <3>1 DEF Calling
  <2>4. CASE tsk'[t].at = "closefn" /\ opncb' = opncb
    <3>1. driver_called(opncb[o].unitno, o) /\ tsk'[t].dd = o
      BY <1>22, <2>1, <2>4 DEF CloseEnterEffect
    <3>. QED
      BY <1>5, <2>1, <2>2, <2>4, <3>1
  <2>5. CASE tsk'[t].at = "idle"
    <3>1. Freed(o) /\ devcb.syncq = <<>> /\ ~driver_called(opncb[o].unitno, o)
      BY <1>22, <2>1, <2>5 DEF CloseEnterEffect
    <3>2. \A u \in Task \ {t} : at(u) \notin Calling
      BY <3>1, OnlyCaller
    <3>. QED
      BY <1>7, <2>2, <2>5, <3>1, <3>2 DEF Calling
  <2>. QED
    BY <1>22, <2>3, <2>4, <2>5 DEF CloseEnterEffect
<1>23. CASE CloseTurnEffect(t)
  <2>1. PICK o \in Opn : o = tsk[t].dd
    BY <1>23 DEF CloseTurnEffect
  <2>2. /\ at(t) = "close_sync" /\ t \in masked /\ opened' = opened
        /\ opncb[o].inuse /\ opncb[o].resid # 0 /\ opncb[o].unitno \in Unit
    BY <1>21, <1>23, <2>1 DEF CloseTurnEffect, Drained
  <2>3. CASE driver_called(opncb[o].unitno, o)
    BY <1>5, <1>23, <2>1, <2>2, <2>3 DEF CloseTurnEffect
  <2>4. CASE ~driver_called(opncb[o].unitno, o)
    <3>1. Closed(masked \ {t}, t, o)
      BY <1>23, <2>1, <2>4 DEF CloseTurnEffect
    <3>2. \A u \in Task \ {t} : at(u) \notin Calling
      BY <2>2, OnlyCaller
    <3>3. /\ OtherTasks(t) /\ Freed(o) /\ tsk'[t].at \notin Calling
          /\ devcb'.openreq = devcb.openreq
      BY <3>1 DEF Closed, Leaves, Calling
    <3>. QED
      BY <1>7, <2>2, <2>4, <3>2, <3>3
  <2>. QED
    BY <2>3, <2>4
<1>24. CASE ClosefnEffect(t)
  <2>1. PICK o \in Opn : o = tsk[t].dd
    BY <1>24 DEF ClosefnEffect
  <2>. DEFINE n == opncb[o].unitno
  <2>2. /\ at(t) = "closefn" /\ opened' = [opened EXCEPT ![n] = @ - 1] /\ Closed(masked, t, o)
        /\ opncb[o].inuse /\ opncb[o].resid # 0 /\ n \in Unit
    BY <1>21, <1>24, <2>1 DEF ClosefnEffect, Drained
  <2>3. \A u \in Task \ {t} : at(u) \notin Calling
    BY <2>2, OnlyCaller DEF Calling
  <2>4. /\ OtherTasks(t) /\ Freed(o) /\ tsk'[t].at \notin Calling
        /\ devcb'.openreq = devcb.openreq
    BY <2>2 DEF Closed, Leaves, Calling
  <2>5. devcb.openreq \/ used(n) = {o}
    BY <2>1, <2>2 DEF OpenCount, CallFits, Calling
  <2>. QED
    BY <1>7, <2>2, <2>3, <2>4, <2>5
<1>. HIDE DEF KeepsDescriptor, KeepsRest, Becomes, Moves
<1>. QED
  BY <1>8, <1>9, <1>10, <1>11, <1>12, <1>13, <1>14, <1>15, <1>16, <1>17, <1>18, <1>19, <1>20,
     <1>22, <1>23, <1>24, Zenon DEF StepEffect

-----------------------------------------------------------------------------
(* The inductive invariant *)

IInv ==
  /\ TypeOK
  /\ Descriptors
  /\ SyncQueue
  /\ Aborts
  /\ Requests
  /\ Waits
  /\ OpenCount

\* It holds of a device that nobody has opened.
LEMMA IInvInit ==
  ASSUME Init
  PROVE  IInv
<1>. USE DEF Init
<1>1. TypeOK
  BY TypeInit
<1>2. \A t \in Task : at(t) = "idle" /\ ~tsk[t].any
  BY DEF Idle
<1>3. \A o \in Opn : ~opncb[o].inuse /\ opncb[o].resid = 0 /\ opncb[o].abort_tskid = None
        /\ opncb[o].waireqlst = <<>> /\ opncb[o].waitone = 0 /\ opncb[o].syncreq = 0
        /\ opncb[o].requestq = <<>>
  BY DEF FreeOpn
<1>4. \A r \in Req : reqcb[r].tskid = None
  BY DEF FreeReq
<1>5. masked = {} /\ devcb.syncq = <<>> /\ \A unitno \in Unit : opened[unitno] = 0
  OBVIOUS
<1>6. \A S : <<>> \in Unrepeated(S) /\ ToSet(<<>>) = {}
  BY EmptySequence
<1>. HIDE DEF Init
<1>7. Descriptors
  BY <1>2, <1>3 DEF Descriptors, DescriptorFits, Opening, Closing, Drained, Serving
<1>8. SyncQueue
  BY <1>2, <1>5, <1>6 DEF SyncQueue, Queueing, Calling
<1>9. Aborts
  BY <1>2, <1>3 DEF Aborts, Aborting, Drained
<1>10. Requests
  BY <1>2, <1>3, <1>4, <1>6 DEF Requests, QueueFits, HandFits, RequestsFit, Serving
<1>11. Waits
  <2>1. \A o \in Opn : WaitsForOne(o) = {} /\ Synchronous(o) = {}
    BY <1>2 DEF WaitsForOne, Synchronous, Serving
  <2>. QED
    BY <1>2, <1>3, <2>1, FS_EmptySet DEF Waits, AnyFits, ListFits, CountsFit
<1>12. OpenCount
  <2>1. \A unitno \in Unit : used(unitno) = {}
    BY <1>3 DEF used
  <2>. QED
    BY <1>2, <1>5, <2>1, FS_EmptySet DEF OpenCount, OpensFit, CallFits, Calling
<1>. QED
  BY <1>1, <1>7, <1>8, <1>9, <1>10, <1>11, <1>12 DEF IInv

\* Every step keeps it.
LEMMA IInvStep ==
  ASSUME Overlap = {}, IInv, Next
  PROVE  IInv'
<1>. HIDE DEF AnyFits, ListFits, CountsFit, QueueFits, HandFits, RequestsFit
<1>1. TypeOK /\ Descriptors /\ SyncQueue /\ Aborts /\ Requests /\ Waits /\ OpenCount
  BY DEF IInv
<1>2. TypeOK' /\ \E t \in Task : StepEffect(t)
  BY <1>1, Steps
<1>3. PICK t \in Task : StepEffect(t)
  BY <1>2
<1>4. \A o \in Opn : opncb[o].syncreq = 0 => Synchronous(o) = {}
  <2>1. \A o \in Opn : Synchronous(o) \in SUBSET Task
    BY DEF Synchronous
  <2>. QED
    BY <1>1, <2>1, Size DEF Waits, CountsFit
<1>5. \A u \in Task : tsk[u].any => at(u) = "waitfn"
  BY <1>1 DEF Waits, AnyFits
<1>6. Descriptors'
  BY <1>1, <1>2, <1>3, <1>4, DescriptorsKept
<1>7. SyncQueue'
  BY <1>1, <1>2, <1>3, SyncQueueKept
<1>8. Aborts'
  BY <1>1, <1>2, <1>3, AbortsKept
<1>9. Requests'
  BY <1>1, <1>2, <1>3, <1>5, RequestsKept
<1>10. Waits'
  BY <1>1, <1>2, <1>3, WaitsKept
<1>11. OpenCount'
  BY <1>1, <1>2, <1>3, OpenCountKept
<1>. QED
  BY <1>2, <1>6, <1>7, <1>8, <1>9, <1>10, <1>11 DEF IInv

\* A step that changes nothing keeps it.
LEMMA IInvStutter ==
  ASSUME IInv, UNCHANGED vars
  PROVE  IInv'
<1>. USE DEF vars
<1>1. \A t : at(t)' = at(t) /\ tsk'[t] = tsk[t]
  OBVIOUS
<1>2. \A o : InDriver(o)' = InDriver(o)
  BY DEF InDriver
<1>3. \A o : WaitsForOne(o)' = WaitsForOne(o) /\ Synchronous(o)' = Synchronous(o)
  BY DEF WaitsForOne, Synchronous
<1>4. \A unitno : used(unitno)' = used(unitno)
  BY DEF used
<1>5. TypeOK'
  BY DEF IInv, TypeOK
<1>6. Descriptors'
  BY DEF IInv, Descriptors, DescriptorFits
<1>7. SyncQueue'
  BY DEF IInv, SyncQueue
<1>8. Aborts'
  BY <1>2 DEF IInv, Aborts
<1>9. Requests'
  BY DEF IInv, Requests, QueueFits, HandFits, RequestsFit
<1>10. Waits'
  BY <1>2, <1>3 DEF IInv, Waits, AnyFits, ListFits, CountsFit
<1>11. OpenCount'
  BY <1>4 DEF IInv, OpenCount, OpensFit, CallFits
<1>. QED
  BY <1>5, <1>6, <1>7, <1>8, <1>9, <1>10, <1>11 DEF IInv

\* The inductive invariant holds when tasks do not do what Overlap names at the same time.
THEOREM DeviceInvariance ==
  ASSUME Overlap = {}
  PROVE  Spec => []IInv
<1>1. Init => IInv
  BY IInvInit
<1>2. IInv /\ [Next]_vars => IInv'
  BY IInvStep, IInvStutter
<1>. QED
  BY <1>1, <1>2, PTL DEF Spec

\* OpenCloseSerialised, for every device: the queue lets one task at a time call the driver.
THEOREM SerialOpensAndCloses ==
  ASSUME Overlap = {}
  PROVE  Spec => []OpenCloseSerialised
<1>1. IInv => OpenCloseSerialised
  BY DEF IInv, SyncQueue, Calling, OpenCloseSerialised
<1>. QED
  BY <1>1, DeviceInvariance, PTL

\* DriverOpenWhileUsed, for every device: the driver is opened and closed as often as chkopen
\* and TDA_OPENREQ say.
THEOREM DriverIsOpenWhileUsed ==
  ASSUME Overlap = {}
  PROVE  Spec => []DriverOpenWhileUsed
<1>1. IInv => DriverOpenWhileUsed
  BY DEF IInv, OpenCount, OpensFit, used, DriverOpenWhileUsed
<1>. QED
  BY <1>1, DeviceInvariance, PTL

\* DriverHasLiveRequests, for every device: a request in the driver is registered, in one
\* hand, and of a descriptor that is not drained.
THEOREM RequestsInDriverAreLive ==
  ASSUME Overlap = {}
  PROVE  Spec => []DriverHasLiveRequests
<1>1. ASSUME IInv PROVE DriverHasLiveRequests
  <2>1. TypeOK /\ Descriptors /\ Aborts /\ Requests /\ Waits
    BY <1>1 DEF IInv
  <2>2. \A o \in Opn : opncb[o].waitone =
          Cardinality({t \in Task : at(t) = "waitfn" /\ tsk[t].dd = o /\ ~tsk[t].any})
    BY <2>1 DEF Waits, CountsFit, WaitsForOne
  <2>3. ASSUME NEW t \in Task, at(t) \in {"execfn", "waitfn", "drain"},
               NEW r \in ToSet(tsk[t].requests)
        PROVE  /\ reqcb[r].opncb = tsk[t].dd
               /\ r \in ToSet(opncb[tsk[t].dd].requestq)
               /\ \A u \in Task \ {t} :
                    at(u) \in {"execfn", "waitfn", "drain"} => r \notin ToSet(tsk[u].requests)
               /\ \A u \in Task :
                    at(u) \in {"drain", "close_enter", "close_sync", "closefn"} =>
                      at(t) = "drain" \/ tsk[u].dd # tsk[t].dd
    <3>1. tsk[t].dd \in Opn
      BY <2>1, <2>3, Placed
    <3>2. r \in ToSet(opncb[tsk[t].dd].requestq)
      BY <2>1, <2>3 DEF Requests, RequestsFit, Serving
    <3>3. reqcb[r].opncb = tsk[t].dd
      BY <2>1, <3>1, <3>2 DEF Requests, QueueFits
    <3>4. ASSUME NEW u \in Task \ {t}, at(u) \in {"execfn", "waitfn", "drain"}
          PROVE  r \notin ToSet(tsk[u].requests)
      <4>1. at(t) \in Serving \cup {"drain"} /\ at(u) \in Serving \cup {"drain"}
        BY <2>3, <3>4 DEF Serving
      <4>2. ToSet(tsk[t].requests) \cap ToSet(tsk[u].requests) = {}
        BY <2>1, <4>1, NotShared
      <4>. QED
        BY <2>3, <4>2
    <3>5. ASSUME NEW u \in Task, at(u) \in {"drain", "close_enter", "close_sync", "closefn"},
                 at(t) # "drain", tsk[u].dd = tsk[t].dd
          PROVE  FALSE
      BY <2>1, <2>3, <3>5 DEF Aborts, Drained, InDriver, Serving
    <3>. QED
      BY <3>2, <3>3, <3>4, <3>5
  <2>. QED
    BY <2>2, <2>3 DEF DriverHasLiveRequests
<1>. QED
  BY <1>1, DeviceInvariance, PTL

=============================================================================
