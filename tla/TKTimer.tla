------------------------------ MODULE TKTimer ------------------------------
(***************************************************************************)
(* The timer of the kernel: the hardware counter and its interrupt         *)
(* (tkdev_timer.h), the queue of timer events and timer_handler (timer.c), *)
(* and what waits on it: task timeouts, cyclic handlers and alarm handlers *)
(* (time_calls.c).                                                         *)
(*                                                                         *)
(* The unit of time is the microsecond.  timer_handler calls cyclic and    *)
(* alarm handlers with interrupts enabled, its own interrupt masked, so    *)
(* that other interrupt handlers call the kernel while its queue is being  *)
(* worked off; a handler that is started with a time of 0 is called at     *)
(* once, with interrupts disabled, by whoever starts it.                   *)
(***************************************************************************)
EXTENDS Integers, Sequences, SequencesExt

CONSTANTS
  Task,           \* tasks that wait with a timeout
  Cyc,            \* control blocks of cyclic handlers
  Alm,            \* control blocks of alarm handlers
  TIMER_PERIOD,   \* the interval of the timer interrupt
  Times,          \* the times that callers ask for
  MaxCalls,       \* bound: handlers called at once, one within another
  Attributes      \* the attributes of cyclic handlers, subsets of {"TA_STA", "TA_PHS"}

ASSUME TimerAssumption ==
  /\ TIMER_PERIOD \in Nat \ {0}
  /\ Times \subseteq Nat
  /\ MaxCalls \in Nat \ {0}
  /\ Attributes \subseteq SUBSET {"TA_STA", "TA_PHS"}
  /\ Task \cap Cyc = {} /\ Task \cap Alm = {} /\ Cyc \cap Alm = {}

\* The timer event blocks (TMEB) are named by what they belong to.
Event == Task \cup Cyc \cup Alm

TMO_FEVR == -1

VARIABLES
  hw,             \* the timer device: TI_RCR (its counter) and ovf (its pending interrupt)
  current_time,   \* the software clock
  timer_queue,    \* the timer events, in the order of their times
  tmeb,           \* the time of every timer event block
  waiting,        \* the tasks that wait with a timer event block in use
  cyccb, almcb,   \* the control blocks of the handlers
  handling,       \* timer_handler is active
  calls,          \* how many cyclic and alarm handlers are being called, one within another
  now,            \* the time that has really passed since the timer was started
  due             \* by event: the time of now before which it may not occur

queuevars == <<timer_queue, tmeb, due>>
vars == <<hw, current_time, queuevars, waiting, cyccb, almcb, handling, calls, now>>

-----------------------------------------------------------------------------
\* The timer device

\* The counter goes through a period and requests the interrupt.  The kernel keeps the
\* interrupt waiting for less than a period (0 <= elapsed time < TIMER_PERIOD * 2).
hw_count ==
  LET wraps == hw.TI_RCR + 1 = TIMER_PERIOD IN
  /\ ~(wraps /\ hw.ovf)
  /\ hw' = [TI_RCR |-> IF wraps THEN 0 ELSE hw.TI_RCR + 1, ovf |-> hw.ovf \/ wraps]
  /\ now' = now + 1
  /\ UNCHANGED <<current_time, queuevars, waiting, cyccb, almcb, handling, calls>>

\* Slip: the interrupt that is waiting is not added.
get_hw_timer_usec_wrapped == {hw.TI_RCR, hw.TI_RCR + 1}

\* The time since current_time was last updated: whole microseconds of a finer count,
\* plus one when that count plus one completes a microsecond.
get_hw_timer_usec ==
  LET ofs == hw.TI_RCR + (IF hw.ovf THEN TIMER_PERIOD ELSE 0) IN {ofs, ofs + 1}

adjust_time == get_hw_timer_usec

-----------------------------------------------------------------------------
\* The queue of timer events

\* Slip: events are not kept in the order of their times.
enqueue_tmeb_last(queue, e, tm) == Append(queue, e)

\* enqueue_tmeb: event e of the time tm goes behind those that are not later.
enqueue_tmeb(queue, e, tm) ==
  LET later == {i \in DOMAIN queue : tm < tmeb[queue[i]]}
      place == IF later = {} THEN Len(queue) + 1 ELSE CHOOSE i \in later : \A j \in later : i <= j
  IN InsertAt(queue, place, e)

linked(e) == e \in ToSet(timer_queue)

\* timer_delete: unlinks an event; one that is linked to itself stays as it is.
timer_delete(queue, e) ==
  IF e \in ToSet(queue)
  THEN RemoveAt(queue, CHOOSE i \in DOMAIN queue : queue[i] = e)
  ELSE queue

\* timer_insert, timer_insert_reltim, alm_timer_insert: e occurs reltim from now.
timer_insert_reltim(queue, e, reltim) ==
  \E adjust \in adjust_time :
    LET tm == current_time + reltim + adjust IN
    /\ timer_queue' = enqueue_tmeb(queue, e, tm)
    /\ tmeb' = [tmeb EXCEPT ![e] = tm]
    /\ due' = [due EXCEPT ![e] = now + reltim]

\* timer_insert_abs: the cyclic handler c, whose event had the time from, occurs at tm;
\* start is when the time from really was due.
cyc_timer_insert(queue, c, from, start, tm) ==
  /\ timer_queue' = enqueue_tmeb(queue, c, tm)
  /\ tmeb' = [tmeb EXCEPT ![c] = tm]
  /\ due' = [due EXCEPT ![c] = start + (tm - from)]

\* Slip: an interval that is shorter than the timer's is not caught up with.
cyc_next_time_once(time, cyctim) == time + cyctim

\* cyc_next_time: the next time in the phase of time that is later than current_time.
cyc_next_time(time, cyctim) ==
  IF time + cyctim > current_time
  THEN time + cyctim
  ELSE time + ((current_time - time) \div cyctim + 1) * cyctim

-----------------------------------------------------------------------------
\* Who executes.  Interrupts are disabled while timer_handler is between two of its
\* callbacks, and while a handler is called at once.
CallPossible == ~handling \/ calls > 0
InTask == ~handling /\ calls = 0

\* CallUserHandlerP1 ... its return.
call_handler ==
  /\ calls < MaxCalls
  /\ calls' = calls + 1

handler_return ==
  /\ calls > 0
  /\ calls' = calls - 1
  /\ UNCHANGED <<hw, current_time, queuevars, waiting, cyccb, almcb, handling, now>>

-----------------------------------------------------------------------------
\* Tasks

\* make_wait, make_wait_reltim: a task waits with the timeout tmout.
make_wait(t, tmout) ==
  /\ InTask
  /\ t \notin waiting
  /\ waiting' = waiting \cup {t}
  /\ IF tmout = TMO_FEVR
     THEN UNCHANGED queuevars
     ELSE timer_insert_reltim(timer_queue, t, tmout)
  /\ UNCHANGED <<hw, current_time, cyccb, almcb, handling, calls, now>>

\* wait_release: whatever a task waits for ends its wait.
wait_release(t) ==
  /\ CallPossible
  /\ t \in waiting
  /\ waiting' = waiting \ {t}
  /\ timer_queue' = timer_delete(timer_queue, t)
  /\ UNCHANGED <<hw, current_time, tmeb, due, cyccb, almcb, handling, calls, now>>

-----------------------------------------------------------------------------
\* Cyclic handlers

\* call_cychdr, immediate_call_cychdr: the next time is set before the handler is called.
call_cychdr(queue, c, time, start, cyctim) ==
  /\ cyc_timer_insert(queue, c, time, start, cyc_next_time(time, cyctim))
  /\ call_handler

tk_cre_cyc(c, cycatr, cyctim, cycphs) ==
  /\ CallPossible
  /\ ~cyccb[c].cychdr
  /\ cyctim > 0
  /\ cyccb' = [cyccb EXCEPT ![c] =
       [cychdr |-> TRUE, cycatr |-> cycatr, cyctim |-> cyctim,
        cycstat |-> IF "TA_STA" \in cycatr THEN "TCYC_STA" ELSE "TCYC_STP"]]
  /\ IF "TA_STA" \in cycatr /\ cycphs > 0
     THEN timer_insert_reltim(timer_queue, c, cycphs) /\ UNCHANGED calls
     ELSE \E adjust \in adjust_time :
            LET tm == current_time + cycphs + adjust IN
            IF "TA_STA" \in cycatr
            THEN call_cychdr(timer_queue, c, tm, now, cyctim)
            ELSE /\ tmeb' = [tmeb EXCEPT ![c] = tm]
                 /\ due' = [due EXCEPT ![c] = now + cycphs]
                 /\ UNCHANGED <<timer_queue, calls>>
  /\ UNCHANGED <<hw, current_time, waiting, almcb, handling, now>>

tk_del_cyc(c) ==
  /\ CallPossible
  /\ cyccb[c].cychdr
  /\ timer_queue' = IF cyccb[c].cycstat = "TCYC_STA" THEN timer_delete(timer_queue, c) ELSE timer_queue
  /\ cyccb' = [cyccb EXCEPT ![c].cychdr = FALSE, ![c].cycstat = "TCYC_STP"]
  /\ UNCHANGED <<hw, current_time, tmeb, due, waiting, almcb, handling, calls, now>>

\* Slip: the phase is not continued when its time has passed.
tk_sta_cyc_anew(c) ==
  /\ CallPossible
  /\ cyccb[c].cychdr
  /\ IF "TA_PHS" \in cyccb[c].cycatr /\ tmeb[c] > current_time
     THEN IF linked(c) THEN UNCHANGED queuevars
          ELSE cyc_timer_insert(timer_queue, c, tmeb[c], due[c], tmeb[c])
     ELSE timer_insert_reltim(timer_delete(timer_queue, c), c, cyccb[c].cyctim)
  /\ cyccb' = [cyccb EXCEPT ![c].cycstat = "TCYC_STA"]
  /\ UNCHANGED <<hw, current_time, waiting, almcb, handling, calls, now>>

tk_sta_cyc(c) ==
  LET time == tmeb[c]
      started == cyccb[c].cycstat = "TCYC_STA"
  IN
  /\ CallPossible
  /\ cyccb[c].cychdr
  /\ \/ /\ "TA_PHS" \in cyccb[c].cycatr   \* continues in the phase
        /\ IF started
           THEN UNCHANGED queuevars
           ELSE cyc_timer_insert(timer_queue, c, time, due[c],
                  IF time > current_time THEN time ELSE cyc_next_time(time, cyccb[c].cyctim))
     \/ /\ "TA_PHS" \notin cyccb[c].cycatr   \* starts a new phase
        /\ timer_insert_reltim(
             IF started THEN timer_delete(timer_queue, c) ELSE timer_queue, c, cyccb[c].cyctim)
  /\ cyccb' = [cyccb EXCEPT ![c].cycstat = "TCYC_STA"]
  /\ UNCHANGED <<hw, current_time, waiting, almcb, handling, calls, now>>

tk_stp_cyc(c) ==
  /\ CallPossible
  /\ cyccb[c].cychdr
  /\ timer_queue' = IF cyccb[c].cycstat = "TCYC_STA" THEN timer_delete(timer_queue, c) ELSE timer_queue
  /\ cyccb' = [cyccb EXCEPT ![c].cycstat = "TCYC_STP"]
  /\ UNCHANGED <<hw, current_time, tmeb, due, waiting, almcb, handling, calls, now>>

-----------------------------------------------------------------------------
\* Alarm handlers

tk_cre_alm(a) ==
  /\ CallPossible
  /\ ~almcb[a].almhdr
  /\ almcb' = [almcb EXCEPT ![a] = [almhdr |-> TRUE, almstat |-> "TALM_STP"]]
  /\ UNCHANGED <<hw, current_time, queuevars, waiting, cyccb, handling, calls, now>>

tk_del_alm(a) ==
  /\ CallPossible
  /\ almcb[a].almhdr
  /\ timer_queue' = IF almcb[a].almstat = "TALM_STA" THEN timer_delete(timer_queue, a) ELSE timer_queue
  /\ almcb' = [almcb EXCEPT ![a] = [almhdr |-> FALSE, almstat |-> "TALM_STP"]]
  /\ UNCHANGED <<hw, current_time, tmeb, due, waiting, cyccb, handling, calls, now>>

\* Slip: the current setting of the alarm is not cancelled.
tk_sta_alm_again(a, almtim) ==
  /\ CallPossible
  /\ almcb[a].almhdr
  /\ IF almtim > 0
     THEN timer_insert_reltim(timer_queue, a, almtim) /\ UNCHANGED calls
     ELSE call_handler /\ UNCHANGED queuevars
  /\ almcb' = [almcb EXCEPT ![a].almstat = IF almtim > 0 THEN "TALM_STA" ELSE "TALM_STP"]
  /\ UNCHANGED <<hw, current_time, waiting, cyccb, handling, now>>

\* A time of 0 calls the handler at once (immediate_call_almhdr).
tk_sta_alm(a, almtim) ==
  LET queue == IF almcb[a].almstat = "TALM_STA" THEN timer_delete(timer_queue, a) ELSE timer_queue
  IN
  /\ CallPossible
  /\ almcb[a].almhdr
  /\ IF almtim > 0
     THEN timer_insert_reltim(queue, a, almtim) /\ UNCHANGED calls
     ELSE call_handler /\ timer_queue' = queue /\ UNCHANGED <<tmeb, due>>
  /\ almcb' = [almcb EXCEPT ![a].almstat = IF almtim > 0 THEN "TALM_STA" ELSE "TALM_STP"]
  /\ UNCHANGED <<hw, current_time, waiting, cyccb, handling, now>>

tk_stp_alm(a) ==
  /\ CallPossible
  /\ almcb[a].almhdr
  /\ timer_queue' = IF almcb[a].almstat = "TALM_STA" THEN timer_delete(timer_queue, a) ELSE timer_queue
  /\ almcb' = [almcb EXCEPT ![a].almstat = "TALM_STP"]
  /\ UNCHANGED <<hw, current_time, tmeb, due, waiting, cyccb, handling, calls, now>>

-----------------------------------------------------------------------------
\* The timer interrupt

\* The interrupt is taken, unless it is masked because timer_handler is active, or
\* interrupts are disabled because a handler is called at once.
timer_handler_begin ==
  /\ hw.ovf
  /\ InTask
  /\ hw' = [hw EXCEPT !.ovf = FALSE]
  /\ current_time' = current_time + TIMER_PERIOD
  /\ handling' = TRUE
  /\ UNCHANGED <<queuevars, waiting, cyccb, almcb, calls, now>>

passed(e) == tmeb[e] <= current_time
first_passed == timer_queue # <<>> /\ passed(Head(timer_queue))

\* One round of the loop: the first event, whose time has passed, is removed and its
\* callback called: wait_release_tmout, call_cychdr or call_almhdr.
timer_handler_event ==
  /\ handling
  /\ calls = 0
  /\ first_passed
  /\ LET e == Head(timer_queue) queue == Tail(timer_queue) IN
     \/ /\ e \in Task
        /\ waiting' = waiting \ {e}
        /\ timer_queue' = queue
        /\ UNCHANGED <<tmeb, due, cyccb, almcb, calls>>
     \/ /\ e \in Cyc
        /\ call_cychdr(queue, e, tmeb[e], due[e], cyccb[e].cyctim)
        /\ UNCHANGED <<waiting, cyccb, almcb>>
     \/ /\ e \in Alm
        /\ almcb' = [almcb EXCEPT ![e].almstat = "TALM_STP"]
        /\ timer_queue' = queue
        /\ call_handler
        /\ UNCHANGED <<tmeb, due, waiting, cyccb>>
  /\ UNCHANGED <<hw, current_time, handling, now>>

timer_handler_end ==
  /\ handling
  /\ calls = 0
  /\ ~first_passed
  /\ handling' = FALSE
  /\ UNCHANGED <<hw, current_time, queuevars, waiting, cyccb, almcb, calls, now>>

-----------------------------------------------------------------------------
Init ==
  /\ hw = [TI_RCR |-> 0, ovf |-> FALSE]
  /\ current_time = 0
  /\ timer_queue = <<>>
  /\ tmeb = [e \in Event |-> 0]
  /\ waiting = {}
  /\ cyccb = [c \in Cyc |-> [cychdr |-> FALSE, cycatr |-> {}, cyctim |-> 1, cycstat |-> "TCYC_STP"]]
  /\ almcb = [a \in Alm |-> [almhdr |-> FALSE, almstat |-> "TALM_STP"]]
  /\ handling = FALSE
  /\ calls = 0
  /\ now = 0
  /\ due = [e \in Event |-> 0]

TaskCalls ==
  \E t \in Task : wait_release(t) \/ \E tmout \in (Times \ {0}) \cup {TMO_FEVR} : make_wait(t, tmout)

CyclicCalls ==
  \E c \in Cyc :
    \/ \E cycatr \in Attributes, cyctim, cycphs \in Times : tk_cre_cyc(c, cycatr, cyctim, cycphs)
    \/ tk_del_cyc(c) \/ tk_sta_cyc(c) \/ tk_stp_cyc(c)

AlarmCalls ==
  \E a \in Alm :
    \/ tk_cre_alm(a) \/ tk_del_alm(a) \/ tk_stp_alm(a)
    \/ \E almtim \in Times : tk_sta_alm(a, almtim)

Next ==
  \/ hw_count
  \/ timer_handler_begin \/ timer_handler_event \/ timer_handler_end
  \/ handler_return
  \/ TaskCalls \/ CyclicCalls \/ AlarmCalls

Spec == Init /\ [][Next]_vars

-----------------------------------------------------------------------------
TypeOK ==
  /\ hw \in [TI_RCR : 0 .. TIMER_PERIOD - 1, ovf : BOOLEAN]
  /\ current_time \in Nat
  /\ timer_queue \in Seq(Event)
  /\ tmeb \in [Event -> Nat]
  /\ waiting \subseteq Task
  /\ cyccb \in [Cyc -> [cychdr : BOOLEAN, cycatr : Attributes \cup {{}}, cyctim : Nat \ {0},
                        cycstat : {"TCYC_STP", "TCYC_STA"}]]
  /\ almcb \in [Alm -> [almhdr : BOOLEAN, almstat : {"TALM_STP", "TALM_STA"}]]
  /\ handling \in BOOLEAN
  /\ calls \in Nat
  /\ now \in Nat
  /\ due \in [Event -> Nat]

\* The kernel unlinks an event through its pointers whenever a handler is TCYC_STA or
\* TALM_STA (timer_delete), and links it when it is not: the state of a handler and the
\* queue agree, no event is linked twice, and a task whose timeout is linked waits, even
\* while timer_handler has taken an event out and calls its handler.
TimerQueueMatchesStates ==
  /\ IsInjective(timer_queue)
  /\ \A c \in Cyc : linked(c) <=> cyccb[c].cycstat = "TCYC_STA"
  /\ \A a \in Alm : linked(a) <=> almcb[a].almstat = "TALM_STA"
  /\ \A t \in Task : linked(t) => t \in waiting

\* "To guarantee longer wait time specified by 'tmout', add adjust_time() on wait time"
\* (timer_insert): when the software clock passes the time of an event, the time that was
\* asked for has really passed, although the request was made at any moment between two
\* interrupts, or with an interrupt pending that the clock has not counted yet.
NeverEarly ==
  \A e \in Event : linked(e) /\ passed(e) => due[e] <= now

\* What is asked for is not forgotten either: once timer_handler has ended, no event is
\* linked for which the software clock has passed what was asked for, whatever handlers and
\* other interrupts linked and unlinked while it worked the queue off.
NeverLate ==
  ~handling => \A e \in Event : linked(e) => current_time <= due[e]

\* A cyclic handler that is called (call_cychdr) has its next time after current_time and
\* at most an interval away: it is called once by an execution of timer_handler, even
\* when its interval is shorter than the timer's, and never skips a time needlessly.
CalledOncePerInterval ==
  [][\A c \in Cyc :
       timer_handler_event /\ c = Head(timer_queue) =>
         /\ tmeb'[c] > current_time
         /\ tmeb'[c] <= current_time + cyccb[c].cyctim]_vars

\* A cyclic handler with TA_PHS keeps the phase it was created with, however often it is
\* stopped, started and called, and whether interrupts are late or not.
PhaseKept ==
  [][\A c \in Cyc :
       cyccb[c].cychdr /\ cyccb'[c].cychdr /\ "TA_PHS" \in cyccb[c].cycatr =>
         /\ tmeb'[c] >= tmeb[c]
         /\ (tmeb'[c] - tmeb[c]) % cyccb[c].cyctim = 0]_vars

=============================================================================
