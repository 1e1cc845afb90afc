------------------------------ MODULE MCTimer ------------------------------
(***************************************************************************)
(* A task that waits with a timeout, a cyclic handler and an alarm         *)
(* handler, with times below, at and above the period of the timer.        *)
(***************************************************************************)
EXTENDS TKTimer

AllAttributes == SUBSET {"TA_STA", "TA_PHS"}

\* What a state says of the future: times are compared with one another only, so that
\* states in which everything happens later are the same; of a cyclic handler's time that
\* has passed only the phase counts, and of an event that will be set anew nothing.
Phase(c) ==
  LET behind == current_time - tmeb[c] IN
  IF behind < 0 THEN -behind ELSE -(behind % cyccb[c].cyctim)

Ahead(e) ==
  IF linked(e)
  THEN <<tmeb[e] - current_time, due[e] - tmeb[e]>>
  ELSE IF e \in Cyc /\ cyccb[e].cychdr /\ "TA_PHS" \in cyccb[e].cycatr
       THEN <<Phase(e), due[e] - tmeb[e]>>
       ELSE <<>>

TimerView ==
  <<hw, now - current_time, timer_queue, [e \in Event |-> Ahead(e)], waiting,
    [c \in Cyc |-> IF cyccb[c].cychdr THEN cyccb[c] ELSE [cychdr |-> FALSE]],
    almcb, handling, calls>>

=============================================================================
