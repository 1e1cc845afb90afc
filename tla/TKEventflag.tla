----------------------------- MODULE TKEventflag -----------------------------
(***************************************************************************)
(* eventflag.c: event flags.  An event flag is its own wait queue;         *)
(* objcb.flg[f] is its FLGCB, with the bits that are set as flgptn.  winfo *)
(* of a waiting task is [waiptn, wfmode], wfmode a set of TWF_ORW, TWF_CLR *)
(* and TWF_BITCLR (no TWF_ORW is TWF_ANDW).                                *)
(***************************************************************************)
EXTENDS TKTaskCalls

CONSTANTS
  Flg,         \* the FLGCBs of flgcb_table
  Bit          \* the bits of a pattern

ASSUME FlgAssumption == Flg \subseteq WaitQueue

flgcb(f) == objcb.flg[f]

\* flgid = 0: the block is in free_flgcb.
free_flgcb == [exists |-> FALSE, tpri |-> FALSE, wmul |-> FALSE, nodiswai |-> FALSE,
               flgptn |-> {}]

eventflag_cond(flgptn, w) ==
  IF "ORW" \in w.wfmode THEN flgptn \cap w.waiptn # {} ELSE w.waiptn \subseteq flgptn

\* What TWF_BITCLR and TWF_CLR leave of the pattern.
clear(flgptn, w) ==
  IF "CLR" \in w.wfmode THEN {}
  ELSE IF "BITCLR" \in w.wfmode THEN flgptn \ w.waiptn
  ELSE flgptn

\* wspec_flg_tfifo has no hook; neither has a rel_wai_hook.
flg_chg_pri(k, t) ==
  LET f == k.tcb[t].wid IN
  IF k.obj.flg[f].tpri THEN gcb_change_priority(k, f, t) ELSE k

tk_cre_flg(f, atr, iflgptn) ==
  /\ ~flgcb(f).exists
  /\ Becomes([Kernel EXCEPT !.obj.flg[f] =
       [exists |-> TRUE, tpri |-> atr.tpri, wmul |-> atr.wmul,
        nodiswai |-> atr.nodiswai, flgptn |-> iflgptn]])
  /\ UNCHANGED sysvars

tk_del_flg(f) ==
  /\ flgcb(f).exists
  /\ Becomes([wait_delete(Kernel, f) EXCEPT !.obj.flg[f] = free_flgcb])
  /\ UNCHANGED sysvars

\* Slip: the bits are cleared after the search.
flg_visit_uncleared(a, f, t) ==
  LET w    == a.k.tcb[t].winfo
      ptn  == a.k.obj.flg[f].flgptn
  IN IF a.done \/ ~eventflag_cond(ptn, w) THEN a
     ELSE [k |-> [wait_release_ok(a.k, t) EXCEPT
                    !.obj.flg[f].flgptn = IF "CLR" \in w.wfmode THEN {} ELSE ptn],
           done |-> "CLR" \in w.wfmode]

\* One iteration of the search of tk_set_flg, which saves the next link before it
\* releases a task.
flg_visit(a, f, t) ==
  LET w    == a.k.tcb[t].winfo
      ptn  == a.k.obj.flg[f].flgptn
  IN IF a.done \/ ~eventflag_cond(ptn, w) THEN a
     ELSE [k |-> [wait_release_ok(a.k, t) EXCEPT !.obj.flg[f].flgptn = clear(ptn, w)],
           done |-> \/ "CLR" \in w.wfmode
                    \/ "BITCLR" \in w.wfmode /\ clear(ptn, w) = {}]

tk_set_flg(f, setptn) ==
  /\ flgcb(f).exists
  /\ Becomes(FoldLeft(LAMBDA a, t : flg_visit(a, f, t),
                      [k |-> [Kernel EXCEPT !.obj.flg[f].flgptn = @ \cup setptn],
                       done |-> FALSE],
                      wait_queue[f]).k)
  /\ UNCHANGED sysvars

\* flgptn &= clrptn
tk_clr_flg(f, clrptn) ==
  /\ flgcb(f).exists
  /\ Becomes([Kernel EXCEPT !.obj.flg[f].flgptn = @ \cap clrptn])
  /\ UNCHANGED sysvars

tk_wai_flg(f, w, tmout) ==
  /\ CHECK_DISPATCH
  /\ flgcb(f).exists
  /\ flgcb(f).wmul \/ wait_queue[f] = <<>>
  /\ ~is_diswai(Kernel, ctxtsk, {"FLG"}, flgcb(f).nodiswai)
  /\ END_CRITICAL_SECTION(
       IF eventflag_cond(flgcb(f).flgptn, w)
       THEN [Kernel EXCEPT !.obj.flg[f].flgptn = clear(@, w)]
       ELSE IF tmout = "TMO_POL" THEN Kernel
       ELSE [gcb_make_wait_with_diswai(Kernel, {"FLG"}, f, tmout, flgcb(f).tpri,
                                       flgcb(f).nodiswai)
               EXCEPT !.tcb[ctxtsk].winfo = w])

-----------------------------------------------------------------------------

\* No task waits for a pattern that is set: a set that serves one task must not
\* leave another waiting whose condition still holds.
NoSatisfiedWaiter ==
  \A f \in Flg : \A i \in DOMAIN wait_queue[f] :
    ~eventflag_cond(flgcb(f).flgptn, tcb[wait_queue[f][i]].winfo)

\* The tasks of f a step has given what they waited for, as places in the queue.
Served(f) ==
  {i \in DOMAIN wait_queue[f] :
     LET t == wait_queue[f][i] IN
     t \notin ToSet(wait_queue'[f]) /\ tcb'[t].wercd = "E_OK"}

\* An event goes to those entitled to it, once: when a set releases several tasks, none
\* follows one with TWF_CLR, and one that follows a task with TWF_BITCLR is satisfied by
\* other bits; and of two tasks that wait for the same, the first is served first: with
\* TA_TPRI the one of the higher priority, whatever changes of priority came in between.
EventsUsedOnce ==
  [][\A f \in Flg : \A j \in Served(f) : \A i \in DOMAIN wait_queue[f] :
       LET u == tcb[wait_queue[f][i]]
           t == tcb[wait_queue[f][j]]
       IN /\ i \in Served(f) /\ i < j =>
               /\ "CLR" \notin u.winfo.wfmode
               /\ "BITCLR" \in u.winfo.wfmode =>
                    eventflag_cond(Bit \ u.winfo.waiptn, t.winfo)
          /\ /\ u.winfo = t.winfo
             /\ IF flgcb(f).tpri THEN u.priority < t.priority ELSE i < j
             => i \in Served(f)]_vars

=============================================================================
