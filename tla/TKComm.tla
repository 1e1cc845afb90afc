-------------------------------- MODULE TKComm --------------------------------
(***************************************************************************)
(* Communication between tasks: event flags, mailboxes, message buffers    *)
(* and rendezvous ports, composed with the task layer.  A task waits for   *)
(* one of them at a time; the calls of the task layer that end its wait or *)
(* change its priority run the hooks of the object it waits for (WSPEC).   *)
(***************************************************************************)
EXTENDS TKEventflag, TKMailbox, TKMessageBuffer, TKRendezvous

CONSTANTS
  FlgAtr, Wfmode,     \* the attributes, wait modes, ... the calls are tried with
  MbxAtr, MbfAtr, BufSz, PorAtr,
  CommTmo,            \* the timeouts tried
  CommPri,            \* the priorities tk_chg_pri is tried with
  WaitMasks,          \* the wait factors tk_dis_wai is tried with
  Disturbed,          \* the tasks these two are tried on
  InitTask,           \* the task that starts the others
  InitPri             \* the priority each task is created with

ASSUME CommAssumption ==
  /\ WaitQueue = Flg \cup Mbx \cup {MbfSend(b) : b \in Mbf} \cup {MbfRecv(b) : b \in Mbf}
                 \cup {PorCall(p) : p \in Por} \cup {PorAccept(p) : p \in Por}
  /\ FlgAtr \subseteq [tpri : BOOLEAN, wmul : BOOLEAN, nodiswai : BOOLEAN]
  /\ Wfmode \subseteq SUBSET {"ORW", "CLR", "BITCLR"}
  /\ MbxAtr \subseteq [mpri : BOOLEAN, tpri : BOOLEAN, nodiswai : BOOLEAN]
  /\ MbfAtr \subseteq [tpri : BOOLEAN, nodiswai : BOOLEAN]
  /\ BufSz \subseteq 0 .. MaxBufSz
  /\ PorAtr \subseteq [tpri : BOOLEAN, nodiswai : BOOLEAN, maxrmsz : Nat]
  /\ CommTmo \subseteq TMO
  /\ CommPri \subseteq Pri
  /\ WaitMasks \subseteq SUBSET {"FLG", "MBX", "SMBF", "RMBF", "CAL", "ACP", "RDV"}
  /\ Disturbed \subseteq Task
  /\ InitTask \in Task
  /\ InitPri \in [Task -> Pri]

waits_for(k, t, factor) == is_waiting(k.tcb[t].state) /\ k.tcb[t].tskwait = {factor}

\* wspec->chg_pri_hook
chg_pri_hook(k, t, oldpri) ==
  CASE waits_for(k, t, "FLG")  -> flg_chg_pri(k, t)
    [] waits_for(k, t, "MBX")  -> mbx_chg_pri(k, t)
    [] waits_for(k, t, "SMBF") -> mbf_chg_pri_hook(k, t, oldpri)
    [] waits_for(k, t, "CAL")  -> cal_chg_pri(k, t)
    [] OTHER -> k

tk_chg_pri_comm(t, priority) ==
  /\ tcb[t].state # "NONEXIST"
  /\ Becomes(chg_pri_hook(
       change_task_priority([Kernel EXCEPT !.tcb[t].bpriority = priority], t, priority),
       t, tcb[t].priority))
  /\ UNCHANGED sysvars

\* k is the kernel after the wait of t has been cancelled: wspec->rel_wai_hook, of the
\* tasks that wait to send to a message buffer only.
rel_wai_hook(k, t) == IF waits_for(Kernel, t, "SMBF") THEN mbf_rel_wai(k, t) ELSE k

released(t) == rel_wai_hook(wait_release(Kernel, t), t)
left(t) == rel_wai_hook(_ter_tsk(Kernel, t), t)

-----------------------------------------------------------------------------

CommInit ==
  t_kernel_main(InitTask, Task, <<>>, InitPri,
    [flg |-> [f \in Flg |-> free_flgcb],
     mbx |-> [b \in Mbx |-> free_mbxcb],
     nextmsg |-> [m \in Msg |-> NoMsg],
     given |-> {},
     mbf |-> [b \in Mbf |-> free_mbfcb],
     por |-> [p \in Por |-> free_porcb],
     wrdvno |-> [t \in Task |-> 0],
     told |-> {}])

\* A bound: the objects that exist at one time are of one kind.
OnlyFlg == /\ \A b \in Mbx : ~mbxcb(b).exists
           /\ \A b \in Mbf : ~mbfcb(b).exists
OnlyMbx == /\ \A f \in Flg : ~flgcb(f).exists
           /\ \A b \in Mbf : ~mbfcb(b).exists
OnlyMbf == /\ \A f \in Flg : ~flgcb(f).exists
           /\ \A b \in Mbx : ~mbxcb(b).exists

FlgCalls ==
  \E f \in Flg :
    \/ OnlyFlg /\ \E a \in FlgAtr, ptn \in SUBSET Bit : tk_cre_flg(f, a, ptn)
    \/ tk_del_flg(f)
    \/ \E ptn \in SUBSET Bit : tk_set_flg(f, ptn) \/ tk_clr_flg(f, ptn)
    \/ \E w \in [waiptn : SUBSET Bit \ {{}}, wfmode : Wfmode], tmout \in CommTmo :
         tk_wai_flg(f, w, tmout)

MbxCalls ==
  \E b \in Mbx :
    \/ OnlyMbx /\ \E a \in MbxAtr : tk_cre_mbx(b, a)
    \/ tk_del_mbx(b)
    \/ \E m \in Msg : tk_snd_mbx(b, m)
    \/ \E tmout \in CommTmo : tk_rcv_mbx(b, tmout)

MbfCalls ==
  \E b \in Mbf :
    \/ OnlyMbf /\ \E a \in MbfAtr, size \in BufSz : tk_cre_mbf(b, a, size)
    \/ tk_del_mbf(b)
    \/ \E m \in Letter : \/ tk_snd_mbf_indp(b, m)
                         \/ \E tmout \in CommTmo : tk_snd_mbf(b, m, tmout)
    \/ \E tmout \in CommTmo : tk_rcv_mbf(b, tmout)

PorCalls ==
  \/ \E p \in Por :
       \/ \E a \in PorAtr : tk_cre_por(p, a)
       \/ tk_del_por(p)
       \/ \E ptn \in SUBSET Pattern \ {{}} :
            \/ \E tmout \in CommTmo : tk_cal_por(p, ptn, tmout) \/ tk_acp_por(p, ptn, tmout)
            \/ \E rdvno \in objcb.told : tk_fwd_por(p, ptn, rdvno)
  \/ \E rdvno \in objcb.told : tk_rpl_rdv(rdvno)

\* The calls of the task layer that interfere with a waiting task.
CommTaskCalls ==
  \/ \E t \in Task : tk_sta_tsk(t) \/ tk_ter_tsk(t, left(t)) \/ tk_rel_wai(t, released(t))
  \/ \E t \in Disturbed : \/ \E p \in CommPri : tk_chg_pri_comm(t, p)
                          \/ \E mask \in WaitMasks : tk_dis_wai(t, mask, released(t))
                          \/ tk_ena_wai(t)
  \/ tk_ext_tsk(left(ctxtsk))

CommSystem ==
  \/ dispatch_entry \/ dispatch_save \/ dispatch_to
  \/ timer_handler_begin \/ timer_handler_end
  \/ \E t \in Task : timer_handler_event(t, released(t))

CommNext == FlgCalls \/ MbxCalls \/ MbfCalls \/ PorCalls \/ CommTaskCalls \/ CommSystem

CommSpec == CommInit /\ [][CommNext]_vars

-----------------------------------------------------------------------------

\* No task waits for what is there, for an event that is set or for room in a message
\* buffer, whichever call, hook or end of another task's wait has brought it about.
NoNeedlessWait == NoSatisfiedWaiter /\ NoSenderFits

=============================================================================
