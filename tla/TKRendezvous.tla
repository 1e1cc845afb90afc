----------------------------- MODULE TKRendezvous -----------------------------
(***************************************************************************)
(* rendezvous.c: rendezvous ports.  A caller and an acceptor whose         *)
(* patterns meet begin a rendezvous: the acceptor gets a rendezvous        *)
(* number, the caller waits, in no queue, until somebody replies to that   *)
(* number or forwards it to another port.                                  *)
(*                                                                         *)
(* A port has two wait queues, PorCall and PorAccept; objcb.por[p] is its  *)
(* PORCB, objcb.wrdvno[t] the count in the next rendezvous number of       *)
(* caller t and objcb.told the numbers acceptors have been given, which    *)
(* the application may use at any time.  A number names the caller and     *)
(* counts its rendezvous, in the source modulo 2^16.                       *)
(***************************************************************************)
EXTENDS TKTaskCalls

CONSTANTS
  Por,         \* the PORCBs of porcb_table
  Pattern,     \* the bits of calptn and acpptn
  Caller,      \* the tasks that call
  MaxRdv       \* a bound of the rendezvous of each task, below 2^16

PorCall(p)   == <<p, "call">>
PorAccept(p) == <<p, "accept">>

ASSUME PorAssumption ==
  /\ {PorCall(p) : p \in Por} \cup {PorAccept(p) : p \in Por} \subseteq WaitQueue
  /\ Caller \subseteq Task
  /\ MaxRdv \in [Task -> Nat]

porcb(p) == objcb.por[p]

\* porid = 0: the block is in free_porcb.
free_porcb == [exists |-> FALSE, tpri |-> FALSE, nodiswai |-> FALSE, maxrmsz |-> 0]

next_rdvno(k, t) == [caller |-> t, n |-> k.obj.wrdvno[t]]

\* Slip: the number is not used up.
gen_rdvno_kept(k, t) == [k EXCEPT !.obj.told = @ \cup {next_rdvno(k, t)}]

\* An acceptor is told the number of the next rendezvous of caller t.
gen_rdvno(k, t) == [k EXCEPT !.obj.wrdvno[t] = @ + 1,
                             !.obj.told = @ \cup {next_rdvno(k, t)}]

rdv_diswai(k, p, t, tskwait) == is_diswai(k, t, tskwait, k.obj.por[p].nodiswai)

\* wait_release_ng with E_DISWAI; no wait of a rendezvous has a rel_wai_hook.
refuse(k, t) == end_wait(wait_release(k, t), t, "E_DISWAI")

\* t waits for the end of rendezvous 'rdvno', which began at port p.  'limit' is not in
\* the source: maxrmsz of the port that t called, which its buffer is made for.
end_of_rendezvous(k, t, p, rdvno, limit) ==
  [k EXCEPT !.tcb[t] = [@ EXCEPT !.tskwait = {"RDV"}, !.wid = NoQueue, !.wtmeb = FALSE,
                                 !.winfo = [rdvno |-> rdvno, limit |-> limit,
                                            maxrmsz |-> k.obj.por[p].maxrmsz],
                                 !.nodiswai = k.obj.por[p].nodiswai]]

\* The first acceptor of p that takes pattern 'calptn', and the first caller; NoTask if
\* there is none.
first_of(q, tasks) ==
  LET m == {i \in DOMAIN q : q[i] \in tasks} IN
  IF m = {} THEN NoTask ELSE q[CHOOSE i \in m : \A j \in m : i <= j]

acceptor(k, p, calptn) ==
  LET q == k.wq[PorAccept(p)] IN
  first_of(q, {t \in ToSet(q) : k.tcb[t].winfo.acpptn \cap calptn # {}})

caller(k, p, acpptn) ==
  LET q == k.wq[PorCall(p)] IN
  first_of(q, {t \in ToSet(q) : k.tcb[t].winfo.calptn \cap acpptn # {}})

cal_chg_pri(k, t) ==
  LET p == k.tcb[t].wid[1] IN
  IF k.obj.por[p].tpri THEN gcb_change_priority(k, PorCall(p), t) ELSE k

tk_cre_por(p, atr) ==
  /\ in_task
  /\ ~porcb(p).exists
  /\ Becomes([Kernel EXCEPT !.obj.por[p] =
       [exists |-> TRUE, tpri |-> atr.tpri, nodiswai |-> atr.nodiswai,
        maxrmsz |-> atr.maxrmsz]])
  /\ UNCHANGED sysvars

\* A rendezvous that has begun goes on.
tk_del_por(p) ==
  /\ in_task
  /\ porcb(p).exists
  /\ END_CRITICAL_SECTION(
       [wait_delete(wait_delete(Kernel, PorCall(p)), PorAccept(p))
          EXCEPT !.obj.por[p] = free_porcb])

\* The acceptor t takes the call of ctxtsk, which waits for the end.
meet_acceptor(k, p, t) ==
  LET me    == k.ctxtsk
      k1    == wait_release_ok(gen_rdvno(k, me), t)
  IN IF rdv_diswai(k, p, me, {"RDV"}) THEN k1
     ELSE end_of_rendezvous(make_wait(k1, {"RDV"}, NoQueue, "TMO_FEVR", FALSE), me, p,
                            next_rdvno(k, me), k.obj.por[p].maxrmsz)

tk_cal_por(p, calptn, tmout) ==
  /\ CHECK_DISPATCH
  /\ ctxtsk \in Caller
  /\ objcb.wrdvno[ctxtsk] < MaxRdv[ctxtsk]
  /\ porcb(p).exists
  /\ ~rdv_diswai(Kernel, p, ctxtsk, {"CAL"})
  /\ LET t == acceptor(Kernel, p, calptn) IN
     END_CRITICAL_SECTION(
       IF t # NoTask THEN meet_acceptor(Kernel, p, t)
       ELSE IF tmout = "TMO_POL" THEN Kernel
       ELSE [gcb_make_wait_with_diswai(Kernel, {"CAL"}, PorCall(p), tmout,
                                       porcb(p).tpri, porcb(p).nodiswai)
               EXCEPT !.tcb[ctxtsk].winfo =
                 [calptn |-> calptn, limit |-> porcb(p).maxrmsz]])

\* ctxtsk takes the call of t, which goes on waiting, now for the end.
meet_caller(k, p, t) ==
  LET k1 == gen_rdvno(k, t) IN
  IF rdv_diswai(k, p, t, {"RDV"}) THEN refuse(k1, t)
  ELSE end_of_rendezvous(wait_cancel(k1, t), t, p, next_rdvno(k, t), k.tcb[t].winfo.limit)

tk_acp_por(p, acpptn, tmout) ==
  /\ CHECK_DISPATCH
  /\ porcb(p).exists
  /\ ~rdv_diswai(Kernel, p, ctxtsk, {"ACP"})
  /\ LET t == caller(Kernel, p, acpptn) IN
     /\ t # NoTask => objcb.wrdvno[t] < MaxRdv[t]
     /\ END_CRITICAL_SECTION(
          IF t # NoTask THEN meet_caller(Kernel, p, t)
          ELSE IF tmout = "TMO_POL" THEN Kernel
          ELSE [wait_queue_insert(make_wait(Kernel, {"ACP"}, PorAccept(p), tmout,
                                            porcb(p).nodiswai),
                                  PorAccept(p), ctxtsk, FALSE)
                  EXCEPT !.tcb[ctxtsk].winfo = [acpptn |-> acpptn]])

\* The rendezvous that 'rdvno' stands for has not ended.
rdv_valid(rdvno) ==
  LET t == tcb[rdvno.caller] IN
  is_waiting(t.state) /\ t.tskwait = {"RDV"} /\ t.winfo.rdvno = rdvno

\* The caller t of a forwarded rendezvous meets acceptor a at port p.
forward(k, p, t, a) ==
  LET k1 == wait_release_ok(gen_rdvno(k, t), a) IN
  IF rdv_diswai(k, p, t, {"RDV"}) THEN refuse(k1, t)
  ELSE end_of_rendezvous(k1, t, p, next_rdvno(k, t), k.tcb[t].winfo.limit)

\* Slip: the call queues up with the attributes of the first port.
requeue_unchanged(k, p, t, calptn) ==
  wait_queue_insert(
    [k EXCEPT !.tcb[t] = [@ EXCEPT !.tskwait = {"CAL"}, !.wid = PorCall(p),
                                   !.winfo = [calptn |-> calptn, limit |-> @.limit],
                                   !.wtmeb = FALSE]],
    PorCall(p), t, k.obj.por[p].tpri)

\* It becomes a call that waits at p.
requeue(k, p, t, calptn) ==
  wait_queue_insert(
    [k EXCEPT !.tcb[t] = [@ EXCEPT !.tskwait = {"CAL"}, !.wid = PorCall(p),
                                   !.winfo = [calptn |-> calptn, limit |-> @.limit],
                                   !.wtmeb = FALSE, !.nodiswai = k.obj.por[p].nodiswai]],
    PorCall(p), t, k.obj.por[p].tpri)

\* Slip: the acceptors that wait are not looked at.
tk_fwd_por_blind(p, calptn, rdvno) ==
  /\ in_task
  /\ porcb(p).exists
  /\ rdvno \in objcb.told
  /\ rdv_valid(rdvno)
  /\ LET t == rdvno.caller IN
     /\ porcb(p).maxrmsz <= tcb[t].winfo.maxrmsz
     /\ END_CRITICAL_SECTION(
          IF rdv_diswai(Kernel, p, t, {"CAL"}) THEN refuse(Kernel, t)
          ELSE requeue(Kernel, p, t, calptn))

tk_fwd_por(p, calptn, rdvno) ==
  /\ in_task
  /\ porcb(p).exists
  /\ rdvno \in objcb.told
  /\ rdv_valid(rdvno)
  /\ LET t == rdvno.caller
         a == acceptor(Kernel, p, calptn)
     IN /\ porcb(p).maxrmsz <= tcb[t].winfo.maxrmsz
        /\ objcb.wrdvno[t] < MaxRdv[t]
        /\ END_CRITICAL_SECTION(
             IF rdv_diswai(Kernel, p, t, {"CAL"}) THEN refuse(Kernel, t)
             ELSE IF a # NoTask THEN forward(Kernel, p, t, a)
             ELSE requeue(Kernel, p, t, calptn))

tk_rpl_rdv(rdvno) ==
  /\ in_task
  /\ rdvno \in objcb.told
  /\ rdv_valid(rdvno)
  /\ END_CRITICAL_SECTION(wait_release_ok(Kernel, rdvno.caller))

-----------------------------------------------------------------------------

\* No caller and acceptor whose patterns meet wait at the same port: a call, an
\* acceptance and a forward each look for the other side first.
NoMatchMissed ==
  \A p \in Por :
    \A i \in DOMAIN wait_queue[PorCall(p)], j \in DOMAIN wait_queue[PorAccept(p)] :
      tcb[wait_queue[PorCall(p)][i]].winfo.calptn
        \cap tcb[wait_queue[PorAccept(p)][j]].winfo.acpptn = {}

\* The number of a rendezvous is new when it begins, or is forwarded to an acceptor: a
\* number an acceptor still holds from a call that has ended (timed out, released, or
\* ended with its task) never lets it reply to a later one.
RdvNumberFresh ==
  [][\A t \in Task :
       LET w == tcb'[t].winfo IN
       /\ is_waiting(tcb'[t].state) /\ tcb'[t].tskwait = {"RDV"}
       /\ tcb[t].tskwait = {"RDV"} => w.rdvno # tcb[t].winfo.rdvno
       => w.rdvno \notin objcb.told]_vars

\* Wherever a call has been forwarded to, what it was made with holds: the longest reply
\* fits the buffer the caller made for the port it called; and it waits, in the queue of
\* its port, only in a way that tk_dis_wai has not prohibited there.
ForwardKeepsCall ==
  \A t \in Task : is_waiting(tcb[t].state) =>
    /\ tcb[t].tskwait = {"RDV"} => tcb[t].winfo.maxrmsz <= tcb[t].winfo.limit
    /\ tcb[t].tskwait = {"CAL"} =>
         \E p \in Por :
           /\ porcb(p).exists
           /\ t \in ToSet(wait_queue[PorCall(p)])
           /\ tcb[t].wid = PorCall(p)
           /\ tcb[t].nodiswai = porcb(p).nodiswai
           /\ ~is_diswai(Kernel, t, {"CAL"}, porcb(p).nodiswai)

=============================================================================
