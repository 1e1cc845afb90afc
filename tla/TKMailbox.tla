------------------------------ MODULE TKMailbox ------------------------------
(***************************************************************************)
(* mailbox.c: mailboxes.  The message packets belong to the application;   *)
(* the kernel links them through their first word (nextmsg), from mq_head, *)
(* and keeps a pointer to the last one, mq_tail, that is out of date while *)
(* the list is empty.                                                      *)
(*                                                                         *)
(* A mailbox is its own wait queue; objcb.mbx[b] is its MBXCB,             *)
(* objcb.nextmsg[m] the link of packet m and objcb.given the packets the   *)
(* application has sent and not received back: it does not send them again.*)
(***************************************************************************)
EXTENDS TKTaskCalls

CONSTANTS
  Mbx,         \* the MBXCBs of mbxcb_table
  Msg,         \* the message packets
  NoMsg,       \* the NULL pointer
  MsgPri       \* msgpri of each packet

ASSUME MbxAssumption ==
  /\ Mbx \subseteq WaitQueue
  /\ NoMsg \notin Msg
  /\ MsgPri \in [Msg -> Nat \ {0}]

mbxcb(b) == objcb.mbx[b]

\* mbxid = 0: the block is in free_mbxcb.
free_mbxcb == [exists |-> FALSE, mpri |-> FALSE, tpri |-> FALSE, nodiswai |-> FALSE,
               mq_head |-> NoMsg, mq_tail |-> NoMsg]

\* The packets in the order of their links.
chain(next, first) ==
  LET from[m \in Msg \cup {NoMsg}, seen \in SUBSET Msg] ==
        IF m = NoMsg \/ m \in seen THEN <<>> ELSE <<m>> \o from[next[m], seen \cup {m}]
  IN from[first, {}]

messages(k, b) == chain(k.obj.nextmsg, k.obj.mbx[b].mq_head)

\* Slip: a packet is put before those of its priority.
goes_before_equals(m, next) == MsgPri[next] >= MsgPri[m]

goes_before(m, next) == MsgPri[next] > MsgPri[m]

\* With TA_MPRI: before the first packet of a lower priority (a greater msgpri).
queue_insert_mpri(k, b, m) ==
  LET q    == messages(k, b)
      n    == Len(SelectSeq(q, LAMBDA x : ~goes_before(m, x)))
      next == IF n = Len(q) THEN NoMsg ELSE q[n + 1]
  IN IF n = 0 THEN [k EXCEPT !.obj.nextmsg[m] = next, !.obj.mbx[b].mq_head = m]
     ELSE [k EXCEPT !.obj.nextmsg = [@ EXCEPT ![m] = next, ![q[n]] = m]]

\* Without TA_MPRI: connect to the end of the queue.
queue_append(k, b, m) ==
  LET c  == k.obj.mbx[b]
      k1 == [k EXCEPT !.obj.nextmsg[m] = NoMsg, !.obj.mbx[b].mq_tail = m]
  IN IF c.mq_head = NoMsg THEN [k1 EXCEPT !.obj.mbx[b].mq_head = m]
     ELSE [k1 EXCEPT !.obj.nextmsg[c.mq_tail] = m]

\* wspec_mbx_tfifo has no hook; neither has a rel_wai_hook.
mbx_chg_pri(k, t) ==
  LET b == k.tcb[t].wid IN
  IF k.obj.mbx[b].tpri THEN gcb_change_priority(k, b, t) ELSE k

tk_cre_mbx(b, atr) ==
  /\ ~mbxcb(b).exists
  /\ Becomes([Kernel EXCEPT !.obj.mbx[b] =
       [exists |-> TRUE, mpri |-> atr.mpri, tpri |-> atr.tpri,
        nodiswai |-> atr.nodiswai, mq_head |-> NoMsg, mq_tail |-> NoMsg]])
  /\ UNCHANGED sysvars

\* The packets go back to the application, which uses their first word as it likes.
give_back(k, msgs) ==
  [k EXCEPT !.obj.given = @ \ msgs,
            !.obj.nextmsg = [m \in Msg |-> IF m \in msgs THEN NoMsg ELSE @[m]]]

tk_del_mbx(b) ==
  /\ mbxcb(b).exists
  /\ Becomes(give_back([wait_delete(Kernel, b) EXCEPT !.obj.mbx[b] = free_mbxcb],
                    ToSet(messages(Kernel, b))))
  /\ UNCHANGED sysvars

enqueue(k, b, m) ==
  LET k1 == [k EXCEPT !.obj.given = @ \cup {m}] IN
  IF k.obj.mbx[b].mpri THEN queue_insert_mpri(k1, b, m) ELSE queue_append(k1, b, m)

tk_snd_mbx(b, m) ==
  /\ mbxcb(b).exists
  /\ m \notin objcb.given
  /\ Becomes(IF wait_queue[b] # <<>> THEN wait_release_ok(Kernel, Head(wait_queue[b]))
             ELSE enqueue(Kernel, b, m))
  /\ UNCHANGED sysvars

take_message(k, b) ==
  LET m == k.obj.mbx[b].mq_head IN
  give_back([k EXCEPT !.obj.mbx[b].mq_head = k.obj.nextmsg[m]], {m})

tk_rcv_mbx(b, tmout) ==
  /\ CHECK_DISPATCH
  /\ mbxcb(b).exists
  /\ ~is_diswai(Kernel, ctxtsk, {"MBX"}, mbxcb(b).nodiswai)
  /\ END_CRITICAL_SECTION(
       IF mbxcb(b).mq_head # NoMsg THEN take_message(Kernel, b)
       ELSE IF tmout = "TMO_POL" THEN Kernel
       ELSE gcb_make_wait_with_diswai(Kernel, {"MBX"}, b, tmout, mbxcb(b).tpri,
                                      mbxcb(b).nodiswai))

-----------------------------------------------------------------------------

\* The list of packets, with its head and an end that is looked at only while there is
\* one, implements the channel of TKChannel: nothing lost, in order of sending or of
\* msgpri, and no packet ever lies in a mailbox a task waits for.
MailboxChannel == INSTANCE TKChannel WITH
  Chan    <- Mbx,
  Message <- Msg,
  MsgPri  <- MsgPri,
  exists  <- {b \in Mbx : mbxcb(b).exists},
  bypri   <- {b \in Mbx : mbxcb(b).mpri},
  pending <- [b \in Mbx |-> messages(Kernel, b)],
  rcvq    <- [b \in Mbx |-> wait_queue[b]],
  sndq    <- [b \in Mbx |-> <<>>]

MailboxPromise == MailboxChannel!Spec

=============================================================================
