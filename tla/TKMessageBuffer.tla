--------------------------- MODULE TKMessageBuffer ---------------------------
(***************************************************************************)
(* messagebuf.c: message buffers.  Messages of different sizes lie in a    *)
(* ring of bufsz cells, each behind a header with its size, rounded up to  *)
(* the size of a header; the end of the ring may fall behind a header or   *)
(* into a message.  Tasks wait to send while there is no room.             *)
(*                                                                         *)
(* A message buffer has two wait queues, MbfSend and MbfRecv; objcb.mbf[b] *)
(* is its MBFCB.  The content of message m is the sequence of cells        *)
(* <<m, 1>>, <<m, 2>>, ...; the cell at which a header begins stands for   *)
(* all of it.                                                              *)
(***************************************************************************)
EXTENDS TKTaskCalls

CONSTANTS
  Mbf,         \* the MBFCBs of mbfcb_table
  Letter,      \* the messages sent
  MsgSz,       \* msgsz of each
  HEADERSZ,    \* sizeof(INT), the size of a header and of a rounded cell
  MaxBufSz     \* a bound of bufsz

MbfSend(b) == <<b, "send">>
MbfRecv(b) == <<b, "recv">>

ASSUME MbfAssumption ==
  /\ {MbfSend(b) : b \in Mbf} \cup {MbfRecv(b) : b \in Mbf} \subseteq WaitQueue
  /\ MsgSz \in [Letter -> Nat \ {0}]
  /\ HEADERSZ \in Nat \ {0}
  /\ MaxBufSz \in Nat

mbfcb(b) == objcb.mbf[b]

Blank == <<"blank", 0>>     \* a cell outside the stored messages: it is not read
header(msgsz) == <<"size", msgsz>>

\* mbfid = 0: the block is in free_mbfcb.
free_mbfcb == [exists |-> FALSE, tpri |-> FALSE, nodiswai |-> FALSE,
               bufsz |-> 0, frbufsz |-> 0, head |-> 0, tail |-> 0, buffer |-> <<>>]

content(m) == [i \in 1 .. MsgSz[m] |-> <<m, i>>]

ROUNDSZ(sz) == ((sz + HEADERSZ - 1) \div HEADERSZ) * HEADERSZ

mbf_free(c, msgsz) == HEADERSZ + msgsz <= c.frbufsz

mbf_empty(c) == c.frbufsz = c.bufsz

\* A position that has reached the end of the ring.
wrapped(c, pos) == IF pos >= c.bufsz THEN 0 ELSE pos

\* Where the content of a message begins whose header lies at pos, where its i-th cell
\* lies (MEMCPY of the part before the end of the ring, then of the rest to its start)
\* and where the next header goes.
body(c, pos) == wrapped(c, pos + HEADERSZ)

cell(c, pos, i) ==
  LET remsz == c.bufsz - body(c, pos) IN
  IF i <= remsz THEN body(c, pos) + i - 1 ELSE i - remsz - 1

behind(c, pos, msgsz) ==
  LET remsz == c.bufsz - body(c, pos) IN
  IF remsz < msgsz THEN wrapped(c, ROUNDSZ(msgsz - remsz))
  ELSE wrapped(c, body(c, pos) + ROUNDSZ(msgsz))

store(c, s, tail) ==
  LET to == {cell(c, c.tail, i) : i \in DOMAIN s} IN
  [c EXCEPT !.frbufsz = @ - (HEADERSZ + ROUNDSZ(Len(s))),
            !.buffer = [p \in DOMAIN @ |->
               IF p \in to THEN s[CHOOSE i \in DOMAIN s : cell(c, c.tail, i) = p]
               ELSE IF p = c.tail THEN header(Len(s))
               ELSE @[p]],
            !.tail = tail]

\* Slip: of a split message the whole size is counted from the start of the ring.
msg_to_mbf_overshoot(c, s) ==
  LET remsz == c.bufsz - body(c, c.tail) IN
  store(c, s, IF remsz < Len(s) THEN wrapped(c, ROUNDSZ(Len(s)))
              ELSE behind(c, c.tail, Len(s)))

\* Store the message 's'.
msg_to_mbf(c, s) == store(c, s, behind(c, c.tail, Len(s)))

\* The size and the content of the message whose header lies at pos, as mbf_to_msg
\* reads them.
size_at(c, pos) == c.buffer[pos][2]

content_at(c, pos) ==
  [i \in 1 .. size_at(c, pos) |->
     IF cell(c, pos, i) \in DOMAIN c.buffer THEN c.buffer[cell(c, pos, i)] ELSE Blank]

\* The ring without the message mbf_to_msg has read.
mbf_to_msg(c) ==
  LET msgsz == size_at(c, c.head)
      read  == {c.head} \cup {cell(c, c.head, i) : i \in 1 .. msgsz}
  IN [c EXCEPT !.frbufsz = @ + HEADERSZ + ROUNDSZ(msgsz),
               !.buffer = [p \in DOMAIN @ |-> IF p \in read THEN Blank ELSE @[p]],
               !.head = behind(c, c.head, msgsz)]

\* Messages of waiting tasks are stored while there is room for the first one.
mbf_wakeup(k, b) ==
  FoldLeft(LAMBDA a, t :
             IF a.done \/ ~mbf_free(a.k.obj.mbf[b], Len(a.k.tcb[t].winfo))
             THEN [a EXCEPT !.done = TRUE]
             ELSE [a EXCEPT !.k = wait_release_ok(
                     [a.k EXCEPT !.obj.mbf[b] = msg_to_mbf(@, a.k.tcb[t].winfo)], t)],
           [k |-> k, done |-> FALSE], k.wq[MbfSend(b)]).k

\* The hooks see the wait queue in wid; with oldpri < 0 it is not reordered.
mbf_chg_pri(k, t, oldpri) ==
  LET b  == k.tcb[t].wid[1]
      k1 == IF oldpri >= 0 THEN gcb_change_priority(k, MbfSend(b), t) ELSE k
  IN mbf_wakeup(k1, b)

\* Slip: the tasks behind one that gives up are not looked at.
mbf_rel_wai_none(k, t) == k

mbf_rel_wai(k, t) == mbf_chg_pri(k, t, -1)

\* wspec_smbf_tfifo has no chg_pri_hook, wspec_rmbf no hook at all.
mbf_chg_pri_hook(k, t, oldpri) ==
  IF k.obj.mbf[k.tcb[t].wid[1]].tpri THEN mbf_chg_pri(k, t, oldpri) ELSE k

tk_cre_mbf(b, atr, size) ==
  /\ ~mbfcb(b).exists
  /\ LET bufsz == ROUNDSZ(size) IN
     Becomes([Kernel EXCEPT !.obj.mbf[b] =
       [exists |-> TRUE, tpri |-> atr.tpri, nodiswai |-> atr.nodiswai,
        bufsz |-> bufsz, frbufsz |-> bufsz, head |-> 0, tail |-> 0,
        buffer |-> [i \in 0 .. (bufsz - 1) |-> Blank]]])
  /\ UNCHANGED sysvars

tk_del_mbf(b) ==
  /\ mbfcb(b).exists
  /\ Becomes([wait_delete(wait_delete(Kernel, MbfRecv(b)), MbfSend(b))
                EXCEPT !.obj.mbf[b] = free_mbfcb])
  /\ UNCHANGED sysvars

\* The message goes to the first waiting task, or into the ring when 'first' says that
\* the sender may go before those that wait to send.
send(k, b, m, first) ==
  IF k.wq[MbfRecv(b)] # <<>> THEN wait_release_ok(k, Head(k.wq[MbfRecv(b)]))
  ELSE IF first /\ mbf_free(k.obj.mbf[b], MsgSz[m])
       THEN [k EXCEPT !.obj.mbf[b] = msg_to_mbf(@, content(m))]
  ELSE k

\* A handler can only poll, and does not look at those that wait to send.
tk_snd_mbf_indp(b, m) ==
  /\ mbfcb(b).exists
  /\ Becomes(send(Kernel, b, m, TRUE))
  /\ UNCHANGED sysvars

tk_snd_mbf(b, m, tmout) ==
  /\ in_task
  /\ tmout # "TMO_POL" => CHECK_DISPATCH
  /\ mbfcb(b).exists
  /\ ~is_diswai(Kernel, ctxtsk, {"SMBF"}, mbfcb(b).nodiswai)
  /\ LET first == gcb_top_of_wait_queue(Kernel, MbfSend(b), ctxtsk, mbfcb(b).tpri) = ctxtsk
     IN END_CRITICAL_SECTION(
          IF \/ wait_queue[MbfRecv(b)] # <<>>
             \/ first /\ mbf_free(mbfcb(b), MsgSz[m])
             \/ tmout = "TMO_POL"
          THEN send(Kernel, b, m, first)
          ELSE [gcb_make_wait_with_diswai(Kernel, {"SMBF"}, MbfSend(b), tmout,
                                          mbfcb(b).tpri, mbfcb(b).nodiswai)
                  EXCEPT !.tcb[ctxtsk].winfo = content(m)])

\* A read makes room; without messages the first waiting task is served directly.
receive(k, b) ==
  IF ~mbf_empty(k.obj.mbf[b])
  THEN mbf_wakeup([k EXCEPT !.obj.mbf[b] = mbf_to_msg(@)], b)
  ELSE mbf_wakeup(wait_release_ok(k, Head(k.wq[MbfSend(b)])), b)

\* Receivers queue first in, first out, whatever the attribute.
tk_rcv_mbf(b, tmout) ==
  /\ CHECK_DISPATCH
  /\ mbfcb(b).exists
  /\ ~is_diswai(Kernel, ctxtsk, {"RMBF"}, mbfcb(b).nodiswai)
  /\ END_CRITICAL_SECTION(
       IF ~mbf_empty(mbfcb(b)) \/ wait_queue[MbfSend(b)] # <<>> THEN receive(Kernel, b)
       ELSE IF tmout = "TMO_POL" THEN Kernel
       ELSE wait_queue_insert(make_wait(Kernel, {"RMBF"}, MbfRecv(b), tmout,
                                        mbfcb(b).nodiswai),
                              MbfRecv(b), ctxtsk, FALSE))

-----------------------------------------------------------------------------

\* The messages in the ring, as mbf_to_msg would read them one after the other.
stored(c) ==
  LET from[pos \in Nat, used \in Int] ==
        IF used <= 0 THEN <<>>
        ELSE <<content_at(c, pos)>>
             \o from[behind(c, pos, size_at(c, pos)),
                     used - HEADERSZ - ROUNDSZ(size_at(c, pos))]
  IN from[c.head, c.bufsz - c.frbufsz]

\* The ring with its headers, roundings and wraps, and the two wait queues, implement
\* the channel of TKChannel: what mbf_to_msg reads is what msg_to_mbf wrote, in order,
\* also for the messages of tasks that waited for room.
MbfChannel == INSTANCE TKChannel WITH
  Chan    <- Mbf,
  Message <- {content(m) : m \in Letter},
  MsgPri  <- [m \in {content(l) : l \in Letter} |-> 1],
  exists  <- {b \in Mbf : mbfcb(b).exists},
  bypri   <- {},
  pending <- [b \in Mbf |-> stored(mbfcb(b))],
  rcvq    <- [b \in Mbf |-> wait_queue[MbfRecv(b)]],
  sndq    <- [b \in Mbf |-> [i \in DOMAIN wait_queue[MbfSend(b)] |->
                [task |-> wait_queue[MbfSend(b)][i],
                 msg  |-> tcb[wait_queue[MbfSend(b)][i]].winfo]]]

MbfPromise == MbfChannel!Spec

\* No task waits to send a message there is room for: whatever makes room (a receive,
\* the end of a wait in front of it, a change of priority) lets it in at once.
NoSenderFits ==
  \A b \in Mbf : wait_queue[MbfSend(b)] # <<>> =>
    ~mbf_free(mbfcb(b), Len(tcb[Head(wait_queue[MbfSend(b)])].winfo))

=============================================================================
