------------------------------ MODULE TKChannel ------------------------------
(***************************************************************************)
(* What mailboxes (mailbox.c) and message buffers (messagebuf.c) promise:  *)
(* a channel.  Messages are received in the order they were sent in, or by *)
(* priority; a task waits to receive only while there is nothing to        *)
(* receive, and what is sent goes to a waiting task first.                 *)
(*                                                                         *)
(* A channel of limited capacity has tasks that wait to send; when there   *)
(* is room their messages enter the channel in the order of that queue.    *)
(***************************************************************************)
EXTENDS Naturals, Sequences, SequencesExt

CONSTANTS
  Chan,
  Task,
  Message,
  MsgPri     \* 1 is the highest; of interest for the channels in bypri

VARIABLES
  exists,    \* the channels that exist
  bypri,     \* those of them that keep messages by priority
  pending,   \* pending[c]: the messages to be received, in order
  rcvq,      \* rcvq[c]: the tasks that wait to receive
  sndq       \* sndq[c]: the tasks that wait to send, each with its message

chanvars == <<exists, bypri, pending, rcvq, sndq>>

Messages(waiting) == [i \in DOMAIN waiting |-> waiting[i].msg]

Create(c) ==
  /\ c \notin exists
  /\ exists' = exists \cup {c}
  /\ bypri' \in {bypri, bypri \cup {c}}
  /\ UNCHANGED <<pending, rcvq, sndq>>

Delete(c) ==
  /\ c \in exists
  /\ exists' = exists \ {c}
  /\ bypri' = bypri \ {c}
  /\ pending' = [pending EXCEPT ![c] = <<>>]
  /\ rcvq' = [rcvq EXCEPT ![c] = <<>>]
  /\ sndq' = [sndq EXCEPT ![c] = <<>>]

\* By priority: behind the messages of the same priority or a higher one.
Place(c, m) ==
  IF c \in bypri THEN Len(SelectSeq(pending[c], LAMBDA x : MsgPri[x] <= MsgPri[m])) + 1
  ELSE Len(pending[c]) + 1

Send(c, m) ==
  /\ c \in exists
  /\ rcvq[c] = <<>>
  /\ pending' = [pending EXCEPT ![c] = InsertAt(@, Place(c, m), m)]
  /\ UNCHANGED <<exists, bypri, rcvq, sndq>>

SendToWaiting(c) ==
  /\ c \in exists
  /\ rcvq[c] # <<>>
  /\ rcvq' = [rcvq EXCEPT ![c] = Tail(@)]
  /\ UNCHANGED <<exists, bypri, pending, sndq>>

\* The messages of the first n tasks that wait to send follow those in 'rest'.
Admit(c, rest, waiting, n) ==
  /\ pending' = [pending EXCEPT ![c] = rest \o Messages(SubSeq(waiting, 1, n))]
  /\ sndq' = [sndq EXCEPT ![c] = SubSeq(waiting, n + 1, Len(waiting))]

Receive(c) ==
  /\ c \in exists
  /\ pending[c] # <<>>
  /\ \E n \in 0 .. Len(sndq[c]) : Admit(c, Tail(pending[c]), sndq[c], n)
  /\ UNCHANGED <<exists, bypri, rcvq>>

\* With nothing in the channel the first waiting sender is served directly.
ReceiveFromWaiting(c) ==
  /\ c \in exists
  /\ pending[c] = <<>>
  /\ sndq[c] # <<>>
  /\ \E n \in 0 .. (Len(sndq[c]) - 1) : Admit(c, <<>>, Tail(sndq[c]), n)
  /\ UNCHANGED <<exists, bypri, rcvq>>

WaitToReceive(c, t) ==
  /\ c \in exists
  /\ pending[c] = <<>>
  /\ sndq[c] = <<>>
  /\ \E i \in 1 .. Len(rcvq[c]) + 1 : rcvq' = [rcvq EXCEPT ![c] = InsertAt(@, i, t)]
  /\ UNCHANGED <<exists, bypri, pending, sndq>>

WaitToSend(c, t, m) ==
  /\ c \in exists
  /\ rcvq[c] = <<>>
  /\ \E i \in 1 .. Len(sndq[c]) + 1 :
       sndq' = [sndq EXCEPT ![c] = InsertAt(@, i, [task |-> t, msg |-> m])]
  /\ UNCHANGED <<exists, bypri, pending, rcvq>>

Without(waiting, t) == SelectSeq(waiting, LAMBDA w : w.task # t)

\* A wait ends for another reason, or the priority of a waiting task changes: its place
\* in the queue does, and there may be room for those that come first now.
LeaveReceive(c, t) ==
  /\ t \in ToSet(rcvq[c])
  /\ rcvq' = [rcvq EXCEPT ![c] = SelectSeq(@, LAMBDA u : u # t)]
  /\ UNCHANGED <<exists, bypri, pending, sndq>>

ReorderReceive(c, t) ==
  /\ t \in ToSet(rcvq[c])
  /\ \E i \in 1 .. Len(rcvq[c]) :
       rcvq' = [rcvq EXCEPT ![c] = InsertAt(SelectSeq(@, LAMBDA u : u # t), i, t)]
  /\ UNCHANGED <<exists, bypri, pending, sndq>>

LeaveSend(c, w) ==
  LET others == Without(sndq[c], w.task) IN
  /\ \E n \in 0 .. Len(others) : Admit(c, pending[c], others, n)
  /\ UNCHANGED <<exists, bypri, rcvq>>

ReorderSend(c, w) ==
  LET others == Without(sndq[c], w.task) IN
  /\ \E i \in 1 .. Len(sndq[c]) :
       LET q == InsertAt(others, i, w) IN
       \E n \in 0 .. Len(q) : Admit(c, pending[c], q, n)
  /\ UNCHANGED <<exists, bypri, rcvq>>

Init ==
  /\ exists = {}
  /\ bypri = {}
  /\ pending = [c \in Chan |-> <<>>]
  /\ rcvq = [c \in Chan |-> <<>>]
  /\ sndq = [c \in Chan |-> <<>>]

\* A step that changes nothing is a stutter, whatever the disjuncts say.
Next ==
  /\ chanvars' # chanvars
  /\ \E c \in Chan :
       \/ Create(c) \/ Delete(c)
       \/ SendToWaiting(c) \/ Receive(c) \/ ReceiveFromWaiting(c)
       \/ \E m \in Message : Send(c, m)
       \/ \E t \in Task : \/ WaitToReceive(c, t)
                          \/ LeaveReceive(c, t) \/ ReorderReceive(c, t)
                          \/ \E m \in Message : WaitToSend(c, t, m)
       \/ \E w \in ToSet(sndq[c]) : LeaveSend(c, w) \/ ReorderSend(c, w)

Spec == Init /\ [][Next]_chanvars

=============================================================================
