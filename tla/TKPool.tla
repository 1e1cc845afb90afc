------------------------------- MODULE TKPool -------------------------------
(***************************************************************************)
(* What the fixed-size memory pools of mempfix.c promise, call by call:    *)
(* every call takes effect at one moment, as if nothing ran beside it.     *)
(*                                                                         *)
(* A task waits only when no block is free, a block that comes back goes   *)
(* to the task that waits first, and the blocks that are out are           *)
(* different ones.                                                         *)
(***************************************************************************)
EXTENDS Naturals, Sequences, SequencesExt

CONSTANTS
  Task,
  Mpf,
  MpfCnt     \* the number of blocks of a pool

VARIABLES
  exists,    \* the pools that exist
  tpri,      \* those of them with TA_TPRI
  out,       \* out[m]: the blocks of m that are not in the pool
  queue      \* queue[m]: the tasks that wait for a block of m

poolvars == <<exists, tpri, out, queue>>

Block == 1 .. MpfCnt

Create(m) ==
  /\ m \notin exists
  /\ exists' = exists \cup {m}
  /\ \/ tpri' = tpri
     \/ tpri' = tpri \cup {m}
  /\ UNCHANGED <<out, queue>>

Delete(m) ==
  /\ m \in exists
  /\ exists' = exists \ {m}
  /\ tpri' = tpri \ {m}
  /\ out' = [out EXCEPT ![m] = {}]
  /\ queue' = [queue EXCEPT ![m] = <<>>]

Take(m, b) ==
  /\ m \in exists
  /\ queue[m] = <<>>
  /\ b \in Block \ out[m]
  /\ out' = [out EXCEPT ![m] = @ \cup {b}]
  /\ UNCHANGED <<exists, tpri, queue>>

\* The last of the queue, or at some place of a queue by priority.
Wait(m, t) ==
  /\ m \in exists
  /\ out[m] = Block
  /\ \E i \in 1 .. Len(queue[m]) + 1 :
       /\ m \in tpri \/ i = Len(queue[m]) + 1
       /\ queue' = [queue EXCEPT ![m] = InsertAt(@, i, t)]
  /\ UNCHANGED <<exists, tpri, out>>

GiveToFirst(m) ==
  /\ m \in exists
  /\ queue[m] # <<>>
  /\ queue' = [queue EXCEPT ![m] = Tail(@)]
  /\ UNCHANGED <<exists, tpri, out>>

GiveBack(m, b) ==
  /\ m \in exists
  /\ queue[m] = <<>>
  /\ b \in out[m]
  /\ out' = [out EXCEPT ![m] = @ \ {b}]
  /\ UNCHANGED <<exists, tpri, queue>>

\* The wait of the i-th ends for another reason.
Leave(m, i) ==
  /\ i \in 1 .. Len(queue[m])
  /\ queue' = [queue EXCEPT ![m] = RemoveAt(@, i)]
  /\ UNCHANGED <<exists, tpri, out>>

\* The priority of the i-th changes, and with it its place.
Reorder(m, i) ==
  /\ m \in tpri
  /\ i \in 1 .. Len(queue[m])
  /\ \E j \in 1 .. Len(queue[m]) :
       queue' = [queue EXCEPT ![m] = InsertAt(RemoveAt(@, i), j, @[i])]
  /\ UNCHANGED <<exists, tpri, out>>

Init ==
  /\ exists = {}
  /\ tpri = {}
  /\ out = [m \in Mpf |-> {}]
  /\ queue = [m \in Mpf |-> <<>>]

\* A step that changes nothing is a stutter, whatever the disjuncts say.
Next ==
  /\ poolvars' # poolvars
  /\ \E m \in Mpf :
       \/ Create(m) \/ Delete(m) \/ GiveToFirst(m)
       \/ \E b \in Block : Take(m, b) \/ GiveBack(m, b)
       \/ \E t \in Task : Wait(m, t)
       \/ \E i \in 1 .. Len(queue[m]) : Leave(m, i) \/ Reorder(m, i)

Spec == Init /\ [][Next]_poolvars

=============================================================================
