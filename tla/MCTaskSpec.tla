----------------------------- MODULE MCTaskSpec -----------------------------
(* Instances of TKTaskSpec for TLC. *)
EXTENDS TKTaskSpec, TLC

CONSTANTS t1, t2, t3, ev1

TwoTasks   == {t1, t2}
ThreeTasks == {t1, t2, t3}

\* free_tcb behind the initial task t1
Free1 == <<t2>>
Free2 == <<t2, t3>>

\* Only the initial state tells the tasks apart.
Alike == Permutations(Task)

NoEvents == {}
OneEvent == {ev1}
NoWaits  == {}
OneWait  == {{ev1}}

NoMasks    == {}
BothMasks  == {{"SLP"}, {ev1}}

NoSlices  == {}
ZeroSlice == {0}
=============================================================================
