------------------------------ MODULE MCMempfix ------------------------------
(* Instances of TKMempfix for TLC. *)
EXTENDS TKMempfix, TLC

CONSTANTS t1, t2, t3, m1

ThreeTasks == {t1, t2, t3}
OnePool    == {m1}

OneLock  == {MpfLock(m1)}
OneQueue == {MpfLock(m1), MpfWait(m1)}

Supervisor == {t3}

Workers == Permutations({t1, t2})

Mixed   == [t \in ThreeTasks |-> IF t = t3 THEN 0 ELSE 1]
=============================================================================
