------------------------------- MODULE MCMutex -------------------------------
(* Instances of TKMutex for TLC. *)
EXTENDS TKMutex, TLC

CONSTANTS t1, t2, t3, m1, m2

ThreeTasks == {t1, t2, t3}
TwoMutexes == {m1, m2}

\* t3 is the supervisor, which starts the others.
RankOne == [m \in TwoMutexes |-> 0]                          \* any order
RankTwo == [m \in TwoMutexes |-> IF m = m1 THEN 1 ELSE 2]    \* m1 before m2

PriLow  == [t \in ThreeTasks |-> IF t = t3 THEN 0 ELSE 1]

Kind(a, c) == [atr |-> a, ceilpri |-> c]

Inheriting == [m \in TwoMutexes |-> {Kind("INHERIT", 0)}]
Every      == [m \in TwoMutexes |->
                 Inheriting[m] \cup (IF m = m1 THEN {Kind("CEILING", 1)}
                                    ELSE {Kind("TFIFO", 0), Kind("CEILING", 0)})]
\* The supervisor keeps its priority.
WorkersPri == [t \in ThreeTasks |-> IF t = t3 THEN {} ELSE Pri]
AnyPri     == [t \in ThreeTasks |-> Pri]
Supervisor == {t3}

Workers == Permutations({t1, t2})
=============================================================================
