----------------------------- MODULE MCSemaphore -----------------------------
(* Instances of TKSemaphore for TLC. *)
EXTENDS TKSemaphore, TLC

CONSTANTS t1, t2, t3, s1

ThreeTasks == {t1, t2, t3}
SamePri == [t \in ThreeTasks |-> 1]
OneSem == {s1}

OneTask == {t1}
Others == Permutations({t2, t3})

\* TA_TFIFO; TA_TFIFO with TA_CNT and TA_NODISWAI; TA_TPRI
SomeAtr == {[tpri |-> FALSE, cnt |-> FALSE, nodiswai |-> FALSE],
            [tpri |-> FALSE, cnt |-> TRUE, nodiswai |-> TRUE],
            [tpri |-> TRUE, cnt |-> FALSE, nodiswai |-> FALSE]}
=============================================================================
