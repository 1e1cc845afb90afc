------------------------------- MODULE MCComm -------------------------------
(* Instances of TKComm for TLC. *)
EXTENDS TKComm, TLC

CONSTANTS t1, t2, t3, f1, b1, c1, p1, p2, bit1, bit2, m1, m2, m3, l1, l3

OneFlg     == {f1}
OneMbx     == {b1}
OneMbf     == {c1}
TwoPorts   == {p1, p2}
NoObjects  == {}
NoAtrs     == {}
TwoBits    == {bit1, bit2}

ThreeTasks == {t1, t2, t3}

\* One object of each kind, or two rendezvous ports.
ObjQueues  == {f1, b1, <<c1, "send">>, <<c1, "recv">>}

\* Each way of queueing and of treating prohibited waits once.
FlgAtrs == {[tpri |-> TRUE, wmul |-> TRUE, nodiswai |-> FALSE],
            [tpri |-> FALSE, wmul |-> TRUE, nodiswai |-> TRUE],
            [tpri |-> FALSE, wmul |-> FALSE, nodiswai |-> FALSE]}
Wfmodes == {{"ORW", "BITCLR"}, {"CLR"}, {}}
MbxAtrs == {[mpri |-> TRUE, tpri |-> FALSE, nodiswai |-> FALSE],
            [mpri |-> FALSE, tpri |-> TRUE, nodiswai |-> FALSE]}
MbfAtrs == {[tpri |-> TRUE, nodiswai |-> FALSE], [tpri |-> FALSE, nodiswai |-> FALSE]}

\* Packets of two priorities.
Packets   == {m1, m2, m3}
PacketPri == [m \in Packets |-> IF m = m3 THEN 2 ELSE 1]

\* Headers of two cells; a message of one cell takes two rounded up, one of three four.
Letters    == {l1, l3}
LetterSize == [m \in Letters |-> IF m = l1 THEN 1 ELSE 3]
NoSizes    == [m \in {} |-> 1]
Sizes      == {0, 8}

PortQueues == {<<p, q>> : p \in TwoPorts, q \in {"call", "accept"}}
\* The second port takes shorter replies than the first.
PorAtrs == {[tpri |-> TRUE, nodiswai |-> FALSE, maxrmsz |-> 2],
            [tpri |-> FALSE, nodiswai |-> TRUE, maxrmsz |-> 1]}

ForEver    == {"TMO_FEVR"}
SomeTmo    == {"TMO_POL", "finite"}
TwoPris    == {0, 1}
NoPris     == {}
NoMasks    == {}
PorMasks   == {{"CAL"}, {"RDV"}}
OneTask    == {t2}
TheCaller  == {t1}

\* Disturbed is t2; the bits are alike, and so are two of the packets.
Alike == {p @@ q @@ r : p \in Permutations({t1, t3}), q \in Permutations(TwoBits),
                        r \in Permutations({m1, m2})}
SamePri    == [t \in ThreeTasks |-> 1]
NoRdv      == [t \in ThreeTasks |-> 0]
PorLike    == Permutations({t2, t3})
FewRdv     == [t \in ThreeTasks |-> IF t = t1 THEN 2 ELSE 0]
=============================================================================
