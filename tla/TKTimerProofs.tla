--------------------------- MODULE TKTimerProofs ---------------------------
(***************************************************************************)
(* Proofs about TKTimer, for any tasks, handlers, period and times: the    *)
(* queue of timer events is ordered and agrees with the states of what is  *)
(* linked in it, and every event occurs neither early nor late.            *)
(***************************************************************************)
EXTENDS TKTimer, SequenceTheorems, WellFoundedInduction, TLAPS

-----------------------------------------------------------------------------
(* Sequences.                                                              *)

\* A set of natural numbers that is not empty has a least element.
LEMMA LeastNumber ==
  ASSUME NEW S, S \subseteq Nat, S # {}
  PROVE  \E x \in S : \A y \in S : x <= y
<1>1. PICK x \in S : \A y \in S : ~(<<y, x>> \in OpToRel(<, Nat))
  BY NatLessThanWellFounded, WFMin
<1>2. \A y \in S : ~(y < x)
  BY <1>1 DEF OpToRel
<1>. QED
  BY <1>2

\* ToSet lists the events of a queue.
LEMMA EventsOf ==
  ASSUME NEW q \in Seq(Event)
  PROVE  /\ Len(q) \in Nat
         /\ DOMAIN q = 1 .. Len(q)
         /\ \A i \in 1 .. Len(q) : q[i] \in Event /\ q[i] \in ToSet(q)
         /\ \A e \in ToSet(q) : e \in Event /\ \E i \in 1 .. Len(q) : q[i] = e
<1>1. Len(q) \in Nat /\ DOMAIN q = 1 .. Len(q)
  BY LenProperties
<1>2. \A i \in 1 .. Len(q) : q[i] \in Event
  BY ElementOfSeq
<1>. QED
  BY <1>1, <1>2 DEF ToSet

\* The part of a queue from m to n.
LEMMA PartOf ==
  ASSUME NEW q \in Seq(Event), NEW m \in 1 .. Len(q) + 1, NEW n \in 0 .. Len(q), m <= n + 1
  PROVE  /\ SubSeq(q, m, n) \in Seq(Event)
         /\ Len(SubSeq(q, m, n)) = n - m + 1
         /\ \A j \in 1 .. n - m + 1 : SubSeq(q, m, n)[j] = q[m + j - 1]
<1>1. Len(q) \in Nat /\ \A j \in 1 .. Len(q) : q[j] \in Event
  BY EventsOf
<1>2. \A j \in m .. n : q[j] \in Event
  BY <1>1
<1>. QED
  BY <1>1, <1>2, SubSeqProperties, Z3

\* The element at position i is taken out, the others move up.
LEMMA EventRemoved ==
  ASSUME NEW q \in Seq(Event), NEW i \in 1 .. Len(q)
  PROVE  /\ RemoveAt(q, i) \in Seq(Event)
         /\ Len(RemoveAt(q, i)) = Len(q) - 1
         /\ \A j \in 1 .. Len(q) - 1 :
              RemoveAt(q, i)[j] = IF j < i THEN q[j] ELSE q[j + 1]
<1>. DEFINE a == SubSeq(q, 1, i - 1)
            b == SubSeq(q, i + 1, Len(q))
<1>1. Len(q) \in Nat
  BY EventsOf
<1>2. a \in Seq(Event) /\ Len(a) = i - 1 /\ \A j \in 1 .. i - 1 : a[j] = q[j]
  <2>1. 1 \in 1 .. Len(q) + 1 /\ i - 1 \in 0 .. Len(q) /\ 1 <= (i - 1) + 1
    BY <1>1
  <2>2. /\ a \in Seq(Event)
        /\ Len(a) = (i - 1) - 1 + 1
        /\ \A j \in 1 .. (i - 1) - 1 + 1 : a[j] = q[1 + j - 1]
    BY <2>1, PartOf
  <2>. QED
    BY <1>1, <2>2
<1>3. b \in Seq(Event) /\ Len(b) = Len(q) - i /\ \A j \in 1 .. Len(q) - i : b[j] = q[i + j]
  <2>1. i + 1 \in 1 .. Len(q) + 1 /\ Len(q) \in 0 .. Len(q) /\ i + 1 <= Len(q) + 1
    BY <1>1
  <2>2. /\ b \in Seq(Event)
        /\ Len(b) = Len(q) - (i + 1) + 1
        /\ \A j \in 1 .. Len(q) - (i + 1) + 1 : b[j] = q[(i + 1) + j - 1]
    BY <2>1, PartOf
  <2>. QED
    BY <1>1, <2>2
<1>4. RemoveAt(q, i) = a \o b
  BY DEF RemoveAt
<1>. HIDE DEF a, b
<1>5. /\ a \o b \in Seq(Event)
      /\ Len(a \o b) = Len(a) + Len(b)
      /\ \A j \in 1 .. Len(a) + Len(b) :
           (a \o b)[j] = IF j <= Len(a) THEN a[j] ELSE b[j - Len(a)]
  BY <1>2, <1>3, ConcatProperties
<1>6. ASSUME NEW j \in 1 .. Len(q) - 1
      PROVE  (a \o b)[j] = IF j < i THEN q[j] ELSE q[j + 1]
  <2>1. CASE j < i
    BY <1>1, <1>2, <1>3, <1>5, <2>1
  <2>2. CASE ~(j < i)
    <3>1. (a \o b)[j] = b[j - (i - 1)]
      BY <1>1, <1>2, <1>3, <1>5, <2>2
    <3>2. j - (i - 1) \in 1 .. Len(q) - i /\ i + (j - (i - 1)) = j + 1
      BY <1>1, <2>2
    <3>. QED
      BY <1>3, <2>2, <3>1, <3>2
  <2>. QED
    BY <2>1, <2>2
<1>. QED
  BY <1>1, <1>2, <1>3, <1>4, <1>5, <1>6

\* e goes to position i, those from there on move down.
LEMMA EventInserted ==
  ASSUME NEW q \in Seq(Event), NEW i \in 1 .. Len(q) + 1, NEW e \in Event
  PROVE  /\ InsertAt(q, i, e) \in Seq(Event)
         /\ Len(InsertAt(q, i, e)) = Len(q) + 1
         /\ \A j \in 1 .. Len(q) + 1 :
              InsertAt(q, i, e)[j] = IF j < i THEN q[j] ELSE IF j = i THEN e ELSE q[j - 1]
<1>. DEFINE a == SubSeq(q, 1, i - 1)
            b == SubSeq(q, i, Len(q))
            c == a \o <<e>>
<1>1. Len(q) \in Nat
  BY EventsOf
<1>2. a \in Seq(Event) /\ Len(a) = i - 1 /\ \A j \in 1 .. i - 1 : a[j] = q[j]
  <2>1. 1 \in 1 .. Len(q) + 1 /\ i - 1 \in 0 .. Len(q) /\ 1 <= (i - 1) + 1
    BY <1>1
  <2>2. /\ a \in Seq(Event)
        /\ Len(a) = (i - 1) - 1 + 1
        /\ \A j \in 1 .. (i - 1) - 1 + 1 : a[j] = q[1 + j - 1]
    BY <2>1, PartOf
  <2>. QED
    BY <1>1, <2>2
<1>3. b \in Seq(Event) /\ Len(b) = Len(q) - i + 1 /\ \A j \in 1 .. Len(q) - i + 1 : b[j] = q[i + j - 1]
  <2>1. Len(q) \in 0 .. Len(q) /\ i <= Len(q) + 1
    BY <1>1
  <2>. QED
    BY <2>1, PartOf
<1>4. InsertAt(q, i, e) = c \o b
  BY DEF InsertAt
<1>. HIDE DEF a, b
<1>5. c \in Seq(Event) /\ Len(c) = i /\ \A j \in 1 .. i : c[j] = IF j < i THEN q[j] ELSE e
  <2>1. <<e>> \in Seq(Event) /\ Len(<<e>>) = 1 /\ <<e>>[1] = e
    OBVIOUS
  <2>2. /\ c \in Seq(Event)
        /\ Len(c) = Len(a) + 1
        /\ \A j \in 1 .. Len(a) + 1 : c[j] = IF j <= Len(a) THEN a[j] ELSE <<e>>[j - Len(a)]
    BY <1>2, <2>1, ConcatProperties
  <2>. HIDE DEF c
  <2>3. Len(c) = i
    BY <1>1, <1>2, <2>2
  <2>4. ASSUME NEW j \in 1 .. i PROVE c[j] = IF j < i THEN q[j] ELSE e
    <3>1. CASE j < i
      BY <1>1, <1>2, <2>2, <3>1
    <3>2. CASE j = i
      <4>1. c[j] = <<e>>[j - Len(a)] /\ j - Len(a) = 1
        BY <1>1, <1>2, <2>2, <3>2
      <4>. QED
        BY <2>1, <3>2, <4>1
    <3>. QED
      BY <1>1, <3>1, <3>2
  <2>. QED
    BY <2>2, <2>3, <2>4
<1>. HIDE DEF c
<1>6. /\ c \o b \in Seq(Event)
      /\ Len(c \o b) = Len(c) + Len(b)
      /\ \A j \in 1 .. Len(c) + Len(b) :
           (c \o b)[j] = IF j <= Len(c) THEN c[j] ELSE b[j - Len(c)]
  BY <1>3, <1>5, ConcatProperties
<1>7. ASSUME NEW j \in 1 .. Len(q) + 1
      PROVE  (c \o b)[j] = IF j < i THEN q[j] ELSE IF j = i THEN e ELSE q[j - 1]
  <2>1. CASE j <= i
    BY <1>1, <1>3, <1>5, <1>6, <2>1
  <2>2. CASE ~(j <= i)
    <3>1. (c \o b)[j] = b[j - i]
      BY <1>1, <1>3, <1>5, <1>6, <2>2
    <3>2. j - i \in 1 .. Len(q) - i + 1 /\ i + (j - i) - 1 = j - 1
      BY <1>1, <2>2
    <3>. QED
      BY <1>3, <2>2, <3>1, <3>2
  <2>. QED
    BY <2>1, <2>2
<1>. QED
  BY <1>1, <1>3, <1>4, <1>5, <1>6, <1>7

-----------------------------------------------------------------------------
(* The queue of timer events.                                              *)

\* A queue in the order of the times tm, in which no event is linked twice.
Ordered(q, tm) ==
  /\ q \in Seq(Event)
  /\ \A i, j \in 1 .. Len(q) : i < j => q[i] # q[j] /\ tm[q[i]] <= tm[q[j]]

\* In an ordered queue different places have different events.
LEMMA OrderedInjective ==
  ASSUME NEW q, NEW tm, Ordered(q, tm)
  PROVE  /\ IsInjective(q)
         /\ \A i, j \in 1 .. Len(q) : q[i] = q[j] => i = j
<1>1. Len(q) \in Nat /\ DOMAIN q = 1 .. Len(q)
  BY EventsOf DEF Ordered
<1>2. \A i, j \in 1 .. Len(q) : q[i] = q[j] => i = j
  <2>. SUFFICES ASSUME NEW i \in 1 .. Len(q), NEW j \in 1 .. Len(q), i # j PROVE q[i] # q[j]
    OBVIOUS
  <2>1. i < j \/ j < i
    BY <1>1
  <2>. QED
    BY <2>1 DEF Ordered
<1>. QED
  BY <1>1, <1>2 DEF IsInjective

\* The order depends on the times of linked events only.
LEMMA OrderedFrame ==
  ASSUME NEW q, NEW tm, NEW tm2, Ordered(q, tm), \A e \in ToSet(q) : tm2[e] = tm[e]
  PROVE  Ordered(q, tm2)
<1>1. \A i \in 1 .. Len(q) : tm2[q[i]] = tm[q[i]]
  BY EventsOf DEF Ordered
<1>. QED
  BY <1>1 DEF Ordered

\* enqueue_tmeb keeps the order.
LEMMA Enqueued ==
  ASSUME tmeb \in [Event -> Nat], NEW q, Ordered(q, tmeb),
         NEW e \in Event, e \notin ToSet(q), NEW tm \in Nat
  PROVE  /\ Ordered(enqueue_tmeb(q, e, tm), [tmeb EXCEPT ![e] = tm])
         /\ ToSet(enqueue_tmeb(q, e, tm)) = ToSet(q) \cup {e}
<1>. DEFINE later == {i \in DOMAIN q : tm < tmeb[q[i]]}
            place == IF later = {} THEN Len(q) + 1
                     ELSE CHOOSE i \in later : \A j \in later : i <= j
            r     == InsertAt(q, place, e)
            tm2   == [tmeb EXCEPT ![e] = tm]
<1>1. /\ q \in Seq(Event)
      /\ Len(q) \in Nat
      /\ DOMAIN q = 1 .. Len(q)
      /\ \A i \in 1 .. Len(q) : q[i] \in Event /\ q[i] # e
  BY EventsOf DEF Ordered
<1>2. /\ place \in 1 .. Len(q) + 1
      /\ \A i \in 1 .. Len(q) : IF i < place THEN tmeb[q[i]] <= tm ELSE tm <= tmeb[q[i]]
  <2>1. CASE later = {}
    BY <1>1, <2>1
  <2>2. CASE later # {}
    <3>1. PICK i \in later : \A j \in later : i <= j
      <4>1. later \subseteq Nat
        BY <1>1
      <4>. QED
        BY <2>2, <4>1, LeastNumber
    <3>2. place \in later /\ \A j \in later : place <= j
      BY <2>2, <3>1
    <3>. HIDE DEF place
    <3>3. place \in 1 .. Len(q) /\ tm < tmeb[q[place]]
      BY <1>1, <3>2
    <3>4. ASSUME NEW j \in 1 .. Len(q)
          PROVE  IF j < place THEN tmeb[q[j]] <= tm ELSE tm <= tmeb[q[j]]
      <4>0. tmeb[q[j]] \in Nat /\ tmeb[q[place]] \in Nat
        BY <1>1, <3>3
      <4>1. CASE j < place
        <5>1. j \notin later
          BY <1>1, <3>2, <3>3, <4>1
        <5>. QED
          BY <1>1, <4>0, <4>1, <5>1
      <4>2. CASE j = place
        BY <3>3, <4>0, <4>2
      <4>3. CASE j > place
        <5>1. tmeb[q[place]] <= tmeb[q[j]]
          BY <3>3, <4>3 DEF Ordered
        <5>. QED
          BY <1>1, <3>3, <4>0, <4>3, <5>1
      <4>. QED
        BY <1>1, <3>3, <4>1, <4>2, <4>3
    <3>. QED
      BY <1>1, <3>3, <3>4
  <2>. QED
    BY <2>1, <2>2
<1>3. enqueue_tmeb(q, e, tm) = r
  BY DEF enqueue_tmeb
<1>. HIDE DEF later, place
<1>4. /\ r \in Seq(Event)
      /\ Len(r) = Len(q) + 1
      /\ \A j \in 1 .. Len(q) + 1 :
           r[j] = IF j < place THEN q[j] ELSE IF j = place THEN e ELSE q[j - 1]
  <2>1. place \in 1 .. Len(q) + 1
    BY <1>2
  <2>2. /\ InsertAt(q, place, e) \in Seq(Event)
        /\ Len(InsertAt(q, place, e)) = Len(q) + 1
        /\ \A j \in 1 .. Len(q) + 1 :
             InsertAt(q, place, e)[j] = IF j < place THEN q[j] ELSE IF j = place THEN e ELSE q[j - 1]
    <3>1. q \in Seq(Event) /\ e \in Event
      BY <1>1
    <3>. QED
      BY ONLY <2>1, <3>1, EventInserted
  <2>. QED
    BY <2>2
<1>. HIDE DEF r
<1>5. tm2[e] = tm /\ \A i \in 1 .. Len(q) : tm2[q[i]] = tmeb[q[i]] /\ tmeb[q[i]] \in Nat
  BY <1>1
<1>. HIDE DEF tm2
<1>6. ASSUME NEW i \in 1 .. Len(r), NEW j \in 1 .. Len(r), i < j
      PROVE  r[i] # r[j] /\ tm2[r[i]] <= tm2[r[j]]
  <2>0. i \in 1 .. Len(q) + 1 /\ j \in 1 .. Len(q) + 1
    BY <1>4
  <2>1. CASE j < place
    <3>1. r[i] = q[i] /\ r[j] = q[j] /\ i \in 1 .. Len(q) /\ j \in 1 .. Len(q)
      BY <1>1, <1>2, <1>4, <2>0, <1>6, <2>1
    <3>. QED
      BY <1>5, <1>6, <3>1 DEF Ordered
  <2>2. CASE j = place
    <3>1. r[i] = q[i] /\ r[j] = e /\ i \in 1 .. Len(q) /\ i < place
      BY <1>1, <1>2, <1>4, <2>0, <1>6, <2>2
    <3>. QED
      BY <1>1, <1>2, <1>5, <3>1
  <2>3. CASE place < j /\ i < place
    <3>1. r[i] = q[i] /\ r[j] = q[j - 1] /\ i \in 1 .. Len(q) /\ j - 1 \in 1 .. Len(q)
          /\ ~(j - 1 < place)
      BY <1>1, <1>2, <1>4, <2>0, <1>6, <2>3
    <3>2. tmeb[q[i]] <= tm /\ tm <= tmeb[q[j - 1]]
      BY <1>2, <2>3, <3>1
    <3>3. q[i] # q[j - 1]
      <4>1. i < j - 1
        BY <1>1, <1>2, <2>3, <3>1
      <4>. QED
        BY <3>1, <4>1 DEF Ordered
    <3>4. tmeb[q[i]] \in Nat /\ tmeb[q[j - 1]] \in Nat
      BY <1>5, <3>1
    <3>. QED
      BY <1>5, <3>1, <3>2, <3>3, <3>4
  <2>4. CASE place < j /\ i = place
    <3>1. r[i] = e /\ r[j] = q[j - 1] /\ j - 1 \in 1 .. Len(q) /\ ~(j - 1 < place)
      BY <1>1, <1>2, <1>4, <2>0, <1>6, <2>4
    <3>. QED
      BY <1>1, <1>2, <1>5, <3>1
  <2>5. CASE place < j /\ place < i
    <3>1. /\ r[i] = q[i - 1] /\ r[j] = q[j - 1]
          /\ i - 1 \in 1 .. Len(q) /\ j - 1 \in 1 .. Len(q) /\ i - 1 < j - 1
      BY <1>1, <1>2, <1>4, <2>0, <1>6, <2>5
    <3>. QED
      BY <1>5, <3>1 DEF Ordered
  <2>. QED
    BY <1>1, <1>2, <2>0, <2>1, <2>2, <2>3, <2>4, <2>5
<1>7. ToSet(r) = ToSet(q) \cup {e}
  <2>1. ASSUME NEW x \in ToSet(r) PROVE x \in ToSet(q) \cup {e}
    <3>1. PICK j \in 1 .. Len(q) + 1 : r[j] = x
      BY <1>4, EventsOf
    <3>2. CASE j < place
      <4>1. j \in 1 .. Len(q) /\ x = q[j]
        BY <1>1, <1>2, <1>4, <3>1, <3>2
      <4>. QED
        BY <1>1, <4>1, EventsOf
    <3>3. CASE j = place
      BY <1>2, <1>4, <3>1, <3>3
    <3>4. CASE place < j
      <4>1. j - 1 \in 1 .. Len(q) /\ x = q[j - 1]
        BY <1>1, <1>2, <1>4, <3>1, <3>4
      <4>. QED
        BY <1>1, <4>1, EventsOf
    <3>. QED
      BY <1>1, <1>2, <3>1, <3>2, <3>3, <3>4
  <2>2. ASSUME NEW x \in ToSet(q) PROVE x \in ToSet(r)
    <3>1. PICK i \in 1 .. Len(q) : q[i] = x
      BY <1>1, EventsOf
    <3>2. CASE i < place
      <4>1. i \in 1 .. Len(r) /\ r[i] = x
        BY <1>1, <1>2, <1>4, <3>1, <3>2
      <4>. QED
        BY <1>4, <4>1, EventsOf
    <3>3. CASE ~(i < place)
      <4>1. i + 1 \in 1 .. Len(r) /\ r[i + 1] = x
        <5>1. i + 1 \in 1 .. Len(q) + 1 /\ ~(i + 1 < place) /\ i + 1 # place /\ (i + 1) - 1 = i
          BY <1>1, <1>2, <3>3
        <5>. QED
          BY <1>4, <3>1, <5>1
      <4>. QED
        BY <1>4, <4>1, EventsOf
    <3>. QED
      BY <3>2, <3>3
  <2>3. e \in ToSet(r)
    <3>1. place \in 1 .. Len(r) /\ r[place] = e
      BY <1>1, <1>2, <1>4
    <3>. QED
      BY <1>4, <3>1, EventsOf
  <2>. QED
    BY <2>1, <2>2, <2>3
<1>. QED
  BY <1>3, <1>4, <1>6, <1>7 DEF Ordered, tm2

\* timer_delete takes the event out, if it is linked.
LEMMA Deleted ==
  ASSUME NEW q, NEW tm, Ordered(q, tm), NEW e \in Event
  PROVE  /\ Ordered(timer_delete(q, e), tm)
         /\ ToSet(timer_delete(q, e)) = ToSet(q) \ {e}
<1>1. q \in Seq(Event) /\ Len(q) \in Nat /\ DOMAIN q = 1 .. Len(q)
  BY EventsOf DEF Ordered
<1>2. CASE e \notin ToSet(q)
  BY <1>2 DEF timer_delete
<1>3. CASE e \in ToSet(q)
  <2>. DEFINE p == CHOOSE i \in DOMAIN q : q[i] = e
              r == RemoveAt(q, p)
  <2>1. timer_delete(q, e) = r
    BY <1>3 DEF timer_delete
  <2>2. p \in 1 .. Len(q) /\ q[p] = e
    BY <1>1, <1>3, EventsOf
  <2>. HIDE DEF p
  <2>3. /\ r \in Seq(Event)
        /\ Len(r) = Len(q) - 1
        /\ \A j \in 1 .. Len(q) - 1 : r[j] = IF j < p THEN q[j] ELSE q[j + 1]
    BY <1>1, <2>2, EventRemoved
  <2>. HIDE DEF r
  <2>4. ASSUME NEW i \in 1 .. Len(r), NEW j \in 1 .. Len(r), i < j
        PROVE  r[i] # r[j] /\ tm[r[i]] <= tm[r[j]]
    <3>0. i \in 1 .. Len(q) - 1 /\ j \in 1 .. Len(q) - 1
      BY <2>3
    <3>1. PICK k \in 1 .. Len(q), l \in 1 .. Len(q) : k < l /\ r[i] = q[k] /\ r[j] = q[l]
      <4>1. CASE j < p
        <5>1. i \in 1 .. Len(q) /\ j \in 1 .. Len(q) /\ i < p
          BY <1>1, <2>2, <2>4, <3>0, <4>1
        <5>. QED
          BY <2>3, <2>4, <3>0, <4>1, <5>1
      <4>2. CASE ~(j < p) /\ i < p
        <5>1. i \in 1 .. Len(q) /\ j + 1 \in 1 .. Len(q) /\ i < j + 1
          BY <1>1, <2>4, <3>0
        <5>. QED
          BY <2>3, <3>0, <4>2, <5>1
      <4>3. CASE ~(j < p) /\ ~(i < p)
        <5>1. i + 1 \in 1 .. Len(q) /\ j + 1 \in 1 .. Len(q) /\ i + 1 < j + 1
          BY <1>1, <2>4, <3>0
        <5>. QED
          BY <2>3, <3>0, <4>3, <5>1
      <4>. QED
        BY <4>1, <4>2, <4>3
    <3>. QED
      BY <3>1 DEF Ordered
  <2>5. ASSUME NEW x \in ToSet(r) PROVE x \in ToSet(q) \ {e}
    <3>1. PICK j \in 1 .. Len(q) - 1 : r[j] = x
      BY <2>3, EventsOf
    <3>2. PICK k \in 1 .. Len(q) : k # p /\ x = q[k]
      <4>1. CASE j < p
        <5>1. j \in 1 .. Len(q) /\ j # p
          BY <1>1, <2>2, <4>1
        <5>. QED
          BY <2>3, <3>1, <4>1, <5>1
      <4>2. CASE ~(j < p)
        <5>1. j + 1 \in 1 .. Len(q) /\ j + 1 # p
          BY <1>1, <2>2, <4>2
        <5>. QED
          BY <2>3, <3>1, <4>2, <5>1
      <4>. QED
        BY <4>1, <4>2
    <3>3. x # e
      BY <2>2, <3>2, OrderedInjective
    <3>. QED
      BY <1>1, <3>2, <3>3, EventsOf
  <2>6. ASSUME NEW x \in ToSet(q), x # e PROVE x \in ToSet(r)
    <3>1. PICK k \in 1 .. Len(q) : q[k] = x
      BY <1>1, EventsOf
    <3>2. k # p
      BY <2>2, <2>6, <3>1
    <3>3. CASE k < p
      <4>1. k \in 1 .. Len(r) /\ r[k] = x
        BY <1>1, <2>2, <2>3, <3>1, <3>3
      <4>. QED
        BY <2>3, <4>1, EventsOf
    <3>4. CASE p < k
      <4>1. k - 1 \in 1 .. Len(q) - 1 /\ ~(k - 1 < p) /\ (k - 1) + 1 = k
        BY <1>1, <2>2, <3>4
      <4>2. k - 1 \in 1 .. Len(r) /\ r[k - 1] = x
        BY <2>3, <3>1, <4>1
      <4>. QED
        BY <2>3, <4>2, EventsOf
    <3>. QED
      BY <1>1, <2>2, <3>1, <3>2, <3>3, <3>4
  <2>7. ToSet(r) = ToSet(q) \ {e}
    BY <2>5, <2>6
  <2>. QED
    BY <2>1, <2>3, <2>4, <2>7 DEF Ordered
<1>. QED
  BY <1>2, <1>3

\* The first event is the earliest, and what remains without it is in order.
LEMMA FirstRemoved ==
  ASSUME NEW q, NEW tm \in [Event -> Nat], Ordered(q, tm), q # <<>>
  PROVE  /\ Head(q) \in ToSet(q) /\ Head(q) \in Event
         /\ \A e \in ToSet(q) : tm[Head(q)] <= tm[e]
         /\ Ordered(Tail(q), tm)
         /\ ToSet(Tail(q)) = ToSet(q) \ {Head(q)}
<1>1. q \in Seq(Event) /\ Len(q) \in Nat /\ DOMAIN q = 1 .. Len(q)
  BY EventsOf DEF Ordered
<1>2. 1 \in 1 .. Len(q) /\ Head(q) = q[1]
  BY <1>1, EmptySeq, HeadTailProperties
<1>3. /\ Tail(q) \in Seq(Event)
      /\ Len(Tail(q)) = Len(q) - 1
      /\ \A i \in 1 .. Len(q) - 1 : Tail(q)[i] = q[i + 1]
  BY <1>1, HeadTailProperties
<1>4. ASSUME NEW e \in ToSet(q) PROVE tm[q[1]] <= tm[e]
  <2>1. PICK i \in 1 .. Len(q) : q[i] = e
    BY <1>1, EventsOf
  <2>2. tm[e] \in Nat
    BY <1>1, EventsOf
  <2>3. CASE i = 1
    BY <2>1, <2>2, <2>3
  <2>4. CASE 1 < i
    BY <1>2, <2>1, <2>4 DEF Ordered
  <2>. QED
    BY <1>1, <2>1, <2>3, <2>4
<1>. DEFINE r == Tail(q)
<1>. HIDE DEF r
<1>5. Ordered(r, tm)
  <2>. SUFFICES ASSUME NEW i \in 1 .. Len(r), NEW j \in 1 .. Len(r), i < j
                PROVE  r[i] # r[j] /\ tm[r[i]] <= tm[r[j]]
    BY <1>3 DEF Ordered, r
  <2>1. /\ i + 1 \in 1 .. Len(q) /\ j + 1 \in 1 .. Len(q) /\ i + 1 < j + 1
        /\ r[i] = q[i + 1] /\ r[j] = q[j + 1]
    BY <1>1, <1>3 DEF r
  <2>. QED
    BY <2>1 DEF Ordered
<1>6. ASSUME NEW x \in ToSet(r) PROVE x \in ToSet(q) \ {q[1]}
  <2>1. PICK j \in 1 .. Len(q) - 1 : r[j] = x
    BY <1>3, EventsOf DEF r
  <2>2. j + 1 \in 1 .. Len(q) /\ j + 1 # 1 /\ x = q[j + 1]
    BY <1>1, <1>3, <2>1 DEF r
  <2>3. x # q[1]
    BY <1>2, <2>2, OrderedInjective
  <2>. QED
    BY <1>1, <2>2, <2>3, EventsOf
<1>7. ASSUME NEW x \in ToSet(q), x # q[1] PROVE x \in ToSet(r)
  <2>1. PICK k \in 1 .. Len(q) : q[k] = x
    BY <1>1, EventsOf
  <2>2. k - 1 \in 1 .. Len(q) - 1 /\ (k - 1) + 1 = k
    BY <1>1, <1>7, <2>1
  <2>3. k - 1 \in 1 .. Len(r) /\ r[k - 1] = x
    BY <1>3, <2>1, <2>2 DEF r
  <2>. QED
    BY <1>3, <2>3, EventsOf DEF r
<1>8. ToSet(r) = ToSet(q) \ {q[1]}
  BY <1>6, <1>7
<1>. QED
  BY <1>1, <1>2, <1>4, <1>5, <1>8, EventsOf DEF r

-----------------------------------------------------------------------------
(* Times.                                                                  *)

\* cyc_next_time: the next time is later than the last one and than current_time, in its
\* phase, and no more than an interval after current_time.
LEMMA NextTime ==
  ASSUME NEW time \in Nat, NEW cyctim \in Nat \ {0}, current_time \in Nat
  PROVE  LET next == cyc_next_time(time, cyctim) IN
         /\ next \in Nat
         /\ next > current_time
         /\ next > time
         /\ time <= current_time => next <= current_time + cyctim
         /\ \E n \in Nat : next = time + n * cyctim
<1>1. CASE time + cyctim > current_time
  <2>1. cyc_next_time(time, cyctim) = time + 1 * cyctim
    BY <1>1 DEF cyc_next_time
  <2>. QED
    BY <1>1, <2>1
<1>2. CASE ~(time + cyctim > current_time)
  <2>. DEFINE d == current_time - time
              k == d \div cyctim
              m == d % cyctim
  <2>1. d \in Nat /\ d >= cyctim
    BY <1>2
  <2>2. k \in Nat /\ m \in 0 .. cyctim - 1 /\ d = cyctim * k + m
    BY <2>1
  <2>. HIDE DEF k, m
  <2>3. cyc_next_time(time, cyctim) = time + (k + 1) * cyctim
    BY <1>2 DEF cyc_next_time, k
  <2>4. (k + 1) * cyctim = cyctim * k + cyctim
    BY <2>2
  <2>5. cyctim * k \in Nat
    BY <2>2
  <2>6. k + 1 \in Nat
    BY <2>2
  <2>. DEFINE next == time + (k + 1) * cyctim
              ck == cyctim * k
  <2>7. next = time + ck + cyctim /\ d = ck + m /\ ck \in Nat
    BY <2>2, <2>4, <2>5
  <2>8. \E n \in Nat : next = time + n * cyctim
    BY <2>6
  <2>. HIDE DEF next, ck
  <2>9. next \in Nat /\ next > current_time /\ next > time /\ next <= current_time + cyctim
    BY <2>1, <2>2, <2>7 DEF d
  <2>. QED
    BY <2>3, <2>8, <2>9 DEF next
<1>. QED
  BY <1>1, <1>2

\* A multiple of an interval leaves no remainder.
LEMMA Multiple ==
  ASSUME NEW n \in Nat, NEW cyctim \in Nat \ {0}
  PROVE  n * cyctim \in Nat /\ (n * cyctim) % cyctim = 0
<1>. DEFINE x == n * cyctim
            k == x \div cyctim
            m == x % cyctim
<1>1. x \in Nat
  OBVIOUS
<1>2. k \in Nat /\ m \in 0 .. cyctim - 1 /\ x = cyctim * k + m
  BY <1>1
<1>. HIDE DEF k, m
<1>3. m = (n - k) * cyctim
  BY <1>2
<1>4. CASE n <= k
  <2>1. k - n \in Nat
    BY <1>2, <1>4
  <2>2. (k - n) * cyctim \in Nat
    BY <2>1
  <2>3. (n - k) * cyctim = 0 - (k - n) * cyctim
    BY <1>2
  <2>. QED
    BY <1>2, <1>3, <2>2, <2>3 DEF m
<1>5. CASE n > k
  <2>1. n - k - 1 \in Nat
    BY <1>2, <1>5
  <2>2. (n - k - 1) * cyctim \in Nat
    BY <2>1
  <2>3. (n - k) * cyctim = (n - k - 1) * cyctim + cyctim
    BY <1>2
  <2>. QED
    BY <1>2, <1>3, <2>2, <2>3
<1>. QED
  BY <1>1, <1>2, <1>4, <1>5 DEF m

-----------------------------------------------------------------------------
(* The inductive invariant.                                                *)

\* The software clock is behind the real time by what the timer device has counted since.
ClockInv ==
  /\ hw \in [TI_RCR : 0 .. TIMER_PERIOD - 1, ovf : BOOLEAN]
  /\ current_time \in Nat
  /\ now \in Nat
  /\ handling \in BOOLEAN
  /\ calls \in Nat
  /\ now = current_time + hw.TI_RCR + (IF hw.ovf THEN TIMER_PERIOD ELSE 0)

\* The queue is in order; the time of an event is what was asked for, rounded up; and
\* outside timer_handler no linked event has passed.
EventInv ==
  /\ tmeb \in [Event -> Nat]
  /\ due \in [Event -> Nat]
  /\ Ordered(timer_queue, tmeb)
  /\ \A e \in Event : due[e] <= tmeb[e] /\ tmeb[e] <= due[e] + 1
  /\ ~handling => \A e \in ToSet(timer_queue) : tmeb[e] > current_time

CycRecord == [cychdr : BOOLEAN, cycatr : Attributes \cup {{}}, cyctim : Nat \ {0},
              cycstat : {"TCYC_STP", "TCYC_STA"}]
AlmRecord == [almhdr : BOOLEAN, almstat : {"TALM_STP", "TALM_STA"}]

\* What is linked agrees with the states of tasks and handlers; a handler that does not
\* exist is stopped.
StateInv ==
  /\ waiting \subseteq Task
  /\ cyccb \in [Cyc -> CycRecord]
  /\ almcb \in [Alm -> AlmRecord]
  /\ \A c \in Cyc : c \in ToSet(timer_queue) <=> cyccb[c].cycstat = "TCYC_STA"
  /\ \A c \in Cyc : ~cyccb[c].cychdr => cyccb[c].cycstat = "TCYC_STP"
  /\ \A a \in Alm : a \in ToSet(timer_queue) <=> almcb[a].almstat = "TALM_STA"
  /\ \A a \in Alm : ~almcb[a].almhdr => almcb[a].almstat = "TALM_STP"
  /\ \A t \in Task : t \in ToSet(timer_queue) => t \in waiting

IInv == ClockInv /\ EventInv /\ StateInv

\* The adjustment makes up for the time since the software clock was updated.
LEMMA Adjusted ==
  ASSUME ClockInv, NEW adjust \in adjust_time
  PROVE  adjust \in Nat /\ now <= current_time + adjust /\ current_time + adjust <= now + 1
<1>1. TIMER_PERIOD \in Nat \ {0}
  BY TimerAssumption
<1>2. hw.TI_RCR \in Nat /\ hw.ovf \in BOOLEAN
  BY <1>1 DEF ClockInv
<1>. QED
  BY <1>1, <1>2 DEF ClockInv, adjust_time, get_hw_timer_usec

\* timer_insert_reltim.
LEMMA ReltimInserted ==
  ASSUME ClockInv, EventInv, current_time' = current_time, handling' = handling,
         NEW q, Ordered(q, tmeb), ToSet(q) \subseteq ToSet(timer_queue),
         NEW e \in Event, e \notin ToSet(q), NEW reltim \in Nat \ {0},
         timer_insert_reltim(q, e, reltim)
  PROVE  EventInv' /\ ToSet(timer_queue') = ToSet(q) \cup {e}
<1>1. PICK adjust \in adjust_time :
        LET tm == current_time + reltim + adjust IN
        /\ timer_queue' = enqueue_tmeb(q, e, tm)
        /\ tmeb' = [tmeb EXCEPT ![e] = tm]
        /\ due' = [due EXCEPT ![e] = now + reltim]
  BY DEF timer_insert_reltim
<1>. DEFINE tm == current_time + reltim + adjust
<1>2. /\ tm \in Nat /\ now + reltim \in Nat
      /\ now + reltim <= tm /\ tm <= now + reltim + 1 /\ tm > current_time
  BY Adjusted DEF ClockInv
<1>. HIDE DEF tm
<1>3. /\ timer_queue' = enqueue_tmeb(q, e, tm)
      /\ tmeb' = [tmeb EXCEPT ![e] = tm]
      /\ due' = [due EXCEPT ![e] = now + reltim]
  BY <1>1 DEF tm
<1>4. Ordered(timer_queue', tmeb') /\ ToSet(timer_queue') = ToSet(q) \cup {e}
  BY <1>2, <1>3, Enqueued DEF EventInv
<1>5. tmeb' \in [Event -> Nat] /\ due' \in [Event -> Nat]
  BY <1>2, <1>3 DEF EventInv
<1>6. ASSUME NEW x \in Event PROVE due'[x] <= tmeb'[x] /\ tmeb'[x] <= due'[x] + 1
  BY <1>2, <1>3 DEF EventInv
<1>7. ASSUME ~handling', NEW x \in ToSet(timer_queue') PROVE tmeb'[x] > current_time'
  <2>1. CASE x = e
    BY <1>2, <1>3, <2>1 DEF EventInv
  <2>2. CASE x # e
    <3>1. x \in ToSet(timer_queue)
      BY <1>4, <1>7, <2>2
    <3>2. tmeb'[x] = tmeb[x]
      BY <1>3, <2>2, <3>1, EventsOf DEF EventInv, Ordered
    <3>. QED
      BY <1>7, <3>1, <3>2 DEF EventInv
  <2>. QED
    BY <2>1, <2>2
<1>. QED
  BY <1>4, <1>5, <1>6, <1>7 DEF EventInv

\* cyc_timer_insert: the time moves from one time of the phase to a later one.
LEMMA CycInserted ==
  ASSUME ClockInv, EventInv, current_time' = current_time, handling' = handling,
         NEW q, Ordered(q, tmeb), ToSet(q) \subseteq ToSet(timer_queue),
         NEW c \in Event, c \notin ToSet(q),
         NEW from \in Nat, NEW start \in Nat, start <= from, from <= start + 1,
         NEW tm \in Nat, tm >= from, tm > current_time,
         cyc_timer_insert(q, c, from, start, tm)
  PROVE  EventInv' /\ ToSet(timer_queue') = ToSet(q) \cup {c}
<1>1. /\ timer_queue' = enqueue_tmeb(q, c, tm)
      /\ tmeb' = [tmeb EXCEPT ![c] = tm]
      /\ due' = [due EXCEPT ![c] = start + (tm - from)]
  BY DEF cyc_timer_insert
<1>2. start + (tm - from) \in Nat /\ start + (tm - from) <= tm /\ tm <= start + (tm - from) + 1
  OBVIOUS
<1>4. Ordered(timer_queue', tmeb') /\ ToSet(timer_queue') = ToSet(q) \cup {c}
  BY <1>1, Enqueued DEF EventInv
<1>5. tmeb' \in [Event -> Nat] /\ due' \in [Event -> Nat]
  BY <1>1, <1>2 DEF EventInv
<1>6. ASSUME NEW x \in Event PROVE due'[x] <= tmeb'[x] /\ tmeb'[x] <= due'[x] + 1
  BY <1>1, <1>2 DEF EventInv
<1>7. ASSUME ~handling', NEW x \in ToSet(timer_queue') PROVE tmeb'[x] > current_time'
  <2>1. CASE x = c
    BY <1>1, <2>1 DEF EventInv
  <2>2. CASE x # c
    <3>1. x \in ToSet(timer_queue)
      BY <1>4, <1>7, <2>2
    <3>2. tmeb'[x] = tmeb[x]
      BY <1>1, <2>2, <3>1, EventsOf DEF EventInv, Ordered
    <3>. QED
      BY <1>7, <3>1, <3>2 DEF EventInv
  <2>. QED
    BY <2>1, <2>2
<1>. QED
  BY <1>4, <1>5, <1>6, <1>7 DEF EventInv

\* Taking events out of the queue.
LEMMA EventsTaken ==
  ASSUME EventInv, current_time' = current_time, handling' = handling,
         tmeb' = tmeb, due' = due,
         Ordered(timer_queue', tmeb), ToSet(timer_queue') \subseteq ToSet(timer_queue)
  PROVE  EventInv'
BY DEF EventInv

-----------------------------------------------------------------------------
(* Every action preserves the invariant.                                   *)

\* Steps that leave the queue and what is linked in it alone.
LEMMA QueueUntouched ==
  ASSUME EventInv, StateInv, current_time' = current_time, handling' = handling,
         UNCHANGED <<queuevars, waiting, cyccb, almcb>>
  PROVE  EventInv' /\ StateInv'
BY DEF EventInv, StateInv, CycRecord, AlmRecord, queuevars, Ordered

\* The counter advances, and now with it.
LEMMA HardwareStep ==
  ASSUME IInv, hw_count
  PROVE  IInv'
<1>1. EventInv' /\ StateInv'
  BY QueueUntouched DEF IInv, hw_count
<1>2. ClockInv'
  <2>1. TIMER_PERIOD \in Nat \ {0}
    BY TimerAssumption
  <2>2. hw.TI_RCR \in 0 .. TIMER_PERIOD - 1 /\ hw.ovf \in BOOLEAN /\ current_time \in Nat
        /\ now \in Nat /\ now = current_time + hw.TI_RCR + (IF hw.ovf THEN TIMER_PERIOD ELSE 0)
    BY DEF IInv, ClockInv
  <2>3. /\ now' = now + 1 /\ current_time' = current_time
        /\ handling' = handling /\ calls' = calls
    BY DEF hw_count
  <2>4. CASE hw.TI_RCR + 1 = TIMER_PERIOD
    <3>1. hw' = [TI_RCR |-> 0, ovf |-> TRUE] /\ hw.ovf = FALSE
      BY <2>2, <2>4, Zenon DEF hw_count
    <3>2. hw'.TI_RCR = 0 /\ hw'.ovf = TRUE /\ 0 \in 0 .. TIMER_PERIOD - 1
      BY <2>1, <3>1
    <3>. QED
      BY <2>1, <2>2, <2>3, <2>4, <3>1, <3>2 DEF IInv, ClockInv
  <2>5. CASE hw.TI_RCR + 1 # TIMER_PERIOD
    <3>1. hw' = [TI_RCR |-> hw.TI_RCR + 1, ovf |-> hw.ovf]
      BY <2>2, <2>5 DEF hw_count
    <3>. QED
      BY <2>1, <2>2, <2>3, <2>5, <3>1 DEF IInv, ClockInv
  <2>. QED
    BY <2>4, <2>5
<1>. QED
  BY <1>1, <1>2 DEF IInv

\* Most steps do not touch the clocks.
LEMMA ClockUntouched ==
  ASSUME ClockInv, UNCHANGED <<hw, current_time, now, handling>>, calls' \in Nat
  PROVE  ClockInv'
BY DEF ClockInv

\* Steps that change one cyclic handler and the link of its event.
LEMMA CyclicChanged ==
  ASSUME StateInv, NEW c \in Cyc, waiting' = waiting, almcb' = almcb,
         cyccb' \in [Cyc -> CycRecord],
         \A d \in Cyc \ {c} : cyccb'[d] = cyccb[d],
         ToSet(timer_queue') \ {c} = ToSet(timer_queue) \ {c},
         c \in ToSet(timer_queue') <=> cyccb'[c].cycstat = "TCYC_STA",
         ~cyccb'[c].cychdr => cyccb'[c].cycstat = "TCYC_STP"
  PROVE  StateInv'
<1>1. \A e \in Event : e # c => (e \in ToSet(timer_queue') <=> e \in ToSet(timer_queue))
  OBVIOUS
<1>2. \A e \in Task \cup Alm : e # c /\ e \in Event
  BY TimerAssumption DEF Event
<1>3. \A d \in Cyc : d \in Event
  BY DEF Event
<1>. QED
  BY <1>1, <1>2, <1>3 DEF StateInv

\* Steps that change one alarm handler and the link of its event.
LEMMA AlarmChanged ==
  ASSUME StateInv, NEW a \in Alm, waiting' = waiting, cyccb' = cyccb,
         almcb' \in [Alm -> AlmRecord],
         \A b \in Alm \ {a} : almcb'[b] = almcb[b],
         ToSet(timer_queue') \ {a} = ToSet(timer_queue) \ {a},
         a \in ToSet(timer_queue') <=> almcb'[a].almstat = "TALM_STA",
         ~almcb'[a].almhdr => almcb'[a].almstat = "TALM_STP"
  PROVE  StateInv'
<1>1. \A e \in Event : e # a => (e \in ToSet(timer_queue') <=> e \in ToSet(timer_queue))
  OBVIOUS
<1>2. \A e \in Task \cup Cyc : e # a /\ e \in Event
  BY TimerAssumption DEF Event
<1>3. \A b \in Alm : b \in Event
  BY DEF Event
<1>. QED
  BY <1>1, <1>2, <1>3 DEF StateInv

\* make_wait: a timeout is registered for a task that had none.
LEMMA MakeWaitStep ==
  ASSUME IInv, NEW t \in Task, NEW tmout \in (Times \ {0}) \cup {TMO_FEVR}, make_wait(t, tmout)
  PROVE  IInv'
<1>1. ClockInv'
  BY ClockUntouched DEF IInv, make_wait, ClockInv
<1>2. t \in Event /\ t \notin ToSet(timer_queue) /\ t \notin waiting
  BY DEF IInv, StateInv, CycRecord, AlmRecord, make_wait, Event
<1>3. CASE tmout = TMO_FEVR
  <2>1. UNCHANGED queuevars /\ waiting' = waiting \cup {t} /\ UNCHANGED <<cyccb, almcb>>
        /\ current_time' = current_time /\ handling' = handling
    BY <1>3 DEF make_wait
  <2>2. EventInv'
    BY <2>1 DEF IInv, EventInv, queuevars, Ordered
  <2>3. StateInv'
    BY <2>1 DEF IInv, StateInv, CycRecord, AlmRecord, queuevars
  <2>. QED
    BY <1>1, <2>2, <2>3 DEF IInv
<1>4. CASE tmout # TMO_FEVR
  <2>1. tmout \in Nat \ {0}
    BY <1>4, TimerAssumption
  <2>2. /\ timer_insert_reltim(timer_queue, t, tmout) /\ waiting' = waiting \cup {t}
        /\ UNCHANGED <<cyccb, almcb>> /\ current_time' = current_time /\ handling' = handling
    BY <1>4 DEF make_wait
  <2>3. EventInv' /\ ToSet(timer_queue') = ToSet(timer_queue) \cup {t}
    <3>1. Ordered(timer_queue, tmeb) /\ ClockInv /\ EventInv
      BY DEF IInv, EventInv
    <3>. QED
      BY <1>2, <2>1, <2>2, <3>1, ReltimInserted
  <2>4. StateInv'
    BY <2>2, <2>3, TimerAssumption DEF IInv, StateInv, CycRecord, AlmRecord
  <2>. QED
    BY <1>1, <2>3, <2>4 DEF IInv
<1>. QED
  BY <1>3, <1>4

\* wait_release: the timeout of the task, if any, is taken out.
LEMMA WaitReleaseStep ==
  ASSUME IInv, NEW t \in Task, wait_release(t)
  PROVE  IInv'
<1>1. ClockInv'
  BY ClockUntouched DEF IInv, wait_release, ClockInv
<1>2. Ordered(timer_queue', tmeb) /\ ToSet(timer_queue') = ToSet(timer_queue) \ {t}
  <2>1. t \in Event /\ Ordered(timer_queue, tmeb)
    BY DEF Event, IInv, EventInv
  <2>. QED
    BY <2>1, Deleted DEF wait_release
<1>3. EventInv'
  BY <1>2, EventsTaken DEF IInv, wait_release
<1>4. StateInv'
  BY <1>2, TimerAssumption DEF IInv, StateInv, CycRecord, AlmRecord, wait_release
<1>. QED
  BY <1>1, <1>3, <1>4 DEF IInv

\* tk_del_cyc and tk_stp_cyc: the event of c is taken out if the handler is started.
LEMMA CyclicStopped ==
  ASSUME IInv, NEW c \in Cyc, UNCHANGED <<hw, current_time, tmeb, due, waiting, almcb, handling, calls, now>>,
         timer_queue' = IF cyccb[c].cycstat = "TCYC_STA" THEN timer_delete(timer_queue, c) ELSE timer_queue,
         cyccb' \in [Cyc -> CycRecord], cyccb'[c].cycstat = "TCYC_STP",
         \A d \in Cyc \ {c} : cyccb'[d] = cyccb[d]
  PROVE  IInv'
<1>1. ClockInv'
  BY ClockUntouched DEF IInv, ClockInv
<1>2. Ordered(timer_queue', tmeb) /\ ToSet(timer_queue') = ToSet(timer_queue) \ {c}
  <2>1. c \in Event /\ Ordered(timer_queue, tmeb)
    BY DEF Event, IInv, EventInv
  <2>2. CASE cyccb[c].cycstat = "TCYC_STA"
    BY <2>1, <2>2, Deleted
  <2>3. CASE cyccb[c].cycstat # "TCYC_STA"
    BY <2>1, <2>3 DEF IInv, StateInv, CycRecord, AlmRecord
  <2>. QED
    BY <2>2, <2>3
<1>3. EventInv'
  BY <1>2, EventsTaken DEF IInv
<1>4. StateInv'
  BY <1>2, CyclicChanged DEF IInv
<1>. QED
  BY <1>1, <1>3, <1>4 DEF IInv

\* tk_del_cyc: a handler that is deleted has no event linked.
LEMMA DeleteCyclicStep ==
  ASSUME IInv, NEW c \in Cyc, tk_del_cyc(c)
  PROVE  IInv'
<1>1. cyccb \in [Cyc -> CycRecord]
  BY DEF IInv, StateInv
<1>2. /\ cyccb' \in [Cyc -> CycRecord]
      /\ cyccb'[c].cycstat = "TCYC_STP"
      /\ \A d \in Cyc \ {c} : cyccb'[d] = cyccb[d]
  BY <1>1 DEF tk_del_cyc, CycRecord
<1>. QED
  BY <1>2, CyclicStopped DEF tk_del_cyc

\* tk_stp_cyc: a handler that is stopped has no event linked.
LEMMA StopCyclicStep ==
  ASSUME IInv, NEW c \in Cyc, tk_stp_cyc(c)
  PROVE  IInv'
<1>1. cyccb \in [Cyc -> CycRecord]
  BY DEF IInv, StateInv
<1>2. /\ cyccb' \in [Cyc -> CycRecord]
      /\ cyccb'[c].cycstat = "TCYC_STP"
      /\ \A d \in Cyc \ {c} : cyccb'[d] = cyccb[d]
  BY <1>1 DEF tk_stp_cyc, CycRecord
<1>. QED
  BY <1>2, CyclicStopped DEF tk_stp_cyc

\* tk_cre_cyc: with TA_STA the event is linked, also when the handler is called at once;
\* otherwise only its time is set.
LEMMA CreateCyclicStep ==
  ASSUME IInv, NEW c \in Cyc, NEW cycatr \in Attributes, NEW cyctim \in Times, NEW cycphs \in Times,
         tk_cre_cyc(c, cycatr, cyctim, cycphs)
  PROVE  IInv'
<1>1. /\ cyctim \in Nat \ {0} /\ cycphs \in Nat /\ c \in Event
      /\ UNCHANGED <<hw, current_time, waiting, almcb, handling, now>>
      /\ cyccb' = [cyccb EXCEPT ![c] =
           [cychdr |-> TRUE, cycatr |-> cycatr, cyctim |-> cyctim,
            cycstat |-> IF "TA_STA" \in cycatr THEN "TCYC_STA" ELSE "TCYC_STP"]]
  BY TimerAssumption DEF tk_cre_cyc, Event
<1>2. c \notin ToSet(timer_queue) /\ Ordered(timer_queue, tmeb) /\ ClockInv /\ EventInv
  BY DEF tk_cre_cyc, IInv, StateInv, CycRecord, AlmRecord, EventInv
<1>3. /\ EventInv'
      /\ ToSet(timer_queue') = IF "TA_STA" \in cycatr THEN ToSet(timer_queue) \cup {c} ELSE ToSet(timer_queue)
      /\ calls' \in Nat
  <2>1. CASE "TA_STA" \in cycatr /\ cycphs > 0
    <3>1. timer_insert_reltim(timer_queue, c, cycphs) /\ calls' = calls
      BY <2>1 DEF tk_cre_cyc
    <3>2. cycphs \in Nat \ {0}
      BY <1>1, <2>1
    <3>. QED
      BY <1>1, <1>2, <2>1, <3>1, <3>2, ReltimInserted DEF ClockInv
  <2>2. CASE "TA_STA" \in cycatr /\ ~(cycphs > 0)
    <3>1. PICK adjust \in adjust_time :
            call_cychdr(timer_queue, c, current_time + cycphs + adjust, now, cyctim)
      BY <2>2 DEF tk_cre_cyc
    <3>. DEFINE tm == current_time + cycphs + adjust
    <3>2. tm \in Nat /\ now \in Nat /\ now <= tm /\ tm <= now + 1 /\ current_time \in Nat
      BY <1>1, <1>2, <2>2, Adjusted DEF ClockInv
    <3>3. call_cychdr(timer_queue, c, tm, now, cyctim)
      BY <3>1
    <3>. HIDE DEF tm
    <3>. DEFINE next == cyc_next_time(tm, cyctim)
    <3>4. cyc_timer_insert(timer_queue, c, tm, now, next) /\ calls' = calls + 1
      BY <3>3 DEF call_cychdr, call_handler
    <3>5. next \in Nat /\ next > current_time /\ next > tm
      BY <1>1, <3>2, NextTime
    <3>. HIDE DEF next
    <3>6. next >= tm
      BY <3>2, <3>5
    <3>. QED
      BY <1>1, <1>2, <2>2, <3>2, <3>4, <3>5, <3>6, CycInserted DEF ClockInv
  <2>3. CASE "TA_STA" \notin cycatr
    <3>1. PICK adjust \in adjust_time :
            /\ tmeb' = [tmeb EXCEPT ![c] = current_time + cycphs + adjust]
            /\ due' = [due EXCEPT ![c] = now + cycphs]
            /\ timer_queue' = timer_queue /\ calls' = calls
      BY <2>3 DEF tk_cre_cyc
    <3>. DEFINE tm == current_time + cycphs + adjust
    <3>2. tm \in Nat /\ now + cycphs \in Nat /\ now + cycphs <= tm /\ tm <= now + cycphs + 1
      BY <1>1, <1>2, Adjusted DEF ClockInv
    <3>3. tmeb' = [tmeb EXCEPT ![c] = tm]
      BY <3>1
    <3>. HIDE DEF tm
    <3>4. \A x \in ToSet(timer_queue) : x # c /\ x \in Event /\ tmeb'[x] = tmeb[x]
      BY <1>2, <3>3, EventsOf DEF EventInv, Ordered
    <3>5. Ordered(timer_queue', tmeb')
      BY <1>2, <3>1, <3>4, OrderedFrame
    <3>6. tmeb' \in [Event -> Nat] /\ due' \in [Event -> Nat]
      BY <1>2, <3>1, <3>2, <3>3 DEF EventInv
    <3>7. ASSUME NEW x \in Event PROVE due'[x] <= tmeb'[x] /\ tmeb'[x] <= due'[x] + 1
      BY <1>2, <3>1, <3>2, <3>3 DEF EventInv
    <3>8. ~handling' => \A x \in ToSet(timer_queue') : tmeb'[x] > current_time'
      BY <1>1, <1>2, <3>1, <3>4 DEF EventInv
    <3>. QED
      BY <1>2, <2>3, <3>1, <3>5, <3>6, <3>7, <3>8 DEF EventInv, ClockInv
  <2>. QED
    BY <1>1, <2>1, <2>2, <2>3
<1>4. StateInv'
  <2>1. cyccb \in [Cyc -> CycRecord] /\ StateInv
    BY DEF IInv, StateInv
  <2>2. /\ cyccb' \in [Cyc -> CycRecord]
        /\ \A d \in Cyc \ {c} : cyccb'[d] = cyccb[d]
        /\ cyccb'[c].cychdr = TRUE
        /\ cyccb'[c].cycstat = "TCYC_STA" <=> "TA_STA" \in cycatr
    BY <1>1, <2>1 DEF CycRecord
  <2>3. ToSet(timer_queue') \ {c} = ToSet(timer_queue) \ {c}
    BY <1>3
  <2>4. c \in ToSet(timer_queue') <=> "TA_STA" \in cycatr
    BY <1>2, <1>3
  <2>. QED
    BY <1>1, <2>1, <2>2, <2>3, <2>4, CyclicChanged
<1>. QED
  BY <1>1, <1>2, <1>3, <1>4, ClockUntouched DEF IInv

\* tk_sta_cyc: whether the handler was started and whether it keeps its phase, its event
\* is linked once and for a time to come.
LEMMA StartCyclicStep ==
  ASSUME IInv, NEW c \in Cyc, tk_sta_cyc(c)
  PROVE  IInv'
<1>1. /\ UNCHANGED <<hw, current_time, waiting, almcb, handling, calls, now>>
      /\ cyccb[c].cychdr
      /\ cyccb' = [cyccb EXCEPT ![c].cycstat = "TCYC_STA"]
  BY DEF tk_sta_cyc
<1>2. /\ c \in Event /\ Ordered(timer_queue, tmeb) /\ ClockInv /\ EventInv
      /\ cyccb[c].cyctim \in Nat \ {0}
      /\ c \in ToSet(timer_queue) <=> cyccb[c].cycstat = "TCYC_STA"
  BY DEF IInv, StateInv, CycRecord, AlmRecord, EventInv, Event
<1>3. EventInv' /\ ToSet(timer_queue') = ToSet(timer_queue) \cup {c}
  <2>1. CASE "TA_PHS" \in cyccb[c].cycatr /\ cyccb[c].cycstat = "TCYC_STA"
    <3>1. UNCHANGED queuevars
      BY <2>1 DEF tk_sta_cyc
    <3>. QED
      BY <1>1, <1>2, <2>1, <3>1 DEF EventInv, queuevars, Ordered
  <2>2. CASE "TA_PHS" \in cyccb[c].cycatr /\ cyccb[c].cycstat # "TCYC_STA"
    <3>. DEFINE time == tmeb[c]
                tm   == IF time > current_time THEN time
                        ELSE cyc_next_time(time, cyccb[c].cyctim)
    <3>1. cyc_timer_insert(timer_queue, c, time, due[c], tm)
      BY <2>2 DEF tk_sta_cyc
    <3>2. /\ time \in Nat /\ due[c] \in Nat /\ due[c] <= time /\ time <= due[c] + 1
          /\ current_time \in Nat
      BY <1>2 DEF EventInv, ClockInv
    <3>. HIDE DEF time
    <3>3. tm \in Nat /\ tm >= time /\ tm > current_time
      <4>1. CASE time > current_time
        BY <3>2, <4>1
      <4>2. CASE ~(time > current_time)
        <5>1. /\ cyc_next_time(time, cyccb[c].cyctim) \in Nat
              /\ cyc_next_time(time, cyccb[c].cyctim) > current_time
              /\ cyc_next_time(time, cyccb[c].cyctim) > time
          BY <1>2, <3>2, NextTime
        <5>2. tm = cyc_next_time(time, cyccb[c].cyctim)
          BY <4>2
        <5>. HIDE DEF tm
        <5>. QED
          BY <3>2, <5>1, <5>2
      <4>. QED
        BY <4>1, <4>2
    <3>. HIDE DEF tm
    <3>. QED
      BY <1>1, <1>2, <2>2, <3>1, <3>2, <3>3, CycInserted
  <2>3. CASE "TA_PHS" \notin cyccb[c].cycatr
    <3>. DEFINE q == IF cyccb[c].cycstat = "TCYC_STA" THEN timer_delete(timer_queue, c)
                     ELSE timer_queue
    <3>1. timer_insert_reltim(q, c, cyccb[c].cyctim)
      BY <2>3 DEF tk_sta_cyc
    <3>2. Ordered(q, tmeb) /\ ToSet(q) = ToSet(timer_queue) \ {c}
      BY <1>2, Deleted
    <3>. HIDE DEF q
    <3>3. EventInv' /\ ToSet(timer_queue') = ToSet(q) \cup {c}
      BY <1>1, <1>2, <3>1, <3>2, ReltimInserted
    <3>. QED
      BY <3>2, <3>3
  <2>. QED
    BY <2>1, <2>2, <2>3
<1>4. StateInv'
  BY <1>1, <1>3, TimerAssumption DEF IInv, StateInv, CycRecord, AlmRecord
<1>. QED
  BY <1>1, <1>2, <1>3, <1>4, ClockUntouched DEF IInv, ClockInv

\* tk_del_alm and tk_stp_alm: the event of a is taken out if the handler is started.
LEMMA AlarmStopped ==
  ASSUME IInv, NEW a \in Alm, UNCHANGED <<hw, current_time, tmeb, due, waiting, cyccb, handling, now>>,
         calls' \in Nat,
         timer_queue' = IF almcb[a].almstat = "TALM_STA" THEN timer_delete(timer_queue, a) ELSE timer_queue,
         almcb' \in [Alm -> AlmRecord], almcb'[a].almstat = "TALM_STP",
         \A b \in Alm \ {a} : almcb'[b] = almcb[b]
  PROVE  IInv'
<1>1. ClockInv'
  BY ClockUntouched DEF IInv
<1>2. Ordered(timer_queue', tmeb) /\ ToSet(timer_queue') = ToSet(timer_queue) \ {a}
  <2>1. a \in Event /\ Ordered(timer_queue, tmeb)
    BY DEF Event, IInv, EventInv
  <2>2. CASE almcb[a].almstat = "TALM_STA"
    BY <2>1, <2>2, Deleted
  <2>3. CASE almcb[a].almstat # "TALM_STA"
    BY <2>1, <2>3 DEF IInv, StateInv, CycRecord, AlmRecord
  <2>. QED
    BY <2>2, <2>3
<1>3. EventInv'
  BY <1>2, EventsTaken DEF IInv
<1>4. StateInv'
  BY <1>2, AlarmChanged DEF IInv
<1>. QED
  BY <1>1, <1>3, <1>4 DEF IInv

\* tk_cre_alm: an alarm handler is created stopped.
LEMMA CreateAlarmStep ==
  ASSUME IInv, NEW a \in Alm, tk_cre_alm(a)
  PROVE  IInv'
<1>1. ClockInv' /\ EventInv'
  BY ClockUntouched DEF IInv, ClockInv, EventInv, queuevars, Ordered, tk_cre_alm
<1>2. StateInv'
  BY DEF IInv, StateInv, CycRecord, AlmRecord, queuevars, tk_cre_alm
<1>. QED
  BY <1>1, <1>2 DEF IInv

\* tk_del_alm: a handler that is deleted has no event linked.
LEMMA DeleteAlarmStep ==
  ASSUME IInv, NEW a \in Alm, tk_del_alm(a)
  PROVE  IInv'
<1>1. calls' \in Nat
  BY DEF tk_del_alm, IInv, ClockInv
<1>2. almcb \in [Alm -> AlmRecord]
  BY DEF IInv, StateInv
<1>3. /\ almcb' \in [Alm -> AlmRecord]
      /\ almcb'[a].almstat = "TALM_STP"
      /\ \A b \in Alm \ {a} : almcb'[b] = almcb[b]
  BY <1>2 DEF tk_del_alm, AlmRecord
<1>. QED
  BY <1>1, <1>3, AlarmStopped DEF tk_del_alm

\* tk_stp_alm: a handler that is stopped has no event linked.
LEMMA StopAlarmStep ==
  ASSUME IInv, NEW a \in Alm, tk_stp_alm(a)
  PROVE  IInv'
<1>1. calls' \in Nat
  BY DEF tk_stp_alm, IInv, ClockInv
<1>2. almcb \in [Alm -> AlmRecord]
  BY DEF IInv, StateInv
<1>3. /\ almcb' \in [Alm -> AlmRecord]
      /\ almcb'[a].almstat = "TALM_STP"
      /\ \A b \in Alm \ {a} : almcb'[b] = almcb[b]
  BY <1>2 DEF tk_stp_alm, AlmRecord
<1>. QED
  BY <1>1, <1>3, AlarmStopped DEF tk_stp_alm

\* tk_sta_alm: the former time is taken out before the new one is linked; with a time
\* of 0 the handler is called and left stopped.
LEMMA StartAlarmStep ==
  ASSUME IInv, NEW a \in Alm, NEW almtim \in Times, tk_sta_alm(a, almtim)
  PROVE  IInv'
<1>. DEFINE q == IF almcb[a].almstat = "TALM_STA" THEN timer_delete(timer_queue, a) ELSE timer_queue
<1>1. /\ UNCHANGED <<hw, current_time, waiting, cyccb, handling, now>>
      /\ almcb[a].almhdr
      /\ almcb' = [almcb EXCEPT ![a].almstat = IF almtim > 0 THEN "TALM_STA" ELSE "TALM_STP"]
  BY DEF tk_sta_alm
<1>2. /\ a \in Event /\ Ordered(timer_queue, tmeb) /\ ClockInv /\ EventInv
      /\ a \in ToSet(timer_queue) <=> almcb[a].almstat = "TALM_STA"
  BY DEF IInv, StateInv, CycRecord, AlmRecord, EventInv, Event
<1>3. CASE almtim > 0
  <2>1. timer_insert_reltim(q, a, almtim) /\ calls' = calls
    BY <1>3 DEF tk_sta_alm
  <2>2. Ordered(q, tmeb) /\ ToSet(q) = ToSet(timer_queue) \ {a}
    BY <1>2, Deleted
  <2>. HIDE DEF q
  <2>3. almtim \in Nat \ {0}
    BY <1>3, TimerAssumption
  <2>4. EventInv' /\ ToSet(timer_queue') = ToSet(q) \cup {a}
    BY <1>1, <1>2, <2>1, <2>2, <2>3, ReltimInserted
  <2>5. StateInv'
    BY <1>1, <1>3, <2>2, <2>4, TimerAssumption DEF IInv, StateInv, CycRecord, AlmRecord
  <2>. QED
    BY <1>1, <1>2, <2>1, <2>4, <2>5, ClockUntouched DEF IInv, ClockInv
<1>4. CASE ~(almtim > 0)
  <2>1. timer_queue' = q /\ UNCHANGED <<tmeb, due>> /\ calls' = calls + 1
    BY <1>4 DEF tk_sta_alm, call_handler
  <2>2. /\ almcb' \in [Alm -> AlmRecord]
        /\ almcb'[a].almstat = "TALM_STP"
        /\ \A b \in Alm \ {a} : almcb'[b] = almcb[b]
    BY <1>1, <1>4 DEF IInv, StateInv, AlmRecord
  <2>3. calls' \in Nat
    BY <2>1 DEF IInv, ClockInv
  <2>. QED
    BY <1>1, <2>1, <2>2, <2>3, AlarmStopped
<1>. QED
  BY <1>3, <1>4

\* The return of a cyclic or an alarm handler.
LEMMA HandlerReturnStep ==
  ASSUME IInv, handler_return
  PROVE  IInv'
<1>1. calls' \in Nat
  BY DEF handler_return, IInv, ClockInv
<1>. QED
  BY <1>1, ClockUntouched, QueueUntouched DEF IInv, handler_return

\* timer_handler updates the software clock by what it clears in the timer device.
LEMMA TimerBeginStep ==
  ASSUME IInv, timer_handler_begin
  PROVE  IInv'
<1>1. ClockInv'
  <2>1. TIMER_PERIOD \in Nat \ {0}
    BY TimerAssumption
  <2>2. /\ hw.TI_RCR \in 0 .. TIMER_PERIOD - 1 /\ hw.ovf = TRUE
        /\ hw' = [TI_RCR |-> hw.TI_RCR, ovf |-> FALSE]
    BY DEF IInv, ClockInv, timer_handler_begin
  <2>3. /\ current_time \in Nat /\ now \in Nat /\ calls \in Nat
        /\ now = current_time + hw.TI_RCR + TIMER_PERIOD
    BY <2>2 DEF IInv, ClockInv
  <2>4. /\ current_time' = current_time + TIMER_PERIOD /\ now' = now
        /\ calls' = calls /\ handling' = TRUE
    BY DEF timer_handler_begin
  <2>5. hw'.TI_RCR = hw.TI_RCR /\ hw'.ovf = FALSE /\ hw' \in [TI_RCR : 0 .. TIMER_PERIOD - 1, ovf : BOOLEAN]
    BY <2>2
  <2>. QED
    BY <2>1, <2>2, <2>3, <2>4, <2>5 DEF ClockInv
<1>2. EventInv'
  BY DEF IInv, EventInv, queuevars, Ordered, timer_handler_begin
<1>3. StateInv'
  BY DEF IInv, StateInv, CycRecord, AlmRecord, queuevars, timer_handler_begin
<1>. QED
  BY <1>1, <1>2, <1>3 DEF IInv

\* The first event is the earliest: if it has not passed, none has.
LEMMA TimerEndStep ==
  ASSUME IInv, timer_handler_end
  PROVE  IInv'
<1>1. ClockInv'
  BY DEF IInv, ClockInv, timer_handler_end
<1>2. ASSUME NEW e \in ToSet(timer_queue) PROVE tmeb[e] > current_time
  <2>1. tmeb \in [Event -> Nat] /\ Ordered(timer_queue, tmeb) /\ current_time \in Nat
    BY DEF IInv, EventInv, ClockInv
  <2>2. e \in Event /\ timer_queue # <<>>
    BY <2>1, EventsOf, EmptySeq DEF Ordered
  <2>3. ~(tmeb[Head(timer_queue)] <= current_time)
    BY <2>2 DEF timer_handler_end, first_passed, passed
  <2>4. tmeb[Head(timer_queue)] <= tmeb[e] /\ Head(timer_queue) \in Event
    BY <2>1, <2>2, FirstRemoved
  <2>. QED
    BY <2>1, <2>2, <2>3, <2>4
<1>3. EventInv'
  BY <1>2 DEF IInv, EventInv, queuevars, Ordered, timer_handler_end
<1>4. StateInv'
  BY DEF IInv, StateInv, CycRecord, AlmRecord, queuevars, timer_handler_end
<1>. QED
  BY <1>1, <1>3, <1>4 DEF IInv

\* timer_handler takes the first event out; that of a cyclic handler is linked again
\* before the handler is called.
LEMMA TimerEventStep ==
  ASSUME IInv, timer_handler_event
  PROVE  IInv'
<1>. DEFINE e == Head(timer_queue)
            q == Tail(timer_queue)
<1>1. /\ UNCHANGED <<hw, current_time, handling, now>>
      /\ timer_queue # <<>> /\ tmeb[e] <= current_time
  BY DEF timer_handler_event, first_passed, passed
<1>2. /\ ClockInv /\ EventInv /\ Ordered(timer_queue, tmeb) /\ tmeb \in [Event -> Nat]
  BY DEF IInv, EventInv
<1>3. /\ e \in ToSet(timer_queue) /\ e \in Event
      /\ Ordered(q, tmeb) /\ ToSet(q) = ToSet(timer_queue) \ {e}
  BY <1>1, <1>2, FirstRemoved
<1>4. CASE e \in Task
  <2>1. waiting' = waiting \ {e} /\ timer_queue' = q /\ UNCHANGED <<tmeb, due, cyccb, almcb, calls>>
    BY <1>4, TimerAssumption DEF timer_handler_event
  <2>. HIDE DEF q, e
  <2>2. EventInv'
    BY <1>1, <1>2, <1>3, <2>1, EventsTaken
  <2>3. StateInv'
    BY <1>3, <1>4, <2>1, TimerAssumption DEF IInv, StateInv, CycRecord, AlmRecord
  <2>. QED
    BY <1>1, <1>2, <2>1, <2>2, <2>3, ClockUntouched DEF IInv, ClockInv
<1>5. CASE e \in Cyc
  <2>. DEFINE next == cyc_next_time(tmeb[e], cyccb[e].cyctim)
  <2>1. /\ cyc_timer_insert(q, e, tmeb[e], due[e], next) /\ calls' = calls + 1
        /\ UNCHANGED <<waiting, cyccb, almcb>>
    BY <1>5, TimerAssumption DEF timer_handler_event, call_cychdr, call_handler
  <2>. HIDE DEF q, e
  <2>2. /\ tmeb[e] \in Nat /\ due[e] \in Nat /\ due[e] <= tmeb[e] /\ tmeb[e] <= due[e] + 1
        /\ current_time \in Nat /\ cyccb[e].cyctim \in Nat \ {0}
    BY <1>2, <1>3, <1>5 DEF EventInv, ClockInv, IInv, StateInv, CycRecord, AlmRecord
  <2>3. next \in Nat /\ next > current_time /\ next > tmeb[e]
    BY <2>2, NextTime
  <2>. HIDE DEF next
  <2>4. next >= tmeb[e] /\ e \notin ToSet(q) /\ ToSet(q) \subseteq ToSet(timer_queue)
    BY <1>3, <2>2, <2>3
  <2>5. EventInv' /\ ToSet(timer_queue') = ToSet(q) \cup {e}
    BY <1>1, <1>2, <1>3, <2>1, <2>2, <2>3, <2>4, CycInserted
  <2>6. ToSet(timer_queue') = ToSet(timer_queue)
    BY <1>3, <2>5
  <2>7. StateInv'
    BY <2>1, <2>6 DEF IInv, StateInv, CycRecord, AlmRecord
  <2>. QED
    BY <1>1, <1>2, <2>1, <2>5, <2>7, ClockUntouched DEF IInv, ClockInv
<1>6. CASE e \in Alm
  <2>1. /\ almcb' = [almcb EXCEPT ![e].almstat = "TALM_STP"]
        /\ timer_queue' = q /\ calls' = calls + 1
        /\ UNCHANGED <<tmeb, due, waiting, cyccb>>
    BY <1>6, TimerAssumption DEF timer_handler_event, call_handler
  <2>. HIDE DEF q, e
  <2>2. EventInv'
    BY <1>1, <1>2, <1>3, <2>1, EventsTaken
  <2>3. StateInv'
    BY <1>3, <1>6, <2>1, TimerAssumption DEF IInv, StateInv, CycRecord, AlmRecord
  <2>. QED
    BY <1>1, <1>2, <2>1, <2>2, <2>3, ClockUntouched DEF IInv, ClockInv
<1>. QED
  BY <1>3, <1>4, <1>5, <1>6 DEF Event

\* The invariant holds when the timer has been started.
LEMMA InitInv == Init => IInv
<1>. SUFFICES ASSUME Init PROVE IInv
  OBVIOUS
<1>1. timer_queue = <<>> /\ Len(timer_queue) = 0 /\ timer_queue \in Seq(Event)
  BY DEF Init
<1>2. ToSet(timer_queue) = {}
  <2>. SUFFICES ASSUME NEW e \in ToSet(timer_queue) PROVE FALSE
    OBVIOUS
  <2>1. PICK i \in 1 .. Len(timer_queue) : timer_queue[i] = e
    BY <1>1, EventsOf
  <2>. QED
    BY <1>1
<1>3. ClockInv
  <2>1. TIMER_PERIOD \in Nat \ {0}
    BY TimerAssumption
  <2>2. hw = [TI_RCR |-> 0, ovf |-> FALSE] /\ 0 \in 0 .. TIMER_PERIOD - 1
    BY <2>1 DEF Init
  <2>3. hw \in [TI_RCR : 0 .. TIMER_PERIOD - 1, ovf : BOOLEAN]
    BY <2>2
  <2>4. hw.TI_RCR = 0 /\ hw.ovf = FALSE
    BY <2>2
  <2>5. (IF hw.ovf THEN TIMER_PERIOD ELSE 0) = 0
    BY <2>4
  <2>6. now = 0 /\ current_time = 0 /\ calls = 0 /\ handling = FALSE
    BY DEF Init
  <2>7. now = current_time + hw.TI_RCR + (IF hw.ovf THEN TIMER_PERIOD ELSE 0)
    BY <2>4, <2>5, <2>6
  <2>8. current_time \in Nat /\ now \in Nat /\ handling \in BOOLEAN /\ calls \in Nat
    BY <2>6
  <2>. QED
    BY <2>3, <2>7, <2>8, Zenon DEF ClockInv
<1>4. EventInv
  BY <1>1, <1>2 DEF Init, EventInv, Ordered
<1>5. StateInv
  BY <1>2 DEF Init, StateInv, CycRecord, AlmRecord
<1>. QED
  BY <1>3, <1>4, <1>5 DEF IInv

\* Every step of tasks, handlers, timer_handler and the timer device preserves it.
LEMMA NextInv == IInv /\ [Next]_vars => IInv'
<1>. SUFFICES ASSUME IInv, [Next]_vars PROVE IInv'
  OBVIOUS
<1>1. CASE UNCHANGED vars
  <2>1. UNCHANGED <<hw, current_time, queuevars, waiting, cyccb, almcb, handling, calls, now>>
    BY <1>1 DEF vars
  <2>2. calls' \in Nat
    BY <2>1 DEF IInv, ClockInv
  <2>. QED
    BY <2>1, <2>2, ClockUntouched, QueueUntouched DEF IInv
<1>2. CASE TaskCalls
  BY <1>2, WaitReleaseStep, MakeWaitStep DEF TaskCalls
<1>3. CASE CyclicCalls
  BY <1>3, CreateCyclicStep, DeleteCyclicStep, StartCyclicStep, StopCyclicStep DEF CyclicCalls
<1>4. CASE AlarmCalls
  BY <1>4, CreateAlarmStep, DeleteAlarmStep, StartAlarmStep, StopAlarmStep DEF AlarmCalls
<1>5. CASE hw_count \/ handler_return
  BY <1>5, HardwareStep, HandlerReturnStep
<1>6. CASE timer_handler_begin \/ timer_handler_event \/ timer_handler_end
  BY <1>6, TimerBeginStep, TimerEventStep, TimerEndStep
<1>. QED
  BY <1>1, <1>2, <1>3, <1>4, <1>5, <1>6 DEF Next

-----------------------------------------------------------------------------
(* The theorems.                                                           *)

\* The clocks, the queue of timer events and the states of tasks and handlers fit
\* together, whatever interrupts and handlers do while timer_handler works.
THEOREM TimerInvariance == Spec => []IInv
BY InitInv, NextInv, PTL DEF Spec

\* Every variable keeps its type; in particular no interval is ever 0.
THEOREM TimerTypeCorrect == Spec => []TypeOK
<1>1. IInv => TypeOK
  BY DEF IInv, ClockInv, EventInv, StateInv, CycRecord, AlmRecord, Ordered, TypeOK
<1>. QED
  BY <1>1, TimerInvariance, PTL

\* timer_delete always finds the event it is called for linked, timer_insert never.
THEOREM TimerQueueConsistent == Spec => []TimerQueueMatchesStates
<1>1. IInv => TimerQueueMatchesStates
  BY OrderedInjective DEF IInv, EventInv, StateInv, CycRecord, AlmRecord, TimerQueueMatchesStates, linked
<1>. QED
  BY <1>1, TimerInvariance, PTL

\* The adjustment of timer_insert is enough: no timeout, cyclic or alarm handler occurs
\* before its time.
THEOREM NothingEarly == Spec => []NeverEarly
<1>1. IInv => NeverEarly
  <2>. SUFFICES ASSUME IInv, NEW e \in Event, tmeb[e] <= current_time PROVE due[e] <= now
    BY DEF NeverEarly, passed
  <2>1. /\ due[e] \in Nat /\ tmeb[e] \in Nat /\ due[e] <= tmeb[e]
        /\ current_time \in Nat /\ now \in Nat
    BY DEF IInv, EventInv, ClockInv
  <2>2. current_time <= now
    BY TimerAssumption DEF IInv, ClockInv
  <2>. QED
    BY <2>1, <2>2
<1>. QED
  BY <1>1, TimerInvariance, PTL

\* timer_handler forgets nothing that is due, and adds nothing that is.
THEOREM NothingLate == Spec => []NeverLate
<1>1. IInv => NeverLate
  <2>. SUFFICES ASSUME IInv, ~handling, NEW e \in Event, e \in ToSet(timer_queue)
                PROVE  current_time <= due[e]
    BY DEF NeverLate, linked
  <2>1. /\ due[e] \in Nat /\ tmeb[e] \in Nat /\ tmeb[e] <= due[e] + 1
        /\ current_time \in Nat /\ tmeb[e] > current_time
    BY DEF IInv, EventInv, ClockInv
  <2>. QED
    BY <2>1
<1>. QED
  BY <1>1, TimerInvariance, PTL

\* call_cychdr sets a time after current_time and at most an interval away.
THEOREM CyclicCalledOnce == Spec => CalledOncePerInterval
<1>1. IInv /\ [Next]_vars =>
        [\A c \in Cyc : timer_handler_event /\ c = Head(timer_queue) =>
           /\ tmeb'[c] > current_time
           /\ tmeb'[c] <= current_time + cyccb[c].cyctim]_vars
  <2>. SUFFICES ASSUME IInv, NEW c \in Cyc, timer_handler_event, c = Head(timer_queue)
                PROVE  tmeb'[c] > current_time /\ tmeb'[c] <= current_time + cyccb[c].cyctim
    OBVIOUS
  <2>. DEFINE next == cyc_next_time(tmeb[c], cyccb[c].cyctim)
  <2>1. tmeb' = [tmeb EXCEPT ![c] = next] /\ tmeb[c] <= current_time
    BY TimerAssumption
       DEF timer_handler_event, first_passed, passed, call_cychdr, cyc_timer_insert
  <2>2. tmeb \in [Event -> Nat] /\ c \in Event /\ cyccb[c].cyctim \in Nat \ {0}
        /\ current_time \in Nat
    BY DEF IInv, EventInv, StateInv, CycRecord, AlmRecord, ClockInv, Event
  <2>3. tmeb[c] \in Nat /\ tmeb'[c] = next
    BY <2>1, <2>2
  <2>. HIDE DEF next
  <2>4. next > current_time /\ next <= current_time + cyccb[c].cyctim
    BY <2>1, <2>2, <2>3, NextTime DEF next
  <2>. QED
    BY <2>3, <2>4
<1>. QED
  BY <1>1, TimerInvariance, PTL DEF Spec, CalledOncePerInterval

\* A step that keeps a cyclic handler with TA_PHS leaves its time alone or moves it on
\* to the next time of its phase.
LEMMA PhaseStep ==
  ASSUME IInv, Next, NEW c \in Cyc, cyccb[c].cychdr, cyccb'[c].cychdr,
         "TA_PHS" \in cyccb[c].cycatr
  PROVE  tmeb'[c] = tmeb[c] \/ tmeb'[c] = cyc_next_time(tmeb[c], cyccb[c].cyctim)
<1>0. tmeb \in [Event -> Nat] /\ c \in Event
  BY DEF IInv, EventInv, Event
<1>1. CASE TaskCalls
  <2>1. CASE \E t \in Task : wait_release(t)
    BY <2>1 DEF wait_release
  <2>2. CASE \E t \in Task : \E tmout \in (Times \ {0}) \cup {TMO_FEVR} : make_wait(t, tmout)
    BY <1>0, <2>2, TimerAssumption DEF make_wait, queuevars, timer_insert_reltim
  <2>. QED
    BY <1>1, <2>1, <2>2 DEF TaskCalls
<1>2. CASE CyclicCalls
  <2>1. ASSUME NEW d \in Cyc, NEW cycatr \in Attributes, NEW cyctim \in Times, NEW cycphs \in Times,
               tk_cre_cyc(d, cycatr, cyctim, cycphs)
        PROVE  tmeb'[c] = tmeb[c]
    BY <1>0, <2>1 DEF tk_cre_cyc, timer_insert_reltim, call_cychdr, cyc_timer_insert
  <2>2. ASSUME NEW d \in Cyc, tk_del_cyc(d) \/ tk_stp_cyc(d) PROVE tmeb'[c] = tmeb[c]
    BY <2>2 DEF tk_del_cyc, tk_stp_cyc
  <2>3. ASSUME NEW d \in Cyc, d # c, tk_sta_cyc(d) PROVE tmeb'[c] = tmeb[c]
    BY <1>0, <2>3 DEF tk_sta_cyc, queuevars, timer_insert_reltim, cyc_timer_insert
  <2>4. ASSUME tk_sta_cyc(c)
        PROVE  tmeb'[c] = tmeb[c] \/ tmeb'[c] = cyc_next_time(tmeb[c], cyccb[c].cyctim)
    BY <1>0, <2>4 DEF tk_sta_cyc, queuevars, cyc_timer_insert
  <2>. QED
    BY <1>2, <2>1, <2>2, <2>3, <2>4 DEF CyclicCalls
<1>3. CASE AlarmCalls
  <2>1. ASSUME NEW a \in Alm, NEW almtim \in Times, tk_sta_alm(a, almtim) PROVE tmeb'[c] = tmeb[c]
    <3>1. a # c
      BY TimerAssumption
    <3>. QED
      BY <1>0, <2>1, <3>1 DEF tk_sta_alm, timer_insert_reltim
  <2>2. ASSUME NEW a \in Alm, tk_cre_alm(a) \/ tk_del_alm(a) \/ tk_stp_alm(a)
        PROVE  tmeb'[c] = tmeb[c]
    BY <2>2 DEF tk_cre_alm, tk_del_alm, tk_stp_alm, queuevars
  <2>. QED
    BY <1>3, <2>1, <2>2 DEF AlarmCalls
<1>4. CASE timer_handler_event
  <2>1. CASE Head(timer_queue) = c
    BY <1>0, <1>4, <2>1, TimerAssumption DEF timer_handler_event, call_cychdr, cyc_timer_insert
  <2>2. CASE Head(timer_queue) # c
    BY <1>0, <1>4, <2>2 DEF timer_handler_event, call_cychdr, cyc_timer_insert
  <2>. QED
    BY <2>1, <2>2
<1>5. CASE hw_count \/ handler_return \/ timer_handler_begin \/ timer_handler_end
  BY <1>5 DEF hw_count, handler_return, timer_handler_begin, timer_handler_end, queuevars
<1>. QED
  BY <1>1, <1>2, <1>3, <1>4, <1>5 DEF Next

\* The phase of a cyclic handler survives stopping, starting and being called late.
THEOREM CyclicPhaseKept == Spec => PhaseKept
<1>1. IInv /\ [Next]_vars =>
        [\A c \in Cyc :
           cyccb[c].cychdr /\ cyccb'[c].cychdr /\ "TA_PHS" \in cyccb[c].cycatr =>
             /\ tmeb'[c] >= tmeb[c]
             /\ (tmeb'[c] - tmeb[c]) % cyccb[c].cyctim = 0]_vars
  <2>. SUFFICES ASSUME IInv, Next, NEW c \in Cyc, cyccb[c].cychdr, cyccb'[c].cychdr,
                       "TA_PHS" \in cyccb[c].cycatr
                PROVE  tmeb'[c] >= tmeb[c] /\ (tmeb'[c] - tmeb[c]) % cyccb[c].cyctim = 0
    OBVIOUS
  <2>1. tmeb[c] \in Nat /\ current_time \in Nat /\ cyccb[c].cyctim \in Nat \ {0}
    BY DEF IInv, EventInv, StateInv, CycRecord, AlmRecord, ClockInv, Event
  <2>2. PICK n \in Nat : tmeb'[c] = tmeb[c] + n * cyccb[c].cyctim
    <3>1. CASE tmeb'[c] = tmeb[c]
      <4>1. tmeb'[c] = tmeb[c] + 0 * cyccb[c].cyctim
        BY <2>1, <3>1
      <4>. QED
        BY <4>1
    <3>2. CASE tmeb'[c] = cyc_next_time(tmeb[c], cyccb[c].cyctim)
      <4>1. \E n \in Nat : cyc_next_time(tmeb[c], cyccb[c].cyctim) = tmeb[c] + n * cyccb[c].cyctim
        BY <2>1, NextTime
      <4>. QED
        BY <3>2, <4>1
    <3>. QED
      BY <3>1, <3>2, PhaseStep
  <2>3. n * cyccb[c].cyctim \in Nat /\ (n * cyccb[c].cyctim) % cyccb[c].cyctim = 0
    <3>. DEFINE cyctim == cyccb[c].cyctim
    <3>1. n \in Nat /\ cyctim \in Nat \ {0}
      BY <2>1
    <3>. HIDE DEF cyctim
    <3>2. n * cyctim \in Nat /\ (n * cyctim) % cyctim = 0
      BY ONLY <3>1, Multiple
    <3>. QED
      BY <3>2 DEF cyctim
  <2>4. tmeb'[c] - tmeb[c] = n * cyccb[c].cyctim /\ tmeb'[c] >= tmeb[c]
    BY <2>1, <2>2, <2>3
  <2>. QED
    BY <2>3, <2>4
<1>. QED
  BY <1>1, TimerInvariance, PTL DEF Spec, PhaseKept

=============================================================================
