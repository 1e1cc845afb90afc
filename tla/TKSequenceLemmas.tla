-------------------------- MODULE TKSequenceLemmas --------------------------
(***************************************************************************)
(* Queues as sequences: what appending to a queue, taking an element out   *)
(* of it or its head does to the elements of a queue without duplicates.   *)
(***************************************************************************)
EXTENDS Integers, SequencesExt, SequenceTheorems, TLAPS

\* The queues of elements of S in which nothing is linked twice.
Unrepeated(S) == {q \in Seq(S) : IsInjective(q)}

\* queue without its element x (QueRemove).
WithoutElement(queue, x) ==
  IF x \in ToSet(queue) THEN RemoveAt(queue, CHOOSE i \in DOMAIN queue : queue[i] = x) ELSE queue

\* The empty queue is one.
LEMMA EmptySequence ==
  ASSUME NEW S
  PROVE
  /\ <<>> \in Unrepeated(S)
  /\ ToSet(<<>>) = {}
BY DEF Unrepeated, ToSet, IsInjective

\* ToSet lists the elements; only the empty queue has none.
LEMMA Elements ==
  ASSUME NEW S, NEW q \in Seq(S)
  PROVE  /\ Len(q) \in Nat
         /\ DOMAIN q = 1 .. Len(q)
         /\ ToSet(q) = {q[i] : i \in 1 .. Len(q)}
         /\ ToSet(q) \subseteq S
         /\ q = <<>> <=> ToSet(q) = {}
<1>1. Len(q) \in Nat /\ DOMAIN q = 1 .. Len(q)
  BY LenProperties
<1>2. ToSet(q) = {q[i] : i \in 1 .. Len(q)}
  BY <1>1 DEF ToSet
<1>3. \A i \in 1 .. Len(q) : q[i] \in S
  BY ElementOfSeq
<1>4. ASSUME q # <<>> PROVE q[1] \in ToSet(q)
  BY <1>1, <1>2, <1>4, EmptySeq
<1>5. q = <<>> => ToSet(q) = {}
  BY <1>1, <1>2, EmptySeq
<1>. QED
  BY <1>1, <1>2, <1>3, <1>4, <1>5

\* Appending a task that is not linked (QueInsert at the end).
LEMMA Appended ==
  ASSUME NEW S, NEW q \in Unrepeated(S), NEW t \in S, t \notin ToSet(q)
  PROVE  /\ Append(q, t) \in Unrepeated(S)
         /\ ToSet(Append(q, t)) = ToSet(q) \cup {t}
<1>. DEFINE n == Len(q)
            r == Append(q, t)
<1>1. q \in Seq(S) /\ IsInjective(q)
  BY DEF Unrepeated
<1>2. n \in Nat /\ DOMAIN q = 1 .. n /\ ToSet(q) = {q[i] : i \in 1 .. n}
  BY <1>1, Elements
<1>3. r \in Seq(S) /\ Len(r) = n + 1
  BY <1>1, AppendProperties, Zenon
<1>5. /\ \A i \in 1 .. n : r[i] = q[i]
      /\ r[n + 1] = t
  BY <1>1, <1>2
<1>. HIDE DEF n, r
<1>4. DOMAIN r = 1 .. n + 1 /\ ToSet(r) = {r[i] : i \in 1 .. n + 1}
  BY <1>3, Elements
<1>6. ToSet(r) = ToSet(q) \cup {t}
  BY <1>2, <1>4, <1>5
<1>7. IsInjective(r)
  BY <1>1, <1>2, <1>4, <1>5 DEF IsInjective
<1>. QED
  BY <1>3, <1>6, <1>7 DEF Unrepeated, n, r

\* The first of the queue after an append.
LEMMA AppendedHead ==
  ASSUME NEW S, NEW q \in Seq(S), NEW t \in S
  PROVE  Head(Append(q, t)) = IF q = <<>> THEN t ELSE Head(q)
<1>. DEFINE r == Append(q, t)
<1>1. Len(q) \in Nat /\ Len(r) = Len(q) + 1 /\ r \in Seq(S) /\ r # <<>>
  BY LenProperties, AppendProperties
<1>2. Head(r) = r[1]
  BY <1>1, HeadTailProperties
<1>3. r[1] = IF 1 <= Len(q) THEN q[1] ELSE t
  BY <1>1, AppendProperties
<1>4. CASE q = <<>>
  BY <1>1, <1>2, <1>3, <1>4
<1>5. CASE q # <<>>
  BY <1>1, <1>2, <1>3, <1>5, EmptySeq, HeadTailProperties
<1>. QED
  BY <1>4, <1>5

\* The element at position i is taken out, the others move up.
LEMMA RemovedAt ==
  ASSUME NEW S, NEW q \in Seq(S), NEW i \in 1 .. Len(q)
  PROVE  /\ RemoveAt(q, i) \in Seq(S)
         /\ Len(RemoveAt(q, i)) = Len(q) - 1
         /\ \A j \in 1 .. Len(q) - 1 :
              RemoveAt(q, i)[j] = IF j < i THEN q[j] ELSE q[j + 1]
<1>. DEFINE a == SubSeq(q, 1, i - 1)
            b == SubSeq(q, i + 1, Len(q))
<1>1. Len(q) \in Nat /\ \A j \in 1 .. Len(q) : q[j] \in S
  BY LenProperties, ElementOfSeq
<1>2. /\ a \in Seq(S)
      /\ Len(a) = i - 1
      /\ \A j \in 1 .. i - 1 : a[j] = q[j]
  <2>1. \A j \in 1 .. i - 1 : q[j] \in S
    BY <1>1
  <2>. QED
    BY <1>1, <2>1, SubSeqProperties, Z3
<1>3. /\ b \in Seq(S)
      /\ Len(b) = Len(q) - i
      /\ \A j \in 1 .. Len(q) - i : b[j] = q[i + j]
  <2>1. \A j \in i + 1 .. Len(q) : q[j] \in S
    BY <1>1
  <2>. QED
    BY <1>1, <2>1, SubSeqProperties, Z3
<1>4. RemoveAt(q, i) = a \o b
  BY DEF RemoveAt
<1>. HIDE DEF a, b
<1>5. /\ a \o b \in Seq(S)
      /\ Len(a \o b) = Len(a) + Len(b)
      /\ \A j \in 1 .. Len(a) + Len(b) :
           (a \o b)[j] = IF j <= Len(a) THEN a[j] ELSE b[j - Len(a)]
  BY <1>2, <1>3, ConcatProperties
<1>6. ASSUME NEW j \in 1 .. Len(q) - 1
      PROVE  (a \o b)[j] = IF j < i THEN q[j] ELSE q[j + 1]
  <2>1. CASE j < i
    BY <1>1, <1>2, <1>3, <1>5, <2>1
  <2>2. CASE ~(j < i)
    <3>1. (a \o b)[j] = b[j - (i - 1)]
      BY <1>1, <1>2, <1>3, <1>5, <2>2
    <3>2. b[j - (i - 1)] = q[i + (j - (i - 1))]
      <4>1. j - (i - 1) \in 1 .. Len(q) - i
        BY <1>1, <2>2
      <4>. QED
        BY <1>3, <4>1
    <3>3. i + (j - (i - 1)) = j + 1
      BY <1>1
    <3>. QED
      BY <2>2, <3>1, <3>2, <3>3
  <2>. QED
    BY <2>1, <2>2
<1>7. Len(a) + Len(b) = Len(q) - 1
  BY <1>1, <1>2, <1>3
<1>. QED
  BY <1>4, <1>5, <1>6, <1>7

\* QueRemove takes a task out of a queue, if it is linked there.
LEMMA Removed ==
  ASSUME NEW S, NEW q \in Unrepeated(S), NEW t \in S
  PROVE  /\ WithoutElement(q, t) \in Unrepeated(S)
         /\ ToSet(WithoutElement(q, t)) = ToSet(q) \ {t}
         /\ t \notin ToSet(q) => WithoutElement(q, t) = q
<1>1. q \in Seq(S) /\ IsInjective(q)
  BY DEF Unrepeated
<1>2. /\ Len(q) \in Nat /\ DOMAIN q = 1 .. Len(q)
      /\ ToSet(q) = {q[i] : i \in 1 .. Len(q)}
  BY <1>1, Elements
<1>3. CASE t \notin ToSet(q)
  BY <1>3 DEF WithoutElement
<1>4. CASE t \in ToSet(q)
  <2>. DEFINE i == CHOOSE i \in DOMAIN q : q[i] = t
              r == RemoveAt(q, i)
  <2>1. i \in 1 .. Len(q) /\ q[i] = t
    BY <1>2, <1>4
  <2>2. WithoutElement(q, t) = r
    BY <1>4 DEF WithoutElement
  <2>. HIDE DEF i
  <2>3. /\ r \in Seq(S)
        /\ Len(r) = Len(q) - 1
        /\ \A j \in 1 .. Len(q) - 1 : r[j] = IF j < i THEN q[j] ELSE q[j + 1]
    BY <1>1, <2>1, RemovedAt
  <2>. HIDE DEF r
  <2>4. DOMAIN r = 1 .. Len(q) - 1 /\ ToSet(r) = {r[j] : j \in 1 .. Len(q) - 1}
    BY <2>3, Elements
  <2>5. \A j, l \in 1 .. Len(q) : q[j] = q[l] => j = l
    BY <1>1, <1>2 DEF IsInjective
  <2>6. IsInjective(r)
    <3>. SUFFICES ASSUME NEW j \in 1 .. Len(q) - 1, NEW l \in 1 .. Len(q) - 1,
                         r[j] = r[l]
                  PROVE  j = l
      BY <2>4 DEF IsInjective
    <3>. DEFINE from(x) == IF x < i THEN x ELSE x + 1
    <3>1. r[j] = q[from(j)] /\ r[l] = q[from(l)]
      BY <2>3
    <3>2. from(j) \in 1 .. Len(q) /\ from(l) \in 1 .. Len(q)
      BY <1>2, <2>1
    <3>3. from(j) = from(l)
      BY <2>5, <3>1, <3>2
    <3>. QED
      BY <1>2, <2>1, <3>3
  <2>7. ASSUME NEW u \in ToSet(r) PROVE u \in ToSet(q) /\ u # t
    <3>1. PICK j \in 1 .. Len(q) - 1 : u = r[j]
      BY <2>4
    <3>2. r[j] = IF j < i THEN q[j] ELSE q[j + 1]
      BY <2>3
    <3>. QED
      BY <1>2, <2>1, <2>5, <3>1, <3>2
  <2>8. ASSUME NEW u \in ToSet(q), u # t PROVE u \in ToSet(r)
    <3>1. PICK j \in 1 .. Len(q) : u = q[j]
      BY <1>2
    <3>2. CASE j < i
      BY <1>2, <2>1, <2>3, <2>4, <3>1, <3>2
    <3>3. CASE j > i
      <4>1. j - 1 \in 1 .. Len(q) - 1 /\ ~(j - 1 < i) /\ (j - 1) + 1 = j
        BY <1>2, <2>1, <3>3
      <4>. QED
        BY <2>3, <2>4, <3>1, <4>1
    <3>. QED
      BY <1>2, <2>1, <2>8, <3>1, <3>2, <3>3
  <2>. QED
    BY <1>4, <2>2, <2>3, <2>6, <2>7, <2>8 DEF Unrepeated
<1>. QED
  BY <1>3, <1>4

\* The removal of a task that is not the first leaves the first in place.
LEMMA RemovedHead ==
  ASSUME NEW S, NEW q \in Unrepeated(S), NEW t \in S, q # <<>>, Head(q) # t
  PROVE  /\ WithoutElement(q, t) # <<>>
         /\ Head(WithoutElement(q, t)) = Head(q)
<1>1. q \in Seq(S) /\ Len(q) \in Nat \ {0} /\ DOMAIN q = 1 .. Len(q)
  BY Elements, EmptySeq DEF Unrepeated
<1>2. Head(q) = q[1]
  BY <1>1, HeadTailProperties
<1>3. CASE t \notin ToSet(q)
  BY <1>3 DEF WithoutElement
<1>4. CASE t \in ToSet(q)
  <2>. DEFINE i == CHOOSE i \in DOMAIN q : q[i] = t
              r == RemoveAt(q, i)
  <2>1. i \in 1 .. Len(q) /\ q[i] = t
    BY <1>1, <1>4, Elements
  <2>2. WithoutElement(q, t) = r
    BY <1>4 DEF WithoutElement
  <2>. HIDE DEF i
  <2>3. i > 1
    BY <1>1, <1>2, <2>1
  <2>4. /\ r \in Seq(S) /\ Len(r) = Len(q) - 1
        /\ \A j \in 1 .. Len(q) - 1 : r[j] = IF j < i THEN q[j] ELSE q[j + 1]
    BY <1>1, <2>1, RemovedAt
  <2>. HIDE DEF r
  <2>5. Len(r) > 0 /\ r[1] = q[1]
    BY <1>1, <2>1, <2>3, <2>4
  <2>6. r # <<>> /\ Head(r) = r[1]
    BY <2>4, <2>5, EmptySeq, HeadTailProperties
  <2>. QED
    BY <1>2, <2>2, <2>5, <2>6
<1>. QED
  BY <1>3, <1>4

\* The rest of a queue holds all but its head.
LEMMA TailElements ==
  ASSUME NEW S, NEW q \in Unrepeated(S), q # <<>>
  PROVE  /\ Head(q) \in ToSet(q)
         /\ Tail(q) \in Unrepeated(S)
         /\ ToSet(Tail(q)) = ToSet(q) \ {Head(q)}
<1>. DEFINE n == Len(q)
            l == Tail(q)
<1>1. q \in Seq(S) /\ IsInjective(q)
  BY DEF Unrepeated
<1>2. /\ n \in Nat /\ n # 0 /\ DOMAIN q = 1 .. n /\ Head(q) = q[1]
      /\ ToSet(q) = {q[i] : i \in 1 .. n}
  BY <1>1, Elements, EmptySeq
<1>3. /\ l \in Seq(S) /\ Len(l) = n - 1
      /\ \A i \in 1 .. n - 1 : l[i] = q[i + 1]
  BY <1>1, HeadTailProperties
<1>. HIDE DEF l, n
<1>4. DOMAIN l = 1 .. n - 1 /\ ToSet(l) = {l[i] : i \in 1 .. n - 1}
  BY <1>3, Elements
<1>5. \A i, j \in 1 .. n : q[i] = q[j] => i = j
  BY <1>1, <1>2 DEF IsInjective
<1>6. IsInjective(l)
  BY <1>2, <1>3, <1>4, <1>5 DEF IsInjective
<1>7. ToSet(l) = ToSet(q) \ {Head(q)}
  <2>1. ASSUME NEW x \in ToSet(l)
        PROVE  x \in ToSet(q) \ {Head(q)}
    BY <1>2, <1>3, <1>4, <1>5
  <2>2. ASSUME NEW x \in ToSet(q) \ {Head(q)}
        PROVE  x \in ToSet(l)
    <3>1. PICK i \in 1 .. n : x = q[i]
      BY <1>2
    <3>2. i - 1 \in 1 .. n - 1 /\ l[i - 1] = x
      BY <1>2, <1>3, <3>1
    <3>. QED
      BY <1>4, <3>2
  <2>. QED
    BY <2>1, <2>2
<1>. QED
  BY <1>2, <1>3, <1>6, <1>7 DEF Unrepeated, l



\* Taking out the head leaves the rest.
LEMMA HeadRemoved ==
  ASSUME NEW S, NEW q \in Unrepeated(S), q # <<>>
  PROVE  WithoutElement(q, Head(q)) = Tail(q)
<1>. DEFINE r == RemoveAt(q, 1)
            l == Tail(q)
<1>1. /\ q \in Seq(S) /\ Len(q) \in Nat \ {0} /\ DOMAIN q = 1 .. Len(q)
      /\ \A i, j \in 1 .. Len(q) : q[i] = q[j] => i = j
      /\ ToSet(q) = {q[i] : i \in 1 .. Len(q)}
  BY Elements, EmptySeq DEF Unrepeated, IsInjective
<1>2. Head(q) = q[1] /\ 1 \in 1 .. Len(q)
  BY <1>1, HeadTailProperties
<1>3. (CHOOSE i \in DOMAIN q : q[i] = Head(q)) = 1
  BY <1>1, <1>2
<1>4. WithoutElement(q, Head(q)) = r
  BY <1>1, <1>2, <1>3 DEF WithoutElement
<1>5. /\ r \in Seq(S) /\ Len(r) = Len(q) - 1
      /\ \A j \in 1 .. Len(q) - 1 : r[j] = IF j < 1 THEN q[j] ELSE q[j + 1]
  BY <1>1, <1>2, RemovedAt
<1>6. /\ l \in Seq(S) /\ Len(l) = Len(q) - 1
      /\ \A j \in 1 .. Len(q) - 1 : l[j] = q[j + 1]
  BY <1>1, HeadTailProperties
<1>. HIDE DEF r, l
<1>7. \A j \in 1 .. Len(r) : r[j] = l[j]
  BY <1>1, <1>5, <1>6
<1>8. r = l
  BY <1>5, <1>6, <1>7, SeqEqual
<1>. QED
  BY <1>4, <1>8 DEF l

\* What is left of a queue after its first n elements.
From(q, n) == SubSeq(q, n + 1, Len(q))

\* Its elements.
LEMMA FromElements ==
  ASSUME NEW S, NEW q \in Seq(S), NEW n \in 0 .. Len(q)
  PROVE  /\ From(q, n) \in Seq(S) /\ Len(From(q, n)) = Len(q) - n
         /\ \A i \in 1 .. Len(q) - n : From(q, n)[i] = q[n + i]
<1>1. Len(q) \in Nat /\ \A j \in 1 .. Len(q) : q[j] \in S
  BY LenProperties, ElementOfSeq
<1>2. \A j \in n + 1 .. Len(q) : q[j] \in S
  BY <1>1
<1>. QED
  BY <1>1, <1>2, SubSeqProperties, Z3 DEF From

\* At first the queue, in the end nothing, and one element less with each step.
LEMMA FromSteps ==
  ASSUME NEW S, NEW q \in Seq(S)
  PROVE  /\ From(q, 0) = q
         /\ From(q, Len(q)) = <<>>
         /\ \A n \in 0 .. Len(q) - 1 : /\ From(q, n) # <<>>
                                       /\ Head(From(q, n)) = q[n + 1]
                                       /\ Tail(From(q, n)) = From(q, n + 1)
<1>1. Len(q) \in Nat
  BY LenProperties
<1>2. From(q, 0) = q
  <2>1. /\ From(q, 0) \in Seq(S) /\ Len(From(q, 0)) = Len(q)
        /\ \A i \in 1 .. Len(q) : From(q, 0)[i] = q[i]
    BY <1>1, FromElements
  <2>. QED
    BY <2>1, SeqEqual
<1>3. From(q, Len(q)) = <<>>
  BY <1>1, FromElements, EmptySeq
<1>4. ASSUME NEW n \in 0 .. Len(q) - 1
      PROVE  /\ From(q, n) # <<>> /\ Head(From(q, n)) = q[n + 1]
             /\ Tail(From(q, n)) = From(q, n + 1)
  <2>. DEFINE r == From(q, n)
              l == Tail(r)
              e == From(q, n + 1)
  <2>1. n \in 0 .. Len(q) /\ n + 1 \in 0 .. Len(q)
    BY <1>1
  <2>2. /\ r \in Seq(S) /\ Len(r) = Len(q) - n
        /\ \A i \in 1 .. Len(q) - n : r[i] = q[n + i]
    BY <2>1, FromElements
  <2>3. /\ e \in Seq(S) /\ Len(e) = Len(q) - (n + 1)
        /\ \A i \in 1 .. Len(q) - (n + 1) : e[i] = q[n + 1 + i]
    BY <2>1, FromElements
  <2>. HIDE DEF r, e
  <2>4. r # <<>> /\ Head(r) = r[1] /\ r[1] = q[n + 1]
    BY <1>1, <2>1, <2>2, EmptySeq
  <2>5. /\ l \in Seq(S) /\ Len(l) = Len(r) - 1
        /\ \A i \in 1 .. Len(l) : l[i] = r[i + 1]
    BY <2>2, <2>4, HeadTailProperties
  <2>. HIDE DEF l
  <2>6. ASSUME NEW i \in 1 .. Len(l) PROVE l[i] = e[i]
    <3>1. i + 1 \in 1 .. Len(q) - n /\ i \in 1 .. Len(q) - (n + 1)
      BY <1>1, <2>2, <2>5
    <3>2. l[i] = q[n + (i + 1)] /\ e[i] = q[n + 1 + i]
      BY <2>2, <2>3, <2>5, <3>1
    <3>. QED
      BY <1>1, <3>1, <3>2
  <2>7. Len(l) = Len(e)
    BY <1>1, <2>2, <2>3, <2>5
  <2>8. l = e
    BY <2>3, <2>5, <2>6, <2>7, SeqEqual
  <2>. QED
    BY <2>4, <2>8 DEF r, l, e
<1>. QED
  BY <1>2, <1>3, <1>4

\* What is taken out of a queue leaves the others in their order.
LEMMA RemovedOrder ==
  ASSUME NEW S, NEW q \in Unrepeated(S), NEW t \in S, NEW r, r = WithoutElement(q, t),
         NEW i \in 1 .. Len(r), NEW j \in 1 .. Len(r), i < j
  PROVE  \E a, b \in 1 .. Len(q) : a < b /\ r[i] = q[a] /\ r[j] = q[b]
<1>1. q \in Seq(S) /\ Len(q) \in Nat /\ DOMAIN q = 1 .. Len(q)
  BY Elements DEF Unrepeated
<1>2. CASE t \notin ToSet(q)
  BY <1>1, <1>2 DEF WithoutElement
<1>3. CASE t \in ToSet(q)
  <2>. DEFINE m == CHOOSE i1 \in DOMAIN q : q[i1] = t
              from(x) == IF x < m THEN x ELSE x + 1
  <2>1. m \in 1 .. Len(q)
    BY <1>1, <1>3, Elements
  <2>2. r = RemoveAt(q, m)
    BY <1>3 DEF WithoutElement
  <2>. HIDE DEF m
  <2>3. /\ Len(r) = Len(q) - 1
        /\ \A x \in 1 .. Len(q) - 1 : r[x] = IF x < m THEN q[x] ELSE q[x + 1]
    <3>1. /\ Len(RemoveAt(q, m)) = Len(q) - 1
          /\ \A x \in 1 .. Len(q) - 1 :
               RemoveAt(q, m)[x] = IF x < m THEN q[x] ELSE q[x + 1]
      BY <1>1, <2>1, RemovedAt
    <3>. QED
      BY <2>2, <3>1
  <2>4. /\ from(i) \in 1 .. Len(q) /\ from(j) \in 1 .. Len(q) /\ from(i) < from(j)
    BY <1>1, <2>1, <2>3
  <2>5. r[i] = q[from(i)] /\ r[j] = q[from(j)]
    BY <2>3
  <2>. QED
    BY <2>4, <2>5
<1>. QED
  BY <1>2, <1>3

\* In r the element e is linked at position i, and those from there on have moved.
With(q, r, i, e) ==
  /\ Len(r) = Len(q) + 1
  /\ \A j \in 1 .. Len(q) + 1 :
       r[j] = IF j < i THEN q[j] ELSE IF j = i THEN e ELSE q[j - 1]

\* What InsertAt does.
LEMMA InsertedAt ==
  ASSUME NEW S, NEW q \in Seq(S), NEW i \in 1 .. Len(q) + 1, NEW e \in S,
         NEW r, r = InsertAt(q, i, e)
  PROVE  r \in Seq(S) /\ With(q, r, i, e)
<1>. DEFINE a == SubSeq(q, 1, i - 1)
            b == SubSeq(q, i, Len(q))
            c == <<e>>
            d == a \o c
<1>1. Len(q) \in Nat /\ \A j \in 1 .. Len(q) : q[j] \in S
  BY LenProperties, ElementOfSeq
<1>2. /\ a \in Seq(S) /\ Len(a) = i - 1
      /\ \A j \in 1 .. i - 1 : a[j] = q[j]
  <2>1. \A j \in 1 .. i - 1 : q[j] \in S
    BY <1>1
  <2>. QED
    BY <1>1, <2>1, SubSeqProperties, Z3
<1>3. /\ b \in Seq(S) /\ Len(b) = Len(q) + 1 - i
      /\ \A j \in 1 .. Len(q) + 1 - i : b[j] = q[i + j - 1]
  <2>1. \A j \in i .. Len(q) : q[j] \in S
    BY <1>1
  <2>. QED
    BY <1>1, <2>1, SubSeqProperties, Z3
<1>4. c \in Seq(S) /\ Len(c) = 1 /\ c[1] = e
  OBVIOUS
<1>5. r = d \o b
  BY DEF InsertAt
<1>. HIDE DEF a, b, c
<1>6. /\ d \in Seq(S) /\ Len(d) = i
      /\ \A j \in 1 .. i : d[j] = IF j <= i - 1 THEN a[j] ELSE c[j - (i - 1)]
  <2>1. /\ d \in Seq(S) /\ Len(d) = Len(a) + Len(c)
        /\ \A j \in 1 .. Len(a) + Len(c) :
             d[j] = IF j <= Len(a) THEN a[j] ELSE c[j - Len(a)]
    BY <1>2, <1>4, ConcatProperties
  <2>2. Len(a) + Len(c) = i
    BY <1>2, <1>4
  <2>. QED
    BY <1>2, <2>1, <2>2
<1>. HIDE DEF d
<1>7. /\ r \in Seq(S) /\ Len(r) = Len(d) + Len(b)
      /\ \A j \in 1 .. Len(d) + Len(b) :
           r[j] = IF j <= Len(d) THEN d[j] ELSE b[j - Len(d)]
  BY <1>3, <1>5, <1>6, ConcatProperties
<1>8. Len(d) + Len(b) = Len(q) + 1
  BY <1>1, <1>3, <1>6
<1>9. ASSUME NEW j \in 1 .. Len(q) + 1
      PROVE  r[j] = IF j < i THEN q[j] ELSE IF j = i THEN e ELSE q[j - 1]
  <2>1. r[j] = IF j <= i THEN d[j] ELSE b[j - i]
    BY <1>6, <1>7, <1>8
  <2>2. CASE j < i
    <3>1. j \in 1 .. i /\ j \in 1 .. i - 1 /\ j <= i - 1
      BY <1>1, <2>2
    <3>. QED
      BY <1>2, <1>6, <2>1, <2>2, <3>1
  <2>3. CASE j = i
    <3>1. j \in 1 .. i /\ ~(j <= i - 1) /\ j - (i - 1) = 1 /\ j <= i
      BY <1>1, <2>3
    <3>. QED
      BY <1>4, <1>6, <2>1, <2>3, <3>1
  <2>4. CASE j > i
    <3>1. j - i \in 1 .. Len(q) + 1 - i /\ i + (j - i) - 1 = j - 1 /\ ~(j <= i) /\ ~(j < i) /\ j # i
      BY <1>1, <2>4
    <3>. QED
      BY <1>3, <2>1, <3>1
  <2>. QED
    BY <1>1, <2>2, <2>3, <2>4
<1>. QED
  BY <1>7, <1>8, <1>9 DEF With

\* Nothing is linked twice, if the element was not linked.
LEMMA Inserted ==
  ASSUME NEW S, NEW q \in Unrepeated(S), NEW i \in 1 .. Len(q) + 1, NEW e \in S,
         e \notin ToSet(q), NEW r, r = InsertAt(q, i, e)
  PROVE  /\ r \in Unrepeated(S) /\ ToSet(r) = ToSet(q) \cup {e}
<1>1. /\ q \in Seq(S) /\ Len(q) \in Nat /\ DOMAIN q = 1 .. Len(q)
      /\ ToSet(q) = {q[j] : j \in 1 .. Len(q)}
      /\ \A j, l \in 1 .. Len(q) : q[j] = q[l] => j = l
  BY Elements DEF Unrepeated, IsInjective
<1>2. /\ r \in Seq(S) /\ Len(r) = Len(q) + 1
      /\ \A j \in 1 .. Len(q) + 1 :
           r[j] = IF j < i THEN q[j] ELSE IF j = i THEN e ELSE q[j - 1]
  <2>1. r \in Seq(S) /\ With(q, r, i, e)
    BY <1>1, InsertedAt, Zenon
  <2>. QED
    BY <2>1 DEF With
<1>3. DOMAIN r = 1 .. Len(q) + 1 /\ ToSet(r) = {r[j] : j \in 1 .. Len(q) + 1}
  BY <1>2, Elements
<1>4. ToSet(r) = ToSet(q) \cup {e}
  <2>1. ASSUME NEW x \in ToSet(r) PROVE x \in ToSet(q) \cup {e}
    <3>1. PICK j \in 1 .. Len(q) + 1 : x = r[j]
      BY <1>3
    <3>2. j < i => j \in 1 .. Len(q)
      BY <1>1
    <3>3. j > i => j - 1 \in 1 .. Len(q)
      BY <1>1
    <3>. QED
      BY <1>1, <1>2, <3>1, <3>2, <3>3
  <2>2. ASSUME NEW x \in ToSet(q) PROVE x \in ToSet(r)
    <3>1. PICK j \in 1 .. Len(q) : x = q[j]
      BY <1>1
    <3>2. CASE j < i
      BY <1>1, <1>2, <1>3, <3>1, <3>2
    <3>3. CASE ~(j < i)
      <4>1. j + 1 \in 1 .. Len(q) + 1 /\ ~(j + 1 < i) /\ j + 1 # i /\ (j + 1) - 1 = j
        BY <1>1, <3>3
      <4>2. r[j + 1] = q[j]
        BY <1>2, <4>1
      <4>. QED
        BY <1>3, <3>1, <4>1, <4>2
    <3>. QED
      BY <3>2, <3>3
  <2>3. e \in ToSet(r)
    <3>1. i \in 1 .. Len(q) + 1 /\ r[i] = e
      BY <1>1, <1>2
    <3>. QED
      BY <1>3, <3>1
  <2>. QED
    BY <2>1, <2>2, <2>3
<1>5. ASSUME NEW j \in 1 .. Len(q) + 1, NEW l \in 1 .. Len(q) + 1, r[j] = r[l]
      PROVE  j = l
  <2>. DEFINE to(x) == IF x < i THEN x ELSE x - 1
  <2>1. \A x \in 1 .. Len(q) + 1 : x # i => to(x) \in 1 .. Len(q) /\ r[x] = q[to(x)]
    BY <1>1, <1>2
  <2>2. \A x \in 1 .. Len(q) + 1 : x # i => r[x] # e
    BY <1>1, <2>1
  <2>3. r[i] = e
    BY <1>2
  <2>4. CASE j # i /\ l # i
    <3>1. to(j) = to(l)
      BY <1>1, <1>5, <2>1, <2>4
    <3>. QED
      BY <1>1, <2>4, <3>1
  <2>. QED
    BY <1>5, <2>2, <2>3, <2>4
<1>. QED
  BY <1>2, <1>3, <1>4, <1>5 DEF Unrepeated, IsInjective

=============================================================================
