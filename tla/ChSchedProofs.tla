--------------------------- MODULE ChSchedProofs ---------------------------
(***************************************************************************)
(* What the list operations of ChLists do to the elements of a list of any *)
(* length, and that the functions of the scheduler preserve the kernel     *)
(* invariant, for every number of cores, threads and priorities.           *)
(***************************************************************************)
EXTENDS ChSched, SequenceTheorems, WellFoundedInduction, TLAPS

-----------------------------------------------------------------------------
(* Lists: which elements the result of an operation holds, that it holds    *)
(* none twice, and that the priority insertions keep the order.             *)

\* A scan that stops at the first element not passed over always stops.
LEMMA ScanStops ==
    ASSUME NEW n \in Nat, NEW P
    PROVE  \E i \in 1 .. n + 1 :
              /\ \A j \in 1 .. i - 1 : j \in P
              /\ i <= n => i \notin P
<1> DEFINE T == {i \in 1 .. n + 1 : i <= n => i \notin P}
<1>1. T \subseteq Nat /\ n + 1 \in T
  OBVIOUS
<1> DEFINE R == {ss \in Nat \X Nat : ss[1] < ss[2]}
<1>2. IsWellFoundedOn(R, Nat)
  BY NatLessThanWellFounded, Zenon DEF OpToRel
<1>3. PICK i \in T : \A y \in T : ~ (<<y, i>> \in R)
  <2> HIDE DEF T, R
  <2> QED BY <1>1, <1>2, WFMin
<1>5. \A y \in T : ~ (y < i)
  BY <1>1, <1>3
<1>4. \A j \in 1 .. i - 1 : j \in P
  <2> SUFFICES ASSUME NEW j \in 1 .. i - 1, j \notin P PROVE FALSE
    OBVIOUS
  <2>1. j \in T /\ j < i
    BY <1>1
  <2> QED BY <2>1, <1>5
<1> QED BY <1>4

\* InsertAt, element by element.
LEMMA InsertAtElements ==
    ASSUME NEW S, NEW q \in Seq(S), NEW e \in S, NEW i \in 1 .. Len(q) + 1
    PROVE  /\ InsertAt(q, i, e) \in Seq(S)
           /\ Len(InsertAt(q, i, e)) = Len(q) + 1
           /\ \A j \in 1 .. Len(q) + 1 :
                 InsertAt(q, i, e)[j] = IF j < i THEN q[j]
                                        ELSE IF j = i THEN e ELSE q[j - 1]
<1> DEFINE a == SubSeq(q, 1, i - 1)
           b == SubSeq(q, i, Len(q))
           c == a \o <<e>>
<1>1. /\ a \in Seq(S) /\ Len(a) = i - 1
      /\ \A j \in 1 .. i - 1 : a[j] = q[j]
  OBVIOUS
<1>2. /\ b \in Seq(S) /\ Len(b) = Len(q) - i + 1
      /\ \A j \in 1 .. Len(q) - i + 1 : b[j] = q[j + i - 1]
  OBVIOUS
<1>3. /\ c \in Seq(S) /\ Len(c) = i
      /\ \A j \in 1 .. i : c[j] = IF j < i THEN q[j] ELSE e
  <2> HIDE DEF a
  <2> QED BY <1>1
<1>4. InsertAt(q, i, e) = c \o b
  BY DEF InsertAt
<1> HIDE DEF b, c
<1>5. /\ c \o b \in Seq(S) /\ Len(c \o b) = Len(c) + Len(b)
      /\ \A j \in 1 .. Len(c) + Len(b) :
            (c \o b)[j] = IF j <= Len(c) THEN c[j] ELSE b[j - Len(c)]
  BY <1>2, <1>3, ConcatProperties
<1>6. Len(q) \in Nat /\ Len(c) + Len(b) = Len(q) + 1
  BY <1>2, <1>3
<1>7. ASSUME NEW j \in 1 .. Len(q) + 1
      PROVE  (c \o b)[j] = IF j < i THEN q[j] ELSE IF j = i THEN e ELSE q[j - 1]
  <2>1. CASE j <= i
    BY <2>1, <1>3, <1>5, <1>6
  <2>2. CASE j > i
    <3>1. (c \o b)[j] = b[j - i] /\ j - i \in 1 .. Len(q) - i + 1
      BY <2>2, <1>2, <1>3, <1>5, <1>6
    <3> QED BY <3>1, <2>2, <1>2, <1>6
  <2> QED BY <2>1, <2>2, <1>6
<1> QED BY <1>4, <1>5, <1>6, <1>7

\* RemoveAt, element by element.
LEMMA RemoveAtElements ==
    ASSUME NEW S, NEW q \in Seq(S), NEW i \in 1 .. Len(q)
    PROVE  /\ RemoveAt(q, i) \in Seq(S)
           /\ Len(RemoveAt(q, i)) = Len(q) - 1
           /\ \A j \in 1 .. Len(q) - 1 :
                 RemoveAt(q, i)[j] = IF j < i THEN q[j] ELSE q[j + 1]
<1> DEFINE a == SubSeq(q, 1, i - 1)
           b == SubSeq(q, i + 1, Len(q))
<1>1. /\ a \in Seq(S) /\ Len(a) = i - 1
      /\ \A j \in 1 .. i - 1 : a[j] = q[j]
  OBVIOUS
<1>2. /\ b \in Seq(S) /\ Len(b) = Len(q) - i
      /\ \A j \in 1 .. Len(q) - i : b[j] = q[j + i]
  OBVIOUS
<1>3. RemoveAt(q, i) = a \o b
  BY DEF RemoveAt
<1> HIDE DEF a, b
<1>4. /\ a \o b \in Seq(S) /\ Len(a \o b) = Len(a) + Len(b)
      /\ \A j \in 1 .. Len(a) + Len(b) :
            (a \o b)[j] = IF j <= Len(a) THEN a[j] ELSE b[j - Len(a)]
  BY <1>1, <1>2, ConcatProperties
<1>5. Len(q) \in Nat /\ Len(a) + Len(b) = Len(q) - 1
  BY <1>1, <1>2
<1>6. ASSUME NEW j \in 1 .. Len(q) - 1
      PROVE  (a \o b)[j] = IF j < i THEN q[j] ELSE q[j + 1]
  <2>1. CASE j < i
    BY <2>1, <1>1, <1>4, <1>5
  <2>2. CASE j >= i
    <3>1. (a \o b)[j] = b[j - i + 1] /\ j - i + 1 \in 1 .. Len(q) - i
      BY <2>2, <1>1, <1>4, <1>5
    <3> QED BY <3>1, <2>2, <1>2, <1>5
  <2> QED BY <2>1, <2>2, <1>5
<1> QED BY <1>3, <1>4, <1>5, <1>6

\* A relation between the elements of a list and the later ones, such as the
\* priority order, survives an insertion where the new element fits.
LEMMA InsertAtPairs ==
    ASSUME NEW S, NEW q \in Seq(S), NEW e \in S, NEW i \in 1 .. Len(q) + 1, NEW R,
           \A j, h \in 1 .. Len(q) : j < h => <<q[j], q[h]>> \in R,
           \A j \in 1 .. i - 1 : <<q[j], e>> \in R,
           \A j \in i .. Len(q) : <<e, q[j]>> \in R
    PROVE  \A j, h \in 1 .. Len(InsertAt(q, i, e)) :
              j < h => <<InsertAt(q, i, e)[j], InsertAt(q, i, e)[h]>> \in R
<1> DEFINE r == InsertAt(q, i, e)
<1>1. /\ r \in Seq(S) /\ Len(r) = Len(q) + 1 /\ Len(q) \in Nat
      /\ \A j \in 1 .. Len(q) + 1 : r[j] = IF j < i THEN q[j] ELSE IF j = i THEN e ELSE q[j - 1]
  BY InsertAtElements
<1> HIDE DEF r
<1> SUFFICES ASSUME NEW j \in 1 .. Len(q) + 1, NEW h \in 1 .. Len(q) + 1, j < h
             PROVE  <<r[j], r[h]>> \in R
  BY <1>1 DEF r
<1>2. CASE h < i
  <2>1. r[j] = q[j] /\ r[h] = q[h] /\ j \in 1 .. Len(q) /\ h \in 1 .. Len(q)
    BY <1>1, <1>2
  <2> QED BY <2>1
<1>3. CASE h = i
  <2>1. r[j] = q[j] /\ r[h] = e /\ j \in 1 .. i - 1
    BY <1>1, <1>3
  <2> QED BY <2>1
<1>4. CASE h > i
  <2>1. r[h] = q[h - 1] /\ h - 1 \in i .. Len(q) /\ h - 1 \in 1 .. Len(q)
    BY <1>1, <1>4
  <2>2. CASE j < i
    <3>1. r[j] = q[j] /\ j \in 1 .. Len(q) /\ j < h - 1
      BY <1>1, <1>4, <2>2
    <3> QED BY <2>1, <3>1
  <2>3. CASE j = i
    <3>1. r[j] = e
      BY <1>1, <2>3
    <3> QED BY <2>1, <3>1
  <2>4. CASE j > i
    <3>1. r[j] = q[j - 1] /\ j - 1 \in 1 .. Len(q) /\ j - 1 < h - 1
      BY <1>1, <2>4
    <3> QED BY <2>1, <3>1
  <2> QED BY <2>2, <2>3, <2>4
<1> QED BY <1>2, <1>3, <1>4

\* A list without an element keeps the relation between the others.
LEMMA RemoveAtPairs ==
    ASSUME NEW S, NEW q \in Seq(S), NEW i \in 1 .. Len(q), NEW R,
           \A j, h \in 1 .. Len(q) : j < h => <<q[j], q[h]>> \in R
    PROVE  \A j, h \in 1 .. Len(RemoveAt(q, i)) :
              j < h => <<RemoveAt(q, i)[j], RemoveAt(q, i)[h]>> \in R
<1> DEFINE r == RemoveAt(q, i)
<1>1. /\ r \in Seq(S) /\ Len(r) = Len(q) - 1 /\ Len(q) \in Nat
      /\ \A j \in 1 .. Len(q) - 1 : r[j] = IF j < i THEN q[j] ELSE q[j + 1]
  BY RemoveAtElements
<1> HIDE DEF r
<1> SUFFICES ASSUME NEW j \in 1 .. Len(q) - 1, NEW h \in 1 .. Len(q) - 1, j < h
             PROVE  <<r[j], r[h]>> \in R
  BY <1>1 DEF r
<1> DEFINE old(x) == IF x < i THEN x ELSE x + 1
<1>2. r[j] = q[old(j)] /\ r[h] = q[old(h)]
  BY <1>1
<1>3. old(j) \in 1 .. Len(q) /\ old(h) \in 1 .. Len(q) /\ old(j) < old(h)
  BY <1>1
<1> HIDE DEF old
<1> QED BY <1>2, <1>3

\* An insertion adds the element and keeps the others, none twice.
LEMMA InsertAtSet ==
    ASSUME NEW S, NEW q \in Seq(S), NEW e \in S, NEW i \in 1 .. Len(q) + 1
    PROVE  /\ ToSet(InsertAt(q, i, e)) = ToSet(q) \union {e}
           /\ (NoDuplicates(q) /\ e \notin ToSet(q)) => NoDuplicates(InsertAt(q, i, e))
<1> DEFINE r == InsertAt(q, i, e)
<1>1. /\ r \in Seq(S) /\ Len(r) = Len(q) + 1
      /\ \A j \in 1 .. Len(q) + 1 : r[j] = IF j < i THEN q[j] ELSE IF j = i THEN e ELSE q[j - 1]
  BY InsertAtElements
<1> HIDE DEF r
<1>2. DOMAIN r = 1 .. Len(q) + 1 /\ DOMAIN q = 1 .. Len(q) /\ Len(q) \in Nat
  BY <1>1
<1>3. ASSUME NEW x \in ToSet(r) PROVE x \in ToSet(q) \union {e}
  <2>1. PICK j \in 1 .. Len(q) + 1 : x = r[j]
    BY <1>2 DEF ToSet
  <2>2. x = e \/ \E h \in 1 .. Len(q) : x = q[h]
    <3>1. CASE j < i
      BY <3>1, <2>1, <1>1, <1>2
    <3>2. CASE j > i
      <4>1. x = q[j - 1] /\ j - 1 \in 1 .. Len(q)
        BY <3>2, <2>1, <1>1, <1>2
      <4> QED BY <4>1
    <3> QED BY <3>1, <3>2, <2>1, <1>1, <1>2
  <2> QED BY <2>2, <1>2 DEF ToSet
<1>4. ASSUME NEW x \in ToSet(q) PROVE x \in ToSet(r)
  <2>1. PICK j \in 1 .. Len(q) : x = q[j]
    BY <1>2 DEF ToSet
  <2>2. x = r[j] \/ x = r[j + 1]
    BY <2>1, <1>1, <1>2
  <2> QED BY <2>2, <1>2 DEF ToSet
<1>5. e \in ToSet(r)
  BY <1>1, <1>2 DEF ToSet
<1>6. ASSUME NoDuplicates(q), e \notin ToSet(q) PROVE NoDuplicates(r)
  <2>1. \A j \in 1 .. Len(q) : q[j] # e
    BY <1>6, <1>2 DEF ToSet
  <2>2. \A j, h \in 1 .. Len(q) : j < h => q[j] # q[h]
    BY <1>6 DEF NoDuplicates, IsSorted
  <2> DEFINE R == {p \in S \X S : p[1] # p[2]}
  <2>3. /\ \A j, h \in 1 .. Len(q) : j < h => <<q[j], q[h]>> \in R
        /\ \A j \in 1 .. i - 1 : <<q[j], e>> \in R
        /\ \A j \in i .. Len(q) : <<e, q[j]>> \in R
    BY <2>1, <2>2, <1>2
  <2>4. \A j, h \in 1 .. Len(r) : j < h => <<r[j], r[h]>> \in R
    <3> HIDE DEF R
    <3> QED BY <2>3, InsertAtPairs DEF r
  <2> QED BY <2>4 DEF NoDuplicates, IsSorted
<1> QED BY <1>3, <1>4, <1>5, <1>6 DEF r

\* The lists the kernel takes an element from: which elements stay.
LEMMA RemoveAtSet ==
    ASSUME NEW S, NEW q \in Seq(S), NEW i \in 1 .. Len(q), NoDuplicates(q)
    PROVE  /\ ToSet(RemoveAt(q, i)) = ToSet(q) \ {q[i]}
           /\ NoDuplicates(RemoveAt(q, i))
<1> DEFINE r == RemoveAt(q, i)
<1>1. /\ r \in Seq(S) /\ Len(r) = Len(q) - 1
      /\ \A j \in 1 .. Len(q) - 1 : r[j] = IF j < i THEN q[j] ELSE q[j + 1]
  BY RemoveAtElements
<1> HIDE DEF r
<1>2. DOMAIN r = 1 .. Len(q) - 1 /\ DOMAIN q = 1 .. Len(q) /\ Len(q) \in Nat
  BY <1>1
<1>3. \A j, h \in 1 .. Len(q) : j < h => q[j] # q[h]
  BY DEF NoDuplicates, IsSorted
<1>4. ASSUME NEW x \in ToSet(r) PROVE x \in ToSet(q) /\ x # q[i]
  <2>1. PICK j \in 1 .. Len(q) - 1 : x = r[j]
    BY <1>2 DEF ToSet
  <2>2. PICK h \in 1 .. Len(q) : x = q[h] /\ h # i
    BY <2>1, <1>1, <1>2
  <2>3. x # q[i]
    BY <2>2, <1>3
  <2> QED BY <2>2, <2>3, <1>2 DEF ToSet
<1>5. ASSUME NEW x \in ToSet(q), x # q[i] PROVE x \in ToSet(r)
  <2>1. PICK j \in 1 .. Len(q) : x = q[j]
    BY <1>2 DEF ToSet
  <2>2. CASE j < i
    <3>1. x = r[j] /\ j \in 1 .. Len(q) - 1
      BY <2>1, <2>2, <1>1, <1>2
    <3> QED BY <3>1, <1>2 DEF ToSet
  <2>3. CASE j > i
    <3>1. x = r[j - 1] /\ j - 1 \in 1 .. Len(q) - 1
      BY <2>1, <2>3, <1>1, <1>2
    <3> QED BY <3>1, <1>2 DEF ToSet
  <2> QED BY <2>1, <2>2, <2>3, <1>2, <1>5
<1>6. NoDuplicates(r)
  <2> DEFINE R == {p \in S \X S : p[1] # p[2]}
  <2>1. \A j, h \in 1 .. Len(q) : j < h => <<q[j], q[h]>> \in R
    BY <1>3, <1>2
  <2>2. \A j, h \in 1 .. Len(r) : j < h => <<r[j], r[h]>> \in R
    <3> HIDE DEF R
    <3> QED BY <2>1, RemoveAtPairs DEF r
  <2> QED BY <2>2 DEF NoDuplicates, IsSorted
<1> QED BY <1>4, <1>5, <1>6 DEF r

\* ch_queue_dequeue() removes the element from wherever it is.
LEMMA DequeueIsRemoveAt ==
    ASSUME NEW S, NEW q \in Seq(S), NEW e \in ToSet(q)
    PROVE  \E i \in 1 .. Len(q) : q[i] = e /\ ch_queue_dequeue(q, e) = RemoveAt(q, i)
<1> DEFINE I == {i \in 1 .. Len(q) : q[i] = e}
           P == {j \in 1 .. Len(q) : q[j] # e}
<1>1. DOMAIN q = 1 .. Len(q) /\ Len(q) \in Nat
  OBVIOUS
<1>2. PICK w \in 1 .. Len(q) : q[w] = e
  BY <1>1 DEF ToSet
<1>3. PICK m \in 1 .. Len(q) + 1 : (\A j \in 1 .. m - 1 : j \in P) /\ (m <= Len(q) => m \notin P)
  <2> HIDE DEF P
  <2> QED BY <1>1, ScanStops
<1>4. \A j \in 1 .. m - 1 : j \in 1 .. Len(q) => q[j] # e
  BY <1>3
<1>5. m \in I /\ \A y \in I : m <= y
  <2>1. m <= w
    BY <1>1, <1>2, <1>4
  <2>2. m \in 1 .. Len(q) /\ m \notin P
    BY <2>1, <1>1, <1>3
  <2>3. q[m] = e
    BY <2>2
  <2>4. ASSUME NEW y \in 1 .. Len(q), q[y] = e PROVE m <= y
    BY <2>4, <1>1, <1>4
  <2> QED BY <2>2, <2>3, <2>4
<1>6. Min(I) \in I
  <2> HIDE DEF I
  <2> QED BY <1>5 DEF Min
<1>7. SelectInSeq(q, LAMBDA v : v = e) = Min(I)
  BY <1>5 DEF SelectInSeq
<1>8. ch_queue_dequeue(q, e) = RemoveAt(q, Min(I))
  BY <1>2, <1>7 DEF ch_queue_dequeue, RemoveFirst
<1> HIDE DEF ch_queue_dequeue
<1> QED BY <1>6, <1>8

\* So the other elements stay, once each.
LEMMA DequeueSet ==
    ASSUME NEW S, NEW q \in Seq(S), NEW e \in ToSet(q), NoDuplicates(q)
    PROVE  /\ ch_queue_dequeue(q, e) \in Seq(S)
           /\ Len(ch_queue_dequeue(q, e)) = Len(q) - 1
           /\ ToSet(ch_queue_dequeue(q, e)) = ToSet(q) \ {e}
           /\ NoDuplicates(ch_queue_dequeue(q, e))
<1>1. PICK i \in 1 .. Len(q) : q[i] = e /\ ch_queue_dequeue(q, e) = RemoveAt(q, i)
  BY DequeueIsRemoveAt
<1> QED BY <1>1, RemoveAtElements, RemoveAtSet

\* The head of a list and what is left when it is taken.
LEMMA FifoRemoveSet ==
    ASSUME NEW S, NEW q \in Seq(S), q # <<>>, NoDuplicates(q)
    PROVE  /\ Head(q) \in ToSet(q)
           /\ Tail(q) \in Seq(S)
           /\ Len(Tail(q)) = Len(q) - 1
           /\ ToSet(Tail(q)) = ToSet(q) \ {Head(q)}
           /\ NoDuplicates(Tail(q))
<1>1. /\ DOMAIN q = 1 .. Len(q) /\ Len(q) \in Nat \ {0} /\ Head(q) = q[1]
      /\ Tail(q) \in Seq(S) /\ Len(Tail(q)) = Len(q) - 1
      /\ \A j \in 1 .. Len(q) - 1 : Tail(q)[j] = q[j + 1]
  BY EmptySeq, HeadTailProperties
<1>2. Tail(q) = RemoveAt(q, 1)
  <2>1. /\ RemoveAt(q, 1) \in Seq(S) /\ Len(RemoveAt(q, 1)) = Len(q) - 1
        /\ \A j \in 1 .. Len(q) - 1 : RemoveAt(q, 1)[j] = IF j < 1 THEN q[j] ELSE q[j + 1]
    <3>1. 1 \in 1 .. Len(q)
      BY <1>1
    <3> QED BY <3>1, RemoveAtElements
  <2>2. \A j \in 1 .. Len(q) - 1 : RemoveAt(q, 1)[j] = Tail(q)[j]
    BY <2>1, <1>1
  <2> QED BY <2>1, <2>2, <1>1, SeqEqual
<1>3. ToSet(RemoveAt(q, 1)) = ToSet(q) \ {q[1]} /\ NoDuplicates(RemoveAt(q, 1))
  BY <1>1, RemoveAtSet
<1>4. q[1] \in ToSet(q)
  BY <1>1 DEF ToSet
<1> QED BY <1>1, <1>2, <1>3, <1>4

\* ch_queue_insert() puts the element at the end.
LEMMA QueueInsertSet ==
    ASSUME NEW S, NEW q \in Seq(S), NEW e \in S
    PROVE  /\ ch_queue_insert(q, e) \in Seq(S)
           /\ Len(ch_queue_insert(q, e)) = Len(q) + 1
           /\ ToSet(ch_queue_insert(q, e)) = ToSet(q) \union {e}
           /\ (NoDuplicates(q) /\ e \notin ToSet(q)) => NoDuplicates(ch_queue_insert(q, e))
<1>1. /\ Len(q) \in Nat /\ DOMAIN q = 1 .. Len(q)
      /\ Append(q, e) \in Seq(S) /\ Len(Append(q, e)) = Len(q) + 1
      /\ \A j \in 1 .. Len(q) + 1 : Append(q, e)[j] = IF j = Len(q) + 1 THEN e ELSE q[j]
  <2>1. Len(q) \in Nat /\ DOMAIN q = 1 .. Len(q)
    OBVIOUS
  <2>2. Append(q, e) \in Seq(S) /\ Len(Append(q, e)) = Len(q) + 1
    OBVIOUS
  <2>3. \A j \in 1 .. Len(q) + 1 : Append(q, e)[j] = IF j = Len(q) + 1 THEN e ELSE q[j]
    <3> TAKE j \in 1 .. Len(q) + 1
    <3>1. CASE j = Len(q) + 1
      BY <3>1
    <3>2. CASE j # Len(q) + 1
      <4>1. j \in 1 .. Len(q)
        BY <2>1, <3>2
      <4> QED BY <2>1, <3>2, <4>1
    <3> QED BY <3>1, <3>2
  <2> QED BY <2>1, <2>2, <2>3
<1>2. Append(q, e) = InsertAt(q, Len(q) + 1, e)
  <2> DEFINE r == InsertAt(q, Len(q) + 1, e)
  <2>1. /\ r \in Seq(S) /\ Len(r) = Len(q) + 1
        /\ \A j \in 1 .. Len(q) + 1 :
              r[j] = IF j < Len(q) + 1 THEN q[j] ELSE IF j = Len(q) + 1 THEN e ELSE q[j - 1]
    <3>1. PICK i \in 1 .. Len(q) + 1 : i = Len(q) + 1
      BY <1>1
    <3> HIDE DEF r
    <3>2. InsertAt(q, i, e) \in Seq(S)
      BY InsertAtElements
    <3>3. Len(InsertAt(q, i, e)) = Len(q) + 1
      BY InsertAtElements
    <3>4. \A j \in 1 .. Len(q) + 1 :
                InsertAt(q, i, e)[j] = IF j < i THEN q[j] ELSE IF j = i THEN e ELSE q[j - 1]
      BY InsertAtElements
    <3> USE DEF r
    <3> QED BY <3>1, <3>2, <3>3, <3>4
  <2> HIDE DEF r
  <2>2. \A j \in 1 .. Len(q) + 1 : Append(q, e)[j] = r[j]
    BY <1>1, <2>1
  <2>3. Append(q, e) = r
    BY <1>1, <2>1, <2>2, SeqEqual
  <2> QED BY <2>3 DEF r
<1>3. Len(q) + 1 \in 1 .. Len(q) + 1
  BY <1>1
<1> QED BY <1>1, <1>2, <1>3, InsertAtSet DEF ch_queue_insert

\* ch_pqueue_insert_behind() stops at the first element of lower priority.
LEMMA InsertBehindPlace ==
    ASSUME NEW S, NEW q \in Seq(S), NEW e \in S, NEW prio \in [S -> Nat]
    PROVE  \E i \in 1 .. Len(q) + 1 :
              /\ ch_pqueue_insert_behind(q, e, prio) = InsertAt(q, i, e)
              /\ \A j \in 1 .. i - 1 : prio[q[j]] >= prio[e]
              /\ i <= Len(q) => prio[q[i]] < prio[e]
<1> DEFINE P == {j \in DOMAIN q : prio[q[j]] >= prio[e]}
           s == ScanStop(q, P)
<1>1. Len(q) \in Nat /\ DOMAIN q = 1 .. Len(q)
  OBVIOUS
<1>2. s \in 1 .. Len(q) + 1 /\ (\A j \in 1 .. s - 1 : j \in P) /\ (s <= Len(q) => s \notin P)
  <2> HIDE DEF P
  <2> QED BY <1>1, ScanStops DEF ScanStop
<1>3. ch_pqueue_insert_behind(q, e, prio) = InsertAt(q, s, e)
  BY DEF ch_pqueue_insert_behind
<1> HIDE DEF s
<1>4. \A j \in 1 .. s - 1 : prio[q[j]] >= prio[e]
  BY <1>2
<1>5. s <= Len(q) => prio[q[s]] < prio[e]
  BY <1>1, <1>2
<1> QED BY <1>2, <1>3, <1>4, <1>5

\* ch_pqueue_insert_ahead() stops at the first element of lower or equal priority.
LEMMA InsertAheadPlace ==
    ASSUME NEW S, NEW q \in Seq(S), NEW e \in S, NEW prio \in [S -> Nat]
    PROVE  \E i \in 1 .. Len(q) + 1 :
              /\ ch_pqueue_insert_ahead(q, e, prio) = InsertAt(q, i, e)
              /\ \A j \in 1 .. i - 1 : prio[q[j]] > prio[e]
              /\ i <= Len(q) => prio[q[i]] <= prio[e]
<1> DEFINE P == {j \in DOMAIN q : prio[q[j]] > prio[e]}
           s == ScanStop(q, P)
<1>1. Len(q) \in Nat /\ DOMAIN q = 1 .. Len(q)
  OBVIOUS
<1>2. s \in 1 .. Len(q) + 1 /\ (\A j \in 1 .. s - 1 : j \in P) /\ (s <= Len(q) => s \notin P)
  <2> HIDE DEF P
  <2> QED BY <1>1, ScanStops DEF ScanStop
<1>3. ch_pqueue_insert_ahead(q, e, prio) = InsertAt(q, s, e)
  BY DEF ch_pqueue_insert_ahead
<1> HIDE DEF s
<1>4. \A j \in 1 .. s - 1 : prio[q[j]] > prio[e]
  BY <1>2
<1>5. s <= Len(q) => prio[q[s]] <= prio[e]
  BY <1>1, <1>2
<1> QED BY <1>2, <1>3, <1>4, <1>5

\* The priority insertions add the element, once, and keep the list sorted:
\* what makes the first element of a queue the most important one.
LEMMA PrioInsertSet ==
    ASSUME NEW S, NEW q \in Seq(S), NEW e \in S, NEW prio \in [S -> Nat], NEW r,
           \/ r = ch_pqueue_insert_behind(q, e, prio)
           \/ r = ch_pqueue_insert_ahead(q, e, prio)
    PROVE  /\ r \in Seq(S)
           /\ Len(r) = Len(q) + 1
           /\ ToSet(r) = ToSet(q) \union {e}
           /\ (NoDuplicates(q) /\ e \notin ToSet(q)) => NoDuplicates(r)
           /\ SortedByPrio(q, prio) => SortedByPrio(r, prio)
<1>1. PICK i \in 1 .. Len(q) + 1 :
          /\ r = InsertAt(q, i, e)
          /\ \A j \in 1 .. i - 1 : prio[q[j]] >= prio[e]
          /\ i <= Len(q) => prio[q[i]] <= prio[e]
  <2>0. Len(q) \in Nat /\ (\A j \in 1 .. Len(q) : q[j] \in S) /\ prio[e] \in Nat
    OBVIOUS
  <2>1. CASE r = ch_pqueue_insert_behind(q, e, prio)
    <3>1. PICK i \in 1 .. Len(q) + 1 :
              /\ ch_pqueue_insert_behind(q, e, prio) = InsertAt(q, i, e)
              /\ \A j \in 1 .. i - 1 : prio[q[j]] >= prio[e]
              /\ i <= Len(q) => prio[q[i]] < prio[e]
      BY InsertBehindPlace
    <3>2. i <= Len(q) => prio[q[i]] <= prio[e]
      BY <3>1, <2>0
    <3> QED BY <2>1, <3>1, <3>2
  <2>2. CASE r = ch_pqueue_insert_ahead(q, e, prio)
    <3>1. PICK i \in 1 .. Len(q) + 1 :
              /\ ch_pqueue_insert_ahead(q, e, prio) = InsertAt(q, i, e)
              /\ \A j \in 1 .. i - 1 : prio[q[j]] > prio[e]
              /\ i <= Len(q) => prio[q[i]] <= prio[e]
      BY InsertAheadPlace
    <3>2. \A j \in 1 .. i - 1 : prio[q[j]] >= prio[e]
      <4>1. \A j \in 1 .. i - 1 : j \in 1 .. Len(q)
        BY <2>0
      <4> QED BY <3>1, <2>0, <4>1
    <3> QED BY <2>2, <3>1, <3>2
  <2> QED BY <2>1, <2>2
<1>2. ASSUME SortedByPrio(q, prio) PROVE SortedByPrio(r, prio)
  <2> DEFINE R == {p \in S \X S : prio[p[1]] >= prio[p[2]]}
  <2>1. /\ Len(q) \in Nat /\ \A j \in 1 .. Len(q) : q[j] \in S
        /\ \A j, h \in 1 .. Len(q) : j < h => prio[q[j]] >= prio[q[h]]
    BY <1>2 DEF SortedByPrio, IsSorted
  <2>2. \A j, h \in 1 .. Len(q) : j < h => <<q[j], q[h]>> \in R
    BY <2>1
  <2>3. \A j \in 1 .. i - 1 : <<q[j], e>> \in R
    <3>1. \A j \in 1 .. i - 1 : j \in 1 .. Len(q)
      BY <2>1
    <3> QED BY <3>1, <2>1, <1>1
  <2>4. \A j \in i .. Len(q) : <<e, q[j]>> \in R
    <3> SUFFICES ASSUME NEW j \in i .. Len(q) PROVE prio[e] >= prio[q[j]]
      BY <2>1
    <3>1. /\ i \in 1 .. Len(q) /\ j \in 1 .. Len(q)
          /\ prio[q[i]] \in Nat /\ prio[q[j]] \in Nat /\ prio[e] \in Nat
      BY <2>1
    <3>2. prio[q[i]] >= prio[q[j]]
      BY <3>1, <2>1
    <3> QED BY <3>1, <3>2, <1>1
  <2>5. \A j, h \in 1 .. Len(r) : j < h => <<r[j], r[h]>> \in R
    <3> HIDE DEF R
    <3> QED BY <2>2, <2>3, <2>4, <1>1, InsertAtPairs
  <2> QED BY <2>5 DEF SortedByPrio, IsSorted
<1> QED BY <1>1, <1>2, InsertAtElements, InsertAtSet


\* Taking elements out of a sorted list, at the head or anywhere, leaves it
\* sorted.
LEMMA RemoveSorted ==
    ASSUME NEW S, NEW q \in Seq(S), NEW prio \in [S -> Nat], SortedByPrio(q, prio)
    PROVE  /\ q # <<>> => SortedByPrio(Tail(q), prio)
           /\ \A e \in ToSet(q) : SortedByPrio(ch_queue_dequeue(q, e), prio)
<1>1. \A i, j \in 1 .. Len(q) : i < j => prio[q[i]] >= prio[q[j]]
  BY DEF SortedByPrio, IsSorted
<1>2. ASSUME q # <<>>
      PROVE  SortedByPrio(Tail(q), prio)
  <2>1. /\ Len(Tail(q)) = Len(q) - 1 /\ Len(q) \in Nat
        /\ \A j \in 1 .. Len(q) - 1 : Tail(q)[j] = q[j + 1]
    BY <1>2, EmptySeq, HeadTailProperties
  <2> QED BY <1>1, <2>1 DEF SortedByPrio, IsSorted
<1>3. ASSUME NEW e \in ToSet(q)
      PROVE  SortedByPrio(ch_queue_dequeue(q, e), prio)
  <2>1. PICK i \in 1 .. Len(q) : ch_queue_dequeue(q, e) = RemoveAt(q, i)
    BY DequeueIsRemoveAt
  <2>2. /\ Len(RemoveAt(q, i)) = Len(q) - 1 /\ Len(q) \in Nat
        /\ \A j \in 1 .. Len(q) - 1 : RemoveAt(q, i)[j] = IF j < i THEN q[j] ELSE q[j + 1]
    BY RemoveAtElements
  <2>3. ASSUME NEW j \in 1 .. Len(q) - 1, NEW h \in 1 .. Len(q) - 1, j < h
        PROVE  prio[RemoveAt(q, i)[j]] >= prio[RemoveAt(q, i)[h]]
    <3>1. /\ j \in 1 .. Len(q) /\ h \in 1 .. Len(q)
          /\ j + 1 \in 1 .. Len(q) /\ h + 1 \in 1 .. Len(q)
          /\ j < h + 1 /\ j + 1 < h + 1 /\ (j >= i => ~ (h < i))
      BY <2>2, <2>3
    <3>2. RemoveAt(q, i)[j] = IF j < i THEN q[j] ELSE q[j + 1]
      BY <2>2
    <3>3. RemoveAt(q, i)[h] = IF h < i THEN q[h] ELSE q[h + 1]
      BY <2>2
    <3> QED BY <1>1, <2>3, <3>1, <3>2, <3>3
  <2> QED BY <2>1, <2>2, <2>3 DEF SortedByPrio, IsSorted
<1> QED BY <1>2, <1>3

-----------------------------------------------------------------------------
(* The kernel invariant *)

\* The states of a thread that may have a timeout pending.
TimedStates == States \ {"WTSTART", "CURRENT"}

\* The kernel invariant while the threads in X are in transit, that is
\* neither in their ready list nor properly running: their state is not
\* determined yet.  A timer that is armed, or whose callback is about to be
\* called, is that of a thread that still sleeps or was just woken, never
\* one that has left chSchGoSleepTimeoutS().
KInvX(k, X) ==
    /\ k \in KernelType
    /\ \A c \in Cores :
          /\ NoDuplicates(k.ready[c])
          /\ SortedByPrio(k.ready[c], k.prio)
          /\ ToSet(k.ready[c]) = {t \in Threads \ X : k.state[t] = "READY" /\ Owner[t] = c}
    /\ \A c \in Cores :
          /\ Owner[k.current[c]] = c
          /\ k.current[c] \notin X => k.state[k.current[c]] = "CURRENT"
    /\ \A t \in Threads \ X : k.state[t] = "CURRENT" => k.current[Owner[t]] = t
    /\ \A c \in Cores : Idle[c] \notin X => k.state[Idle[c]] \in {"READY", "CURRENT"}
    /\ \A t \in k.armed \ X : k.state[t] \in TimedStates
    /\ \A c \in Cores :
          k.firing[c] # NoThread =>
              /\ Owner[k.firing[c]] = c /\ c \in k.isr
              /\ k.firing[c] \notin X => k.state[k.firing[c]] \in TimedStates

\* The kernel invariant between two kernel functions.
KInv(k) == KInvX(k, {})

\* What the kernel functions do to the threads they were not asked about:
\* they make the ready ones run, or the running ones ready, and that is all.
Others(k, r, Y) ==
    /\ r.prio = k.prio
    /\ \A u \in Threads \ Y :
          \/ r.state[u] = k.state[u]
          \/ k.state[u] \in {"READY", "CURRENT"} /\ r.state[u] \in {"READY", "CURRENT"}

\* Thread t alone has entered the waiting state newstate.
Asleep(k, r, t, newstate) == Others(k, r, {t}) /\ r.state[t] = newstate

\* Thread t alone has stopped waiting.
Woken(k, r, t) == Others(k, r, {t}) /\ r.state[t] \in {"READY", "CURRENT"}

\* The kernel invariant contains what the components check of the kernel.
LEMMA KInvImplies ==
    ASSUME NEW k, KInv(k)
    PROVE  ReadyListExact(k) /\ ReadyListSorted(k) /\ CurrentExact(k)
<1> USE DEF KInv, KInvX
<1>1. ReadyListExact(k)
  BY DEF ReadyListExact
<1>2. ReadyListSorted(k)
  BY DEF ReadyListSorted
<1>3. CurrentExact(k)
  BY KernelAssumption DEF CurrentExact, KernelType
<1> QED BY <1>1, <1>2, <1>3

\* sch_ready_behind and sch_ready_ahead end the transit of a thread.
LEMMA ReadyInv ==
    ASSUME NEW k, NEW X, NEW t \in X, KInvX(k, X), t \in Threads,
           \A c \in Cores : k.current[c] # t,
           NEW r, r = sch_ready_behind(k, t) \/ r = sch_ready_ahead(k, t)
    PROVE  /\ KInvX(r, X \ {t}) /\ Others(k, r, {t}) /\ r.state[t] = "READY"
           /\ r.current = k.current /\ r.isr = k.isr
<1> DEFINE o == Owner[t]
<1>1. PICK q : /\ r = [k EXCEPT !.state[t] = "READY", !.ready[o] = q]
               /\ \/ q = ch_pqueue_insert_behind(k.ready[o], t, k.prio)
                  \/ q = ch_pqueue_insert_ahead(k.ready[o], t, k.prio)
  BY DEF sch_ready_behind, sch_ready_ahead
<1>2. k \in KernelType /\ o \in Cores /\ k.ready[o] \in Seq(Threads)
      /\ k.prio \in [Threads -> Nat]
  BY KernelAssumption DEF KInvX, KernelType, Prios
<1>3. t \notin ToSet(k.ready[o]) /\ NoDuplicates(k.ready[o]) /\ SortedByPrio(k.ready[o], k.prio)
  BY <1>2 DEF KInvX
<1>4. /\ q \in Seq(Threads)
      /\ ToSet(q) = ToSet(k.ready[o]) \union {t}
      /\ NoDuplicates(q)
      /\ SortedByPrio(q, k.prio)
  BY <1>1, <1>2, <1>3, PrioInsertSet
<1>5. r \in KernelType
  BY <1>1, <1>2, <1>4 DEF KernelType, States
<1>6. /\ r.state = [k.state EXCEPT ![t] = "READY"]
      /\ r.ready = [k.ready EXCEPT ![o] = q]
      /\ r.prio = k.prio /\ r.current = k.current
      /\ r.armed = k.armed /\ r.firing = k.firing /\ r.isr = k.isr
  BY <1>1, <1>2 DEF KernelType
<1> QED
  <2>1. ASSUME NEW c \in Cores
        PROVE  /\ NoDuplicates(r.ready[c])
               /\ SortedByPrio(r.ready[c], r.prio)
               /\ ToSet(r.ready[c]) =
                     {u \in Threads \ (X \ {t}) : r.state[u] = "READY" /\ Owner[u] = c}
    BY <1>2, <1>4, <1>6 DEF KInvX, KernelType
  <2>2. \A c \in Cores : /\ Owner[r.current[c]] = c
                         /\ r.current[c] \notin X \ {t} => r.state[r.current[c]] = "CURRENT"
    BY <1>2, <1>6 DEF KInvX, KernelType
  <2>3. \A u \in Threads \ (X \ {t}) : r.state[u] = "CURRENT" => r.current[Owner[u]] = u
    BY <1>2, <1>6 DEF KInvX, KernelType
  <2>4. \A c \in Cores : Idle[c] \notin X \ {t} => r.state[Idle[c]] \in {"READY", "CURRENT"}
    BY <1>2, <1>6, KernelAssumption DEF KInvX, KernelType
  <2>5. \A u \in r.armed \ (X \ {t}) : r.state[u] \in TimedStates
    BY <1>2, <1>6 DEF KInvX, KernelType, TimedStates, States
  <2>6. \A c \in Cores :
           r.firing[c] # NoThread =>
              /\ Owner[r.firing[c]] = c /\ c \in r.isr
              /\ r.firing[c] \notin X \ {t} => r.state[r.firing[c]] \in TimedStates
    BY <1>2, <1>6 DEF KInvX, KernelType, TimedStates, States
  <2>7. Others(k, r, {t}) /\ r.state[t] = "READY"
    BY <1>2, <1>6 DEF Others, KernelType
  <2> QED BY <1>5, <1>6, <2>1, <2>2, <2>3, <2>4, <2>5, <2>6, <2>7 DEF KInvX

\* A thread that runs may be put in transit; its state is then free.
LEMMA TransitStart ==
    ASSUME NEW k, KInv(k), NEW c \in Cores, NEW t, t = k.current[c],
           NEW r, r \in KernelType,
           r.ready = k.ready, r.current = k.current, r.prio = k.prio,
           r.firing = k.firing, r.isr = k.isr, r.armed \subseteq k.armed \union {t},
           \A u \in Threads \ {t} : r.state[u] = k.state[u]
    PROVE  KInvX(r, {t})
<1> USE KernelAssumption DEF KInv, KInvX
<1>1. t \in Threads /\ k.state[t] = "CURRENT" /\ k.state[t] # "READY" /\ k \in KernelType
  BY DEF KernelType
<1>2. ASSUME NEW d \in Cores
      PROVE  /\ NoDuplicates(r.ready[d]) /\ SortedByPrio(r.ready[d], r.prio)
             /\ ToSet(r.ready[d]) = {u \in Threads \ {t} : r.state[u] = "READY" /\ Owner[u] = d}
  BY <1>1
<1>3. \A d \in Cores : /\ Owner[r.current[d]] = d
                       /\ r.current[d] \notin {t} => r.state[r.current[d]] = "CURRENT"
  BY <1>1 DEF KernelType
<1>4. \A u \in Threads \ {t} : r.state[u] = "CURRENT" => r.current[Owner[u]] = u
  BY <1>1
<1>5. \A d \in Cores : Idle[d] \notin {t} => r.state[Idle[d]] \in {"READY", "CURRENT"}
  BY <1>1
<1>6. \A u \in r.armed \ {t} : r.state[u] \in TimedStates
  BY <1>1 DEF KernelType
<1>7. \A d \in Cores :
         r.firing[d] # NoThread =>
             /\ Owner[r.firing[d]] = d /\ d \in r.isr
             /\ r.firing[d] \notin {t} => r.state[r.firing[d]] \in TimedStates
  BY <1>1 DEF KernelType
<1> QED BY <1>1, <1>2, <1>3, <1>4, <1>5, <1>6, <1>7

\* A waiting thread may be put in transit too.
LEMMA WaiterInTransit ==
    ASSUME NEW k, KInv(k), NEW t \in Threads, k.state[t] \notin {"READY", "CURRENT"}
    PROVE  KInvX(k, {t}) /\ \A c \in Cores : k.current[c] # t
<1> USE KernelAssumption DEF KInv, KInvX
<1>1. \A c \in Cores : k.current[c] # t
  BY DEF KernelType
<1> QED BY <1>1 DEF KernelType

\* The transit of a thread ends when it waits for something.
LEMMA TransitEnd ==
    ASSUME NEW k, NEW t \in UserThreads, KInvX(k, {t}),
           k.state[t] \in TimedStates \ {"READY"}, \A c \in Cores : k.current[c] # t
    PROVE  KInv(k)
<1> USE KernelAssumption DEF KInv, KInvX, TimedStates
<1>1. \A c \in Cores : ToSet(k.ready[c]) = {u \in Threads \ {} : k.state[u] = "READY" /\ Owner[u] = c}
  OBVIOUS
<1> QED BY <1>1 DEF UserThreads

\* Changes of the messages, the quanta, the notifications and the interrupt
\* nesting leave the invariant alone, as does the end of a callback.
LEMMA Frame ==
    ASSUME NEW k, NEW X, KInvX(k, X), NEW r, r \in KernelType,
           r.ready = k.ready, r.current = k.current, r.prio = k.prio, r.state = k.state,
           r.armed \subseteq k.armed, k.isr \subseteq r.isr,
           \A c \in Cores : r.firing[c] \in {k.firing[c], NoThread}
    PROVE  KInvX(r, X)
BY KernelAssumption DEF KInvX, KernelType

\* A core whose current thread is not its idle thread has a ready thread.
LEMMA ReadyNotEmpty ==
    ASSUME NEW k, NEW c \in Cores, NEW t \in UserThreads, t = k.current[c], KInvX(k, {t})
    PROVE  k.ready[c] # <<>>
<1>1. Idle[c] \in Threads \ {t} /\ Owner[Idle[c]] = c
  BY KernelAssumption DEF UserThreads
<1>2. k.state[Idle[c]] = "READY"
  BY <1>1 DEF KInvX
<1>3. Idle[c] \in ToSet(k.ready[c])
  BY <1>1, <1>2 DEF KInvX
<1> QED BY <1>3 DEF ToSet

\* Thread h, taken from the ready list of c that is left with q, runs on c.
Switched(k, r, c, h, q) ==
    /\ r.state = [k.state EXCEPT ![h] = "CURRENT"]
    /\ r.ready = [k.ready EXCEPT ![c] = q]
    /\ r.current = [k.current EXCEPT ![c] = h]
    /\ r.prio = k.prio /\ r.armed = k.armed \ {h} /\ r.ticks = k.ticks
    /\ r.firing = k.firing /\ r.isr = k.isr

\* A switch on core c from a thread in transit to a thread h taken from the
\* ready list, whose other elements are q.
LEMMA SwitchInv ==
    ASSUME NEW k, NEW X, KInvX(k, X), NEW c \in Cores, NEW otp \in X, otp = k.current[c],
           k.firing[c] = NoThread,
           NEW h \in Threads, h \notin X, k.state[h] = "READY", Owner[h] = c,
           NEW q \in Seq(Threads), NoDuplicates(q), SortedByPrio(q, k.prio),
           ToSet(q) = ToSet(k.ready[c]) \ {h},
           NEW r \in KernelType, Switched(k, r, c, h, q)
    PROVE  /\ KInvX(r, X) /\ Others(k, r, {})
           /\ r.state[otp] = k.state[otp]
           /\ \A d \in Cores : r.current[d] # otp
<1> USE DEF Switched
<1>1. k \in KernelType
  BY DEF KInvX
<1>2. ASSUME NEW d \in Cores
      PROVE  /\ NoDuplicates(r.ready[d]) /\ SortedByPrio(r.ready[d], r.prio)
             /\ ToSet(r.ready[d]) = {u \in Threads \ X : r.state[u] = "READY" /\ Owner[u] = d}
  BY <1>1 DEF KInvX, KernelType
<1>3. \A d \in Cores : /\ Owner[r.current[d]] = d
                       /\ r.current[d] \notin X => r.state[r.current[d]] = "CURRENT"
  BY <1>1 DEF KInvX, KernelType
<1>4. ASSUME NEW u \in Threads \ X, r.state[u] = "CURRENT"
      PROVE  r.current[Owner[u]] = u
  <2>1. CASE u = h
    BY <1>1, <2>1 DEF KernelType
  <2>2. CASE u # h
    <3>1. k.state[u] = "CURRENT" /\ k.current[Owner[u]] = u /\ Owner[u] \in Cores
      BY <1>1, <1>4, <2>2, KernelAssumption DEF KInvX, KernelType
    <3> QED BY <1>1, <3>1 DEF KernelType
  <2> QED BY <2>1, <2>2
<1>5. \A d \in Cores : Idle[d] \notin X => r.state[Idle[d]] \in {"READY", "CURRENT"}
  BY <1>1, KernelAssumption DEF KInvX, KernelType
<1>6. \A u \in r.armed \ X : r.state[u] \in TimedStates
  BY <1>1 DEF KInvX, KernelType
<1>7. ASSUME NEW d \in Cores, r.firing[d] # NoThread
      PROVE  /\ Owner[r.firing[d]] = d /\ d \in r.isr
             /\ r.firing[d] \notin X => r.state[r.firing[d]] \in TimedStates
  <2>1. /\ k.firing[d] # NoThread /\ Owner[k.firing[d]] = d /\ d \in k.isr /\ d # c
        /\ k.firing[d] \in Threads /\ k.firing[d] # h
        /\ k.firing[d] \notin X => k.state[k.firing[d]] \in TimedStates
    BY <1>1, <1>7 DEF KInvX, KernelType
  <2> QED BY <1>1, <2>1 DEF KernelType
<1>8. ASSUME NEW d \in Cores
      PROVE  r.current[d] # otp
  <2>1. Owner[otp] = c /\ Owner[k.current[d]] = d
    BY DEF KInvX
  <2> QED BY <1>1, <2>1 DEF KernelType
<1>9. Others(k, r, {}) /\ r.state[otp] = k.state[otp]
  BY <1>1 DEF Others, KernelType
<1> QED BY <1>2, <1>3, <1>4, <1>5, <1>6, <1>7, <1>8, <1>9 DEF KInvX

\* The switch to the first ready thread, with the old one in transit.
LEMMA SwitchToFirstInv ==
    ASSUME NEW k, NEW X, KInvX(k, X), NEW c \in Cores, NEW otp \in X, otp = k.current[c],
           k.ready[c] # <<>>, k.firing[c] = NoThread,
           NEW r, r = SwitchToFirst(k, c)
    PROVE  /\ KInvX(r, X) /\ Others(k, r, {})
           /\ r.state[otp] = k.state[otp] /\ r.ticks = k.ticks
           /\ \A d \in Cores : r.current[d] # otp
<1>1. k \in KernelType /\ k.ready[c] \in Seq(Threads) /\ k.prio \in [Threads -> Nat]
  BY KernelAssumption DEF KInvX, KernelType, Prios
<1>2. /\ NoDuplicates(k.ready[c]) /\ SortedByPrio(k.ready[c], k.prio)
      /\ ToSet(k.ready[c]) = {u \in Threads \ X : k.state[u] = "READY" /\ Owner[u] = c}
  BY DEF KInvX
<1>3. PICK h : /\ h = Head(k.ready[c])
               /\ h \in Threads \ X /\ k.state[h] = "READY" /\ Owner[h] = c
  BY <1>1, <1>2, FifoRemoveSet
<1>4. PICK q : /\ q = Tail(k.ready[c])
               /\ q \in Seq(Threads) /\ NoDuplicates(q) /\ SortedByPrio(q, k.prio)
               /\ ToSet(q) = ToSet(k.ready[c]) \ {h}
  BY <1>1, <1>2, <1>3, FifoRemoveSet, RemoveSorted
<1>5. r = [k EXCEPT !.current[c] = h, !.state[h] = "CURRENT", !.armed = @ \ {h}, !.ready[c] = q]
  BY <1>1, <1>3, <1>4 DEF SwitchToFirst, SwitchIn, KernelType
<1>6. Switched(k, r, c, h, q)
  BY <1>1, <1>5 DEF KernelType, Switched
<1>7. r \in KernelType
  <2>1. /\ r.current \in [Cores -> Threads] /\ r.ready \in [Cores -> Seq(Threads)]
        /\ r.state \in [Threads -> States] /\ r.armed \in SUBSET Threads
    BY <1>1, <1>3, <1>4, <1>6 DEF KernelType, States, Switched
  <2>2. r = [k EXCEPT !.current = r.current, !.state = r.state, !.armed = r.armed,
                      !.ready = r.ready]
    BY <1>1, <1>5 DEF KernelType
  <2> QED BY <1>1, <2>1, <2>2 DEF KernelType
<1>8. /\ KInvX(r, X) /\ Others(k, r, {}) /\ r.state[otp] = k.state[otp]
      /\ \A d \in Cores : r.current[d] # otp
  <2>1. /\ h \in Threads /\ h \notin X /\ k.state[h] = "READY" /\ Owner[h] = c
    BY <1>3
  <2>2. /\ q \in Seq(Threads) /\ NoDuplicates(q) /\ SortedByPrio(q, k.prio)
        /\ ToSet(q) = ToSet(k.ready[c]) \ {h}
    BY <1>4
  <2>3. r \in KernelType /\ Switched(k, r, c, h, q)
    BY <1>6, <1>7
  <2>4. KInvX(r, X)
   BY <2>1, <2>2, <2>3, SwitchInv
  <2>5. Others(k, r, {})
   BY <2>1, <2>2, <2>3, SwitchInv
  <2>6. r.state[otp] = k.state[otp]
   BY <2>1, <2>2, <2>3, SwitchInv
  <2>7. \A d \in Cores : r.current[d] # otp
   BY <2>1, <2>2, <2>3, SwitchInv
  <2> QED BY <2>4, <2>5, <2>6, <2>7
<1> QED BY <1>6, <1>8 DEF Switched

\* The running thread keeps no timer and is not the one being called back.
LEMMA InThreadFiring ==
    ASSUME NEW k, KInv(k), NEW c \in Cores, c \notin k.isr
    PROVE  k.firing[c] = NoThread
BY DEF KInv, KInvX

\* Others is transitive.
LEMMA OthersTrans ==
    ASSUME NEW k1, NEW k2, NEW k3, NEW Y, NEW Z, Others(k1, k2, Y), Others(k2, k3, Z)
    PROVE  Others(k1, k3, Y \union Z)
BY DEF Others

\* A thread put in its ready list is in CH_STATE_READY.
LEMMA ReadyState ==
    ASSUME NEW k \in KernelType, NEW t \in Threads,
           NEW r, r = sch_ready_behind(k, t) \/ r = sch_ready_ahead(k, t)
    PROVE  r.state[t] = "READY" /\ r.isr = k.isr
<1>1. PICK q : r = [k EXCEPT !.state[t] = "READY", !.ready[Owner[t]] = q]
  BY DEF sch_ready_behind, sch_ready_ahead
<1> QED BY <1>1 DEF KernelType

\* chSchReadyI() and tp->u.rdymsg = msg, for a thread that waits.
LEMMA ReadyWithMsgInv ==
    ASSUME NEW k, KInv(k), NEW c \in Cores, NEW t \in Threads, NEW msg \in Messages,
           k.state[t] \notin {"READY", "CURRENT"},
           NEW r, r = ReadyWithMsg(k, c, t, msg)
    PROVE  KInv(r) /\ Woken(k, r, t) /\ r.isr = k.isr
<1> DEFINE k1 == chSysNotifyInstance([k EXCEPT !.rdymsg[t] = msg], c, t)
<1> USE KernelAssumption
<1>0. k \in KernelType
  BY DEF KInv, KInvX
<1>1. k1 \in KernelType
  <2>1. PICK n : /\ n \in SUBSET Cores
                 /\ k1 = [[k EXCEPT !.rdymsg[t] = msg] EXCEPT !.notified = n]
    BY <1>0 DEF KernelType, chSysNotifyInstance
  <2>2. [k EXCEPT !.rdymsg[t] = msg] \in KernelType
    BY <1>0 DEF KernelType
  <2> QED BY <2>1, <2>2 DEF KernelType
<1>2. /\ k1.ready = k.ready /\ k1.current = k.current /\ k1.prio = k.prio /\ k1.state = k.state
      /\ k1.armed = k.armed /\ k1.isr = k.isr /\ k1.firing = k.firing
  BY <1>0 DEF KernelType, chSysNotifyInstance
<1>3. KInv(k1)
  BY <1>1, <1>2, Frame DEF KInv
<1>4. KInvX(k1, {t}) /\ \A d \in Cores : k1.current[d] # t
  BY <1>2, <1>3, WaiterInTransit
<1>5. r = sch_ready_behind(k1, t)
  BY DEF ReadyWithMsg, chSchReadyI
<1>6. KInvX(r, {t} \ {t}) /\ Others(k1, r, {t}) /\ r.state[t] = "READY" /\ r.isr = k1.isr
  <2> HIDE DEF k1
  <2>1. KInvX(r, {t} \ {t})
    BY <1>4, <1>5, ReadyInv
  <2>2. Others(k1, r, {t})
    BY <1>4, <1>5, ReadyInv
  <2>3. r.state[t] = "READY" /\ r.isr = k1.isr
    BY <1>1, <1>5, ReadyState
  <2> QED BY <2>1, <2>2, <2>3
<1> QED BY <1>2, <1>6 DEF KInv, Others, Woken

\* chSchGoSleepTimeoutS(), TIME_INFINITE included.
LEMMA GoSleepInv ==
    ASSUME NEW k, KInv(k), NEW c \in Cores, InThread(k, c),
           NEW newstate \in TimedStates \ {"READY"}, NEW timed \in BOOLEAN,
           NEW r, r = chSchGoSleepTimeoutS(k, c, newstate, timed)
    PROVE  KInv(r) /\ Asleep(k, r, k.current[c], newstate)
<1> DEFINE otp == k.current[c]
<1> USE KernelAssumption
<1>0. k \in KernelType /\ otp \in UserThreads /\ otp \in Threads /\ newstate \in States
  BY DEF KInv, KInvX, InThread, KernelType, UserThreads, TimedStates
<1>1. PICK a : /\ a \in SUBSET Threads /\ a \subseteq k.armed \union {otp}
               /\ r = SwitchToFirst([k EXCEPT !.armed = a, !.state[otp] = newstate,
                                              !.ticks[otp] = Quantum], c)
  <2>1. PICK a : /\ a = IF timed THEN k.armed \union {otp} ELSE k.armed
                 /\ r = chSchGoSleepS([k EXCEPT !.armed = a], c, newstate)
    BY DEF chSchGoSleepTimeoutS
  <2>2. [k EXCEPT !.armed = a].current = k.current
    BY <1>0 DEF KernelType
  <2>3. r = SwitchToFirst([[k EXCEPT !.armed = a] EXCEPT !.state[otp] = newstate,
                                                         !.ticks[otp] = Quantum], c)
    BY <2>1, <2>2 DEF chSchGoSleepS
  <2>4. [[k EXCEPT !.armed = a] EXCEPT !.state[otp] = newstate, !.ticks[otp] = Quantum]
        = [k EXCEPT !.armed = a, !.state[otp] = newstate, !.ticks[otp] = Quantum]
    BY <1>0 DEF KernelType
  <2>5. a \in SUBSET Threads /\ a \subseteq k.armed \union {otp}
    BY <1>0, <2>1 DEF KernelType
  <2> QED BY <2>3, <2>4, <2>5
<1> DEFINE k1 == [k EXCEPT !.armed = a, !.state[otp] = newstate, !.ticks[otp] = Quantum]
<1>2. k1 \in KernelType
  <2>1. k1.state \in [Threads -> States] /\ k1.ticks \in [Threads -> 0 .. Quantum] /\ k1.armed = a
    BY <1>0, <1>1 DEF KernelType
  <2>2. k1 = [k EXCEPT !.armed = a, !.state = k1.state, !.ticks = k1.ticks]
    BY <1>0 DEF KernelType
  <2> HIDE DEF k1
  <2> QED BY <1>0, <1>1, <2>1, <2>2 DEF KernelType
<1>3. /\ k1.ready = k.ready /\ k1.current = k.current /\ k1.prio = k.prio
      /\ k1.armed = a /\ k1.isr = k.isr /\ k1.firing = k.firing
      /\ k1.state = [k.state EXCEPT ![otp] = newstate]
  BY <1>0 DEF KernelType
<1>4. k1.state[otp] = newstate /\ \A u \in Threads \ {otp} : k1.state[u] = k.state[u]
  BY <1>0, <1>3 DEF KernelType
<1> HIDE DEF k1
<1>5. KInvX(k1, {otp})
  BY <1>1, <1>2, <1>3, <1>4, TransitStart
<1>6. k1.ready[c] # <<>> /\ k1.firing[c] = NoThread
  BY <1>0, <1>3, <1>5, ReadyNotEmpty, InThreadFiring DEF InThread
<1>7. /\ KInvX(r, {otp}) /\ Others(k1, r, {}) /\ r.state[otp] = k1.state[otp]
      /\ \A d \in Cores : r.current[d] # otp
  <2>1. r = SwitchToFirst(k1, c)
    BY <1>1 DEF k1
  <2>2. otp = k1.current[c] /\ otp \in {otp}
    BY <1>3
  <2> HIDE DEF otp
  <2>3. KInvX(r, {otp})
    BY <1>5, <1>6, <2>1, <2>2, SwitchToFirstInv
  <2>4. Others(k1, r, {})
    BY <1>5, <1>6, <2>1, <2>2, SwitchToFirstInv
  <2>5. r.state[otp] = k1.state[otp]
    BY <1>5, <1>6, <2>1, <2>2, SwitchToFirstInv
  <2>6. \A d \in Cores : r.current[d] # otp
    BY <1>5, <1>6, <2>1, <2>2, SwitchToFirstInv
  <2> QED BY <2>3, <2>4, <2>5, <2>6
<1>8. KInv(r)
  BY <1>0, <1>4, <1>7, TransitEnd
<1>9. Others(k, r, {otp})
  BY <1>3, <1>4, <1>7 DEF Others
<1> QED BY <1>4, <1>7, <1>8, <1>9 DEF Asleep

\* chSchGoSleepS() is the same call without a timeout.
LEMMA GoSleepSInv ==
    ASSUME NEW k, KInv(k), NEW c \in Cores, InThread(k, c),
           NEW newstate \in TimedStates \ {"READY"}, NEW r, r = chSchGoSleepS(k, c, newstate)
    PROVE  KInv(r) /\ Asleep(k, r, k.current[c], newstate)
<1>1. [k EXCEPT !.armed = k.armed] = k
  BY DEF KInv, KInvX, KernelType
<1>2. r = chSchGoSleepTimeoutS(k, c, newstate, FALSE)
  BY <1>1 DEF chSchGoSleepTimeoutS
<1>3. KInv(r)
  BY <1>2, GoSleepInv
<1>4. Asleep(k, r, k.current[c], newstate)
  BY <1>2, GoSleepInv
<1> QED BY <1>3, <1>4

\* A full quantum for a thread changes nothing else.
LEMMA TicksFrame ==
    ASSUME NEW k \in KernelType, NEW t \in Threads, NEW r, r = [k EXCEPT !.ticks[t] = Quantum]
    PROVE  /\ r \in KernelType
           /\ r.ready = k.ready /\ r.current = k.current /\ r.prio = k.prio
           /\ r.state = k.state /\ r.armed = k.armed /\ r.isr = k.isr /\ r.firing = k.firing
<1>1. r \in KernelType
  <2>1. [k.ticks EXCEPT ![t] = Quantum] \in [Threads -> 0 .. Quantum]
    BY KernelAssumption DEF KernelType
  <2>2. r = [k EXCEPT !.ticks = [k.ticks EXCEPT ![t] = Quantum]]
    BY DEF KernelType
  <2> QED BY <2>1, <2>2 DEF KernelType
<1>2. /\ r.ready = k.ready /\ r.current = k.current /\ r.prio = k.prio
      /\ r.state = k.state /\ r.armed = k.armed /\ r.isr = k.isr /\ r.firing = k.firing
  BY DEF KernelType
<1> QED BY <1>1, <1>2

\* The running thread is exchanged with the first ready one and put back in
\* the ready list, behind or ahead of its peers.
LEMMA ExchangeInv ==
    ASSUME NEW k, KInv(k), NEW c \in Cores, k.ready[c] # <<>>, k.firing[c] = NoThread,
           NEW k1, NEW k2 \in KernelType, k1 = SwitchToFirst(k, c),
           k2.ready = k1.ready, k2.current = k1.current, k2.prio = k1.prio,
           k2.state = k1.state, k2.armed = k1.armed, k2.isr = k1.isr, k2.firing = k1.firing,
           NEW r, \/ r = sch_ready_behind(k2, k.current[c])
                  \/ r = sch_ready_ahead(k2, k.current[c])
    PROVE  KInv(r) /\ Others(k, r, {})
<1>0. PICK otp : otp = k.current[c]
  OBVIOUS
<1>1. k \in KernelType /\ otp \in Threads /\ k.state[otp] = "CURRENT" /\ otp \in {otp}
  BY <1>0 DEF KInv, KInvX, KernelType
<1>2. KInvX(k, {otp})
  BY <1>0, <1>1, TransitStart
<1>3. KInvX(k1, {otp})
  BY <1>0, <1>1, <1>2, SwitchToFirstInv
<1>4. Others(k, k1, {}) /\ \A d \in Cores : k1.current[d] # otp
  <2>1. Others(k, k1, {})
    BY <1>0, <1>1, <1>2, SwitchToFirstInv
  <2>2. \A d \in Cores : k1.current[d] # otp
    BY <1>0, <1>1, <1>2, SwitchToFirstInv
  <2> QED BY <2>1, <2>2
<1>5. KInvX(k2, {otp}) /\ \A d \in Cores : k2.current[d] # otp
  BY <1>3, <1>4, Frame
<1>6. r = sch_ready_behind(k2, otp) \/ r = sch_ready_ahead(k2, otp)
  BY <1>0
<1>7. KInvX(r, {otp} \ {otp}) /\ Others(k2, r, {otp}) /\ r.state[otp] = "READY"
  <2>1. KInvX(r, {otp} \ {otp})
    BY <1>1, <1>5, <1>6, ReadyInv
  <2>2. Others(k2, r, {otp})
    BY <1>1, <1>5, <1>6, ReadyInv
  <2>3. r.state[otp] = "READY"
    BY <1>1, <1>6, ReadyState
  <2> QED BY <2>1, <2>2, <2>3
<1>8. KInv(r)
  BY <1>7 DEF KInv
<1>9. Others(k, r, {})
  BY <1>1, <1>4, <1>7 DEF Others
<1> QED BY <1>8, <1>9

\* A priority above that of the running thread is not that of the header.
LEMMA FirstPrioNotEmpty ==
    ASSUME NEW k, KInv(k), NEW c \in Cores, firstprio(k, c) >= CurrPrio(k, c)
    PROVE  k.ready[c] # <<>>
BY DEF firstprio, CurrPrio, KInv, KInvX, KernelType, Prios

\* sch_reschedule_ahead() and sch_reschedule_behind().
LEMMA RescheduleInv ==
    ASSUME NEW k, KInv(k), NEW c \in Cores, k.ready[c] # <<>>, k.firing[c] = NoThread,
           NEW r, r = sch_reschedule_ahead(k, c) \/ r = sch_reschedule_behind(k, c)
    PROVE  KInv(r) /\ Others(k, r, {})
<1>0. PICK otp : otp = k.current[c] /\ otp \in Threads /\ otp \in {otp}
  BY DEF KInv, KInvX, KernelType
<1>1. PICK k1 : k1 = SwitchToFirst(k, c)
  OBVIOUS
<1>2. k1 \in KernelType
  <2>1. KInvX(k, {otp})
    BY <1>0, TransitStart DEF KInv, KInvX
  <2>2. KInvX(k1, {otp})
    BY <1>0, <1>1, <2>1, SwitchToFirstInv
  <2> QED BY <2>2 DEF KInvX
<1>3. CASE r = sch_reschedule_ahead(k, c)
  <2>1. r = sch_ready_ahead(k1, k.current[c])
    BY <1>1, <1>3 DEF sch_reschedule_ahead
  <2> QED BY <1>1, <1>2, <2>1, ExchangeInv
<1>4. CASE r = sch_reschedule_behind(k, c)
  <2>1. PICK k2 : k2 = [k1 EXCEPT !.ticks[otp] = Quantum]
    OBVIOUS
  <2>2. /\ k2 \in KernelType
        /\ k2.ready = k1.ready /\ k2.current = k1.current /\ k2.prio = k1.prio
        /\ k2.state = k1.state /\ k2.armed = k1.armed /\ k2.isr = k1.isr /\ k2.firing = k1.firing
    BY <1>0, <1>2, <2>1, TicksFrame
  <2>3. r = sch_ready_behind(k2, k.current[c])
    BY <1>0, <1>1, <1>4, <2>1 DEF sch_reschedule_behind
  <2> QED BY <1>1, <2>2, <2>3, ExchangeInv
<1> QED BY <1>3, <1>4

\* chSchRescheduleS(), called by a thread.
LEMMA RescheduleSInv ==
    ASSUME NEW k, KInv(k), NEW c \in Cores, k.firing[c] = NoThread,
           NEW r, r = chSchRescheduleS(k, c)
    PROVE  KInv(r) /\ Others(k, r, {})
<1>1. CASE firstprio(k, c) > CurrPrio(k, c)
  <2>1. firstprio(k, c) >= CurrPrio(k, c)
    BY <1>1 DEF firstprio, CurrPrio, KInv, KInvX, KernelType, Prios
  <2>2. k.ready[c] # <<>> /\ r = sch_reschedule_ahead(k, c)
    BY <1>1, <2>1, FirstPrioNotEmpty DEF chSchRescheduleS
  <2> QED BY <2>2, RescheduleInv
<1>2. CASE ~ (firstprio(k, c) > CurrPrio(k, c))
  BY <1>2 DEF chSchRescheduleS, Others
<1> QED BY <1>1, <1>2

\* chSchDoPreemption(), on the way out of the last interrupt handler.
LEMMA PreemptionInv ==
    ASSUME NEW k, KInv(k), NEW c \in Cores, k.ready[c] # <<>>, k.firing[c] = NoThread,
           NEW r, r = chSchDoPreemption(k, c)
    PROVE  KInv(r) /\ Others(k, r, {})
<1>0. PICK otp : otp = k.current[c] /\ otp \in Threads
  BY DEF KInv, KInvX, KernelType
<1>1. PICK r1 : /\ r1 = sch_ready_behind(SwitchToFirst(k, c), otp) \/ r1 = sch_reschedule_ahead(k, c)
                /\ r = r1 \/ r = [r1 EXCEPT !.ticks[otp] = Quantum]
  BY <1>0 DEF chSchDoPreemption, sch_reschedule_ahead
<1>2. KInv(r1) /\ Others(k, r1, {})
  <2>1. CASE r1 = sch_reschedule_ahead(k, c)
    BY <2>1, RescheduleInv
  <2>2. CASE r1 = sch_ready_behind(SwitchToFirst(k, c), otp)
    <3>1. PICK k1 : k1 = SwitchToFirst(k, c)
      OBVIOUS
    <3>2. k1 \in KernelType
      <4>1. KInvX(k, {otp}) /\ otp \in {otp}
        BY <1>0, TransitStart DEF KInv, KInvX
      <4>2. KInvX(k1, {otp})
        BY <1>0, <3>1, <4>1, SwitchToFirstInv
      <4> QED BY <4>2 DEF KInvX
    <3>3. r1 = sch_ready_behind(k1, k.current[c])
      BY <1>0, <2>2, <3>1
    <3> QED BY <3>1, <3>2, <3>3, ExchangeInv
  <2> QED BY <1>1, <2>1, <2>2
<1>3. CASE r = [r1 EXCEPT !.ticks[otp] = Quantum]
  <2>1. r1 \in KernelType
    BY <1>2 DEF KInv, KInvX
  <2>2. /\ r \in KernelType
        /\ r.ready = r1.ready /\ r.current = r1.current /\ r.prio = r1.prio
        /\ r.state = r1.state /\ r.armed = r1.armed /\ r.isr = r1.isr /\ r.firing = r1.firing
    BY <1>0, <1>3, <2>1, TicksFrame
  <2>3. KInv(r)
    BY <1>2, <2>2, Frame DEF KInv
  <2> QED BY <1>2, <2>2, <2>3 DEF Others
<1> QED BY <1>1, <1>2, <1>3

\* The entry of an interrupt handler, and of the reschedule interrupt.
LEMMA EnterIsrInv ==
    ASSUME NEW k, KInv(k), NEW c \in Cores, NEW r, r = EnterIsr(k, c) \/ r = NotifyIrq(k, c)
    PROVE  KInv(r) /\ Others(k, r, {}) /\ r.state = k.state
<1>0. k \in KernelType
  BY DEF KInv, KInvX
<1>1. PICK n : /\ n \in SUBSET Cores
               /\ r = [k EXCEPT !.isr = k.isr \union {c}, !.notified = n]
  <2>1. CASE r = EnterIsr(k, c)
    <3>1. r = [k EXCEPT !.isr = k.isr \union {c}, !.notified = k.notified]
      BY <1>0, <2>1 DEF EnterIsr, KernelType
    <3>2. k.notified \in SUBSET Cores
      BY <1>0 DEF KernelType
    <3> QED BY <3>1, <3>2
  <2>2. CASE r = NotifyIrq(k, c)
    <3>1. r = [k EXCEPT !.isr = k.isr \union {c}, !.notified = k.notified \ {c}]
      BY <1>0, <2>2 DEF EnterIsr, NotifyIrq, KernelType
    <3>2. k.notified \ {c} \in SUBSET Cores
      BY <1>0 DEF KernelType
    <3> QED BY <3>1, <3>2
  <2> QED BY <2>1, <2>2
<1>2. /\ r.ready = k.ready /\ r.current = k.current /\ r.prio = k.prio /\ r.state = k.state
      /\ r.armed = k.armed /\ r.firing = k.firing /\ r.isr = k.isr \union {c}
  BY <1>0, <1>1 DEF KernelType
<1>3. r \in KernelType
  BY <1>0, <1>1 DEF KernelType
<1>4. KInv(r)
  BY <1>2, <1>3, Frame DEF KInv
<1> QED BY <1>2, <1>4 DEF Others

\* chVTDoTickI() unlinks the timer of t and will call its callback.
LEMMA TimerDueInv ==
    ASSUME NEW k, KInv(k), NEW c \in Cores, NEW t \in Threads, TimerDueEnabled(k, c, t),
           NEW r, r = TimerDue(k, c, t)
    PROVE  KInv(r) /\ Others(k, r, {})
<1>0. k \in KernelType /\ t \in k.armed /\ Owner[t] = c
  BY DEF KInv, KInvX, TimerDueEnabled
<1>1. r = [k EXCEPT !.isr = k.isr \union {c}, !.armed = k.armed \ {t},
                    !.firing = [k.firing EXCEPT ![c] = t]]
  BY <1>0 DEF TimerDue, EnterIsr, KernelType
<1>2. /\ r.ready = k.ready /\ r.current = k.current /\ r.prio = k.prio /\ r.state = k.state
      /\ r.armed = k.armed \ {t} /\ r.firing = [k.firing EXCEPT ![c] = t]
      /\ r.isr = k.isr \union {c}
  BY <1>0, <1>1 DEF KernelType
<1>3. r \in KernelType
  <2>1. [k.firing EXCEPT ![c] = t] \in [Cores -> Threads \union {NoThread}]
    BY <1>0 DEF KernelType
  <2>2. k.isr \union {c} \in SUBSET Cores /\ k.armed \ {t} \in SUBSET Threads
    BY <1>0 DEF KernelType
  <2> QED BY <1>0, <1>1, <2>1, <2>2 DEF KernelType
<1>4. \A u \in r.armed \ {} : r.state[u] \in TimedStates
  BY <1>2 DEF KInv, KInvX
<1>5. ASSUME NEW d \in Cores, r.firing[d] # NoThread
      PROVE  Owner[r.firing[d]] = d /\ d \in r.isr /\ r.state[r.firing[d]] \in TimedStates
  BY <1>0, <1>2, <1>5 DEF KInv, KInvX, KernelType
<1>6. KInv(r)
  <2>1. \A d \in Cores :
           /\ NoDuplicates(r.ready[d]) /\ SortedByPrio(r.ready[d], r.prio)
           /\ ToSet(r.ready[d]) = {u \in Threads \ {} : r.state[u] = "READY" /\ Owner[u] = d}
    BY <1>2 DEF KInv, KInvX
  <2> QED BY <1>2, <1>3, <1>4, <1>5, <2>1 DEF KInv, KInvX
<1> QED BY <1>2, <1>6 DEF Others

\* The last handler of a core returns, through the preemption check.
LEMMA IsrExitInv ==
    ASSUME NEW k, KInv(k), NEW c \in Cores, IsrExitEnabled(k, c), NEW r, r = IsrExit(k, c)
    PROVE  KInv(r) /\ Others(k, r, {})
<1>0. k \in KernelType /\ k.firing[c] = NoThread
  BY DEF KInv, KInvX, IsrExitEnabled
<1>1. PICK k1 : k1 = [k EXCEPT !.isr = @ \ {c}]
  OBVIOUS
<1>2. /\ k1.ready = k.ready /\ k1.current = k.current /\ k1.prio = k.prio /\ k1.state = k.state
      /\ k1.armed = k.armed /\ k1.firing = k.firing /\ k1.isr = k.isr \ {c}
  BY <1>0, <1>1 DEF KernelType
<1>3. k1 \in KernelType
  <2>1. k.isr \ {c} \in SUBSET Cores
    BY <1>0 DEF KernelType
  <2> QED BY <1>0, <1>1, <2>1 DEF KernelType
<1>4. KInv(k1)
  <2>1. \A d \in Cores :
           /\ NoDuplicates(k1.ready[d]) /\ SortedByPrio(k1.ready[d], k1.prio)
           /\ ToSet(k1.ready[d]) = {u \in Threads \ {} : k1.state[u] = "READY" /\ Owner[u] = d}
    BY <1>2 DEF KInv, KInvX
  <2>2. ASSUME NEW d \in Cores, k1.firing[d] # NoThread
        PROVE  /\ Owner[k1.firing[d]] = d /\ d \in k1.isr
               /\ k1.state[k1.firing[d]] \in TimedStates
    BY <1>0, <1>2, <2>2 DEF KInv, KInvX
  <2> QED BY <1>2, <1>3, <2>1, <2>2 DEF KInv, KInvX
<1>5. CASE chSchIsPreemptionRequired(k1, c)
  <2>1. firstprio(k1, c) >= CurrPrio(k1, c)
    <3>1. k1.ready[c] # <<>> => Head(k1.ready[c]) \in Threads
      BY <1>3, FifoRemoveSet DEF KernelType
    <3> QED BY <1>3, <1>5, <3>1
           DEF chSchIsPreemptionRequired, firstprio, CurrPrio, KernelType, Prios
  <2>2. k1.ready[c] # <<>> /\ k1.firing[c] = NoThread
    BY <1>0, <1>2, <1>4, <2>1, FirstPrioNotEmpty
  <2>3. r = chSchDoPreemption(k1, c)
    BY <1>1, <1>5 DEF IsrExit
  <2>4. KInv(r) /\ Others(k1, r, {})
    BY <1>4, <2>2, <2>3, PreemptionInv
  <2> QED BY <1>2, <2>4 DEF Others
<1>6. CASE ~ chSchIsPreemptionRequired(k1, c)
  <2>1. r = k1
    BY <1>1, <1>6 DEF IsrExit
  <2> QED BY <1>2, <1>4, <2>1 DEF Others
<1> QED BY <1>5, <1>6

\* The timeout callback makes the thread ready with MSG_TIMEOUT, or finds it
\* ready already.
LEMMA CallbackInv ==
    ASSUME NEW k, KInv(k), NEW c \in Cores, NEW t \in Threads,
           NEW kk, kk = [k EXCEPT !.firing[c] = NoThread],
           NEW r, r = sch_ready_behind([kk EXCEPT !.rdymsg[t] = "TIMEOUT"], t)
    PROVE  /\ KInv(kk) /\ Others(k, kk, {})
           /\ k.state[t] \notin {"READY", "CURRENT"} =>
                 KInv(r) /\ Woken(k, r, t)
<1>0. k \in KernelType /\ [k.firing EXCEPT ![c] = NoThread] \in [Cores -> Threads \union {NoThread}]
  BY DEF KInv, KInvX, KernelType
<1>1. /\ kk.ready = k.ready /\ kk.current = k.current /\ kk.prio = k.prio /\ kk.state = k.state
      /\ kk.armed = k.armed /\ kk.isr = k.isr /\ kk.firing = [k.firing EXCEPT ![c] = NoThread]
  BY <1>0 DEF KernelType
<1>2. kk \in KernelType
  BY <1>0 DEF KernelType
<1>3. KInv(kk)
  <2>1. \A d \in Cores : kk.firing[d] \in {k.firing[d], NoThread}
    BY <1>0, <1>1 DEF KernelType
  <2> QED BY <1>1, <1>2, <2>1, Frame DEF KInv
<1>4. PICK k1 : k1 = [kk EXCEPT !.rdymsg[t] = "TIMEOUT"]
  OBVIOUS
<1>5. k1 \in KernelType
  BY <1>2, <1>4, KernelAssumption DEF KernelType
<1>6. /\ k1.ready = kk.ready /\ k1.current = kk.current /\ k1.prio = kk.prio /\ k1.state = kk.state
      /\ k1.armed = kk.armed /\ k1.isr = kk.isr /\ k1.firing = kk.firing
  BY <1>2, <1>4 DEF KernelType
<1>7. KInv(k1)
  BY <1>3, <1>5, <1>6, Frame DEF KInv
<1>8. ASSUME k.state[t] \notin {"READY", "CURRENT"}
      PROVE  KInv(r) /\ Woken(k, r, t)
  <2>1. KInvX(k1, {t}) /\ \A d \in Cores : k1.current[d] # t
    BY <1>1, <1>6, <1>7, <1>8, WaiterInTransit
  <2>2. r = sch_ready_behind(k1, t)
    BY <1>4
  <2>3. KInvX(r, {t} \ {t})
    BY <2>1, <2>2, ReadyInv
  <2>4. Others(k1, r, {t})
    BY <2>1, <2>2, ReadyInv
  <2>5. r.state[t] = "READY"
    BY <1>5, <2>2, ReadyState
  <2> QED BY <1>1, <1>6, <2>3, <2>4, <2>5 DEF KInv, Others, Woken
<1> QED BY <1>1, <1>3, <1>8 DEF Others

\* The kernel as the main thread leaves it.
LEMMA KernelInitInv ==
    ASSUME NEW prio \in [Threads -> Prios]
    PROVE  KInv(KernelInit(prio))
<1> DEFINE k == KernelInit(prio)
<1> USE KernelAssumption
<1>1. k \in KernelType
  <2>1. /\ k.current \in [Cores -> Threads] /\ k.ready \in [Cores -> Seq(Threads)]
        /\ k.state \in [Threads -> States]
    BY DEF KernelInit, States
  <2>2. k.ticks \in [Threads -> 0 .. Quantum] /\ k.rdymsg \in [Threads -> Messages]
    BY DEF KernelInit
  <2> QED BY <2>1, <2>2 DEF KernelInit, KernelType
<1>2. \A c \in Cores : k.ready[c] = <<>> /\ k.firing[c] = NoThread /\ k.current[c] = Idle[c]
  BY DEF KernelInit
<1>3. \A t \in Threads : k.state[t] = IF t \in UserThreads THEN "WTSTART" ELSE "CURRENT"
  BY DEF KernelInit
<1>4. k.armed = {}
  BY DEF KernelInit
<1> HIDE DEF k
<1>5. \A c \in Cores : /\ NoDuplicates(k.ready[c]) /\ SortedByPrio(k.ready[c], k.prio)
                       /\ ToSet(k.ready[c]) = {}
  BY <1>2 DEF NoDuplicates, SortedByPrio, IsSorted, ToSet
<1>6. \A t \in Threads : k.state[t] # "READY"
  BY <1>3
<1>7. \A t \in Threads \ {} : k.state[t] = "CURRENT" => k.current[Owner[t]] = t
  BY <1>2, <1>3 DEF UserThreads
<1>8. \A c \in Cores : k.state[Idle[c]] = "CURRENT" /\ Owner[Idle[c]] = c
  BY <1>3 DEF UserThreads
<1>9. KInvX(k, {})
  BY <1>1, <1>2, <1>4, <1>5, <1>6, <1>7, <1>8 DEF KInvX
<1> QED BY <1>9 DEF KInv, k

\* chSchWakeupS() switches directly to the woken thread: t, in no list, runs
\* and the thread that was running is in transit.
LEMMA DirectSwitchInv ==
    ASSUME NEW k, KInv(k), NEW c \in Cores, NEW t \in Threads, Owner[t] = c,
           k.state[t] \notin {"READY", "CURRENT"}, k.firing[c] = NoThread,
           NEW otp, otp = k.current[c],
           NEW r \in KernelType, Switched(k, r, c, t, k.ready[c])
    PROVE  /\ KInvX(r, {otp}) /\ Others(k, r, {t}) /\ otp # t
           /\ r.state[otp] = "CURRENT" /\ r.state[t] = "CURRENT"
           /\ \A d \in Cores : r.current[d] # otp
<1> USE DEF Switched
<1>1. k \in KernelType /\ otp \in Threads /\ k.state[otp] = "CURRENT" /\ Owner[otp] = c /\ otp # t
  BY DEF KInv, KInvX, KernelType
<1>0. r.ready = k.ready
  BY <1>1 DEF KernelType
<1>2. ASSUME NEW d \in Cores
      PROVE  /\ NoDuplicates(r.ready[d]) /\ SortedByPrio(r.ready[d], r.prio)
             /\ ToSet(r.ready[d]) = {u \in Threads \ {otp} : r.state[u] = "READY" /\ Owner[u] = d}
  <2>1. \A u \in Threads : (u \notin {otp} /\ r.state[u] = "READY") <=> (k.state[u] = "READY")
    BY <1>1 DEF KernelType
  <2>2. ToSet(r.ready[d]) = {u \in Threads \ {} : k.state[u] = "READY" /\ Owner[u] = d}
    BY <1>0 DEF KInv, KInvX
  <2>3. ToSet(r.ready[d]) = {u \in Threads \ {otp} : r.state[u] = "READY" /\ Owner[u] = d}
    BY <2>1, <2>2
  <2> QED BY <1>0, <2>3 DEF KInv, KInvX
<1>3. \A d \in Cores : /\ Owner[r.current[d]] = d
                       /\ r.current[d] \notin {otp} => r.state[r.current[d]] = "CURRENT"
  BY <1>1 DEF KInv, KInvX, KernelType
<1>4. ASSUME NEW u \in Threads \ {otp}, r.state[u] = "CURRENT"
      PROVE  r.current[Owner[u]] = u
  <2>1. CASE u = t
    BY <1>1, <2>1 DEF KernelType
  <2>2. CASE u # t
    <3>1. k.state[u] = "CURRENT" /\ k.current[Owner[u]] = u /\ Owner[u] \in Cores
      BY <1>1, <1>4, <2>2, KernelAssumption DEF KInv, KInvX, KernelType
    <3> QED BY <1>1, <3>1 DEF KernelType
  <2> QED BY <2>1, <2>2
<1>5. \A d \in Cores : Idle[d] \notin {otp} => r.state[Idle[d]] \in {"READY", "CURRENT"}
  BY <1>1, KernelAssumption DEF KInv, KInvX, KernelType
<1>6. \A u \in r.armed \ {otp} : r.state[u] \in TimedStates
  BY <1>1 DEF KInv, KInvX, KernelType
<1>7. ASSUME NEW d \in Cores, r.firing[d] # NoThread
      PROVE  /\ Owner[r.firing[d]] = d /\ d \in r.isr
             /\ r.firing[d] \notin {otp} => r.state[r.firing[d]] \in TimedStates
  <2>1. /\ k.firing[d] # NoThread /\ Owner[k.firing[d]] = d /\ d \in k.isr /\ d # c
        /\ k.firing[d] \in Threads /\ k.firing[d] # t
        /\ k.state[k.firing[d]] \in TimedStates
    BY <1>1, <1>7 DEF KInv, KInvX, KernelType
  <2> QED BY <1>1, <2>1 DEF KernelType
<1>8. ASSUME NEW d \in Cores
      PROVE  r.current[d] # otp
  <2>1. Owner[k.current[d]] = d
    BY DEF KInv, KInvX
  <2> QED BY <1>1, <2>1 DEF KernelType
<1>9. Others(k, r, {t}) /\ r.state[otp] = "CURRENT" /\ r.state[t] = "CURRENT"
  BY <1>1 DEF Others, KernelType
<1> QED BY <1>1, <1>2, <1>3, <1>4, <1>5, <1>6, <1>7, <1>8, <1>9 DEF KInvX

\* chSchWakeupS(), called by a thread of core c for a waiting thread.
LEMMA WakeupSInv ==
    ASSUME NEW k, KInv(k), NEW c \in Cores, NEW t \in Threads, NEW msg \in Messages,
           k.state[t] \notin {"READY", "CURRENT"}, k.firing[c] = NoThread,
           NEW r, r = chSchWakeupS(k, c, t, msg)
    PROVE  KInv(r) /\ Woken(k, r, t)
<1>0. k \in KernelType
  BY DEF KInv, KInvX
<1>1. PICK k1 : k1 = [k EXCEPT !.rdymsg[t] = msg]
  OBVIOUS
<1>2. /\ k1.ready = k.ready /\ k1.current = k.current /\ k1.prio = k.prio /\ k1.state = k.state
      /\ k1.armed = k.armed /\ k1.isr = k.isr /\ k1.firing = k.firing
  BY <1>0, <1>1 DEF KernelType
<1>3. k1 \in KernelType
  BY <1>0, <1>1 DEF KernelType
<1>4. KInv(k1)
  BY <1>2, <1>3, Frame DEF KInv
<1>5. CASE r = ReadyWithMsg(k, c, t, msg)
  BY <1>5, ReadyWithMsgInv
<1>6. CASE Owner[t] = c /\ r = SwitchIn(sch_ready_ahead(k1, k1.current[c]), c, t)
  <2>0. PICK otp : otp = k1.current[c] /\ otp \in Threads /\ otp # t /\ Owner[otp] = c
                   /\ otp \in {otp}
    BY <1>2, <1>4 DEF KInv, KInvX, KernelType
  <2>1. PICK k2 : k2 = SwitchIn(k1, c, t)
    OBVIOUS
  <2>2. Switched(k1, k2, c, t, k1.ready[c])
    BY <1>3, <2>1 DEF Switched, SwitchIn, KernelType
  <2>3. k2 \in KernelType
    <3>1. /\ [k1.current EXCEPT ![c] = t] \in [Cores -> Threads]
          /\ [k1.state EXCEPT ![t] = "CURRENT"] \in [Threads -> States]
          /\ k1.armed \ {t} \in SUBSET Threads
      BY <1>3 DEF KernelType, States
    <3>2. k2 = [k1 EXCEPT !.current = [k1.current EXCEPT ![c] = t],
                          !.state = [k1.state EXCEPT ![t] = "CURRENT"], !.armed = k1.armed \ {t}]
      BY <1>3, <2>1 DEF SwitchIn, KernelType
    <3> QED BY <1>3, <3>1, <3>2 DEF KernelType
  <2>4. k1.state[t] \notin {"READY", "CURRENT"} /\ k1.firing[c] = NoThread
    BY <1>2
  <2>5. KInvX(k2, {otp})
    BY <1>4, <1>6, <2>0, <2>2, <2>3, <2>4, DirectSwitchInv
  <2>6. Others(k1, k2, {t}) /\ k2.state[otp] = "CURRENT" /\ k2.state[t] = "CURRENT"
    <3>1. Others(k1, k2, {t})
      BY <1>4, <1>6, <2>0, <2>2, <2>3, <2>4, DirectSwitchInv
    <3>2. k2.state[otp] = "CURRENT" /\ k2.state[t] = "CURRENT"
      BY <1>3, <1>4, <2>0, <2>2 DEF Switched, KInv, KInvX, KernelType
    <3> QED BY <3>1, <3>2
  <2>7. \A d \in Cores : k2.current[d] # otp
    <3>1. k2.current[c] = t /\ \A d \in Cores : Owner[k2.current[d]] = d
      BY <1>3, <2>2, <2>5 DEF Switched, KInvX, KernelType
    <3> QED BY <2>0, <3>1
  <2>8. r = sch_ready_ahead(k2, otp)
    <3>1. PICK q : q = ch_pqueue_insert_ahead(k1.ready[c], otp, k1.prio)
      OBVIOUS
    <3>2. r = SwitchIn([k1 EXCEPT !.state[otp] = "READY", !.ready[c] = q], c, t)
      BY <1>3, <1>6, <2>0, <3>1 DEF sch_ready_ahead, KernelType
    <3>3. sch_ready_ahead(k2, otp) = [k2 EXCEPT !.state[otp] = "READY", !.ready[c] = q]
      BY <1>3, <2>0, <2>1, <3>1 DEF sch_ready_ahead, SwitchIn, KernelType
    <3>4. PICK f : /\ f = [[k1.state EXCEPT ![otp] = "READY"] EXCEPT ![t] = "CURRENT"]
                   /\ f = [[k1.state EXCEPT ![t] = "CURRENT"] EXCEPT ![otp] = "READY"]
      BY <1>3, <2>0 DEF KernelType
    <3>5. r = [k1 EXCEPT !.state = f, !.ready[c] = q, !.current[c] = t, !.armed = @ \ {t}]
      BY <1>3, <3>2, <3>4 DEF SwitchIn, KernelType
    <3>6. [k2 EXCEPT !.state[otp] = "READY", !.ready[c] = q]
          = [k1 EXCEPT !.state = f, !.ready[c] = q, !.current[c] = t, !.armed = @ \ {t}]
      BY <1>3, <2>1, <3>4 DEF SwitchIn, KernelType
    <3> QED BY <3>3, <3>5, <3>6
  <2>9. KInvX(r, {otp} \ {otp})
    BY <2>0, <2>5, <2>7, <2>8, ReadyInv
  <2>10. Others(k2, r, {otp})
    BY <2>0, <2>5, <2>7, <2>8, ReadyInv
  <2>11. r.state[otp] = "READY"
    BY <2>0, <2>3, <2>8, ReadyState
  <2> QED BY <1>2, <1>3, <2>0, <2>6, <2>9, <2>10, <2>11 DEF KInv, Others, Woken
<1>7. r = ReadyWithMsg(k, c, t, msg)
      \/ (Owner[t] = c /\ r = SwitchIn(sch_ready_ahead(k1, k1.current[c]), c, t))
  <2>1. Owner[t] = c => chSysNotifyInstance(k1, c, t) = k1
    BY <1>3 DEF chSysNotifyInstance, KernelType
  <2> QED BY <1>1, <2>1 DEF chSchWakeupS, ReadyWithMsg, chSchReadyI
<1> QED BY <1>5, <1>6, <1>7

-----------------------------------------------------------------------------
(* The priority order, the wakeup messages and the pending timeouts          *)

\* No ready thread of c is more important than the thread c runs.
Ordered(k, c) ==
    \A t \in Threads :
        (k.state[t] = "READY" /\ Owner[t] = c) => k.prio[t] <= k.prio[k.current[c]]

\* The cores whose order is not to be restored by an interrupt that is being
\* handled or is pending, nor by the caller if they are in X, are in order.
OrderedBut(k, X) == \A c \in Cores \ (k.isr \union k.notified \union X) : Ordered(k, c)

\* The threads whose timeout has neither been cancelled nor served.
Pending(k) == {t \in Threads : t \in k.armed \/ \E c \in Cores : k.firing[c] = t}

\* What a switch leaves alone; it may cancel timeouts.
Rest(k, r) ==
    /\ r.prio = k.prio /\ r.rdymsg = k.rdymsg
    /\ r.isr = k.isr /\ r.notified = k.notified /\ r.firing = k.firing
    /\ r.armed \subseteq k.armed

\* The head of a ready list is one of the most important threads in it.
LEMMA FirstIsMax ==
    ASSUME NEW k, NEW X, KInvX(k, X), NEW c \in Cores, k.ready[c] # <<>>,
           NEW h, h = Head(k.ready[c])
    PROVE  /\ h \in Threads \ X /\ k.state[h] = "READY" /\ Owner[h] = c
           /\ \A t \in Threads \ X :
                 (k.state[t] = "READY" /\ Owner[t] = c) => k.prio[t] <= k.prio[h]
<1>1. k \in KernelType /\ k.ready[c] \in Seq(Threads) /\ k.prio \in [Threads -> Nat]
  BY DEF KInvX, KernelType, Prios
<1>2. /\ NoDuplicates(k.ready[c]) /\ SortedByPrio(k.ready[c], k.prio)
      /\ ToSet(k.ready[c]) = {u \in Threads \ X : k.state[u] = "READY" /\ Owner[u] = c}
  BY DEF KInvX
<1>3. h \in ToSet(k.ready[c])
  BY <1>1, <1>2, FifoRemoveSet
<1>4. h = k.ready[c][1] /\ 1 \in 1 .. Len(k.ready[c])
  BY <1>1, EmptySeq, HeadTailProperties, LenProperties
<1>5. ASSUME NEW t \in ToSet(k.ready[c])
      PROVE  k.prio[t] <= k.prio[h]
  <2>1. PICK i \in 1 .. Len(k.ready[c]) : t = k.ready[c][i]
    BY <1>1, <1>5 DEF ToSet
  <2>2. CASE i = 1
    BY <1>1, <1>2, <1>4, <2>1, <2>2
  <2>3. CASE 1 < i
    BY <1>1, <1>2, <1>4, <2>1, <2>3 DEF SortedByPrio, IsSorted
  <2> QED BY <1>1, <2>1, <2>2, <2>3, LenProperties
<1> QED BY <1>2, <1>3, <1>5

\* Under the kernel invariant this is the assertion of chSysUnlock().
LEMMA OrderedIff ==
    ASSUME NEW k, KInv(k), NEW c \in Cores
    PROVE  Ordered(k, c) <=> PriorityOrder(k, c)
<1>1. k \in KernelType /\ k.current[c] \in Threads /\ k.prio \in [Threads -> Nat]
  BY DEF KInv, KInvX, KernelType, Prios
<1>2. CASE k.ready[c] = <<>>
  <2>1. ToSet(k.ready[c]) = {}
    BY <1>2 DEF ToSet
  <2>2. Ordered(k, c)
    BY <2>1 DEF Ordered, KInv, KInvX
  <2>3. firstprio(k, c) = 0
    BY <1>2 DEF firstprio
  <2> QED BY <1>1, <2>2, <2>3 DEF PriorityOrder, CurrPrio
<1>3. CASE k.ready[c] # <<>>
  <2>1. PICK h : h = Head(k.ready[c])
    OBVIOUS
  <2>2. /\ h \in Threads /\ k.state[h] = "READY" /\ Owner[h] = c
        /\ \A t \in Threads : (k.state[t] = "READY" /\ Owner[t] = c) => k.prio[t] <= k.prio[h]
    <3>1. KInvX(k, {})
      BY DEF KInv
    <3>2. h \in Threads \ {} /\ k.state[h] = "READY" /\ Owner[h] = c
      BY <1>3, <2>1, <3>1, FirstIsMax
    <3>3. \A t \in Threads \ {} : (k.state[t] = "READY" /\ Owner[t] = c) => k.prio[t] <= k.prio[h]
      BY <1>3, <2>1, <3>1, FirstIsMax
    <3> QED BY <3>2, <3>3
  <2>3. firstprio(k, c) = k.prio[h]
    BY <1>3, <2>1 DEF firstprio
  <2> QED BY <1>1, <2>2, <2>3 DEF PriorityOrder, CurrPrio, Ordered
<1> QED BY <1>2, <1>3

\* sch_ready_behind() and sch_ready_ahead(), the ready lists aside.
Readied(k, r, t) ==
    /\ r.state = [k.state EXCEPT ![t] = "READY"] /\ r.current = k.current
    /\ r.ticks = k.ticks /\ r.armed = k.armed /\ Rest(k, r)

LEMMA ReadyEffect ==
    ASSUME NEW k \in KernelType, NEW t \in Threads,
           NEW r, r = sch_ready_behind(k, t) \/ r = sch_ready_ahead(k, t)
    PROVE  Readied(k, r, t)
<1>1. PICK q : r = [k EXCEPT !.state[t] = "READY", !.ready[Owner[t]] = q]
  BY DEF sch_ready_behind, sch_ready_ahead
<1> QED BY <1>1 DEF KernelType, Rest, Readied

\* The switch to the first ready thread h, the ready lists aside.
FirstRuns(k, r, c, h) ==
    /\ r.state = [k.state EXCEPT ![h] = "CURRENT"]
    /\ r.current = [k.current EXCEPT ![c] = h]
    /\ r.ticks = k.ticks /\ r.armed = k.armed \ {h} /\ Rest(k, r)

LEMMA SwitchEffect ==
    ASSUME NEW k \in KernelType, NEW c \in Cores, NEW h, h = Head(k.ready[c]),
           NEW r, r = SwitchToFirst(k, c)
    PROVE  FirstRuns(k, r, c, h)
<1>1. PICK q : q = Tail(k.ready[c])
  OBVIOUS
<1>2. r = [k EXCEPT !.current[c] = h, !.state[h] = "CURRENT", !.armed = @ \ {h}, !.ready[c] = q]
  BY <1>1 DEF SwitchToFirst, SwitchIn, KernelType
<1> QED BY <1>2 DEF KernelType, Rest, FirstRuns

\* tp->u.rdymsg = msg; chSchReadyI(tp), the ready lists aside.
MadeReady(k, r, c, t, msg) ==
    /\ r.state = [k.state EXCEPT ![t] = "READY"] /\ r.current = k.current
    /\ r.rdymsg = [k.rdymsg EXCEPT ![t] = msg]
    /\ r.prio = k.prio /\ r.ticks = k.ticks /\ r.armed = k.armed
    /\ r.isr = k.isr /\ r.firing = k.firing
    /\ r.notified = IF Owner[t] = c THEN k.notified ELSE k.notified \union {Owner[t]}

LEMMA ReadyWithMsgEffect ==
    ASSUME NEW k \in KernelType, NEW c \in Cores, NEW t \in Threads, NEW msg,
           NEW r, r = ReadyWithMsg(k, c, t, msg)
    PROVE  MadeReady(k, r, c, t, msg)
<1>1. PICK n : n = IF Owner[t] = c THEN k.notified ELSE k.notified \union {Owner[t]}
  OBVIOUS
<1>2. chSysNotifyInstance([k EXCEPT !.rdymsg[t] = msg], c, t)
         = [k EXCEPT !.rdymsg[t] = msg, !.notified = n]
  BY <1>1 DEF chSysNotifyInstance, KernelType
<1>3. PICK k1 : k1 = [k EXCEPT !.rdymsg[t] = msg, !.notified = n]
  OBVIOUS
<1>4. PICK q : r = [k1 EXCEPT !.state[t] = "READY", !.ready[Owner[t]] = q]
  BY <1>2, <1>3 DEF ReadyWithMsg, chSchReadyI, sch_ready_behind
<1>5. r = [k EXCEPT !.rdymsg[t] = msg, !.notified = n, !.state[t] = "READY",
                    !.ready[Owner[t]] = q]
  BY <1>3, <1>4 DEF KernelType
<1> QED BY <1>1, <1>5 DEF KernelType, MadeReady

\* A thread made ready may disturb the order of the core that did it; that
\* of another core is restored by the reschedule interrupt it is sent.
LEMMA ReadyWithMsgOrder ==
    ASSUME NEW k, KInv(k), NEW c \in Cores, NEW t \in Threads, NEW msg,
           k.state[t] \notin {"READY", "CURRENT"}, NEW X, OrderedBut(k, X),
           NEW r, r = ReadyWithMsg(k, c, t, msg)
    PROVE  OrderedBut(r, X \union {c}) /\ (Owner[t] # c => OrderedBut(r, X))
<1>1. k \in KernelType /\ Owner[t] \in Cores /\ k.state \in [Threads -> States]
  BY KernelAssumption DEF KInv, KInvX, KernelType
<1>2. /\ r.state = [k.state EXCEPT ![t] = "READY"] /\ r.current = k.current
      /\ r.prio = k.prio /\ r.isr = k.isr
      /\ r.notified = IF Owner[t] = c THEN k.notified ELSE k.notified \union {Owner[t]}
  <2>1. MadeReady(k, r, c, t, msg)
    BY <1>1, ReadyWithMsgEffect
  <2> QED BY <2>1 DEF MadeReady
<1>3. ASSUME NEW d \in Cores \ (r.isr \union r.notified \union X), Owner[t] # d
      PROVE  Ordered(r, d)
  <2>1. Ordered(k, d)
    BY <1>2, <1>3 DEF OrderedBut
  <2> QED BY <1>1, <1>2, <1>3, <2>1 DEF Ordered
<1>4. \A d \in Cores \ (r.isr \union r.notified \union X) : d # c => Owner[t] # d
  BY <1>1, <1>2
<1> QED BY <1>3, <1>4 DEF OrderedBut

\* The running thread of c has entered newstate, with its timer armed when
\* timed, and one of the most important ready threads h runs in its place.
SleepStep(k, r, c, newstate, timed, h) ==
    LET otp == k.current[c]
    IN  /\ h \in Threads /\ h # otp /\ k.state[h] = "READY" /\ Owner[h] = c
        /\ \A t \in Threads : (k.state[t] = "READY" /\ Owner[t] = c) => k.prio[t] <= k.prio[h]
        /\ r.state = [k.state EXCEPT ![otp] = newstate, ![h] = "CURRENT"]
        /\ r.current = [k.current EXCEPT ![c] = h]
        /\ r.prio = k.prio /\ r.rdymsg = k.rdymsg
        /\ r.isr = k.isr /\ r.notified = k.notified /\ r.firing = k.firing
        /\ r.armed = (k.armed \union (IF timed THEN {otp} ELSE {})) \ {h}

LEMMA GoSleepEffect ==
    ASSUME NEW k, KInv(k), NEW c \in Cores, InThread(k, c),
           NEW newstate \in TimedStates \ {"READY"}, NEW timed \in BOOLEAN,
           NEW r, r = chSchGoSleepTimeoutS(k, c, newstate, timed)
    PROVE  \E h : SleepStep(k, r, c, newstate, timed, h)
<1>0. PICK otp : otp = k.current[c]
  OBVIOUS
<1>1. k \in KernelType /\ otp \in UserThreads /\ otp \in Threads /\ k.state[otp] = "CURRENT"
  BY <1>0 DEF KInv, KInvX, InThread, KernelType, UserThreads
<1>2. PICK a : a = k.armed \union (IF timed THEN {otp} ELSE {})
  OBVIOUS
<1>3. PICK k1 : k1 = [k EXCEPT !.armed = a, !.state[otp] = newstate, !.ticks[otp] = Quantum]
  OBVIOUS
<1>4. r = SwitchToFirst(k1, c)
  <2>1. r = chSchGoSleepS([k EXCEPT !.armed = a], c, newstate)
    BY <1>0, <1>2 DEF chSchGoSleepTimeoutS, KernelType
  <2>2. [k EXCEPT !.armed = a].current = k.current
    BY <1>1 DEF KernelType
  <2>3. r = SwitchToFirst([[k EXCEPT !.armed = a] EXCEPT !.state[otp] = newstate,
                                                         !.ticks[otp] = Quantum], c)
    BY <1>0, <2>1, <2>2 DEF chSchGoSleepS
  <2>4. [[k EXCEPT !.armed = a] EXCEPT !.state[otp] = newstate, !.ticks[otp] = Quantum] = k1
    BY <1>1, <1>3 DEF KernelType
  <2> QED BY <2>3, <2>4
<1>5. /\ k1.state = [k.state EXCEPT ![otp] = newstate] /\ k1.armed = a
      /\ k1.ready = k.ready /\ k1.current = k.current /\ k1.prio = k.prio
      /\ k1.rdymsg = k.rdymsg /\ k1.isr = k.isr /\ k1.notified = k.notified /\ k1.firing = k.firing
  BY <1>1, <1>3 DEF KernelType
<1>6. k1 \in KernelType
  <2>1. a \in SUBSET Threads /\ [k.state EXCEPT ![otp] = newstate] \in [Threads -> States]
    BY <1>1, <1>2 DEF KernelType, TimedStates
  <2>2. [k.ticks EXCEPT ![otp] = Quantum] \in [Threads -> 0 .. Quantum]
    BY <1>1, KernelAssumption DEF KernelType
  <2>3. k1 = [k EXCEPT !.armed = a, !.state = [k.state EXCEPT ![otp] = newstate],
                       !.ticks = [k.ticks EXCEPT ![otp] = Quantum]]
    BY <1>1, <1>3 DEF KernelType
  <2> QED BY <1>1, <2>1, <2>2, <2>3 DEF KernelType
<1>7. PICK h : h = Head(k1.ready[c])
  OBVIOUS
<1>8. FirstRuns(k1, r, c, h)
  BY <1>4, <1>6, <1>7, SwitchEffect
<1>9. /\ h \in Threads /\ k.state[h] = "READY" /\ Owner[h] = c
      /\ \A t \in Threads : (k.state[t] = "READY" /\ Owner[t] = c) => k.prio[t] <= k.prio[h]
  <2>1. KInvX(k, {otp}) /\ KInvX(k, {})
    BY <1>0, <1>1, TransitStart DEF KInv
  <2>2. k.ready[c] # <<>>
    BY <1>0, <1>1, <2>1, ReadyNotEmpty
  <2>3. h = Head(k.ready[c])
    BY <1>5, <1>7
  <2>4. h \in Threads \ {} /\ k.state[h] = "READY" /\ Owner[h] = c
    BY <2>1, <2>2, <2>3, FirstIsMax
  <2>5. \A t \in Threads \ {} : (k.state[t] = "READY" /\ Owner[t] = c) => k.prio[t] <= k.prio[h]
    BY <2>1, <2>2, <2>3, FirstIsMax
  <2> QED BY <2>4, <2>5
<1>10. h # otp
  BY <1>1, <1>9
<1>11. r.state = [k.state EXCEPT ![otp] = newstate, ![h] = "CURRENT"]
  BY <1>5, <1>8 DEF FirstRuns
<1>12. r.current = [k.current EXCEPT ![c] = h] /\ r.armed = a \ {h}
  BY <1>5, <1>8 DEF FirstRuns
<1>13. /\ r.prio = k.prio /\ r.rdymsg = k.rdymsg
       /\ r.isr = k.isr /\ r.notified = k.notified /\ r.firing = k.firing
  BY <1>5, <1>8 DEF FirstRuns, Rest
<1>14. SleepStep(k, r, c, newstate, timed, h)
  BY <1>0, <1>2, <1>9, <1>10, <1>11, <1>12, <1>13 DEF SleepStep
<1> QED BY <1>14

\* Going to sleep restores the order of the core.
LEMMA SleepOrder ==
    ASSUME NEW k, KInv(k), NEW c \in Cores, NEW newstate, newstate # "READY", NEW timed, NEW h,
           NEW r, SleepStep(k, r, c, newstate, timed, h), NEW X, OrderedBut(k, X)
    PROVE  OrderedBut(r, X \ {c})
<1>1. /\ k.state \in [Threads -> States] /\ k.current \in [Cores -> Threads]
      /\ Owner \in [Threads -> Cores] /\ k.prio \in [Threads -> Nat] /\ Owner[k.current[c]] = c
  BY KernelAssumption DEF KInv, KInvX, KernelType, Prios
<1>2. ASSUME NEW d \in Cores \ (r.isr \union r.notified \union (X \ {c}))
      PROVE  Ordered(r, d)
  <2>1. CASE d = c
    <3>1. r.current[c] = h
      BY <1>1 DEF SleepStep
    <3>2. ASSUME NEW t \in Threads, r.state[t] = "READY", Owner[t] = c
          PROVE  r.prio[t] <= r.prio[h]
      BY <1>1, <3>2 DEF SleepStep
    <3> QED BY <2>1, <3>1, <3>2 DEF Ordered
  <2>2. CASE d # c
    <3>1. Ordered(k, d) /\ r.current[d] = k.current[d] /\ r.prio = k.prio
      BY <1>1, <1>2, <2>2 DEF OrderedBut, SleepStep
    <3>2. ASSUME NEW t \in Threads, r.state[t] = "READY", Owner[t] = d
          PROVE  k.state[t] = "READY"
      BY <1>1, <2>2, <3>2 DEF SleepStep
    <3> QED BY <3>1, <3>2 DEF Ordered
  <2> QED BY <2>1, <2>2
<1> QED BY <1>2 DEF OrderedBut

\* The running thread of c has changed places with one of the most important
\* ready threads.
ExchangeStep(k, r, c, h) ==
    LET otp == k.current[c]
    IN  /\ h \in Threads /\ k.state[h] = "READY" /\ Owner[h] = c
        /\ \A t \in Threads : (k.state[t] = "READY" /\ Owner[t] = c) => k.prio[t] <= k.prio[h]
        /\ r.state = [k.state EXCEPT ![h] = "CURRENT", ![otp] = "READY"]
        /\ r.current = [k.current EXCEPT ![c] = h]
        /\ Rest(k, r)

\* The same for all the forms of the exchange.
LEMMA ExchangeEffect ==
    ASSUME NEW k, KInv(k), NEW c \in Cores, k.ready[c] # <<>>, k.firing[c] = NoThread,
           NEW k1, NEW k2 \in KernelType, k1 = SwitchToFirst(k, c),
           k2.state = k1.state, k2.current = k1.current, k2.armed = k1.armed, Rest(k1, k2),
           NEW r, \/ r = sch_ready_behind(k2, k.current[c])
                  \/ r = sch_ready_ahead(k2, k.current[c])
    PROVE  \E h : ExchangeStep(k, r, c, h) /\ k.prio[h] = firstprio(k, c)
<1>0. PICK otp, h : otp = k.current[c] /\ h = Head(k.ready[c])
  OBVIOUS
<1>1. k \in KernelType /\ otp \in Threads /\ k.state[otp] = "CURRENT" /\ KInvX(k, {})
  BY <1>0 DEF KInv, KInvX, KernelType
<1>2. FirstRuns(k, k1, c, h)
  BY <1>0, <1>1, SwitchEffect
<1>3. Readied(k2, r, otp)
  BY <1>0, <1>1, ReadyEffect
<1>4. h \in Threads /\ k.state[h] = "READY" /\ Owner[h] = c
  BY <1>0, <1>1, FirstIsMax
<1>5. \A t \in Threads \ {} : (k.state[t] = "READY" /\ Owner[t] = c) => k.prio[t] <= k.prio[h]
  BY <1>0, <1>1, FirstIsMax
<1>6. r.state = [k.state EXCEPT ![h] = "CURRENT", ![otp] = "READY"]
  BY <1>2, <1>3 DEF FirstRuns, Readied
<1>7. r.current = [k.current EXCEPT ![c] = h]
  BY <1>2, <1>3 DEF FirstRuns, Readied
<1>8. Rest(k, r)
  BY <1>2, <1>3 DEF FirstRuns, Readied, Rest
<1>9. k.prio[h] = firstprio(k, c)
  BY <1>0 DEF firstprio
<1>10. ExchangeStep(k, r, c, h)
  BY <1>0, <1>4, <1>5, <1>6, <1>7, <1>8 DEF ExchangeStep
<1> QED BY <1>9, <1>10

\* An exchange with a thread that is not less important restores the order.
LEMMA ExchangeOrder ==
    ASSUME NEW k, KInv(k), NEW c \in Cores, NEW r, NEW h, ExchangeStep(k, r, c, h),
           k.prio[h] >= k.prio[k.current[c]], NEW X, OrderedBut(k, X)
    PROVE  OrderedBut(r, X \ {c})
<1>1. /\ k.state \in [Threads -> States] /\ k.current \in [Cores -> Threads]
      /\ Owner \in [Threads -> Cores] /\ k.prio \in [Threads -> Nat] /\ Owner[k.current[c]] = c
      /\ k.state[k.current[c]] = "CURRENT"
  BY KernelAssumption DEF KInv, KInvX, KernelType, Prios
<1>2. ASSUME NEW d \in Cores \ (r.isr \union r.notified \union (X \ {c}))
      PROVE  Ordered(r, d)
  <2>1. CASE d = c
    <3>1. r.current[c] = h
      BY <1>1 DEF ExchangeStep
    <3>2. ASSUME NEW t \in Threads, r.state[t] = "READY", Owner[t] = c
          PROVE  r.prio[t] <= r.prio[h]
      BY <1>1, <3>2 DEF ExchangeStep, Rest
    <3> QED BY <2>1, <3>1, <3>2 DEF Ordered
  <2>2. CASE d # c
    <3>1. Ordered(k, d) /\ r.current[d] = k.current[d] /\ r.prio = k.prio
      BY <1>1, <1>2, <2>2 DEF OrderedBut, ExchangeStep, Rest
    <3>2. ASSUME NEW t \in Threads, r.state[t] = "READY", Owner[t] = d
          PROVE  k.state[t] = "READY"
      BY <1>1, <2>2, <3>2 DEF ExchangeStep
    <3> QED BY <3>1, <3>2 DEF Ordered
  <2> QED BY <2>1, <2>2
<1> QED BY <1>2 DEF OrderedBut

\* sch_reschedule_ahead() and sch_reschedule_behind().
LEMMA RescheduleEffect ==
    ASSUME NEW k, KInv(k), NEW c \in Cores, k.ready[c] # <<>>, k.firing[c] = NoThread,
           NEW r, r = sch_reschedule_ahead(k, c) \/ r = sch_reschedule_behind(k, c)
    PROVE  \E h : ExchangeStep(k, r, c, h) /\ k.prio[h] = firstprio(k, c)
<1>0. PICK otp : otp = k.current[c] /\ otp \in Threads /\ otp \in {otp}
  BY DEF KInv, KInvX, KernelType
<1>1. PICK k1 : k1 = SwitchToFirst(k, c)
  OBVIOUS
<1>2. k1 \in KernelType
  <2>1. KInvX(k, {otp})
    BY <1>0, TransitStart DEF KInv, KInvX
  <2>2. KInvX(k1, {otp})
    BY <1>0, <1>1, <2>1, SwitchToFirstInv
  <2> QED BY <2>2 DEF KInvX
<1>3. CASE r = sch_reschedule_ahead(k, c)
  <2>1. r = sch_ready_ahead(k1, k.current[c])
    BY <1>1, <1>3 DEF sch_reschedule_ahead
  <2>2. Rest(k1, k1)
    BY DEF Rest
  <2> QED BY <1>1, <1>2, <2>1, <2>2, ExchangeEffect
<1>4. CASE r = sch_reschedule_behind(k, c)
  <2>1. PICK k2 : k2 = [k1 EXCEPT !.ticks[otp] = Quantum]
    OBVIOUS
  <2>2. k2 \in KernelType
    BY <1>0, <1>2, <2>1, TicksFrame
  <2>3. k2.state = k1.state /\ k2.current = k1.current /\ k2.armed = k1.armed /\ Rest(k1, k2)
    BY <1>2, <2>1 DEF Rest, KernelType
  <2>4. r = sch_ready_behind(k2, k.current[c])
    BY <1>0, <1>1, <1>4, <2>1 DEF sch_reschedule_behind
  <2> QED BY <1>1, <2>2, <2>3, <2>4, ExchangeEffect
<1> QED BY <1>3, <1>4

\* chSchDoPreemption().
LEMMA PreemptionEffect ==
    ASSUME NEW k, KInv(k), NEW c \in Cores, k.ready[c] # <<>>, k.firing[c] = NoThread,
           NEW r, r = chSchDoPreemption(k, c)
    PROVE  \E h : ExchangeStep(k, r, c, h) /\ k.prio[h] = firstprio(k, c)
<1>0. PICK otp : otp = k.current[c] /\ otp \in Threads /\ otp \in {otp}
  BY DEF KInv, KInvX, KernelType
<1>1. PICK k1 : k1 = SwitchToFirst(k, c)
  OBVIOUS
<1>2. k1 \in KernelType /\ Rest(k1, k1)
  <2>1. KInvX(k, {otp})
    BY <1>0, TransitStart DEF KInv, KInvX
  <2>2. KInvX(k1, {otp})
    BY <1>0, <1>1, <2>1, SwitchToFirstInv
  <2> QED BY <2>2 DEF KInvX, Rest
<1>3. PICK r1 : /\ r1 = sch_ready_behind(k1, otp) \/ r1 = sch_ready_ahead(k1, otp)
                /\ r = r1 \/ r = [r1 EXCEPT !.ticks[otp] = Quantum]
  BY <1>0, <1>1 DEF chSchDoPreemption
<1>4. \E h : ExchangeStep(k, r1, c, h) /\ k.prio[h] = firstprio(k, c)
  BY <1>0, <1>1, <1>2, <1>3, ExchangeEffect
<1>5. PICK h : ExchangeStep(k, r1, c, h) /\ k.prio[h] = firstprio(k, c)
  BY <1>4
<1>6. CASE r = [r1 EXCEPT !.ticks[otp] = Quantum]
  <2>1. r1 \in KernelType
    <3>1. k1.ready = k1.ready /\ k1.current = k1.current /\ k1.prio = k1.prio
      OBVIOUS
    <3>2. KInv(r1)
      BY <1>0, <1>1, <1>2, <1>3, ExchangeInv
    <3> QED BY <3>2 DEF KInv, KInvX
  <2>2. r.state = r1.state /\ r.current = r1.current /\ Rest(r1, r)
    BY <1>6, <2>1 DEF Rest, KernelType
  <2>3. Rest(k, r)
    BY <1>5, <2>2 DEF ExchangeStep, Rest
  <2>4. ExchangeStep(k, r, c, h)
    BY <1>5, <2>2, <2>3 DEF ExchangeStep
  <2> QED BY <1>5, <2>4
<1> QED BY <1>3, <1>5, <1>6

\* chSchRescheduleS() restores the order of its core.
LEMMA RescheduleSOrder ==
    ASSUME NEW k, KInv(k), NEW c \in Cores, k.firing[c] = NoThread, NEW X, OrderedBut(k, X),
           NEW r, r = chSchRescheduleS(k, c)
    PROVE  OrderedBut(r, X \ {c}) /\ Rest(k, r)
<1>0. k.prio \in [Threads -> Nat] /\ k.current[c] \in Threads
  BY DEF KInv, KInvX, KernelType, Prios
<1>1. CASE firstprio(k, c) > CurrPrio(k, c)
  <2>1. firstprio(k, c) >= CurrPrio(k, c)
    BY <1>1 DEF firstprio, CurrPrio, KInv, KInvX, KernelType, Prios
  <2>2. k.ready[c] # <<>> /\ r = sch_reschedule_ahead(k, c)
    BY <1>1, <2>1, FirstPrioNotEmpty DEF chSchRescheduleS
  <2>3. PICK h : ExchangeStep(k, r, c, h) /\ k.prio[h] = firstprio(k, c)
    BY <2>2, RescheduleEffect
  <2>4. k.prio[h] >= k.prio[k.current[c]]
    BY <2>1, <2>3 DEF CurrPrio
  <2>5. OrderedBut(r, X \ {c})
    BY <2>3, <2>4, ExchangeOrder
  <2> QED BY <2>3, <2>5 DEF ExchangeStep
<1>2. CASE ~ (firstprio(k, c) > CurrPrio(k, c))
  <2>1. r = k
    BY <1>2 DEF chSchRescheduleS
  <2>2. firstprio(k, c) \in Nat
    <3>1. k.ready[c] # <<>> => Head(k.ready[c]) \in Threads
      BY FifoRemoveSet DEF KInv, KInvX, KernelType
    <3> QED BY <1>0, <3>1 DEF firstprio
  <2>3. PriorityOrder(k, c)
    BY <1>0, <1>2, <2>2 DEF PriorityOrder, CurrPrio
  <2>4. Ordered(k, c)
    BY <2>3, OrderedIff
  <2> QED BY <2>1, <2>4 DEF OrderedBut, Rest
<1> QED BY <1>1, <1>2

\* The exit path of the last interrupt handler restores the order.
LEMMA IsrExitOrder ==
    ASSUME NEW k, KInv(k), NEW c \in Cores, IsrExitEnabled(k, c), NEW X, OrderedBut(k, X),
           NEW r, r = IsrExit(k, c)
    PROVE  /\ OrderedBut(r, X) /\ r.rdymsg = k.rdymsg /\ r.isr = k.isr \ {c}
           /\ r.firing = k.firing /\ r.armed \subseteq k.armed
<1>0. k \in KernelType /\ k.firing[c] = NoThread
  BY DEF KInv, KInvX, IsrExitEnabled
<1>1. PICK k1 : k1 = [k EXCEPT !.isr = @ \ {c}]
  OBVIOUS
<1>2. /\ k1.ready = k.ready /\ k1.current = k.current /\ k1.prio = k.prio /\ k1.state = k.state
      /\ k1.armed = k.armed /\ k1.firing = k.firing /\ k1.isr = k.isr \ {c}
      /\ k1.notified = k.notified /\ k1.rdymsg = k.rdymsg
  BY <1>0, <1>1 DEF KernelType
<1>3. k1 \in KernelType
  <2>1. k.isr \ {c} \in SUBSET Cores
    BY <1>0 DEF KernelType
  <2> QED BY <1>0, <1>1, <2>1 DEF KernelType
<1>4. KInv(k1)
  <2>1. \A d \in Cores :
           /\ NoDuplicates(k1.ready[d]) /\ SortedByPrio(k1.ready[d], k1.prio)
           /\ ToSet(k1.ready[d]) = {u \in Threads \ {} : k1.state[u] = "READY" /\ Owner[u] = d}
    BY <1>2 DEF KInv, KInvX
  <2>2. ASSUME NEW d \in Cores, k1.firing[d] # NoThread
        PROVE  /\ Owner[k1.firing[d]] = d /\ d \in k1.isr
               /\ k1.state[k1.firing[d]] \in TimedStates
    BY <1>0, <1>2, <2>2 DEF KInv, KInvX
  <2> QED BY <1>2, <1>3, <2>1, <2>2 DEF KInv, KInvX
<1>5. OrderedBut(k1, X \union {c})
  <2>1. ASSUME NEW d \in Cores \ (k1.isr \union k1.notified \union (X \union {c}))
        PROVE  Ordered(k1, d)
    <3>1. Ordered(k, d)
      BY <1>2 DEF OrderedBut
    <3> QED BY <1>2, <3>1 DEF Ordered
  <2> QED BY <2>1 DEF OrderedBut
<1>6. k1.prio \in [Threads -> Nat] /\ k1.current[c] \in Threads
  BY <1>3 DEF KernelType, Prios
<1>7. firstprio(k1, c) \in Nat
  <2>1. k1.ready[c] # <<>> => Head(k1.ready[c]) \in Threads
    BY <1>3, FifoRemoveSet DEF KernelType
  <2> QED BY <1>6, <2>1 DEF firstprio
<1>8. CASE chSchIsPreemptionRequired(k1, c)
  <2>1. firstprio(k1, c) >= CurrPrio(k1, c)
    BY <1>6, <1>7, <1>8 DEF chSchIsPreemptionRequired, CurrPrio
  <2>2. k1.ready[c] # <<>> /\ k1.firing[c] = NoThread
    BY <1>0, <1>2, <1>4, <2>1, FirstPrioNotEmpty
  <2>3. r = chSchDoPreemption(k1, c)
    BY <1>1, <1>8 DEF IsrExit
  <2>4. PICK h : ExchangeStep(k1, r, c, h) /\ k1.prio[h] = firstprio(k1, c)
    BY <1>4, <2>2, <2>3, PreemptionEffect
  <2>5. k1.prio[h] >= k1.prio[k1.current[c]]
    BY <2>1, <2>4 DEF CurrPrio
  <2>6. OrderedBut(r, (X \union {c}) \ {c})
    BY <1>4, <1>5, <2>4, <2>5, ExchangeOrder
  <2>7. OrderedBut(r, X)
    BY <2>6 DEF OrderedBut
  <2> QED BY <1>2, <2>4, <2>7 DEF ExchangeStep, Rest
<1>9. CASE ~ chSchIsPreemptionRequired(k1, c)
  <2>1. r = k1
    BY <1>1, <1>9 DEF IsrExit
  <2>2. PriorityOrder(k1, c)
    BY <1>6, <1>7, <1>9 DEF chSchIsPreemptionRequired, PriorityOrder, CurrPrio
  <2>3. Ordered(k1, c)
    BY <1>4, <2>2, OrderedIff
  <2>4. OrderedBut(r, X)
    BY <1>5, <2>1, <2>3 DEF OrderedBut
  <2> QED BY <1>2, <2>1, <2>4
<1> QED BY <1>8, <1>9

\* A core that enters a handler is left to the exit path.
LEMMA EnterIsrOrder ==
    ASSUME NEW k, KInv(k), NEW c \in Cores, NEW X, OrderedBut(k, X),
           NEW r, r = EnterIsr(k, c) \/ r = NotifyIrq(k, c)
    PROVE  /\ OrderedBut(r, X) /\ r.rdymsg = k.rdymsg /\ r.isr = k.isr \union {c}
           /\ r.firing = k.firing /\ r.armed = k.armed
           /\ r.current = k.current /\ r.state = k.state
<1>0. k \in KernelType
  BY DEF KInv, KInvX
<1>1. PICK n : /\ r = [k EXCEPT !.isr = k.isr \union {c}, !.notified = n]
               /\ k.notified \subseteq n \union {c}
  <2>1. CASE r = EnterIsr(k, c)
    <3>1. r = [k EXCEPT !.isr = k.isr \union {c}, !.notified = k.notified]
      BY <1>0, <2>1 DEF EnterIsr, KernelType
    <3> QED BY <3>1
  <2>2. CASE r = NotifyIrq(k, c)
    <3>1. r = [k EXCEPT !.isr = k.isr \union {c}, !.notified = k.notified \ {c}]
      BY <1>0, <2>2 DEF EnterIsr, NotifyIrq, KernelType
    <3>2. k.notified \subseteq (k.notified \ {c}) \union {c}
      OBVIOUS
    <3> QED BY <3>1, <3>2
  <2> QED BY <2>1, <2>2
<1>2. /\ r.current = k.current /\ r.prio = k.prio /\ r.state = k.state
      /\ r.armed = k.armed /\ r.firing = k.firing /\ r.isr = k.isr \union {c}
      /\ r.rdymsg = k.rdymsg /\ r.notified = n
  BY <1>0, <1>1 DEF KernelType
<1>3. ASSUME NEW d \in Cores \ (r.isr \union r.notified \union X)
      PROVE  Ordered(r, d)
  <2>1. d \in Cores \ (k.isr \union k.notified \union X)
    BY <1>1, <1>2, <1>3
  <2>2. Ordered(k, d)
    BY <2>1 DEF OrderedBut
  <2> QED BY <1>2, <2>2 DEF Ordered
<1> QED BY <1>2, <1>3 DEF OrderedBut

\* A timer that is due was armed; its core is in the tick handler.
LEMMA TimerDueOrder ==
    ASSUME NEW k, KInv(k), NEW c \in Cores, NEW t \in Threads, TimerDueEnabled(k, c, t),
           NEW X, OrderedBut(k, X), NEW r, r = TimerDue(k, c, t)
    PROVE  /\ OrderedBut(r, X) /\ r.rdymsg = k.rdymsg /\ r.isr = k.isr \union {c}
           /\ r.state = k.state /\ r.current = k.current /\ Pending(r) \subseteq Pending(k)
<1>0. k \in KernelType /\ t \in k.armed
  BY DEF KInv, KInvX, TimerDueEnabled
<1>1. r = [k EXCEPT !.isr = k.isr \union {c}, !.armed = k.armed \ {t},
                    !.firing = [k.firing EXCEPT ![c] = t]]
  BY <1>0 DEF TimerDue, EnterIsr, KernelType
<1>2. /\ r.current = k.current /\ r.prio = k.prio /\ r.state = k.state
      /\ r.armed = k.armed \ {t} /\ r.firing = [k.firing EXCEPT ![c] = t]
      /\ r.isr = k.isr \union {c} /\ r.rdymsg = k.rdymsg /\ r.notified = k.notified
  BY <1>0, <1>1 DEF KernelType
<1>3. ASSUME NEW d \in Cores \ (r.isr \union r.notified \union X)
      PROVE  Ordered(r, d)
  <2>1. d \in Cores \ (k.isr \union k.notified \union X)
    BY <1>1, <1>2, <1>3
  <2>2. Ordered(k, d)
    BY <2>1 DEF OrderedBut
  <2> QED BY <1>2, <2>2 DEF Ordered
<1>4. Pending(r) \subseteq Pending(k)
  <2>1. k.firing \in [Cores -> Threads \union {NoThread}]
    BY <1>0 DEF KernelType
  <2> QED BY <1>0, <1>2, <2>1 DEF Pending
<1> QED BY <1>2, <1>3, <1>4 DEF OrderedBut

\* The callback runs in a handler of the core of its thread.
LEMMA CallbackOrder ==
    ASSUME NEW k, KInv(k), NEW c \in Cores, NEW t \in Threads, t = k.firing[c],
           NEW X, OrderedBut(k, X),
           NEW kk, kk = [k EXCEPT !.firing[c] = NoThread],
           NEW r, r = sch_ready_behind([kk EXCEPT !.rdymsg[t] = "TIMEOUT"], t)
    PROVE  /\ OrderedBut(kk, X) /\ kk.rdymsg = k.rdymsg /\ kk.state = k.state
           /\ kk.isr = k.isr /\ kk.current = k.current /\ Pending(kk) \subseteq Pending(k)
           /\ OrderedBut(r, X) /\ r.rdymsg = [k.rdymsg EXCEPT ![t] = "TIMEOUT"]
           /\ r.isr = k.isr /\ r.current = k.current /\ Pending(r) \subseteq Pending(k)
           /\ r.state = [k.state EXCEPT ![t] = "READY"]
<1>0. k \in KernelType /\ k.firing \in [Cores -> Threads \union {NoThread}] /\ Owner[t] = c /\ c \in k.isr
  BY KernelAssumption DEF KInv, KInvX, KernelType
<1>1. /\ kk.current = k.current /\ kk.prio = k.prio /\ kk.state = k.state /\ kk.rdymsg = k.rdymsg
      /\ kk.armed = k.armed /\ kk.isr = k.isr /\ kk.firing = [k.firing EXCEPT ![c] = NoThread]
      /\ kk.notified = k.notified
  BY <1>0 DEF KernelType
<1>2. PICK k1 : k1 = [kk EXCEPT !.rdymsg[t] = "TIMEOUT"]
  OBVIOUS
<1>3. kk \in KernelType
  BY <1>0 DEF KernelType
<1>4. k1 \in KernelType
  BY <1>2, <1>3, KernelAssumption DEF KernelType
<1>5. Readied(k1, r, t)
  BY <1>2, <1>4, ReadyEffect
<1>6. /\ k1.current = k.current /\ k1.prio = k.prio /\ k1.state = k.state
      /\ k1.rdymsg = [k.rdymsg EXCEPT ![t] = "TIMEOUT"]
      /\ k1.armed = k.armed /\ k1.isr = k.isr /\ k1.firing = [k.firing EXCEPT ![c] = NoThread]
      /\ k1.notified = k.notified
  BY <1>1, <1>2, <1>3 DEF KernelType
<1>7. /\ r.current = k.current /\ r.prio = k.prio /\ r.state = [k.state EXCEPT ![t] = "READY"]
      /\ r.rdymsg = [k.rdymsg EXCEPT ![t] = "TIMEOUT"]
      /\ r.armed = k.armed /\ r.isr = k.isr /\ r.firing = [k.firing EXCEPT ![c] = NoThread]
      /\ r.notified = k.notified
  BY <1>5, <1>6 DEF Readied, Rest
<1>8. OrderedBut(kk, X)
  BY <1>1 DEF OrderedBut, Ordered
<1>9. ASSUME NEW d \in Cores \ (r.isr \union r.notified \union X)
      PROVE  Ordered(r, d)
  <2>1. Ordered(k, d) /\ d # c
    BY <1>0, <1>7 DEF OrderedBut
  <2>2. k.state \in [Threads -> States]
    BY <1>0 DEF KernelType
  <2> QED BY <1>0, <1>7, <2>1, <2>2 DEF Ordered
<1>10. Pending(kk) \subseteq Pending(k) /\ Pending(r) \subseteq Pending(k)
  <2>1. NoThread \notin Threads
    BY KernelAssumption
  <2> QED BY <1>0, <1>1, <1>7, <2>1 DEF Pending
<1>11. OrderedBut(r, X)
  BY <1>9 DEF OrderedBut
<1> QED BY <1>1, <1>7, <1>8, <1>10, <1>11

\* chSchWakeupS() keeps the order: it switches when it has to.
LEMMA WakeupSOrder ==
    ASSUME NEW k, KInv(k), NEW c \in Cores, NEW t \in Threads, NEW msg \in Messages,
           k.state[t] \notin {"READY", "CURRENT"}, k.firing[c] = NoThread,
           OrderedBut(k, {}), NEW r, r = chSchWakeupS(k, c, t, msg)
    PROVE  /\ OrderedBut(r, {}) /\ r.rdymsg = [k.rdymsg EXCEPT ![t] = msg]
           /\ r.isr = k.isr /\ r.firing = k.firing /\ r.armed \subseteq k.armed
           /\ \A d \in Cores : r.current[d] \in {k.current[d], t}
<1>0. /\ k \in KernelType /\ k.state \in [Threads -> States] /\ k.current \in [Cores -> Threads]
      /\ k.prio \in [Threads -> Nat] /\ Owner \in [Threads -> Cores] /\ Owner[k.current[c]] = c
      /\ k.state[k.current[c]] = "CURRENT"
  BY KernelAssumption DEF KInv, KInvX, KernelType, Prios
<1>1. PICK k1 : k1 = [k EXCEPT !.rdymsg[t] = msg]
  OBVIOUS
<1>2. /\ k1.ready = k.ready /\ k1.current = k.current /\ k1.prio = k.prio /\ k1.state = k.state
      /\ k1.armed = k.armed /\ k1.isr = k.isr /\ k1.firing = k.firing /\ k1.notified = k.notified
      /\ k1.rdymsg = [k.rdymsg EXCEPT ![t] = msg] /\ k1 \in KernelType
  BY <1>0, <1>1 DEF KernelType
<1>3. PICK otp : otp = k.current[c]
  OBVIOUS
<1>4. CASE Owner[t] = c /\ k.prio[t] > k.prio[otp]
  <2>1. r = SwitchIn(sch_ready_ahead(k1, otp), c, t)
    BY <1>0, <1>1, <1>2, <1>3, <1>4 DEF chSchWakeupS
  <2>2. PICK k2 : k2 = sch_ready_ahead(k1, otp)
    OBVIOUS
  <2>3. Readied(k1, k2, otp)
    BY <1>0, <1>2, <1>3, <2>2, ReadyEffect
  <2>4. PICK q : k2 = [k1 EXCEPT !.state[otp] = "READY", !.ready[Owner[otp]] = q]
    BY <2>2 DEF sch_ready_ahead
  <2>5. k2 \in [ current : {k2.current}, ready : {k2.ready}, state : {k2.state}, prio : {k2.prio},
                ticks : {k2.ticks}, rdymsg : {k2.rdymsg}, armed : {k2.armed},
                firing : {k2.firing}, isr : {k2.isr}, notified : {k2.notified} ]
    BY <1>2, <2>4 DEF KernelType
  <2>6. /\ r.state = [k.state EXCEPT ![otp] = "READY", ![t] = "CURRENT"]
        /\ r.current = [k.current EXCEPT ![c] = t] /\ r.prio = k.prio /\ r.isr = k.isr
        /\ r.armed = k.armed \ {t} /\ r.firing = k.firing /\ r.notified = k.notified
        /\ r.rdymsg = [k.rdymsg EXCEPT ![t] = msg]
    <3>1. r = [k2 EXCEPT !.current[c] = t, !.state[t] = "CURRENT", !.armed = @ \ {t}]
      BY <2>1, <2>2 DEF SwitchIn
    <3>2. /\ r.state = [k2.state EXCEPT ![t] = "CURRENT"]
          /\ r.current = [k2.current EXCEPT ![c] = t] /\ r.prio = k2.prio /\ r.isr = k2.isr
          /\ r.armed = k2.armed \ {t} /\ r.firing = k2.firing /\ r.notified = k2.notified
          /\ r.rdymsg = k2.rdymsg
      BY <2>5, <3>1
    <3> QED BY <1>2, <2>3, <3>2 DEF Readied, Rest
  <2>7. ASSUME NEW d \in Cores \ (r.isr \union r.notified \union {})
        PROVE  Ordered(r, d)
    <3>1. Ordered(k, d)
      BY <2>6 DEF OrderedBut
    <3>2. CASE d = c
      <4>1. r.current[d] = t
        BY <1>0, <2>6, <3>2
      <4>2. ASSUME NEW u \in Threads, r.state[u] = "READY", Owner[u] = d
            PROVE  r.prio[u] <= r.prio[t]
        <5>1. k.prio[u] <= k.prio[otp]
          BY <1>0, <1>3, <2>6, <3>1, <3>2, <4>2 DEF Ordered
        <5> QED BY <1>0, <1>3, <1>4, <2>6, <5>1
      <4> QED BY <4>1, <4>2 DEF Ordered
    <3>3. CASE d # c
      <4>1. r.current[d] = k.current[d]
        BY <1>0, <2>6, <3>3
      <4>2. ASSUME NEW u \in Threads, r.state[u] = "READY", Owner[u] = d
            PROVE  k.state[u] = "READY"
        BY <1>0, <1>3, <2>6, <3>3, <4>2
      <4> QED BY <2>6, <3>1, <4>1, <4>2 DEF Ordered
    <3> QED BY <3>2, <3>3
  <2>8. OrderedBut(r, {})
    BY <2>7 DEF OrderedBut
  <2> QED BY <1>0, <2>6, <2>8
<1>5. CASE ~ (Owner[t] = c /\ k.prio[t] > k.prio[otp])
  <2>1. r = ReadyWithMsg(k, c, t, msg)
    <3>1. Owner[t] = c => chSysNotifyInstance(k1, c, t) = k1
      BY <1>2 DEF chSysNotifyInstance, KernelType
    <3> QED BY <1>0, <1>1, <1>2, <1>3, <1>5, <3>1 DEF chSchWakeupS, ReadyWithMsg, chSchReadyI
  <2>2. MadeReady(k, r, c, t, msg)
    BY <1>0, <2>1, ReadyWithMsgEffect
  <2>3. OrderedBut(r, {} \union {c}) /\ (Owner[t] # c => OrderedBut(r, {}))
    BY <2>1, ReadyWithMsgOrder
  <2>4. ASSUME Owner[t] = c, c \notin k.isr \union k.notified
        PROVE  Ordered(r, c)
    <3>1. Ordered(k, c)
      BY <2>4 DEF OrderedBut
    <3>2. k.prio[t] <= k.prio[otp]
      BY <1>0, <1>3, <1>5, <2>4
    <3> QED BY <1>0, <1>3, <2>2, <3>1, <3>2 DEF Ordered, MadeReady
  <2>5. OrderedBut(r, {})
    BY <2>2, <2>3, <2>4 DEF OrderedBut, MadeReady
  <2>6. /\ r.rdymsg = [k.rdymsg EXCEPT ![t] = msg]
        /\ r.isr = k.isr /\ r.firing = k.firing /\ r.armed \subseteq k.armed
        /\ \A d \in Cores : r.current[d] \in {k.current[d], t}
    BY <2>2 DEF MadeReady
  <2> QED BY <2>5, <2>6
<1> QED BY <1>4, <1>5

\* The kernel as the main thread leaves it has nobody ready.
LEMMA KernelInitOrder ==
    ASSUME NEW prio
    PROVE  OrderedBut(KernelInit(prio), {}) /\ Pending(KernelInit(prio)) = {}
BY KernelAssumption DEF KernelInit, OrderedBut, Ordered, Pending

-----------------------------------------------------------------------------
(* What a component needs to know of one call of the kernel                  *)

\* The kernel invariant and the order of the cores outside X.
Sound(k, X) == KInv(k) /\ OrderedBut(k, X)

\* No thread has begun or stopped waiting.
Still(k, r) ==
    Others(k, r, {}) /\ r.rdymsg = k.rdymsg /\ Pending(r) \subseteq Pending(k)

\* t alone has stopped waiting, with msg.
Roused(k, r, t, msg) ==
    /\ Woken(k, r, t) /\ r.rdymsg = [k.rdymsg EXCEPT ![t] = msg]
    /\ Pending(r) \subseteq Pending(k)

\* No switch, no interrupt entered or left.
NoSwitch(k, r) == r.isr = k.isr /\ r.current = k.current

\* t alone has begun to wait in newstate, perhaps with a timeout.
Rested(k, r, t, newstate) ==
    /\ Asleep(k, r, t, newstate) /\ r.rdymsg = k.rdymsg
    /\ Pending(r) \subseteq Pending(k) \union {t}

\* No timeout has begun.
Untimed(k, r) == Pending(r) \subseteq Pending(k)

\* chSchGoSleepTimeoutS().
LEMMA RunSleep ==
    ASSUME NEW k, NEW X, Sound(k, X), NEW c \in Cores, X \subseteq {c}, InThread(k, c),
           NEW newstate \in TimedStates \ {"READY"}, NEW timed \in BOOLEAN,
           NEW r, r = chSchGoSleepTimeoutS(k, c, newstate, timed)
    PROVE  Sound(r, {}) /\ Rested(k, r, k.current[c], newstate)
<1>1. KInv(k) /\ OrderedBut(k, X)
  BY DEF Sound
<1>2. KInv(r)
  BY <1>1, GoSleepInv
<1>3. Asleep(k, r, k.current[c], newstate)
  BY <1>1, GoSleepInv
<1>4. PICK h : SleepStep(k, r, c, newstate, timed, h)
  BY <1>1, GoSleepEffect
<1>5. OrderedBut(r, X \ {c})
  BY <1>1, <1>4, SleepOrder
<1>6. X \ {c} = {}
  OBVIOUS
<1>7. r.rdymsg = k.rdymsg /\ Pending(r) \subseteq Pending(k) \union (IF timed THEN {k.current[c]} ELSE {})
  BY <1>4 DEF SleepStep, Pending
<1> QED BY <1>2, <1>3, <1>5, <1>6, <1>7 DEF Sound, Rested

\* chSchGoSleepS().
LEMMA RunSleepS ==
    ASSUME NEW k, NEW X, Sound(k, X), NEW c \in Cores, X \subseteq {c}, InThread(k, c),
           NEW newstate \in TimedStates \ {"READY"}, NEW r, r = chSchGoSleepS(k, c, newstate)
    PROVE  Sound(r, {}) /\ Rested(k, r, k.current[c], newstate) /\ Untimed(k, r)
<1>1. [k EXCEPT !.armed = k.armed] = k
  BY DEF Sound, KInv, KInvX, KernelType
<1>2. r = chSchGoSleepTimeoutS(k, c, newstate, FALSE)
  BY <1>1 DEF chSchGoSleepTimeoutS
<1>3. Sound(r, {})
  BY <1>2, RunSleep
<1>4. Rested(k, r, k.current[c], newstate)
  BY <1>2, RunSleep
<1>5. Untimed(k, r)
  <2>1. PICK h : SleepStep(k, r, c, newstate, FALSE, h)
    BY <1>2, GoSleepEffect DEF Sound
  <2> QED BY <2>1 DEF SleepStep, Pending, Untimed
<1> QED BY <1>3, <1>4, <1>5

\* chSchReadyI() with a message, in a thread or a loop.
LEMMA RunReady ==
    ASSUME NEW k, NEW X, Sound(k, X), NEW c \in Cores, NEW t \in Threads, NEW msg \in Messages,
           k.state[t] \notin {"READY", "CURRENT"}, NEW r, r = ReadyWithMsg(k, c, t, msg)
    PROVE  Sound(r, X \union {c}) /\ Roused(k, r, t, msg) /\ NoSwitch(k, r)
<1>1. KInv(k) /\ OrderedBut(k, X) /\ k \in KernelType
  BY DEF Sound, KInv, KInvX
<1>2. KInv(r)
  BY <1>1, ReadyWithMsgInv
<1>3. Woken(k, r, t)
  BY <1>1, ReadyWithMsgInv
<1>4. MadeReady(k, r, c, t, msg)
  BY <1>1, ReadyWithMsgEffect
<1>5. OrderedBut(r, X \union {c})
  BY <1>1, ReadyWithMsgOrder
<1>6. /\ r.rdymsg = [k.rdymsg EXCEPT ![t] = msg] /\ Pending(r) \subseteq Pending(k)
      /\ r.isr = k.isr /\ r.current = k.current
  BY <1>4 DEF MadeReady, Pending
<1> QED BY <1>2, <1>3, <1>5, <1>6 DEF Sound, Roused, NoSwitch

\* The same in an interrupt handler: its exit restores the order.
LEMMA RunReadyI ==
    ASSUME NEW k, Sound(k, {}), NEW c \in Cores, NEW t \in Threads, NEW msg \in Messages,
           k.state[t] \notin {"READY", "CURRENT"}, NEW r, r = ReadyWithMsg(EnterIsr(k, c), c, t, msg)
    PROVE  Sound(r, {}) /\ Roused(k, r, t, msg)
<1>0. PICK kk : kk = EnterIsr(k, c)
  OBVIOUS
<1>1. KInv(k) /\ OrderedBut(k, {})
  BY DEF Sound
<1>2. KInv(kk) /\ kk.state = k.state
  BY <1>0, <1>1, EnterIsrInv
<1>3. /\ OrderedBut(kk, {}) /\ kk.rdymsg = k.rdymsg /\ kk.isr = k.isr \union {c}
      /\ kk.firing = k.firing /\ kk.armed = k.armed
  BY <1>0, <1>1, EnterIsrOrder
<1>4. kk.state[t] \notin {"READY", "CURRENT"} /\ Sound(kk, {})
  BY <1>2, <1>3 DEF Sound
<1>5. Sound(r, {} \union {c})
  BY <1>0, <1>4, RunReady
<1>6. Roused(kk, r, t, msg)
  BY <1>0, <1>4, RunReady
<1>7. r.isr = kk.isr
  <2>1. kk \in KernelType
    BY <1>2 DEF KInv, KInvX
  <2>2. MadeReady(kk, r, c, t, msg)
    BY <1>0, <2>1, ReadyWithMsgEffect
  <2> QED BY <2>2 DEF MadeReady
<1>8. Sound(r, {})
  BY <1>3, <1>5, <1>7 DEF Sound, OrderedBut
<1>9. kk.prio = k.prio
  BY <1>0, <1>1 DEF EnterIsr, KInv, KInvX, KernelType
<1>10. Pending(kk) = Pending(k)
  BY <1>3 DEF Pending
<1>11. Roused(k, r, t, msg)
  BY <1>2, <1>3, <1>6, <1>9, <1>10 DEF Roused, Woken, Others
<1> QED BY <1>8, <1>11

\* chSchWakeupS().
LEMMA RunWakeup ==
    ASSUME NEW k, Sound(k, {}), NEW c \in Cores, c \notin k.isr, NEW t \in Threads,
           NEW msg \in Messages, k.state[t] \notin {"READY", "CURRENT"},
           NEW r, r = chSchWakeupS(k, c, t, msg)
    PROVE  Sound(r, {}) /\ Roused(k, r, t, msg)
<1>1. KInv(k) /\ OrderedBut(k, {}) /\ k.firing[c] = NoThread
  BY InThreadFiring DEF Sound
<1>2. KInv(r)
  BY <1>1, WakeupSInv
<1>3. Woken(k, r, t)
  BY <1>1, WakeupSInv
<1>4. OrderedBut(r, {})
  BY <1>1, WakeupSOrder
<1>5. r.rdymsg = [k.rdymsg EXCEPT ![t] = msg] /\ r.firing = k.firing /\ r.armed \subseteq k.armed
  BY <1>1, WakeupSOrder
<1>6. Pending(r) \subseteq Pending(k)
  BY <1>5 DEF Pending
<1> QED BY <1>2, <1>3, <1>4, <1>5, <1>6 DEF Sound, Roused

\* chSchRescheduleS(), after chSchReadyI() calls on the same core.
LEMMA RunReschedule ==
    ASSUME NEW k, NEW X, Sound(k, X), NEW c \in Cores, X \subseteq {c}, c \notin k.isr,
           NEW r, r = chSchRescheduleS(k, c)
    PROVE  Sound(r, {}) /\ Still(k, r)
<1>1. KInv(k) /\ OrderedBut(k, X) /\ k.firing[c] = NoThread
  BY InThreadFiring DEF Sound
<1>2. KInv(r)
  BY <1>1, RescheduleSInv
<1>3. Others(k, r, {})
  BY <1>1, RescheduleSInv
<1>4. OrderedBut(r, X \ {c})
  BY <1>1, RescheduleSOrder
<1>5. Rest(k, r)
  BY <1>1, RescheduleSOrder
<1>6. X \ {c} = {}
  OBVIOUS
<1>7. Pending(r) \subseteq Pending(k) /\ r.rdymsg = k.rdymsg
  BY <1>5 DEF Rest, Pending
<1> QED BY <1>2, <1>3, <1>4, <1>6, <1>7 DEF Sound, Still

\* Interrupts that wake nobody: entry, reschedule interrupt, a timer that
\* falls due, exit.
LEMMA RunIrq ==
    ASSUME NEW k, Sound(k, {}), NEW c \in Cores, NEW r,
           \/ r = EnterIsr(k, c)
           \/ r = NotifyIrq(k, c)
           \/ \E t \in Threads : TimerDueEnabled(k, c, t) /\ r = TimerDue(k, c, t)
           \/ IsrExitEnabled(k, c) /\ r = IsrExit(k, c)
    PROVE  Sound(r, {}) /\ Still(k, r)
<1>1. KInv(k) /\ OrderedBut(k, {})
  BY DEF Sound
<1>2. CASE r = EnterIsr(k, c) \/ r = NotifyIrq(k, c)
  <2>1. KInv(r) /\ Others(k, r, {})
    BY <1>1, <1>2, EnterIsrInv
  <2>2. OrderedBut(r, {}) /\ r.rdymsg = k.rdymsg /\ r.firing = k.firing /\ r.armed = k.armed
    BY <1>1, <1>2, EnterIsrOrder
  <2>3. Pending(r) \subseteq Pending(k)
    BY <2>2 DEF Pending
  <2> QED BY <2>1, <2>2, <2>3 DEF Sound, Still
<1>3. CASE \E t \in Threads : TimerDueEnabled(k, c, t) /\ r = TimerDue(k, c, t)
  <2>1. PICK t \in Threads : TimerDueEnabled(k, c, t) /\ r = TimerDue(k, c, t)
    BY <1>3
  <2>2. KInv(r) /\ Others(k, r, {})
    BY <1>1, <2>1, TimerDueInv
  <2>3. OrderedBut(r, {}) /\ r.rdymsg = k.rdymsg /\ Pending(r) \subseteq Pending(k)
    BY <1>1, <2>1, TimerDueOrder
  <2> QED BY <2>2, <2>3 DEF Sound, Still
<1>4. CASE IsrExitEnabled(k, c) /\ r = IsrExit(k, c)
  <2>1. KInv(r) /\ Others(k, r, {})
    BY <1>1, <1>4, IsrExitInv
  <2>2. OrderedBut(r, {}) /\ r.rdymsg = k.rdymsg /\ r.firing = k.firing /\ r.armed \subseteq k.armed
    BY <1>1, <1>4, IsrExitOrder
  <2>3. Pending(r) \subseteq Pending(k)
    BY <2>2 DEF Pending
  <2> QED BY <2>1, <2>2, <2>3 DEF Sound, Still
<1> QED BY <1>2, <1>3, <1>4

\* chSchDoYieldS().
LEMMA RunYield ==
    ASSUME NEW k, Sound(k, {}), NEW c \in Cores, c \notin k.isr, NEW r, r = chSchDoYieldS(k, c)
    PROVE  Sound(r, {}) /\ Still(k, r)
<1>1. KInv(k) /\ OrderedBut(k, {}) /\ k.firing[c] = NoThread
  BY InThreadFiring DEF Sound
<1>2. CASE firstprio(k, c) >= CurrPrio(k, c)
  <2>1. k.ready[c] # <<>>
    BY <1>1, <1>2, FirstPrioNotEmpty
  <2>2. r = sch_reschedule_behind(k, c)
    BY <1>2 DEF chSchDoYieldS
  <2>3. KInv(r)
    BY <1>1, <2>1, <2>2, RescheduleInv
  <2>4. Others(k, r, {})
    BY <1>1, <2>1, <2>2, RescheduleInv
  <2>5. PICK h : ExchangeStep(k, r, c, h) /\ k.prio[h] = firstprio(k, c)
    BY <1>1, <2>1, <2>2, RescheduleEffect
  <2>6. k.prio[h] >= k.prio[k.current[c]]
    BY <1>2, <2>5 DEF CurrPrio
  <2>7. OrderedBut(r, {} \ {c})
    BY <1>1, <2>5, <2>6, ExchangeOrder
  <2>8. {} \ {c} = {}
    OBVIOUS
  <2>9. Pending(r) \subseteq Pending(k) /\ r.rdymsg = k.rdymsg
    BY <2>5 DEF ExchangeStep, Rest, Pending
  <2> QED BY <2>3, <2>4, <2>7, <2>8, <2>9 DEF Sound, Still
<1>3. CASE ~ (firstprio(k, c) >= CurrPrio(k, c))
  BY <1>3 DEF chSchDoYieldS, Still, Others
<1> QED BY <1>2, <1>3

\* chSysTimerHandlerI().
LEMMA RunTick ==
    ASSUME NEW k, Sound(k, {}), NEW c \in Cores, NEW r, r = chSysTimerHandlerI(k, c)
    PROVE  Sound(r, {}) /\ Still(k, r)
<1>1. PICK e, t : e = EnterIsr(k, c) /\ t = k.current[c]
  OBVIOUS
<1>2. Sound(e, {})
  BY <1>1, RunIrq
<1>3. Still(k, e)
  BY <1>1, RunIrq
<1>4. KInv(e) /\ OrderedBut(e, {}) /\ e \in KernelType /\ k \in KernelType
  BY <1>2 DEF Sound, KInv, KInvX
<1>5. t \in Threads /\ e.ticks \in [Threads -> 0 .. Quantum]
  BY <1>1, <1>4 DEF KernelType
<1>6. PICK n : n = IF e.ticks[t] > 0 THEN e.ticks[t] - 1 ELSE e.ticks[t]
  OBVIOUS
<1>7. n \in 0 .. Quantum
  BY <1>5, <1>6, KernelAssumption
<1>8. r = [e EXCEPT !.ticks = [e.ticks EXCEPT ![t] = n]]
  BY <1>1, <1>4, <1>5, <1>6 DEF chSysTimerHandlerI, KernelType
<1>9. [e.ticks EXCEPT ![t] = n] \in [Threads -> 0 .. Quantum]
  BY <1>5, <1>7
<1>10. r \in KernelType
  BY <1>4, <1>8, <1>9 DEF KernelType
<1>11. /\ r.ready = e.ready /\ r.current = e.current /\ r.prio = e.prio
       /\ r.state = e.state /\ r.armed = e.armed /\ r.isr = e.isr /\ r.firing = e.firing
       /\ r.rdymsg = e.rdymsg /\ r.notified = e.notified
  BY <1>4, <1>8 DEF KernelType
<1>12. KInv(r)
  BY <1>4, <1>10, <1>11, Frame DEF KInv
<1>13. OrderedBut(r, {})
  BY <1>4, <1>11 DEF OrderedBut, Ordered
<1>14. Still(k, r)
  BY <1>3, <1>11 DEF Still, Others, Pending
<1> QED BY <1>12, <1>13, <1>14 DEF Sound

\* The order of a core in a handler is restored by its exit; a caller may
\* be about to restore the order of its core when there is nothing to do.
LEMMA SoundIsr ==
    ASSUME NEW k, NEW c \in k.isr, Sound(k, {c})
    PROVE  Sound(k, {})
BY DEF Sound, OrderedBut

LEMMA SoundMore ==
    ASSUME NEW k, NEW X, Sound(k, {})
    PROVE  Sound(k, X)
BY DEF Sound, OrderedBut

\* The thread whose timer is firing on c has been told, if it still waits.
CalledBack(k, c, r) ==
    LET t == k.firing[c]
    IN  /\ t \in Threads /\ t \in Pending(k) /\ k.state[t] \in TimedStates
        /\ Sound(r, {})
        /\ IF AlreadyReady(k, t) THEN Still(k, r) ELSE Roused(k, r, t, "TIMEOUT")

\* The timeout callback of __sch_wakeup(), the object of the wait aside.
Callback(k, c) ==
    LET t  == k.firing[c]
        kk == [k EXCEPT !.firing[c] = NoThread]
    IN  IF AlreadyReady(k, t) THEN kk
        ELSE sch_ready_behind([kk EXCEPT !.rdymsg[t] = "TIMEOUT"], t)

LEMMA RunCallback ==
    ASSUME NEW k, Sound(k, {}), NEW c \in Cores, k.firing[c] # NoThread,
           NEW r, r = Callback(k, c)
    PROVE  CalledBack(k, c, r)
<1>0. PICK t, kk : t = k.firing[c] /\ kk = [k EXCEPT !.firing[c] = NoThread]
  OBVIOUS
<1>a. r = IF AlreadyReady(k, t) THEN kk ELSE sch_ready_behind([kk EXCEPT !.rdymsg[t] = "TIMEOUT"], t)
  BY <1>0 DEF Callback
<1> SUFFICES /\ t \in Threads /\ t \in Pending(k) /\ k.state[t] \in TimedStates
             /\ Sound(r, {})
             /\ IF AlreadyReady(k, t) THEN Still(k, r) ELSE Roused(k, r, t, "TIMEOUT")
  BY <1>0 DEF CalledBack
<1>b. t = k.firing[c] /\ t # NoThread /\ kk = [k EXCEPT !.firing[c] = NoThread]
  BY <1>0
<1>1. KInv(k) /\ OrderedBut(k, {})
  BY DEF Sound
<1>2. t \in Threads /\ k.state[t] \in TimedStates
  BY <1>b, <1>1 DEF KInv, KInvX, KernelType
<1>3. t \in Pending(k)
  BY <1>b, <1>2 DEF Pending
<1>4. PICK r2 : r2 = sch_ready_behind([kk EXCEPT !.rdymsg[t] = "TIMEOUT"], t)
  OBVIOUS
<1>5. CASE AlreadyReady(k, t)
  <2>1. KInv(kk) /\ Others(k, kk, {})
    BY <1>b, <1>1, <1>2, CallbackInv
  <2>2. OrderedBut(kk, {}) /\ kk.rdymsg = k.rdymsg /\ Pending(kk) \subseteq Pending(k)
    <3>1. OrderedBut(kk, {})
      BY <1>b, <1>1, <1>2, CallbackOrder
    <3>2. kk.rdymsg = k.rdymsg /\ kk.armed = k.armed /\ \A d \in Cores : kk.firing[d] \in {k.firing[d], NoThread}
      BY <1>b, <1>1 DEF KInv, KInvX, KernelType
    <3>3. Pending(kk) \subseteq Pending(k)
      BY <3>2, KernelAssumption DEF Pending
    <3> QED BY <3>1, <3>2, <3>3
  <2> QED BY <1>a, <1>2, <1>3, <1>5, <2>1, <2>2 DEF Sound, Still
<1>6. CASE ~ AlreadyReady(k, t)
  <2>1. k.state[t] \notin {"READY", "CURRENT"} /\ r = r2
    BY <1>a, <1>2, <1>4, <1>6 DEF AlreadyReady, TimedStates
  <2>2. KInv(r2) /\ Woken(k, r2, t)
    BY <1>b, <1>1, <1>2, <1>4, <2>1, CallbackInv
  <2>3. /\ OrderedBut(r2, {}) /\ r2.rdymsg = [k.rdymsg EXCEPT ![t] = "TIMEOUT"]
        /\ Pending(r2) \subseteq Pending(k)
    <3>1. OrderedBut(r2, {})
      BY <1>b, <1>1, <1>2, <1>4, CallbackOrder
    <3>2. PICK k1 : k1 = [kk EXCEPT !.rdymsg[t] = "TIMEOUT"]
      OBVIOUS
    <3>3. /\ k1 \in KernelType /\ k1.rdymsg = [k.rdymsg EXCEPT ![t] = "TIMEOUT"]
          /\ k1.armed = k.armed /\ \A d \in Cores : k1.firing[d] \in {k.firing[d], NoThread}
      <4>1. k \in KernelType
        BY <1>1 DEF KInv, KInvX
      <4>2. /\ kk \in KernelType /\ kk.armed = k.armed /\ kk.rdymsg = k.rdymsg
            /\ \A d \in Cores : kk.firing[d] \in {k.firing[d], NoThread}
        BY <1>b, <4>1 DEF KernelType
      <4>3. k1 \in KernelType /\ k1.rdymsg = [k.rdymsg EXCEPT ![t] = "TIMEOUT"]
        BY <1>2, <3>2, <4>2, KernelAssumption DEF KernelType
      <4>4. k1.armed = k.armed /\ k1.firing = kk.firing
        BY <3>2, <4>2 DEF KernelType
      <4> QED BY <4>2, <4>3, <4>4
    <3>4. Readied(k1, r2, t)
      BY <1>2, <1>4, <3>2, <3>3, ReadyEffect
    <3>5. r2.armed = k.armed /\ r2.firing = k1.firing /\ r2.rdymsg = k1.rdymsg
      BY <3>3, <3>4 DEF Readied, Rest
    <3>6. Pending(r2) \subseteq Pending(k)
      BY <3>3, <3>5, KernelAssumption DEF Pending
    <3> QED BY <3>1, <3>3, <3>5, <3>6
  <2> QED BY <1>2, <1>3, <1>6, <2>1, <2>2, <2>3 DEF Sound, Roused
<1> QED BY <1>5, <1>6

\* The initial state, and what a component checks of the kernel.
LEMMA RunInit ==
    ASSUME NEW prio \in [Threads -> Prios], NEW k, k = KernelInit(prio)
    PROVE  Sound(k, {}) /\ Pending(k) = {}
BY KernelInitInv, KernelInitOrder DEF Sound

LEMMA SoundImplies ==
    ASSUME NEW k, NEW X, Sound(k, X)
    PROVE  /\ ReadyListExact(k) /\ ReadyListSorted(k) /\ CurrentExact(k)
           /\ \A c \in Cores \ (k.isr \union k.notified \union X) : PriorityOrder(k, c)
<1>1. KInv(k) /\ OrderedBut(k, X)
  BY DEF Sound
<1>2. ReadyListExact(k) /\ ReadyListSorted(k) /\ CurrentExact(k)
  BY <1>1, KInvImplies
<1>3. \A c \in Cores \ (k.isr \union k.notified \union X) : PriorityOrder(k, c)
  BY <1>1, OrderedIff DEF OrderedBut
<1> QED BY <1>2, <1>3

\* The types of a sound kernel, its running threads and its timeouts.
LEMMA SoundFacts ==
    ASSUME NEW k, NEW X, Sound(k, X)
    PROVE  /\ k \in KernelType
           /\ k.prio \in [Threads -> Nat] /\ k.rdymsg \in [Threads -> Messages]
           /\ k.state \in [Threads -> States]
           /\ \A c \in Cores : k.current[c] \in Threads /\ k.state[k.current[c]] = "CURRENT"
           /\ \A t \in Pending(k) : k.state[t] \in TimedStates
<1>1. KInv(k) /\ k \in KernelType
  BY DEF Sound, KInv, KInvX
<1>2. /\ k.prio \in [Threads -> Nat] /\ k.rdymsg \in [Threads -> Messages]
      /\ k.state \in [Threads -> States]
  BY <1>1 DEF KernelType, Prios
<1>3. \A c \in Cores : k.current[c] \in Threads /\ k.state[k.current[c]] = "CURRENT"
  BY <1>1 DEF KInv, KInvX, KernelType
<1>4. \A t \in Pending(k) : k.state[t] \in TimedStates
  BY <1>1, KernelAssumption DEF KInv, KInvX, Pending
<1> QED BY <1>1, <1>2, <1>3, <1>4

-----------------------------------------------------------------------------
(* Wait queues: the threads in the state w are in the queues of the objects  *)
(* they wait on, wt tells which, by priority if p.                           *)

QueuesExact(k, qu, wt, O, w, p) ==
    /\ qu \in [O -> Seq(Threads)]
    /\ DOMAIN wt = Threads
    /\ \A s \in O :
          /\ NoDuplicates(qu[s])
          /\ ToSet(qu[s]) = {t \in Threads : k.state[t] = w /\ wt[t] = s}
          /\ p => SortedByPrio(qu[s], k.prio)

\* The list q is old without t, or with t, in order if p.
QueueLess(k, old, q, t, p) ==
    /\ q \in Seq(Threads) /\ NoDuplicates(q) /\ ToSet(q) = ToSet(old) \ {t}
    /\ p => SortedByPrio(q, k.prio)

QueueMore(k, old, q, t, p) ==
    /\ q \in Seq(Threads) /\ NoDuplicates(q) /\ ToSet(q) = ToSet(old) \union {t}
    /\ p => SortedByPrio(q, k.prio)

\* A thread leaves the queue of its object and the state w.
LEMMA QueueOut ==
    ASSUME NEW k, NEW qu, NEW wt, NEW O, NEW w, NEW p, QueuesExact(k, qu, wt, O, w, p),
           w \notin {"READY", "CURRENT"}, NEW s \in O, NEW t \in ToSet(qu[s]),
           NEW q, QueueLess(k, qu[s], q, t, p), NEW n, NEW r, Woken(k, r, t)
    PROVE  QueuesExact(r, [qu EXCEPT ![s] = q], [wt EXCEPT ![t] = n], O, w, p)
<1> USE DEF QueueLess
<1>1. t \in Threads /\ k.state[t] = w /\ wt[t] = s /\ r.prio = k.prio
  BY DEF QueuesExact, Woken, Others
<1>2. \A u \in Threads \ {t} : (r.state[u] = w) <=> (k.state[u] = w)
  BY DEF Woken, Others
<1>3. r.state[t] # w
  BY DEF Woken
<1>4. \A u \in Threads : [wt EXCEPT ![t] = n][u] = IF u = t THEN n ELSE wt[u]
  BY <1>1 DEF QueuesExact
<1>5. ASSUME NEW z \in O
      PROVE  /\ NoDuplicates([qu EXCEPT ![s] = q][z])
             /\ ToSet([qu EXCEPT ![s] = q][z])
                   = {u \in Threads : r.state[u] = w /\ [wt EXCEPT ![t] = n][u] = z}
             /\ p => SortedByPrio([qu EXCEPT ![s] = q][z], r.prio)
  <2>1. ToSet(qu[z]) = {u \in Threads : k.state[u] = w /\ wt[u] = z}
    BY DEF QueuesExact
  <2>2. CASE z = s
    <3>1. [qu EXCEPT ![s] = q][z] = q
      BY <2>2 DEF QueuesExact
    <3>2. ToSet(q) = {u \in Threads : r.state[u] = w /\ [wt EXCEPT ![t] = n][u] = z}
      BY <1>1, <1>2, <1>3, <1>4, <2>1, <2>2
    <3> QED BY <1>1, <3>1, <3>2
  <2>3. CASE z # s
    <3>1. [qu EXCEPT ![s] = q][z] = qu[z]
      BY <2>3 DEF QueuesExact
    <3>2. ToSet(qu[z]) = {u \in Threads : r.state[u] = w /\ [wt EXCEPT ![t] = n][u] = z}
      BY <1>1, <1>2, <1>3, <1>4, <2>1, <2>3
    <3> QED BY <1>1, <3>1, <3>2 DEF QueuesExact
  <2> QED BY <2>2, <2>3
<1>6. [qu EXCEPT ![s] = q] \in [O -> Seq(Threads)] /\ DOMAIN [wt EXCEPT ![t] = n] = Threads
  BY DEF QueuesExact
<1> QED BY <1>5, <1>6 DEF QueuesExact

\* A thread goes into the queue of an object and the state w.
LEMMA QueueIn ==
    ASSUME NEW k, NEW qu, NEW wt, NEW O, NEW w, NEW p, QueuesExact(k, qu, wt, O, w, p),
           NEW s \in O, NEW t \in Threads, k.state[t] # w,
           NEW q, QueueMore(k, qu[s], q, t, p), w \notin {"READY", "CURRENT"},
           NEW r, Asleep(k, r, t, w)
    PROVE  QueuesExact(r, [qu EXCEPT ![s] = q], [wt EXCEPT ![t] = s], O, w, p)
<1> USE DEF QueueMore
<1>1. r.prio = k.prio /\ r.state[t] = w
  BY DEF Asleep, Others
<1>2. \A u \in Threads \ {t} : (r.state[u] = w) <=> (k.state[u] = w)
  BY DEF Asleep, Others
<1>4. \A u \in Threads : [wt EXCEPT ![t] = s][u] = IF u = t THEN s ELSE wt[u]
  BY <1>1 DEF QueuesExact
<1>5. ASSUME NEW z \in O
      PROVE  /\ NoDuplicates([qu EXCEPT ![s] = q][z])
             /\ ToSet([qu EXCEPT ![s] = q][z])
                   = {u \in Threads : r.state[u] = w /\ [wt EXCEPT ![t] = s][u] = z}
             /\ p => SortedByPrio([qu EXCEPT ![s] = q][z], r.prio)
  <2>1. ToSet(qu[z]) = {u \in Threads : k.state[u] = w /\ wt[u] = z}
    BY DEF QueuesExact
  <2>2. CASE z = s
    <3>1. [qu EXCEPT ![s] = q][z] = q
      BY <2>2 DEF QueuesExact
    <3>2. ToSet(q) = {u \in Threads : r.state[u] = w /\ [wt EXCEPT ![t] = s][u] = z}
      BY <1>1, <1>2, <1>4, <2>1, <2>2
    <3> QED BY <1>1, <3>1, <3>2
  <2>3. CASE z # s
    <3>1. [qu EXCEPT ![s] = q][z] = qu[z]
      BY <2>3 DEF QueuesExact
    <3>2. ToSet(qu[z]) = {u \in Threads : r.state[u] = w /\ [wt EXCEPT ![t] = s][u] = z}
      BY <1>1, <1>2, <1>4, <2>1, <2>3
    <3> QED BY <1>1, <3>1, <3>2 DEF QueuesExact
  <2> QED BY <2>2, <2>3
<1>6. [qu EXCEPT ![s] = q] \in [O -> Seq(Threads)] /\ DOMAIN [wt EXCEPT ![t] = s] = Threads
  BY DEF QueuesExact
<1> QED BY <1>5, <1>6 DEF QueuesExact

\* A change of the kernel that no thread in the state w notices.
LEMMA QueueSame ==
    ASSUME NEW k, NEW qu, NEW wt, NEW O, NEW w, NEW p, QueuesExact(k, qu, wt, O, w, p),
           w \notin {"READY", "CURRENT"}, NEW Y, NEW r, Others(k, r, Y),
           \A t \in Threads \intersect Y : k.state[t] # w /\ r.state[t] # w
    PROVE  QueuesExact(r, qu, wt, O, w, p)
<1>1. \A u \in Threads : (r.state[u] = w) <=> (k.state[u] = w)
  BY DEF Others
<1>2. \A z \in O : {u \in Threads : r.state[u] = w /\ wt[u] = z}
                      = {u \in Threads : k.state[u] = w /\ wt[u] = z}
  BY <1>1
<1> QED BY <1>2 DEF QueuesExact, Others

\* The first thread of a queue, and the queue without it.
LEMMA QueueHead ==
    ASSUME NEW k \in KernelType, NEW qu, NEW wt, NEW O, NEW w, NEW p,
           QueuesExact(k, qu, wt, O, w, p), NEW s \in O, qu[s] # <<>>,
           NEW h, h = Head(qu[s]), NEW q, q = ch_queue_fifo_remove(qu[s])
    PROVE  /\ h \in ToSet(qu[s]) /\ h \in Threads /\ k.state[h] = w /\ wt[h] = s
           /\ QueueLess(k, qu[s], q, h, p)
<1>0. q = Tail(qu[s])
  BY DEF ch_queue_fifo_remove
<1>1. /\ qu[s] \in Seq(Threads) /\ NoDuplicates(qu[s])
      /\ ToSet(qu[s]) = {t \in Threads : k.state[t] = w /\ wt[t] = s}
      /\ p => SortedByPrio(qu[s], k.prio)
  BY DEF QueuesExact
<1>2. /\ Head(qu[s]) \in ToSet(qu[s]) /\ Tail(qu[s]) \in Seq(Threads) /\ NoDuplicates(Tail(qu[s]))
      /\ ToSet(Tail(qu[s])) = ToSet(qu[s]) \ {Head(qu[s])}
  BY <1>1, FifoRemoveSet
<1>3. k.prio \in [Threads -> Nat]
  BY DEF KernelType, Prios
<1>4. p => SortedByPrio(Tail(qu[s]), k.prio)
  BY <1>1, <1>3, RemoveSorted
<1> QED BY <1>0, <1>1, <1>2, <1>4 DEF QueueLess

\* A thread somewhere in a queue, and the queue without it.
LEMMA QueueMember ==
    ASSUME NEW k \in KernelType, NEW qu, NEW wt, NEW O, NEW w, NEW p,
           QueuesExact(k, qu, wt, O, w, p), NEW s \in O, NEW t \in ToSet(qu[s]),
           NEW q, q = ch_queue_dequeue(qu[s], t)
    PROVE  /\ t \in Threads /\ k.state[t] = w /\ wt[t] = s
           /\ QueueLess(k, qu[s], q, t, p)
<1>1. /\ qu[s] \in Seq(Threads) /\ NoDuplicates(qu[s])
      /\ ToSet(qu[s]) = {u \in Threads : k.state[u] = w /\ wt[u] = s}
      /\ p => SortedByPrio(qu[s], k.prio)
  BY DEF QueuesExact
<1>2. q \in Seq(Threads) /\ ToSet(q) = ToSet(qu[s]) \ {t} /\ NoDuplicates(q)
  BY <1>1, DequeueSet
<1>3. k.prio \in [Threads -> Nat]
  BY DEF KernelType, Prios
<1>4. p => SortedByPrio(q, k.prio)
  BY <1>1, <1>3, RemoveSorted
<1> QED BY <1>1, <1>2, <1>4 DEF QueueLess

\* A thread that is not in the state w joins a queue, by priority or last.
LEMMA QueueJoin ==
    ASSUME NEW k \in KernelType, NEW qu, NEW wt, NEW O, NEW w, NEW p \in BOOLEAN,
           QueuesExact(k, qu, wt, O, w, p), NEW s \in O, NEW t \in Threads, k.state[t] # w,
           NEW q, q = IF p THEN ch_sch_prio_insert(qu[s], t, k.prio) ELSE ch_queue_insert(qu[s], t)
    PROVE  QueueMore(k, qu[s], q, t, p)
<1> USE DEF QueueMore
<1>1. /\ qu[s] \in Seq(Threads) /\ NoDuplicates(qu[s]) /\ t \notin ToSet(qu[s])
      /\ p => SortedByPrio(qu[s], k.prio)
  BY DEF QueuesExact
<1>2. CASE p
  <2>1. q = ch_pqueue_insert_behind(qu[s], t, k.prio)
    BY <1>2 DEF ch_sch_prio_insert
  <2>2. k.prio \in [Threads -> Nat]
    BY DEF KernelType, Prios
  <2>3. SortedByPrio(qu[s], k.prio) /\ NoDuplicates(qu[s])
    BY <1>1, <1>2
  <2>4. q \in Seq(Threads) /\ ToSet(q) = ToSet(qu[s]) \union {t}
    BY <1>1, <2>1, <2>2, PrioInsertSet
  <2>5. NoDuplicates(q)
    BY <1>1, <2>1, <2>2, <2>3, PrioInsertSet
  <2>6. SortedByPrio(q, k.prio)
    BY <1>1, <2>1, <2>2, <2>3, PrioInsertSet
  <2> QED BY <2>4, <2>5, <2>6
<1>3. CASE ~ p
  <2>1. q = ch_queue_insert(qu[s], t)
    BY <1>3
  <2>2. /\ ch_queue_insert(qu[s], t) \in Seq(Threads)
        /\ ToSet(ch_queue_insert(qu[s], t)) = ToSet(qu[s]) \union {t}
    BY <1>1, QueueInsertSet
  <2>3. NoDuplicates(q)
    BY <1>1, <2>1, QueueInsertSet
  <2> QED BY <1>3, <2>1, <2>2, <2>3
<1> QED BY <1>2, <1>3

\* The object of a thread that is not in the state w changes, or the thread
\* begins or stops waiting otherwise.
LEMMA QueueAside ==
    ASSUME NEW k, NEW qu, NEW wt, NEW O, NEW w, NEW p, QueuesExact(k, qu, wt, O, w, p),
           w \notin {"READY", "CURRENT"}, NEW t \in Threads, NEW r, Others(k, r, {t}),
           k.state[t] # w, r.state[t] # w, NEW n
    PROVE  QueuesExact(r, qu, [wt EXCEPT ![t] = n], O, w, p)
<1>1. \A u \in Threads : (r.state[u] = w) <=> (k.state[u] = w)
  BY DEF Others
<1>2. \A u \in Threads \ {t} : [wt EXCEPT ![t] = n][u] = wt[u]
  BY DEF QueuesExact
<1>3. \A z \in O : {u \in Threads : r.state[u] = w /\ [wt EXCEPT ![t] = n][u] = z}
                      = {u \in Threads : k.state[u] = w /\ wt[u] = z}
  BY <1>1, <1>2
<1>4. DOMAIN [wt EXCEPT ![t] = n] = Threads
  BY DEF QueuesExact
<1> QED BY <1>3, <1>4 DEF QueuesExact, Others
=============================================================================
