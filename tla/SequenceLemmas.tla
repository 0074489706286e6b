--------------------------- MODULE SequenceLemmas ---------------------------
(***************************************************************************)
(* What the queue operators of the kernel models do to a sequence.         *)
(***************************************************************************)
EXTENDS Queue, SequenceTheorems, WellFoundedInduction, TLAPS

\* What inserting an element does to a sequence.
LEMMA InsertAtLemma ==
  ASSUME NEW S, NEW q \in Seq(S), NEW e \in S, NEW n \in 1..(Len(q) + 1)
  PROVE  /\ InsertAt(q, n, e) \in Seq(S)
         /\ Len(InsertAt(q, n, e)) = Len(q) + 1
         /\ \A j \in 1..(Len(q) + 1) :
              InsertAt(q, n, e)[j] = IF j < n THEN q[j]
                                     ELSE IF j = n THEN e ELSE q[j - 1]
<1> DEFINE front == SubSeq(q, 1, n - 1)
           back  == SubSeq(q, n, Len(q))
<1>1. /\ front \in Seq(S) /\ Len(front) = n - 1
      /\ \A j \in 1..(n - 1) : front[j] = q[j]
  BY SubSeqProperties
<1>2. /\ back \in Seq(S) /\ Len(back) = Len(q) - n + 1
      /\ \A j \in 1..(Len(q) - n + 1) : back[j] = q[n + j - 1]
  BY SubSeqProperties
<1> HIDE DEF front, back
<1>3. /\ <<e>> \in Seq(S) /\ Len(<<e>>) = 1 /\ <<e>>[1] = e
  OBVIOUS
<1> DEFINE head == front \o <<e>>
<1>4. /\ head \in Seq(S) /\ Len(head) = n
      /\ \A j \in 1..n : head[j] = IF j < n THEN q[j] ELSE e
  BY <1>1, <1>3, ConcatProperties
<1> HIDE DEF head
<1>a. Len(q) \in Nat /\ Len(head) + Len(back) = Len(q) + 1
  BY <1>2, <1>4, LenProperties
<1>5. /\ head \o back \in Seq(S) /\ Len(head \o back) = Len(q) + 1
      /\ \A j \in 1..(Len(q) + 1) :
           (head \o back)[j] = IF j <= n THEN head[j] ELSE back[j - n]
  <2>1. /\ head \o back \in Seq(S)
        /\ Len(head \o back) = Len(head) + Len(back)
        /\ \A j \in 1..(Len(head) + Len(back)) :
             (head \o back)[j] = IF j <= Len(head) THEN head[j]
                                                  ELSE back[j - Len(head)]
    BY <1>2, <1>4, ConcatProperties
  <2> QED
    BY <1>4, <1>a, <2>1
<1>6. InsertAt(q, n, e) = head \o back
  BY DEF InsertAt, front, back, head
<1> QED
  BY <1>2, <1>4, <1>5, <1>6

\* What removing an element does to a sequence.
LEMMA RemoveAtLemma ==
  ASSUME NEW S, NEW q \in Seq(S), NEW n \in 1..Len(q)
  PROVE  /\ RemoveAt(q, n) \in Seq(S)
         /\ Len(RemoveAt(q, n)) = Len(q) - 1
         /\ \A j \in 1..(Len(q) - 1) :
              RemoveAt(q, n)[j] = IF j < n THEN q[j] ELSE q[j + 1]
<1> DEFINE front == SubSeq(q, 1, n - 1)
           back  == SubSeq(q, n + 1, Len(q))
<1>1. /\ front \in Seq(S) /\ Len(front) = n - 1
      /\ \A j \in 1..(n - 1) : front[j] = q[j]
  BY SubSeqProperties
<1>2. /\ back \in Seq(S) /\ Len(back) = Len(q) - n
      /\ \A j \in 1..(Len(q) - n) : back[j] = q[n + j]
  BY SubSeqProperties
<1> HIDE DEF front, back
<1>a. Len(q) \in Nat /\ Len(front) + Len(back) = Len(q) - 1
  BY <1>1, <1>2, LenProperties
<1>3. /\ front \o back \in Seq(S) /\ Len(front \o back) = Len(q) - 1
      /\ \A j \in 1..(Len(q) - 1) :
           (front \o back)[j] = IF j <= n - 1 THEN front[j] ELSE back[j - (n - 1)]
  <2>1. /\ front \o back \in Seq(S)
        /\ Len(front \o back) = Len(front) + Len(back)
        /\ \A j \in 1..(Len(front) + Len(back)) :
             (front \o back)[j] = IF j <= Len(front) THEN front[j]
                                                   ELSE back[j - Len(front)]
    BY <1>1, <1>2, ConcatProperties
  <2> QED
    BY <1>1, <1>a, <2>1
<1>4. RemoveAt(q, n) = front \o back
  BY DEF RemoveAt, front, back
<1> QED
  <2>1. ASSUME NEW j \in 1..(Len(q) - 1)
        PROVE  RemoveAt(q, n)[j] = IF j < n THEN q[j] ELSE q[j + 1]
    <3>1. CASE j < n
      BY <1>1, <1>3, <1>4, <1>a, <3>1
    <3>2. CASE ~(j < n)
      <4>1. j - (n - 1) \in 1..(Len(q) - n) /\ n + (j - (n - 1)) = j + 1
        BY <1>a, <3>2
      <4> QED
        BY <1>2, <1>3, <1>4, <1>a, <3>2, <4>1
    <3> QED
      BY <3>1, <3>2
  <2> QED
    BY <1>3, <1>4, <2>1

\* A set of positions of a sequence has a last one, or is empty.
LEMMA LastPosition ==
  ASSUME NEW n \in Nat, NEW B \in SUBSET (1..n)
  PROVE  \E i \in 0..n : (i = 0 \/ i \in B) /\ \A j \in B : j <= i
<1> DEFINE T == {m \in Nat : \A j \in B : j <= m}
           R == OpToRel(<, Nat)
<1>1. T \subseteq Nat /\ n \in T
  OBVIOUS
<1>2. PICK m \in T : \A y \in T : ~(<<y, m>> \in R)
  BY <1>1, NatLessThanWellFounded, WFMin
<1>3. \A y \in T : ~(y < m)
  BY <1>1, <1>2 DEF OpToRel
<1>4. m \in 0..n
  BY <1>1, <1>3
<1>5. m = 0 \/ m \in B
  <2>1. SUFFICES ASSUME m # 0 PROVE m \in B
    OBVIOUS
  <2>2. m - 1 \in Nat /\ m - 1 \notin T
    BY <1>3, <1>4, <2>1
  <2>3. PICK j \in B : ~(j <= m - 1)
    BY <2>2
  <2>4. j \in 1..n /\ j <= m
    BY <1>2
  <2> QED
    BY <1>4, <2>3, <2>4
<1> QED
  BY <1>4, <1>5

\* A set of numbers has a least one.
LEMMA LeastNumber ==
  ASSUME NEW T \in SUBSET Nat, T # {}
  PROVE  \E m \in T : \A n \in T : m <= n
<1>1. PICK m \in T : \A n \in T : <<n, m>> \notin OpToRel(<, Nat)
  BY NatLessThanWellFounded, WFMin, Zenon
<1>2. m \in Nat /\ \A n \in T : n \in Nat
  OBVIOUS
<1>3. ASSUME NEW n \in T, n < m PROVE FALSE
  BY <1>1, <1>2, <1>3, Zenon DEF OpToRel
<1> QED
  BY <1>2, <1>3

\* Induction over the natural numbers, the property being a set.
LEMMA SetInduction ==
  ASSUME NEW S \in SUBSET Nat, 0 \in S, \A n \in S : n + 1 \in S
  PROVE  S = Nat
<1>1. SUFFICES ASSUME Nat \ S # {} PROVE FALSE
  OBVIOUS
<1>2. PICK m \in Nat \ S : \A n \in Nat \ S : m <= n
  BY <1>1, LeastNumber
<1>3. m - 1 \in S
  BY <1>2
<1>4. (m - 1) + 1 \in S /\ (m - 1) + 1 = m
  BY <1>2, <1>3
<1> QED
  BY <1>2, <1>4

\* Inserting an element that is not there adds it once.
LEMMA InsertAtSet ==
  ASSUME NEW S, NEW q \in Seq(S), NEW e \in S, NEW n \in 1..(Len(q) + 1),
         IsInjective(q), e \notin ToSet(q)
  PROVE  /\ ToSet(InsertAt(q, n, e)) = ToSet(q) \cup {e}
         /\ IsInjective(InsertAt(q, n, e))
<1> DEFINE r == InsertAt(q, n, e)
<1>1. /\ Len(q) \in Nat /\ DOMAIN q = 1..Len(q)
      /\ r \in Seq(S) /\ Len(r) = Len(q) + 1 /\ DOMAIN r = 1..(Len(q) + 1)
      /\ \A j \in 1..(Len(q) + 1) :
           r[j] = IF j < n THEN q[j] ELSE IF j = n THEN e ELSE q[j - 1]
  BY InsertAtLemma, LenProperties
<1> HIDE DEF r
<1>2. \A j \in 1..Len(q) : q[j] # e
  BY <1>1 DEF ToSet
<1>3. ASSUME NEW x \in ToSet(r) PROVE x \in ToSet(q) \cup {e}
  <2>1. PICK j \in 1..(Len(q) + 1) : x = r[j]
    BY <1>1 DEF ToSet
  <2>2. CASE j < n
    BY <1>1, <2>1, <2>2 DEF ToSet
  <2>3. CASE j = n
    BY <1>1, <2>1, <2>3
  <2>4. CASE j > n
    <3>1. j - 1 \in 1..Len(q) /\ x = q[j - 1]
      BY <1>1, <2>1, <2>4
    <3> QED
      BY <1>1, <3>1 DEF ToSet
  <2> QED
    BY <1>1, <2>2, <2>3, <2>4
<1>4. ASSUME NEW x \in ToSet(q) \cup {e} PROVE x \in ToSet(r)
  <2>1. CASE x = e
    <3>1. r[n] = e
      BY <1>1
    <3> QED
      BY <1>1, <2>1, <3>1 DEF ToSet
  <2>2. CASE x \in ToSet(q)
    <3>1. PICK j \in 1..Len(q) : x = q[j]
      BY <1>1, <2>2 DEF ToSet
    <3>2. CASE j < n
      <4>1. j \in 1..(Len(q) + 1) /\ r[j] = x
        BY <1>1, <3>1, <3>2
      <4> QED
        BY <1>1, <4>1 DEF ToSet
    <3>3. CASE ~(j < n)
      <4>1. j + 1 \in 1..(Len(q) + 1) /\ r[j + 1] = q[(j + 1) - 1]
        BY <1>1, <3>1, <3>3
      <4>2. (j + 1) - 1 = j
        BY <1>1
      <4> QED
        BY <1>1, <3>1, <4>1, <4>2 DEF ToSet
    <3> QED
      BY <3>2, <3>3
  <2> QED
    BY <2>1, <2>2
<1>5. ASSUME NEW i \in 1..(Len(q) + 1), NEW j \in 1..(Len(q) + 1), r[i] = r[j]
      PROVE  i = j
  <2> DEFINE at(m) == IF m < n THEN m ELSE m - 1
  <2>1. \A m \in 1..(Len(q) + 1) :
          m # n => at(m) \in 1..Len(q) /\ r[m] = q[at(m)]
    BY <1>1
  <2>2. r[n] = e
    BY <1>1
  <2>3. (i = n) <=> (j = n)
    BY <1>2, <1>5, <2>1, <2>2
  <2>4. i # n => at(i) = at(j)
    <3> HIDE DEF at
    <3> QED
      BY <1>1, <1>5, <2>1, <2>3 DEF IsInjective
  <2> QED
    BY <1>1, <2>3, <2>4
<1>6. IsInjective(r)
  BY <1>1, <1>5 DEF IsInjective
<1> QED
  BY <1>3, <1>4, <1>6 DEF r

\* Removing an element that is there once takes it out.
LEMMA RemoveAtSet ==
  ASSUME NEW S, NEW q \in Seq(S), NEW n \in 1..Len(q), IsInjective(q)
  PROVE  /\ ToSet(RemoveAt(q, n)) = ToSet(q) \ {q[n]}
         /\ IsInjective(RemoveAt(q, n))
<1> DEFINE r == RemoveAt(q, n)
           at(m) == IF m < n THEN m ELSE m + 1
<1>1. /\ Len(q) \in Nat /\ DOMAIN q = 1..Len(q)
      /\ r \in Seq(S) /\ Len(r) = Len(q) - 1 /\ DOMAIN r = 1..(Len(q) - 1)
      /\ \A j \in 1..(Len(q) - 1) :
           r[j] = IF j < n THEN q[j] ELSE q[j + 1]
  BY RemoveAtLemma, LenProperties
<1> HIDE DEF r
<1>2. \A m \in 1..(Len(q) - 1) :
        at(m) \in 1..Len(q) /\ at(m) # n /\ r[m] = q[at(m)]
  BY <1>1
<1>3. \A i, j \in 1..(Len(q) - 1) : at(i) = at(j) => i = j
  BY <1>1
<1>4. \A m \in 1..Len(q) : m # n => \E j \in 1..(Len(q) - 1) : at(j) = m
  <2>1. SUFFICES ASSUME NEW m \in 1..Len(q), m # n
                 PROVE  \E j \in 1..(Len(q) - 1) : at(j) = m
    OBVIOUS
  <2>2. CASE m < n
    <3>1. m \in 1..(Len(q) - 1) /\ at(m) = m
      BY <1>1, <2>1, <2>2
    <3> QED
      BY <3>1
  <2>3. CASE m > n
    <3>1. m - 1 \in 1..(Len(q) - 1) /\ at(m - 1) = m
      BY <1>1, <2>1, <2>3
    <3> QED
      BY <3>1
  <2> QED
    BY <1>1, <2>1, <2>2, <2>3
<1> HIDE DEF at
<1>a. ToSet(r) = {r[j] : j \in 1..(Len(q) - 1)} /\ ToSet(q) = {q[j] : j \in 1..Len(q)}
  BY <1>1 DEF ToSet
<1>5. ToSet(r) = ToSet(q) \ {q[n]}
  <2>1. ASSUME NEW x \in ToSet(r) PROVE x \in ToSet(q) \ {q[n]}
    <3>1. PICK j \in 1..(Len(q) - 1) : x = r[j]
      BY <1>a
    <3>2. x = q[at(j)] /\ at(j) \in 1..Len(q) /\ at(j) # n
      BY <1>2, <3>1
    <3> QED
      BY <1>1, <1>a, <3>2 DEF IsInjective
  <2>2. ASSUME NEW x \in ToSet(q) \ {q[n]} PROVE x \in ToSet(r)
    <3>1. PICK m \in 1..Len(q) : x = q[m] /\ m # n
      BY <1>a
    <3>2. PICK j \in 1..(Len(q) - 1) : at(j) = m
      BY <1>4, <3>1
    <3> QED
      BY <1>2, <1>a, <3>1, <3>2
  <2> QED
    BY <2>1, <2>2
<1>6. IsInjective(r)
  BY <1>1, <1>2, <1>3 DEF IsInjective
<1> QED
  BY <1>5, <1>6 DEF r

\* Taking the head of a queue.
LEMMA TailSet ==
  ASSUME NEW S, NEW q \in Seq(S), q # <<>>, IsInjective(q)
  PROVE  /\ Head(q) \in S /\ Tail(q) \in Seq(S)
         /\ ToSet(Tail(q)) = ToSet(q) \ {Head(q)}
         /\ Head(q) \in ToSet(q)
         /\ IsInjective(Tail(q))
<1> DEFINE r == Tail(q)
<1>1. /\ Len(q) \in Nat /\ Len(q) # 0 /\ DOMAIN q = 1..Len(q)
      /\ Head(q) = q[1] /\ Head(q) \in S
      /\ r \in Seq(S) /\ DOMAIN r = 1..(Len(q) - 1)
      /\ \A j \in 1..(Len(q) - 1) : r[j] = q[j + 1]
  BY LenProperties, HeadTailProperties, EmptySeq
<1> HIDE DEF r
<1>2. \A m \in 1..Len(q) : m # 1 => \E j \in 1..(Len(q) - 1) : m = j + 1
  <2>1. SUFFICES ASSUME NEW m \in 1..Len(q), m # 1
                 PROVE  m - 1 \in 1..(Len(q) - 1) /\ m = (m - 1) + 1
    OBVIOUS
  <2> QED
    BY <1>1, <2>1
<1>3. \A j \in 1..(Len(q) - 1) : j + 1 \in 1..Len(q) /\ j + 1 # 1
  BY <1>1
<1>4. /\ ToSet(r) = {r[j] : j \in 1..(Len(q) - 1)}
      /\ ToSet(q) = {q[j] : j \in 1..Len(q)}
  BY <1>1 DEF ToSet
<1>5. q[1] \in ToSet(q)
  BY <1>1, <1>4
<1>6. ToSet(r) = ToSet(q) \ {q[1]}
  <2>1. ASSUME NEW x \in ToSet(r) PROVE x \in ToSet(q) \ {q[1]}
    <3>1. PICK j \in 1..(Len(q) - 1) : x = r[j]
      BY <1>4
    <3>2. x = q[j + 1] /\ j + 1 \in 1..Len(q) /\ j + 1 # 1
      BY <1>1, <1>3, <3>1
    <3> QED
      BY <1>1, <1>4, <3>2 DEF IsInjective
  <2>2. ASSUME NEW x \in ToSet(q) \ {q[1]} PROVE x \in ToSet(r)
    <3>1. PICK m \in 1..Len(q) : x = q[m] /\ m # 1
      BY <1>4
    <3>2. PICK j \in 1..(Len(q) - 1) : m = j + 1
      BY <1>2, <3>1
    <3> QED
      BY <1>1, <1>4, <3>1, <3>2
  <2> QED
    BY <2>1, <2>2
<1>7. IsInjective(r)
  <2>1. SUFFICES ASSUME NEW i \in 1..(Len(q) - 1), NEW j \in 1..(Len(q) - 1),
                        r[i] = r[j]
                 PROVE  i = j
    BY <1>1 DEF IsInjective
  <2>2. i + 1 = j + 1
    BY <1>1, <1>3, <2>1 DEF IsInjective
  <2> QED
    BY <2>2
<1> QED
  BY <1>1, <1>5, <1>6, <1>7 DEF r

\* Appending an element that is not there adds it once.
LEMMA AppendSet ==
  ASSUME NEW S, NEW q \in Seq(S), NEW e \in S, IsInjective(q), e \notin ToSet(q)
  PROVE  /\ Append(q, e) \in Seq(S)
         /\ ToSet(Append(q, e)) = ToSet(q) \cup {e}
         /\ IsInjective(Append(q, e))
<1> DEFINE r == Append(q, e)
<1>1. /\ Len(q) \in Nat /\ DOMAIN q = 1..Len(q)
      /\ r \in Seq(S) /\ DOMAIN r = 1..(Len(q) + 1)
      /\ \A j \in 1..Len(q) : r[j] = q[j]
      /\ r[Len(q) + 1] = e
  BY LenProperties
<1> HIDE DEF r
<1>2. \A j \in 1..(Len(q) + 1) : j \in 1..Len(q) \/ j = Len(q) + 1
  BY <1>1
<1>3. \A j \in 1..Len(q) : j \in 1..(Len(q) + 1) /\ q[j] # e
  BY <1>1 DEF ToSet
<1>4. Len(q) + 1 \in 1..(Len(q) + 1)
  BY <1>1
<1>5. ToSet(r) = ToSet(q) \cup {e}
  <2>1. ToSet(r) \subseteq ToSet(q) \cup {e}
    BY <1>1, <1>2 DEF ToSet
  <2>2. ToSet(q) \cup {e} \subseteq ToSet(r)
    BY <1>1, <1>3, <1>4 DEF ToSet
  <2> QED
    BY <2>1, <2>2
<1>6. IsInjective(r)
  BY <1>1, <1>2, <1>3 DEF IsInjective
<1> QED
  BY <1>1, <1>5, <1>6 DEF r

\* Joining two sequences that have no element in common.
LEMMA ConcatSet ==
  ASSUME NEW S, NEW p \in Seq(S), NEW q \in Seq(S),
         IsInjective(p), IsInjective(q), ToSet(p) \cap ToSet(q) = {}
  PROVE  /\ p \o q \in Seq(S)
         /\ ToSet(p \o q) = ToSet(p) \cup ToSet(q)
         /\ IsInjective(p \o q)
<1> DEFINE r == p \o q
           m == Len(p)
           n == Len(q)
<1>1. /\ m \in Nat /\ DOMAIN p = 1..m
      /\ n \in Nat /\ DOMAIN q = 1..n
      /\ r \in Seq(S) /\ DOMAIN r = 1..(m + n)
      /\ \A j \in 1..(m + n) : r[j] = IF j <= m THEN p[j] ELSE q[j - m]
  BY LenProperties, ConcatProperties
<1> HIDE DEF r, m, n
<1>2. \A j \in 1..(m + n) : /\ j <= m => j \in 1..m
                            /\ ~(j <= m) => j - m \in 1..n
  BY <1>1
<1>3. \A j \in 1..m : j \in 1..(m + n) /\ r[j] = p[j]
  BY <1>1
<1>4. \A j \in 1..n : j + m \in 1..(m + n) /\ r[j + m] = q[j]
  <2>1. SUFFICES ASSUME NEW j \in 1..n
                 PROVE  j + m \in 1..(m + n) /\ r[j + m] = q[j]
    OBVIOUS
  <2>2. j + m \in 1..(m + n) /\ ~(j + m <= m) /\ (j + m) - m = j
    BY <1>1
  <2>3. r[j + m] = q[(j + m) - m]
    BY <1>1, <2>2
  <2> QED
    BY <2>2, <2>3
<1>5. ToSet(r) = ToSet(p) \cup ToSet(q)
  <2>1. ASSUME NEW x \in ToSet(r) PROVE x \in ToSet(p) \cup ToSet(q)
    <3>1. PICK j \in 1..(m + n) : x = r[j]
      BY <1>1 DEF ToSet
    <3> QED
      BY <1>1, <1>2, <3>1 DEF ToSet
  <2>2. ASSUME NEW x \in ToSet(p) PROVE x \in ToSet(r)
    <3>1. PICK j \in 1..m : x = p[j]
      BY <1>1, <2>2 DEF ToSet
    <3> QED
      BY <1>1, <1>3, <3>1 DEF ToSet
  <2>3. ASSUME NEW x \in ToSet(q) PROVE x \in ToSet(r)
    <3>1. PICK j \in 1..n : x = q[j]
      BY <1>1, <2>3 DEF ToSet
    <3> QED
      BY <1>1, <1>4, <3>1 DEF ToSet
  <2> QED
    BY <2>1, <2>2, <2>3
<1>6. IsInjective(r)
  <2>1. SUFFICES ASSUME NEW i \in 1..(m + n), NEW j \in 1..(m + n), r[i] = r[j]
                 PROVE  i = j
    BY <1>1 DEF IsInjective
  <2>2. CASE i <= m /\ j <= m
    BY <1>1, <1>2, <2>1, <2>2 DEF IsInjective
  <2>3. CASE ~(i <= m) /\ ~(j <= m)
    <3>1. i - m \in 1..n /\ j - m \in 1..n /\ q[i - m] = q[j - m]
      BY <1>1, <1>2, <2>1, <2>3
    <3>2. i - m = j - m
      BY <1>1, <3>1 DEF IsInjective
    <3> QED
      BY <1>1, <3>2
  <2>4. ASSUME NEW a \in 1..(m + n), NEW b \in 1..(m + n), a <= m, ~(b <= m)
        PROVE  r[a] # r[b]
    <3>1. r[a] \in ToSet(p) /\ r[b] \in ToSet(q)
      BY <1>1, <1>2, <2>4 DEF ToSet
    <3> QED
      BY <3>1
  <2> QED
    BY <2>1, <2>2, <2>3, <2>4
<1> QED
  BY <1>1, <1>5, <1>6 DEF r

\* The sequences that RemoveNodes goes through.
KeptUpto(g, q, T, i) ==
  IF i = 0 THEN <<>> ELSE IF q[i] \in T THEN g[i - 1] ELSE Append(g[i - 1], q[i])

KeptBy(g, q, T, n) == g = [i \in 0..n |-> KeptUpto(g, q, T, i)]

LEMMA KeptExists ==
  ASSUME NEW S, NEW q \in Seq(S), NEW T
  PROVE  \E g : KeptBy(g, q, T, Len(q)) /\ RemoveNodes(q, T) = g[Len(q)]
<1> DEFINE N == {n \in Nat : \E g : KeptBy(g, q, T, n)}
           F == CHOOSE g : KeptBy(g, q, T, Len(q))
<1>1. 0 \in N
  <2>1. KeptBy([i \in 0..0 |-> <<>>], q, T, 0)
    BY DEF KeptBy, KeptUpto
  <2> QED
    BY <2>1
<1>2. ASSUME NEW n \in N PROVE n + 1 \in N
  <2>1. PICK g : KeptBy(g, q, T, n)
    OBVIOUS
  <2> DEFINE h == [i \in 0..(n + 1) |-> KeptUpto(g, q, T, i)]
  <2>2. \A i \in 0..n : h[i] = g[i]
    BY <2>1 DEF KeptBy
  <2>3. \A i \in 0..(n + 1) : i # 0 => i - 1 \in 0..n
    OBVIOUS
  <2>4. \A i \in 0..(n + 1) : KeptUpto(h, q, T, i) = KeptUpto(g, q, T, i)
    <3> HIDE DEF h, N, F
    <3>1. \A i \in 0..(n + 1) : i # 0 => h[i - 1] = g[i - 1]
      BY <2>2, <2>3
    <3> QED
      BY <3>1 DEF KeptUpto
  <2>5. KeptBy(h, q, T, n + 1)
    BY <2>4 DEF KeptBy
  <2> HIDE DEF h
  <2> QED
    BY <2>5
<1>3. Len(q) \in N
  <2> HIDE DEF N
  <2>1. N \in SUBSET Nat
    BY DEF N
  <2> QED
    BY <1>1, <1>2, <2>1, SetInduction, LenProperties
<1>4. KeptBy(F, q, T, Len(q))
  BY <1>3
<1>5. RemoveNodes(q, T) = F[Len(q)]
  BY Zenon DEF RemoveNodes, KeptBy, KeptUpto
<1> QED
  BY <1>4, <1>5

\* Unlinking the nodes of a set leaves the others, each of them once.
LEMMA RemoveNodesSet ==
  ASSUME NEW S, NEW q \in Seq(S), NEW T, IsInjective(q)
  PROVE  /\ RemoveNodes(q, T) \in Seq(S)
         /\ ToSet(RemoveNodes(q, T)) = ToSet(q) \ T
         /\ IsInjective(RemoveNodes(q, T))
<1>1. PICK g : KeptBy(g, q, T, Len(q)) /\ RemoveNodes(q, T) = g[Len(q)]
  BY KeptExists
<1>2. /\ Len(q) \in Nat /\ \A i \in 1..Len(q) : q[i] \in S
      /\ DOMAIN q = 1..Len(q)
      /\ ToSet(q) = {q[i] : i \in 1..Len(q)}
  BY LenProperties, ElementOfSeq DEF ToSet
<1>3. /\ g[0] = <<>>
      /\ \A i \in 1..Len(q) :
           g[i] = IF q[i] \in T THEN g[i - 1] ELSE Append(g[i - 1], q[i])
  <2>1. 0 \in 0..Len(q) /\ \A i \in 1..Len(q) : i \in 0..Len(q) /\ i # 0
    BY <1>2
  <2>2. \A i \in 0..Len(q) : g[i] = KeptUpto(g, q, T, i)
    BY <1>1 DEF KeptBy
  <2> QED
    BY <2>1, <2>2 DEF KeptUpto
<1> DEFINE first(n) == {q[i] : i \in 1..n}
           Good(n) == /\ g[n] \in Seq(S)
                      /\ ToSet(g[n]) = first(n) \ T
                      /\ IsInjective(g[n])
           N == {n \in Nat : n <= Len(q) => Good(n)}
<1>4. 0 \in N
  <2>1. first(0) = {}
    OBVIOUS
  <2>2. <<>> \in Seq(S) /\ ToSet(<<>>) = {} /\ IsInjective(<<>>)
    BY DEF ToSet, IsInjective
  <2> HIDE DEF first
  <2> QED
    BY <1>3, <2>1, <2>2
<1>5. ASSUME NEW n \in N PROVE n + 1 \in N
  <2>1. SUFFICES ASSUME n + 1 <= Len(q) PROVE Good(n + 1)
    OBVIOUS
  <2> DEFINE e == q[n + 1]
  <2>2. /\ n \in Nat /\ n + 1 \in 1..Len(q) /\ (n + 1) - 1 = n
        /\ g[n] \in Seq(S) /\ ToSet(g[n]) = first(n) \ T /\ IsInjective(g[n])
        /\ e \in S
    BY <1>2, <2>1
  <2>3. g[n + 1] = IF e \in T THEN g[n] ELSE Append(g[n], e)
    BY <1>3, <2>2
  <2>4. first(n + 1) = first(n) \cup {e}
    <3>1. \A i \in 1..(n + 1) : i \in 1..n \/ i = n + 1
      OBVIOUS
    <3>2. \A i \in 1..n : i \in 1..(n + 1)
      OBVIOUS
    <3> QED
      BY <2>2, <3>1, <3>2
  <2>5. e \notin first(n)
    <3>1. \A i \in 1..n : i \in 1..Len(q) /\ i # n + 1
      BY <2>2
    <3> QED
      BY <1>2, <2>2, <3>1 DEF IsInjective
  <2> HIDE DEF first, e, Good, N
  <2>6. CASE e \in T
    BY <2>2, <2>3, <2>4, <2>6 DEF Good
  <2>7. CASE e \notin T
    <3>1. /\ Append(g[n], e) \in Seq(S)
          /\ ToSet(Append(g[n], e)) = ToSet(g[n]) \cup {e}
          /\ IsInjective(Append(g[n], e))
      BY <2>2, <2>5, AppendSet
    <3> QED
      BY <2>2, <2>3, <2>4, <2>7, <3>1 DEF Good
  <2> QED
    BY <2>6, <2>7
<1>6. Len(q) \in N
  <2> HIDE DEF N
  <2>1. N \in SUBSET Nat
    BY DEF N
  <2> QED
    BY <1>2, <1>4, <1>5, <2>1, SetInduction
<1> QED
  BY <1>1, <1>2, <1>6

\* What is left of the queue keeps its order.
LEMMA RemoveNodesOrder ==
  ASSUME NEW S, NEW q \in Seq(S), NEW T
  PROVE  LET r == RemoveNodes(q, T) IN
         \A m, n \in DOMAIN r :
           m < n => \E a, b \in DOMAIN q : a < b /\ r[m] = q[a] /\ r[n] = q[b]
<1>1. PICK g : KeptBy(g, q, T, Len(q)) /\ RemoveNodes(q, T) = g[Len(q)]
  BY KeptExists
<1>2. /\ Len(q) \in Nat /\ \A i \in 1..Len(q) : q[i] \in S
      /\ DOMAIN q = 1..Len(q)
  BY LenProperties, ElementOfSeq
<1>3. /\ g[0] = <<>>
      /\ \A i \in 1..Len(q) :
           g[i] = IF q[i] \in T THEN g[i - 1] ELSE Append(g[i - 1], q[i])
  <2>1. 0 \in 0..Len(q) /\ \A i \in 1..Len(q) : i \in 0..Len(q) /\ i # 0
    BY <1>2
  <2>2. \A i \in 0..Len(q) : g[i] = KeptUpto(g, q, T, i)
    BY <1>1 DEF KeptBy
  <2> QED
    BY <2>1, <2>2 DEF KeptUpto
<1> DEFINE At(n, r) == \A m \in DOMAIN r : \E a \in 1..n : r[m] = q[a]
           Up(n, r) == \A m, o \in DOMAIN r :
                         m < o => \E a, b \in 1..n : a < b /\ r[m] = q[a] /\ r[o] = q[b]
           Good(n) == g[n] \in Seq(S) /\ At(n, g[n]) /\ Up(n, g[n])
           N == {n \in Nat : n <= Len(q) => Good(n)}
<1>4. 0 \in N
  <2>1. <<>> \in Seq(S) /\ \A m \in DOMAIN <<>> : FALSE
    OBVIOUS
  <2> QED
    BY <1>3, <2>1
<1>5. ASSUME NEW n \in N PROVE n + 1 \in N
  <2>1. SUFFICES ASSUME n + 1 <= Len(q) PROVE Good(n + 1)
    OBVIOUS
  <2> DEFINE e == q[n + 1]
             r == g[n]
             s == Append(r, e)
  <2>2. /\ n \in Nat /\ n + 1 \in 1..Len(q) /\ (n + 1) - 1 = n
        /\ r \in Seq(S) /\ At(n, r) /\ Up(n, r) /\ e \in S
    BY <1>2, <2>1
  <2>3. g[n + 1] = IF e \in T THEN r ELSE s
    BY <1>3, <2>2
  <2>4. \A a \in 1..n : a \in 1..(n + 1) /\ a < n + 1
    BY <2>2
  <2>5. CASE e \in T
    BY <2>2, <2>3, <2>4, <2>5
  <2>6. CASE e \notin T
    <3>1. /\ s \in Seq(S) /\ DOMAIN r = 1..Len(r) /\ DOMAIN s = 1..(Len(r) + 1)
          /\ Len(r) \in Nat /\ s[Len(r) + 1] = e
          /\ \A m \in 1..Len(r) : s[m] = r[m]
      BY <2>2, AppendProperties, LenProperties
    <3> HIDE DEF s, r, e
    <3>2. \A m \in DOMAIN s : (m \in DOMAIN r /\ s[m] = r[m]) \/ (m = Len(r) + 1 /\ s[m] = e)
      BY <3>1
    <3>3. At(n + 1, s)
      BY <2>2, <2>4, <3>2 DEF e
    <3>4. Up(n + 1, s)
      <4> SUFFICES ASSUME NEW m \in DOMAIN s, NEW o \in DOMAIN s, m < o
                   PROVE  \E a, b \in 1..(n + 1) : a < b /\ s[m] = q[a] /\ s[o] = q[b]
        OBVIOUS
      <4>1. m \in DOMAIN r /\ s[m] = r[m]
        BY <3>1, <3>2
      <4>2. CASE o \in DOMAIN r /\ s[o] = r[o]
        BY <2>2, <2>4, <4>1, <4>2
      <4>3. CASE s[o] = e
        <5>1. PICK a \in 1..n : r[m] = q[a]
          BY <2>2, <4>1
        <5> QED
          BY <2>2, <2>4, <4>1, <4>3, <5>1 DEF e
      <4> QED
        BY <3>2, <4>2, <4>3
    <3> QED
      BY <2>3, <2>6, <3>1, <3>3, <3>4
  <2> QED
    BY <2>5, <2>6
<1>6. Len(q) \in N
  <2> HIDE DEF N
  <2>1. N \in SUBSET Nat
    BY DEF N
  <2> QED
    BY <1>2, <1>4, <1>5, <2>1, SetInduction
<1>7. Up(Len(q), g[Len(q)])
  <2> HIDE DEF At, Up
  <2> QED
    BY <1>2, <1>6
<1> QED
  BY <1>1, <1>2, <1>7
=============================================================================
