---------------------------- MODULE CommonLemmas ----------------------------
(* Facts about numbers and sequences that several proofs rest on.           *)
EXTENDS Integers, SequencesExt, SequenceTheorems, FiniteSetTheorems, TLAPS

-----------------------------------------------------------------------------
(* Numbers.                                                                 *)

\* Multiplication by a natural number keeps the order.
LEMMA TimesMonotonic ==
    ASSUME NEW a \in Int, NEW b \in Int, NEW n \in Nat, a <= b
    PROVE  a * n <= b * n
<1>1. (b - a) * n >= 0
    OBVIOUS
<1>2. (b - a) * n = b * n - a * n
    OBVIOUS
<1>3. a * n \in Int /\ b * n \in Int
    OBVIOUS
<1> QED
    BY <1>1, <1>2, <1>3

\* A number has one quotient and one rest.
LEMMA OneQuotient ==
    ASSUME NEW n \in Nat, NEW p \in Int, NEW q \in Int,
           NEW r \in 0 .. n - 1, NEW s \in 0 .. n - 1, p * n + r = q * n + s
    PROVE  p = q /\ r = s
<1>1. p * n \in Int /\ q * n \in Int
    OBVIOUS
<1>2. ~(p < q)
    <2> SUFFICES ASSUME p < q PROVE FALSE
        OBVIOUS
    <2>1. (p + 1) * n <= q * n
        BY TimesMonotonic
    <2>2. (p + 1) * n = p * n + n
        OBVIOUS
    <2> QED
        BY <2>1, <2>2, <1>1
<1>3. ~(q < p)
    <2> SUFFICES ASSUME q < p PROVE FALSE
        OBVIOUS
    <2>1. (q + 1) * n <= p * n
        BY TimesMonotonic
    <2>2. (q + 1) * n = q * n + n
        OBVIOUS
    <2> QED
        BY <2>1, <2>2, <1>1
<1> QED
    BY <1>1, <1>2, <1>3

\* What \div is.
LEMMA Quotient ==
    ASSUME NEW a \in Nat, NEW b \in Nat \ {0}
    PROVE  /\ a \div b \in Nat
           /\ (a \div b) * b <= a
           /\ a < (a \div b) * b + b
OBVIOUS

\* The remainder of a number that is less than one period away from its range.
LEMMA Remainder ==
    ASSUME NEW n \in Nat \ {0}, NEW a \in Int
    PROVE  /\ a % n \in 0 .. n - 1
           /\ a \in 0 .. n - 1 => a % n = a
           /\ a - n \in 0 .. n - 1 => a % n = a - n
           /\ a + n \in 0 .. n - 1 => a % n = a + n
<1> DEFINE q == a \div n
           r == a % n
<1>1. r \in 0 .. n - 1 /\ q * n + r = a /\ q \in Int
  OBVIOUS
<1> HIDE DEF q, r
<1>2. a \in 0 .. n - 1 => r = a
  <2>1. 0 * n + a = a
    OBVIOUS
  <2> QED
    BY <1>1, <2>1, OneQuotient
<1>3. a - n \in 0 .. n - 1 => r = a - n
  <2>1. 1 * n + (a - n) = a
    OBVIOUS
  <2> QED
    BY <1>1, <2>1, OneQuotient
<1>4. a + n \in 0 .. n - 1 => r = a + n
  <2>1. -1 * n + (a + n) = a
    OBVIOUS
  <2> QED
    BY <1>1, <2>1, OneQuotient
<1> QED
  BY <1>1, <1>2, <1>3, <1>4 DEF r

-----------------------------------------------------------------------------
(* Sequences: inserting and removing.                                       *)

\* The elements of a concatenation.
LEMMA ConcatElements ==
    ASSUME NEW S, NEW a \in Seq(S), NEW b \in Seq(S)
    PROVE  /\ a \o b \in Seq(S)
           /\ Len(a \o b) = Len(a) + Len(b)
           /\ \A i \in 1 .. Len(a) : (a \o b)[i] = a[i]
           /\ \A i \in Len(a) + 1 .. Len(a) + Len(b) : (a \o b)[i] = b[i - Len(a)]
OBVIOUS

\* InsertAt puts one element into a sequence and makes it one longer; the elements
\* before the place stay where they are, and the others move up by one.
LEMMA InsertAtProperties ==
    ASSUME NEW S, NEW s \in Seq(S), NEW k \in 1 .. Len(s) + 1, NEW e \in S
    PROVE  /\ InsertAt(s, k, e) \in Seq(S)
           /\ Len(InsertAt(s, k, e)) = Len(s) + 1
           /\ \A i \in 1 .. k - 1 : InsertAt(s, k, e)[i] = s[i]
           /\ InsertAt(s, k, e)[k] = e
           /\ \A i \in k + 1 .. Len(s) + 1 : InsertAt(s, k, e)[i] = s[i - 1]
<1> DEFINE front == SubSeq(s, 1, k - 1)
           back == SubSeq(s, k, Len(s))
           most == front \o <<e>>
<1>0. Len(s) \in Nat /\ k \in Nat /\ k - 1 \in Nat /\ Len(s) - k + 1 \in Nat
  OBVIOUS
<1>1. /\ front \in Seq(S) /\ Len(front) = k - 1
      /\ \A i \in 1 .. k - 1 : front[i] = s[i]
  BY <1>0
<1>2. /\ back \in Seq(S) /\ Len(back) = Len(s) - k + 1
      /\ \A i \in 1 .. Len(s) - k + 1 : back[i] = s[k + i - 1]
  BY <1>0
<1>3. <<e>> \in Seq(S) /\ Len(<<e>>) = 1 /\ <<e>>[1] = e
  OBVIOUS
<1> HIDE DEF front, back
<1>4. /\ most \in Seq(S) /\ Len(most) = k
      /\ \A i \in 1 .. k - 1 : most[i] = s[i]
      /\ most[k] = e
  <2>1. /\ front \o <<e>> \in Seq(S)
        /\ Len(front \o <<e>>) = Len(front) + Len(<<e>>)
        /\ \A i \in 1 .. Len(front) : (front \o <<e>>)[i] = front[i]
        /\ \A i \in Len(front) + 1 .. Len(front) + Len(<<e>>) :
              (front \o <<e>>)[i] = <<e>>[i - Len(front)]
    BY <1>1, <1>3, ConcatElements
  <2> QED
    BY <1>0, <1>1, <1>3, <2>1
<1>5. InsertAt(s, k, e) = most \o back
  BY DEF InsertAt, front, back
<1> HIDE DEF most
<1>6. /\ most \o back \in Seq(S)
      /\ Len(most \o back) = k + (Len(s) - k + 1)
      /\ \A i \in 1 .. k : (most \o back)[i] = most[i]
      /\ \A i \in k + 1 .. k + (Len(s) - k + 1) : (most \o back)[i] = back[i - k]
  <2>1. /\ most \o back \in Seq(S)
        /\ Len(most \o back) = Len(most) + Len(back)
        /\ \A i \in 1 .. Len(most) : (most \o back)[i] = most[i]
        /\ \A i \in Len(most) + 1 .. Len(most) + Len(back) :
              (most \o back)[i] = back[i - Len(most)]
    BY <1>2, <1>4, ConcatElements
  <2> QED
    BY <1>2, <1>4, <2>1
<1>7. ASSUME NEW i \in k + 1 .. Len(s) + 1
      PROVE  (most \o back)[i] = s[i - 1]
  <2>1. i \in k + 1 .. k + (Len(s) - k + 1) /\ i - k \in 1 .. Len(s) - k + 1
    BY <1>0
  <2>2. k + (i - k) - 1 = i - 1
    BY <1>0
  <2> QED
    BY <1>2, <1>6, <2>1, <2>2
<1> QED
  BY <1>0, <1>4, <1>5, <1>6, <1>7

\* It is a sequence of the same set, one longer.
LEMMA InsertAtType ==
    ASSUME NEW S, NEW s \in Seq(S), NEW k \in 1 .. Len(s) + 1, NEW e \in S
    PROVE  InsertAt(s, k, e) \in Seq(S) /\ Len(InsertAt(s, k, e)) = Len(s) + 1
BY InsertAtProperties

\* RemoveAt takes one element out of a sequence and makes it one shorter; the
\* elements after the place move down by one.
LEMMA RemoveAtProperties ==
    ASSUME NEW S, NEW s \in Seq(S), NEW k \in 1 .. Len(s)
    PROVE  /\ RemoveAt(s, k) \in Seq(S)
           /\ Len(RemoveAt(s, k)) = Len(s) - 1
           /\ \A i \in 1 .. k - 1 : RemoveAt(s, k)[i] = s[i]
           /\ \A i \in k .. Len(s) - 1 : RemoveAt(s, k)[i] = s[i + 1]
<1> DEFINE front == SubSeq(s, 1, k - 1)
           back == SubSeq(s, k + 1, Len(s))
<1>0. Len(s) \in Nat /\ k \in Nat /\ k - 1 \in Nat /\ Len(s) - k \in Nat
  OBVIOUS
<1>1. /\ front \in Seq(S) /\ Len(front) = k - 1
      /\ \A i \in 1 .. k - 1 : front[i] = s[i]
  BY <1>0
<1>2. /\ back \in Seq(S) /\ Len(back) = Len(s) - k
      /\ \A i \in 1 .. Len(s) - k : back[i] = s[k + i]
  BY <1>0
<1>3. RemoveAt(s, k) = front \o back
  BY DEF RemoveAt
<1> HIDE DEF front, back
<1>4. front \o back \in Seq(S) /\ Len(front \o back) = Len(s) - 1
  <2>1. front \in Seq(S) /\ back \in Seq(S)
    BY <1>1, <1>2
  <2>3. front \o back \in Seq(S) /\ Len(front \o back) = Len(front) + Len(back)
    BY <2>1
  <2>2. Len(front) + Len(back) = Len(s) - 1
    BY <1>0, <1>1, <1>2
  <2> QED
    BY <2>2, <2>3
<1>5. ASSUME NEW i \in 1 .. k - 1
      PROVE  (front \o back)[i] = s[i]
  BY <1>0, <1>1, <1>2
<1>6. ASSUME NEW i \in k .. Len(s) - 1
      PROVE  (front \o back)[i] = s[i + 1]
  <2>1. /\ i - Len(front) \in 1 .. Len(back)
        /\ k + (i - Len(front)) = i + 1
    BY <1>0, <1>1, <1>2
  <2>2. (front \o back)[i] = back[i - Len(front)]
    BY <1>0, <1>1, <1>2
  <2> QED
    BY <1>2, <2>1, <2>2
<1> QED
  BY <1>0, <1>3, <1>4, <1>5, <1>6

\* The tail of a sequence that is not empty.
LEMMA TailElements ==
    ASSUME NEW S, NEW s \in Seq(S), s # <<>>
    PROVE  /\ Head(s) = s[1] /\ Head(s) \in S
           /\ Len(s) \in Nat \ {0}
           /\ Tail(s) \in Seq(S)
           /\ Len(Tail(s)) = Len(s) - 1
           /\ \A i \in 1 .. Len(s) - 1 : Tail(s)[i] = s[i + 1]
OBVIOUS

-----------------------------------------------------------------------------
(* Sequences that hold no element twice.                                    *)

\* Taking the head of such a sequence away takes that element out of its set.
LEMMA TailOfInjective ==
    ASSUME NEW S, NEW s \in Seq(S), s # <<>>, IsInjective(s)
    PROVE  /\ IsInjective(Tail(s))
           /\ Head(s) \in ToSet(s)
           /\ ToSet(Tail(s)) = ToSet(s) \ {Head(s)}
<1>1. /\ Head(s) = s[1] /\ Len(s) \in Nat \ {0}
      /\ Tail(s) \in Seq(S) /\ Len(Tail(s)) = Len(s) - 1
      /\ \A i \in 1 .. Len(s) - 1 : Tail(s)[i] = s[i + 1]
  BY TailElements
<1>2. DOMAIN s = 1 .. Len(s) /\ DOMAIN Tail(s) = 1 .. Len(s) - 1
  BY <1>1
<1>3. \A i, j \in 1 .. Len(s) : s[i] = s[j] => i = j
  BY <1>2 DEF IsInjective
<1>4. IsInjective(Tail(s))
  BY <1>1, <1>2, <1>3 DEF IsInjective
<1>5. ToSet(Tail(s)) \subseteq ToSet(s) \ {Head(s)}
  BY <1>1, <1>2, <1>3 DEF ToSet
<1>6. ASSUME NEW i \in 1 .. Len(s), s[i] # Head(s)
      PROVE  s[i] \in ToSet(Tail(s))
  <2>1. i - 1 \in 1 .. Len(s) - 1 /\ Tail(s)[i - 1] = s[i]
    BY <1>1, <1>6
  <2> QED
    BY <1>2, <2>1 DEF ToSet
<1>7. ToSet(s) \ {Head(s)} \subseteq ToSet(Tail(s))
  BY <1>2, <1>6 DEF ToSet
<1>8. Head(s) \in ToSet(s)
  <2>1. 1 \in DOMAIN s /\ Head(s) = s[1]
    BY <1>1, <1>2
  <2> QED
    BY <2>1 DEF ToSet
<1> QED
  BY <1>4, <1>5, <1>7, <1>8

\* So does taking any other element away.
LEMMA RemoveFromInjective ==
    ASSUME NEW S, NEW s \in Seq(S), NEW k \in 1 .. Len(s), IsInjective(s)
    PROVE  /\ IsInjective(RemoveAt(s, k))
           /\ ToSet(RemoveAt(s, k)) = ToSet(s) \ {s[k]}
<1> DEFINE r == RemoveAt(s, k)
           from(i) == IF i < k THEN i ELSE i + 1
<1>1. Len(s) \in Nat /\ k \in Nat
  OBVIOUS
<1>2. /\ r \in Seq(S) /\ Len(r) = Len(s) - 1
      /\ \A i \in 1 .. k - 1 : r[i] = s[i]
      /\ \A i \in k .. Len(s) - 1 : r[i] = s[i + 1]
  BY RemoveAtProperties, Zenon
<1> HIDE DEF r
<1>3. DOMAIN s = 1 .. Len(s) /\ DOMAIN r = 1 .. Len(s) - 1
  BY <1>2
<1>4. ASSUME NEW i \in 1 .. Len(s) - 1
      PROVE  from(i) \in 1 .. Len(s) \ {k} /\ r[i] = s[from(i)]
  BY <1>1, <1>2
<1>5. \A i, j \in 1 .. Len(s) : s[i] = s[j] => i = j
  BY <1>3 DEF IsInjective
<1>6. ASSUME NEW i \in 1 .. Len(s) - 1, NEW j \in 1 .. Len(s) - 1, r[i] = r[j]
      PROVE  i = j
  <2>1. from(i) = from(j)
    BY <1>4, <1>5, <1>6
  <2> QED
    BY <1>1, <2>1
<1>7. IsInjective(r)
  BY <1>3, <1>6 DEF IsInjective
<1>8. ToSet(r) \subseteq ToSet(s) \ {s[k]}
  <2> HIDE DEF from
  <2> QED
    BY <1>3, <1>4, <1>5 DEF ToSet
<1>9. ASSUME NEW i \in 1 .. Len(s), s[i] # s[k]
      PROVE  s[i] \in ToSet(r)
  <2>1. CASE i < k
    <3>1. i \in 1 .. Len(s) - 1 /\ r[i] = s[i]
      BY <1>1, <1>2, <2>1
    <3> QED
      BY <1>3, <3>1 DEF ToSet
  <2>2. CASE k < i
    <3>1. i - 1 \in 1 .. Len(s) - 1 /\ r[i - 1] = s[i]
      BY <1>1, <1>2, <2>2
    <3> QED
      BY <1>3, <3>1 DEF ToSet
  <2> QED
    BY <1>1, <1>9, <2>1, <2>2
<1>10. ToSet(s) \ {s[k]} \subseteq ToSet(r)
  BY <1>3, <1>9 DEF ToSet
<1> QED
  BY <1>7, <1>8, <1>10 DEF r

\* Inserting a new element adds it to the set.
LEMMA InsertIntoInjective ==
    ASSUME NEW S, NEW s \in Seq(S), NEW k \in 1 .. Len(s) + 1, NEW e \in S,
           IsInjective(s), e \notin ToSet(s)
    PROVE  /\ IsInjective(InsertAt(s, k, e))
           /\ ToSet(InsertAt(s, k, e)) = ToSet(s) \cup {e}
<1>0. /\ InsertAt(s, k, e) \in Seq(S)
      /\ Len(InsertAt(s, k, e)) = Len(s) + 1
      /\ \A i \in 1 .. k - 1 : InsertAt(s, k, e)[i] = s[i]
      /\ InsertAt(s, k, e)[k] = e
      /\ \A i \in k + 1 .. Len(s) + 1 : InsertAt(s, k, e)[i] = s[i - 1]
  BY InsertAtProperties
<1> DEFINE r == InsertAt(s, k, e)
<1>1. Len(s) \in Nat /\ k \in Nat
  OBVIOUS
<1>2. /\ r \in Seq(S) /\ Len(r) = Len(s) + 1
      /\ \A i \in 1 .. k - 1 : r[i] = s[i]
      /\ r[k] = e
      /\ \A i \in k + 1 .. Len(s) + 1 : r[i] = s[i - 1]
  BY <1>0
<1> HIDE DEF r
<1> DEFINE to(i) == IF i < k THEN i ELSE i + 1
<1>3. DOMAIN s = 1 .. Len(s) /\ DOMAIN r = 1 .. Len(s) + 1
  BY <1>2
<1>4. ASSUME NEW i \in 1 .. Len(s)
      PROVE  to(i) \in 1 .. Len(s) + 1 /\ r[to(i)] = s[i] /\ s[i] # e
  <2>1. s[i] # e
    BY <1>3 DEF ToSet
  <2>2. to(i) \in 1 .. Len(s) + 1 /\ r[to(i)] = s[i]
    BY <1>1, <1>2
  <2> QED
    BY <2>1, <2>2
<1>5. ASSUME NEW i \in 1 .. Len(s) + 1, i # k
      PROVE  \E j \in 1 .. Len(s) : i = to(j)
  <2>1. CASE i < k
    BY <1>1, <2>1
  <2>2. CASE k < i
    <3>1. i - 1 \in 1 .. Len(s) /\ i = to(i - 1)
      BY <1>1, <2>2
    <3> QED
      BY <3>1
  <2> QED
    BY <1>1, <1>5, <2>1, <2>2
<1> HIDE DEF to
<1>6. \A i, j \in 1 .. Len(s) : s[i] = s[j] => i = j
  BY <1>3 DEF IsInjective
<1>7. ASSUME NEW i \in 1 .. Len(s) + 1, NEW j \in 1 .. Len(s) + 1, r[i] = r[j]
      PROVE  i = j
  <2>1. CASE i # k /\ j # k
    <3>1. PICK a \in 1 .. Len(s) : i = to(a)
      BY <1>5, <2>1
    <3>2. PICK b \in 1 .. Len(s) : j = to(b)
      BY <1>5, <2>1
    <3>3. s[a] = s[b]
      BY <1>4, <1>7, <3>1, <3>2
    <3> QED
      BY <1>6, <3>1, <3>2, <3>3
  <2>2. CASE i = k
    BY <1>2, <1>4, <1>5, <1>7, <2>2, ZenonT(60)
  <2>3. CASE j = k
    BY <1>2, <1>4, <1>5, <1>7, <2>3, ZenonT(60)
  <2> QED
    BY <2>1, <2>2, <2>3
<1>8. IsInjective(r)
  BY <1>3, <1>7 DEF IsInjective
<1>9. ASSUME NEW i \in 1 .. Len(s) + 1
      PROVE  r[i] = e \/ r[i] \in ToSet(s)
  <2>1. CASE i = k
    BY <1>2, <2>1
  <2>2. CASE i # k
    <3>1. PICK j \in 1 .. Len(s) : i = to(j)
      BY <1>5, <2>2
    <3>2. r[i] = s[j] /\ j \in DOMAIN s
      BY <1>3, <1>4, <3>1
    <3> QED
      BY <3>2 DEF ToSet
  <2> QED
    BY <2>1, <2>2
<1>10. \A i \in 1 .. Len(s) : s[i] \in ToSet(r)
  BY <1>3, <1>4 DEF ToSet
<1>11. e \in ToSet(r)
  <2>1. k \in 1 .. Len(s) + 1 /\ r[k] = e
    BY <1>2
  <2> QED
    BY <1>3, <2>1 DEF ToSet
<1>12. ToSet(r) \subseteq ToSet(s) \cup {e}
  BY <1>3, <1>9 DEF ToSet
<1>13. ToSet(s) \cup {e} \subseteq ToSet(r)
  BY <1>3, <1>10, <1>11 DEF ToSet
<1> QED
  BY <1>8, <1>12, <1>13 DEF r

\* A sequence has no more elements than it is long.
LEMMA ElementsAtMostLength ==
    ASSUME NEW S, NEW s \in Seq(S)
    PROVE  IsFiniteSet(ToSet(s)) /\ Cardinality(ToSet(s)) \in Nat
           /\ Cardinality(ToSet(s)) <= Len(s)
<1>1. Len(s) \in Nat /\ DOMAIN s = 1 .. Len(s)
  OBVIOUS
<1>2. s \in Surjection(1 .. Len(s), ToSet(s))
  BY <1>1 DEF Surjection, ToSet
<1>3. IsFiniteSet(1 .. Len(s)) /\ Cardinality(1 .. Len(s)) = Len(s)
  BY <1>1, FS_Interval
<1>4. IsFiniteSet(ToSet(s)) /\ Cardinality(ToSet(s)) <= Len(s)
  BY <1>2, <1>3, FS_Surjection
<1> QED
  BY <1>4, FS_CardinalityType

-----------------------------------------------------------------------------
(* Positions in a ring of N cells: the wrap of a position less than N past  *)
(* the end, and distances between positions.                               *)

\* What % returns.
LEMMA ModRange ==
    ASSUME NEW n \in Nat \ {0}, NEW a \in Int
    PROVE  a % n \in 0 .. n - 1
OBVIOUS

\* % leaves a position alone that has not reached the end (the wraps in buffer_write
\* and buffer_consume).
LEMMA ModSmall ==
    ASSUME NEW n \in Nat \ {0}, NEW a \in 0 .. n - 1
    PROVE  a % n = a
OBVIOUS

\* And it wraps one that has, once.
LEMMA ModWrap ==
    ASSUME NEW n \in Nat \ {0}, NEW a \in n .. 2 * n - 1
    PROVE  a % n = a - n
OBVIOUS

\* Both.
LEMMA ModOnce ==
    ASSUME NEW n \in Nat \ {0}, NEW a \in 0 .. 2 * n - 1
    PROVE  a % n = IF a < n THEN a ELSE a - n
<1>1. CASE a \in 0 .. n - 1
  BY <1>1, ModSmall
<1>2. CASE a \in n .. 2 * n - 1
  BY <1>2, ModWrap
<1> QED
  BY <1>1, <1>2

\* Going on from a wrapped position is going on and wrapping (buffer_write): r is the
\* read position, u bytes wait behind it, a more are written behind these.
LEMMA AheadOfWrap ==
    ASSUME NEW N \in Nat \ {0}, NEW r \in 0 .. N - 1, NEW u \in 0 .. N, NEW a \in 0 .. N - u
    PROVE  (((r + u) % N) + a) % N = (r + u + a) % N
<1>1. CASE r + u \in 0 .. N - 1
  BY <1>1, ModSmall
<1>2. CASE r + u \in N .. 2 * N - 1
  <2>1. (r + u) % N = r + u - N
    BY <1>2, ModWrap
  <2>2. r + u + a \in N .. 2 * N - 1
    BY <1>2
  <2>3. (r + u + a) % N = r + u + a - N
    BY <2>2, ModWrap
  <2>4. r + u - N + a \in 0 .. N - 1
    BY <1>2
  <2>5. (r + u - N + a) % N = r + u - N + a
    BY <2>4, ModSmall
  <2> QED
    BY <2>1, <2>3, <2>5
<1> QED
  BY <1>1, <1>2

\* u bytes behind the read position is u - k bytes behind where it is after k bytes were
\* taken (buffer_consume).
LEMMA BehindTheWrap ==
    ASSUME NEW N \in Nat \ {0}, NEW r \in 0 .. N - 1, NEW u \in 0 .. N, NEW k \in 0 .. u
    PROVE  (((r + k) % N) + (u - k)) % N = (r + u) % N
<1>1. CASE r + k \in 0 .. N - 1
  BY <1>1, ModSmall
<1>2. CASE r + k \in N .. 2 * N - 1
  <2>1. (r + k) % N = r + k - N
    BY <1>2, ModWrap
  <2>2. r + u \in N .. 2 * N - 1
    BY <1>2
  <2>3. (r + u) % N = r + u - N
    BY <2>2, ModWrap
  <2>4. r + u - N \in 0 .. N - 1
    BY <1>2
  <2>5. (r + u - N) % N = r + u - N
    BY <2>4, ModSmall
  <2> QED
    BY <2>1, <2>3, <2>5
<1> QED
  BY <1>1, <1>2

\* How far the cell of a byte is behind the write position: r is the read position, u
\* bytes wait, and the byte is the i-th behind the read position.  A byte that waits
\* (i <= u) is far enough away for the loop of buffer_write not to reach it.
LEMMA CellDistance ==
    ASSUME NEW N \in Nat \ {0}, NEW r \in 0 .. N - 1, NEW u \in 0 .. N, NEW i \in 1 .. N
    PROVE  (((r + i - 1) % N) - ((r + u) % N)) % N
               = IF i <= u THEN N + i - 1 - u ELSE i - 1 - u
<1> DEFINE a == (r + i - 1) % N
           b == (r + u) % N
           e == IF i <= u THEN N + i - 1 - u ELSE i - 1 - u
<1>1. a = IF r + i - 1 < N THEN r + i - 1 ELSE r + i - 1 - N
  <2>1. r + i - 1 \in 0 .. 2 * N - 1
    OBVIOUS
  <2>2. \A x \in 0 .. 2 * N - 1 : x % N = IF x < N THEN x ELSE x - N
    BY ModOnce
  <2> QED
    BY <2>1, <2>2
<1>2. b = IF r + u < N THEN r + u ELSE r + u - N
  <2>1. r + u \in 0 .. 2 * N - 1
    OBVIOUS
  <2>2. \A x \in 0 .. 2 * N - 1 : x % N = IF x < N THEN x ELSE x - N
    BY ModOnce
  <2> QED
    BY <2>1, <2>2
<1> HIDE DEF a, b
<1>3. e \in 0 .. N - 1
  OBVIOUS
<1>4. a - b = e \/ a - b = e - N
  BY <1>1, <1>2
<1> HIDE DEF e
<1>5. e % N = e
  BY <1>3, ModSmall
<1>6. (e - N) % N = e
  BY <1>3
<1> QED
  BY <1>4, <1>5, <1>6 DEF a, b, e

-----------------------------------------------------------------------------
(* What waits in a ring: the bytes of u cells from cell r on.              *)

\* The bytes of u cells of a buffer, from cell r on.
Window(buffer, r, u, N) == [i \in 1 .. u |-> buffer[(r + i - 1) % N]]

\* A window is a sequence of u bytes.
LEMMA WindowBytes ==
    ASSUME NEW N \in Nat \ {0}, NEW buffer \in [0 .. N - 1 -> Nat],
           NEW r \in 0 .. N - 1, NEW u \in 0 .. N
    PROVE  /\ Window(buffer, r, u, N) \in Seq(Nat)
           /\ Len(Window(buffer, r, u, N)) = u
           /\ \A i \in 1 .. u : Window(buffer, r, u, N)[i] = buffer[(r + i - 1) % N]
<1>1. N \in Nat \ {0} /\ r \in Int /\ u \in Nat
  OBVIOUS
<1>2. \A i \in 1 .. u : buffer[(r + i - 1) % N] \in Nat
  <2> SUFFICES ASSUME NEW i \in 1 .. u
               PROVE  buffer[(r + i - 1) % N] \in Nat
    OBVIOUS
  <2>1. r + i - 1 \in Int
    BY <1>1
  <2>2. (r + i - 1) % N \in 0 .. N - 1
    BY <1>1, <2>1, ModRange
  <2> QED
    BY <2>2
<1> QED
  BY <1>1, <1>2 DEF Window

\* What is in a buffer when the a bytes after byte k were copied to cell e and those behind it.
Filled(buffer, e, a, k, N) ==
    [c \in 0 .. N - 1 |-> LET i == (c - e) % N IN IF i < a THEN k + 1 + i ELSE buffer[c]]

\* A sequence of bytes, and the a bytes after byte k behind it.
Appended(s, k, a) == s \o [i \in 1 .. a |-> k + i]

\* It is a buffer.
LEMMA FilledIsBuffer ==
    ASSUME NEW N \in Nat \ {0}, NEW old \in [0 .. N - 1 -> Nat], NEW e \in 0 .. N - 1,
           NEW a \in Nat, NEW k \in Nat
    PROVE  Filled(old, e, a, k, N) \in [0 .. N - 1 -> Nat]
<1>1. \A c \in 0 .. N - 1 : c - e \in Int
  OBVIOUS
<1>2. \A c \in 0 .. N - 1 : (c - e) % N \in 0 .. N - 1
  BY <1>1, ModRange
<1>3. \A x \in 0 .. N - 1 : k + 1 + x \in Nat
  OBVIOUS
<1> QED
  BY <1>2, <1>3 DEF Filled

\* If a bytes are copied behind a window of u bytes, the window of u + a bytes is the old one
\* with the new bytes behind it.
LEMMA WindowGrows ==
    ASSUME NEW N \in Nat \ {0}, NEW old \in [0 .. N - 1 -> Nat], NEW r \in 0 .. N - 1,
           NEW u \in 0 .. N, NEW a \in 0 .. N - u, NEW k \in Nat
    PROVE  Window(Filled(old, (r + u) % N, a, k, N), r, u + a, N)
               = Appended(Window(old, r, u, N), k, a)
<1> DEFINE e == (r + u) % N
           new == Filled(old, e, a, k, N)
           s == Window(old, r, u, N)
           t == [i \in 1 .. a |-> k + i]
           w == Window(new, r, u + a, N)
<1>1. /\ N \in Nat \ {0} /\ r \in 0 .. N - 1 /\ u \in Nat /\ a \in Nat
      /\ u + a \in 0 .. N /\ r + u \in Int
  OBVIOUS
<1>2. e \in 0 .. N - 1 /\ e = (r + u) % N
  BY <1>1, ModRange
<1> HIDE DEF e
<1>3. new \in [0 .. N - 1 -> Nat]
  BY <1>1, <1>2, FilledIsBuffer
<1>4. \A c \in 0 .. N - 1 :
          new[c] = IF (c - e) % N < a THEN k + 1 + ((c - e) % N) ELSE old[c]
  BY DEF Filled
<1> HIDE DEF new
<1>5. /\ s \in Seq(Nat) /\ Len(s) = u
      /\ \A i \in 1 .. u : s[i] = old[(r + i - 1) % N]
  BY WindowBytes
<1>6. /\ w \in Seq(Nat) /\ Len(w) = u + a
      /\ \A i \in 1 .. u + a : w[i] = new[(r + i - 1) % N]
  BY <1>1, <1>3, WindowBytes
<1>7. /\ t \in Seq(Nat) /\ Len(t) = a
      /\ \A i \in 1 .. a : t[i] = k + i
  BY <1>1
<1> HIDE DEF s, t, w
<1>8. /\ s \o t \in Seq(Nat) /\ Len(s \o t) = u + a
      /\ \A i \in 1 .. u + a : (s \o t)[i] = IF i <= u THEN s[i] ELSE t[i - u]
  BY <1>5, <1>7, ConcatProperties, ZenonT(60)
<1>9. ASSUME NEW i \in 1 .. u + a
      PROVE  w[i] = (s \o t)[i]
  <2> DEFINE c == (r + i - 1) % N
             d == (c - e) % N
  <2>1. i \in 1 .. N /\ r + i - 1 \in Int
    BY <1>1, <1>9
  <2>2. c \in 0 .. N - 1
    BY <1>1, <2>1, ModRange
  <2>3. d = IF i <= u THEN N + i - 1 - u ELSE i - 1 - u
    BY <1>2, <1>1, <2>1, CellDistance
  <2>4. new[c] = IF d < a THEN k + 1 + d ELSE old[c]
    <3> HIDE DEF c
    <3> QED
      BY <1>4, <2>2 DEF d
  <2>5. w[i] = new[c]
    BY <1>6, <1>9
  <2>6. i <= u => s[i] = old[c]
    <3>1. i <= u => i \in 1 .. u
      BY <1>1, <1>9
    <3> QED
      BY <1>5, <3>1
  <2> HIDE DEF c, d
  <2>7. CASE i <= u
    <3>1. ~(d < a)
      BY <1>1, <2>1, <2>3, <2>7
    <3> QED
      BY <1>8, <1>9, <2>4, <2>5, <2>6, <2>7, <3>1
  <2>8. CASE ~(i <= u)
    <3>1. /\ d = i - 1 - u /\ d < a
          /\ i - u \in 1 .. a
          /\ k + 1 + d = k + (i - u)
      BY <1>1, <1>9, <2>3, <2>8
    <3> QED
      BY <1>7, <1>8, <1>9, <2>4, <2>5, <2>8, <3>1
  <2> QED
    BY <2>7, <2>8
<1> QED
  BY <1>6, <1>8, <1>9, SeqEqual DEF s, t, w, new, e, Appended

\* The window that begins k bytes later is the rest of the window behind its k first
\* bytes.
LEMMA WindowShrinks ==
    ASSUME NEW N \in Nat \ {0}, NEW buffer \in [0 .. N - 1 -> Nat],
           NEW r \in 0 .. N - 1, NEW u \in 0 .. N, NEW k \in 0 .. u
    PROVE  Window(buffer, (r + k) % N, u - k, N) = SubSeq(Window(buffer, r, u, N), k + 1, u)
<1> DEFINE s == Window(buffer, r, u, N)
           q == (r + k) % N
           w == Window(buffer, q, u - k, N)
           t == SubSeq(s, k + 1, u)
<1>1. /\ N \in Nat \ {0} /\ r \in 0 .. N - 1 /\ u \in Nat /\ k \in Nat
      /\ u - k \in 0 .. N /\ r + k \in Int
  OBVIOUS
<1>2. q \in 0 .. N - 1
  BY <1>1, ModRange
<1>3. /\ s \in Seq(Nat) /\ Len(s) = u
      /\ \A i \in 1 .. u : s[i] = buffer[(r + i - 1) % N]
  BY WindowBytes
<1>4. /\ w \in Seq(Nat) /\ Len(w) = u - k
      /\ \A i \in 1 .. u - k : w[i] = buffer[(q + i - 1) % N]
  BY <1>1, <1>2, WindowBytes
<1> HIDE DEF s, w
<1>5. /\ t \in Seq(Nat) /\ Len(t) = u - k
      /\ \A i \in 1 .. u - k : t[i] = s[i + k]
  BY <1>1, <1>3
<1>6. ASSUME NEW i \in 1 .. u - k
      PROVE  w[i] = t[i]
  <2>1. /\ i - 1 \in 0 .. N - k
        /\ k \in 0 .. N
        /\ i + k \in 1 .. u
        /\ r + k + (i - 1) = r + (i + k) - 1
    BY <1>1, <1>6
  <2>2. (q + (i - 1)) % N = (r + k + (i - 1)) % N
    BY <1>1, <2>1, AheadOfWrap
  <2>3. q + (i - 1) = q + i - 1
    BY <1>1, <1>2, <1>6
  <2> HIDE DEF q, t
  <2>4. w[i] = buffer[(q + i - 1) % N]
    BY <1>4, <1>6
  <2>5. t[i] = buffer[(r + (i + k) - 1) % N]
    <3>1. t[i] = s[i + k]
      BY <1>5, <1>6
    <3>2. s[i + k] = buffer[(r + (i + k) - 1) % N]
      BY <1>3, <2>1
    <3> QED
      BY <3>1, <3>2
  <2>6. (q + i - 1) % N = (r + (i + k) - 1) % N
    BY <2>1, <2>2, <2>3
  <2> QED
    BY <2>4, <2>5, <2>6
<1> HIDE DEF t, q
<1> QED
  BY <1>4, <1>5, <1>6, SeqEqual DEF s, w, t, q

\* The first k elements of a sequence.
LEMMA FirstOnes ==
    ASSUME NEW s \in Seq(Nat), NEW k \in 0 .. Len(s)
    PROVE  /\ SubSeq(s, 1, k) \in Seq(Nat)
           /\ Len(SubSeq(s, 1, k)) = k
           /\ \A i \in 1 .. k : SubSeq(s, 1, k)[i] = s[i]
OBVIOUS

\* What a pointer to cell r has behind it, as far as the buffer goes.
BytesBehind(buffer, r, k, N) ==
    [i \in 1 .. k |-> IF r + i - 1 < N THEN buffer[r + i - 1] ELSE 0]

\* The first k bytes of a window, as long as the buffer does not end, are those behind its
\* first cell.
LEMMA WindowFront ==
    ASSUME NEW N \in Nat \ {0}, NEW buffer \in [0 .. N - 1 -> Nat], NEW r \in 0 .. N - 1,
           NEW u \in 0 .. N, NEW k \in 0 .. u, r + k <= N
    PROVE  BytesBehind(buffer, r, k, N) = SubSeq(Window(buffer, r, u, N), 1, k)
<1> DEFINE s == Window(buffer, r, u, N)
           t == SubSeq(s, 1, k)
<1>1. /\ s \in Seq(Nat) /\ Len(s) = u
      /\ \A i \in 1 .. u : s[i] = buffer[(r + i - 1) % N]
  BY WindowBytes
<1> HIDE DEF s
<1>2. /\ t \in Seq(Nat) /\ Len(t) = k
      /\ \A i \in 1 .. k : t[i] = s[i]
  <2>1. k \in 0 .. Len(s)
    BY <1>1
  <2> QED
    BY <1>1, <2>1, FirstOnes
<1>3. \A i \in 1 .. k : r + i - 1 < N /\ (r + i - 1) % N = r + i - 1
  <2> SUFFICES ASSUME NEW i \in 1 .. k
               PROVE  r + i - 1 < N /\ (r + i - 1) % N = r + i - 1
    OBVIOUS
  <2>1. r + i - 1 \in 0 .. N - 1
    OBVIOUS
  <2> DEFINE e == r + i - 1
  <2>2. e < N
    OBVIOUS
  <2> HIDE DEF e
  <2>3. e % N = e
    BY <2>1, ModSmall DEF e
  <2> QED
    BY <2>2, <2>3 DEF e
<1>4. \A i \in 1 .. k : i \in 1 .. u
  OBVIOUS
<1>5. BytesBehind(buffer, r, k, N) = [i \in 1 .. k |-> t[i]]
  BY <1>1, <1>2, <1>3, <1>4 DEF BytesBehind
<1>6. t = [i \in 1 .. k |-> t[i]]
  BY <1>2
<1> QED
  BY <1>5, <1>6 DEF s

\* The first bytes of a window are a window.
LEMMA WindowBegins ==
    ASSUME NEW N \in Nat \ {0}, NEW buffer \in [0 .. N - 1 -> Nat], NEW r \in 0 .. N - 1,
           NEW u \in 0 .. N, NEW k \in 0 .. u
    PROVE  SubSeq(Window(buffer, r, u, N), 1, k) = Window(buffer, r, k, N)
<1> DEFINE s == Window(buffer, r, u, N)
           t == SubSeq(s, 1, k)
           w == Window(buffer, r, k, N)
<1>1. k \in 0 .. N /\ \A i \in 1 .. k : i \in 1 .. u
  OBVIOUS
<1>2. /\ s \in Seq(Nat) /\ Len(s) = u
      /\ \A i \in 1 .. u : s[i] = buffer[(r + i - 1) % N]
  BY WindowBytes
<1>3. /\ w \in Seq(Nat) /\ Len(w) = k
      /\ \A i \in 1 .. k : w[i] = buffer[(r + i - 1) % N]
  BY <1>1, WindowBytes
<1> HIDE DEF s, w
<1>4. /\ t \in Seq(Nat) /\ Len(t) = k
      /\ \A i \in 1 .. k : t[i] = s[i]
  <2>1. k \in 0 .. Len(s)
    BY <1>2
  <2> QED
    BY <1>2, <2>1, FirstOnes
<1> HIDE DEF t
<1>5. \A i \in 1 .. k : t[i] = w[i]
  BY <1>1, <1>2, <1>3, <1>4
<1> QED
  BY <1>3, <1>4, <1>5, SeqEqual DEF s, t, w

-----------------------------------------------------------------------------
(* Induction and recursion.  The library's theorems about them take         *)
(* operators as parameters; these take sets and functions.                  *)

\* A set with 0 and with the successor of each natural number in it has all of them.
LEMMA Induction ==
    ASSUME NEW T, 0 \in T, \A n \in Nat : n \in T => n + 1 \in T
    PROVE  \A n \in Nat : n \in T
<1> SUFFICES ASSUME Nat \ T # {} PROVE FALSE
    OBVIOUS
<1>1. PICK x \in Nat \ T : \A y \in Nat \ T : ~ (<<y, x>> \in OpToRel(<, Nat))
    BY NatLessThanWellFounded, WFMin, Zenon
<1>2. \A y \in Nat \ T : ~ (y < x)
    BY <1>1, Zenon DEF OpToRel
<1>3. x \in Nat /\ x # 0
    OBVIOUS
<1>4. x - 1 \in Nat /\ x = (x - 1) + 1 /\ x - 1 < x
    BY <1>3
<1> QED
    BY <1>2, <1>4

\* The same up to a number.
LEMMA InductionTo ==
    ASSUME NEW N \in Nat, NEW T, 0 \in T, \A n \in 1 .. N : n - 1 \in T => n \in T
    PROVE  \A n \in 0 .. N : n \in T
<1> DEFINE U == {n \in Nat : n <= N => n \in T}
<1>1. 0 \in U
    OBVIOUS
<1>2. ASSUME NEW n \in Nat, n \in U PROVE n + 1 \in U
    <2>1. CASE n + 1 <= N
        <3>1. n + 1 \in 1 .. N /\ (n + 1) - 1 = n /\ n <= N
            BY <2>1
        <3>2. n \in T
            BY <1>2, <3>1
        <3> QED
            BY <3>1, <3>2
    <2> QED
        BY <2>1
<1> HIDE DEF U
<1>3. \A n \in Nat : n \in U
    BY <1>1, <1>2, Induction
<1> QED
    BY <1>3 DEF U

\* Steps from one value to the next, and the functions that take them one after the other.
Steps(N, S) == [1 .. N -> [S -> S]]

Courses(N, S, base, step) ==
    {f \in [0 .. N -> S] : f[0] = base /\ \A n \in 1 .. N : f[n] = step[n][f[n - 1]]}

\* A function on 0 .. N may be defined by its value at 0 and a step from one to the next.
LEMMA Recursion ==
    ASSUME NEW N \in Nat, NEW S, NEW base \in S, NEW step \in Steps(N, S)
    PROVE  \E f : f \in Courses(N, S, base, step)
<1> USE DEF Steps
<1> DEFINE Upto(m) == {f \in [0 .. m -> S] :
                           f[0] = base /\ \A n \in 1 .. m : f[n] = step[n][f[n - 1]]}
           T == {m \in Nat : m <= N => Upto(m) # {}}
<1>1. 0 \in T
    <2>1. [n \in 0 .. 0 |-> base] \in Upto(0)
        OBVIOUS
    <2> QED
        BY <2>1
<1>2. ASSUME NEW m \in Nat, m \in T PROVE m + 1 \in T
    <2> SUFFICES ASSUME m + 1 <= N PROVE Upto(m + 1) # {}
        OBVIOUS
    <2>1. PICK f \in Upto(m) : TRUE
        BY <1>2
    <2>2. /\ f \in [0 .. m -> S] /\ f[0] = base
          /\ \A n \in 1 .. m : f[n] = step[n][f[n - 1]]
        BY <2>1
    <2> DEFINE next == step[m + 1][f[m]]
               g == [n \in 0 .. m + 1 |-> IF n <= m THEN f[n] ELSE next]
    <2>3. f[m] \in S /\ m + 1 \in 1 .. N
        BY <2>2
    <2>4. next \in S
        BY <2>3
    <2> HIDE DEF next
    <2>5. g \in [0 .. m + 1 -> S] /\ g[0] = base
        BY <2>2, <2>4
    <2>6. ASSUME NEW n \in 1 .. m + 1 PROVE g[n] = step[n][g[n - 1]]
        <3>1. n - 1 \in 0 .. m /\ g[n - 1] = f[n - 1]
            OBVIOUS
        <3>2. CASE n <= m
            BY <2>2, <3>1, <3>2
        <3>3. CASE n = m + 1
            <4>1. g[n] = next /\ n - 1 = m
                BY <3>3
            <4> QED
                BY <3>1, <3>3, <4>1 DEF next
        <3> QED
            BY <3>2, <3>3
    <2>7. g \in Upto(m + 1)
        BY <2>5, <2>6
    <2> QED
        BY <2>7
<1> HIDE DEF T
<1>3. \A m \in Nat : m \in T
    BY <1>1, <1>2, Induction
<1> QED
    BY <1>3 DEF T, Courses

-----------------------------------------------------------------------------
(* Least and greatest elements, and sequences put together.                 *)

\* A set of natural numbers that is not empty has a least element.
LEMMA LeastElement ==
    ASSUME NEW S \in SUBSET Nat, S # {}
    PROVE  Min(S) \in S /\ \A y \in S : Min(S) <= y
<1>1. PICK x \in S : \A y \in S : ~ (<<y, x>> \in OpToRel(<, Nat))
    BY NatLessThanWellFounded, WFMin, Zenon
<1>2. \A y \in S : ~ (y < x)
    BY <1>1, Zenon DEF OpToRel
<1>3. \A y \in S : x <= y
    BY <1>2
<1>4. \E z \in S : \A y \in S : z <= y
    BY <1>3
<1> QED
    BY <1>4 DEF Min

\* And one that does not go beyond a number has a greatest.
LEMMA GreatestElement ==
    ASSUME NEW S \in SUBSET Int, S # {}, NEW N \in Int, \A y \in S : y <= N
    PROVE  Max(S) \in S /\ \A y \in S : y <= Max(S)
<1> DEFINE T == {N - y : y \in S}
<1>1. T \in SUBSET Nat /\ T # {}
    <2>1. \A y \in S : N - y \in Nat
        OBVIOUS
    <2> QED
        BY <2>1
<1>2. Min(T) \in T /\ \A t \in T : Min(T) <= t
    BY <1>1, LeastElement
<1>3. PICK x \in S : Min(T) = N - x
    BY <1>2
<1>4. \A y \in S : y <= x
    <2> TAKE y \in S
    <2>1. N - y \in T
        OBVIOUS
    <2>2. N - x <= N - y
        BY <1>2, <1>3, <2>1
    <2> QED
        BY <2>2
<1>5. \E z \in S : \A y \in S : z >= y
    BY <1>4
<1>6. Max(S) \in S /\ \A y \in S : Max(S) >= y
    BY <1>5 DEF Max
<1> QED
    BY <1>6

\* An element put behind a sequence is its last, and the sequence is what is before it.
LEMMA LastAndFront ==
    ASSUME NEW S, NEW s \in Seq(S), NEW e \in S
    PROVE  Append(s, e) # <<>> /\ Last(Append(s, e)) = e /\ Front(Append(s, e)) = s
<1> DEFINE t == Append(s, e)
<1>1. /\ t \in Seq(S) /\ Len(t) = Len(s) + 1 /\ Len(s) \in Nat
      /\ t[Len(s) + 1] = e /\ \A i \in 1 .. Len(s) : t[i] = s[i]
    OBVIOUS
<1> HIDE DEF t
<1>2. t # <<>> /\ Last(t) = e
    BY <1>1 DEF Last
<1>3. Front(t) = SubSeq(t, 1, Len(s))
    BY <1>1 DEF Front
<1>4. SubSeq(t, 1, Len(s)) = s
    BY <1>1
<1> QED
    BY <1>2, <1>3, <1>4 DEF t

\* It does not matter which two of three sequences are put together first.
LEMMA ConcatMoves == \A S : \A s, t, u \in Seq(S) : (s \o t) \o u = s \o (t \o u)
BY ConcatAssociative

\* The sequences put together so far, of which the last is what FlattenSeq returns.
LEMMA FlattenedSoFar ==
    ASSUME NEW S, NEW seqs \in Seq(Seq(S))
    PROVE  \E f \in [0 .. Len(seqs) -> Seq(S)] :
               /\ f[0] = <<>>
               /\ \A n \in 1 .. Len(seqs) : f[n] = f[n - 1] \o seqs[n]
               /\ FlattenSeq(seqs) = f[Len(seqs)]
<1> DEFINE N == Len(seqs)
           step == [n \in 1 .. N |-> [s \in Seq(S) |-> s \o seqs[n]]]
<1>1. N \in Nat /\ \A n \in 1 .. N : seqs[n] \in Seq(S)
    OBVIOUS
<1>2. <<>> \in Seq(S) /\ step \in [1 .. N -> [Seq(S) -> Seq(S)]]
    BY <1>1
<1> HIDE DEF N
<1>3. PICK f \in [0 .. N -> Seq(S)] :
          f[0] = <<>> /\ \A n \in 1 .. N : f[n] = step[n][f[n - 1]]
    <2>1. step \in Steps(N, Seq(S))
        BY <1>2 DEF Steps
    <2> HIDE DEF step
    <2>2. \E f : f \in Courses(N, Seq(S), <<>>, step)
        BY <1>1, <1>2, <2>1, Recursion
    <2> QED
        BY <2>2 DEF Courses
<1>4. \A n \in 1 .. N : f[n] = f[n - 1] \o seqs[n]
    <2> TAKE n \in 1 .. N
    <2>1. f[n - 1] \in Seq(S)
        BY <1>1, <1>3
    <2> QED
        BY <1>3, <2>1
<1>5. FlattenSeq(seqs) = f[N]
    <2>1. CASE N = 0
        BY <1>3, <2>1 DEF FlattenSeq, N
    <2>2. CASE N # 0
        <3> DEFINE is(g) == g = [i \in 1 .. N |-> IF i = 1 THEN seqs[i] ELSE g[i - 1] \o seqs[i]]
                   g0 == [i \in 1 .. N |-> f[i]]
                   g1 == CHOOSE g : is(g)
        <3>1. g0 = [i \in 1 .. N |-> IF i = 1 THEN seqs[i] ELSE g0[i - 1] \o seqs[i]]
            <4>1. \A i \in 1 .. N : f[i] = IF i = 1 THEN seqs[i] ELSE g0[i - 1] \o seqs[i]
                <5> TAKE i \in 1 .. N
                <5>1. CASE i = 1
                    <6>0. f[i] = f[i - 1] \o seqs[i]
                        BY <1>4
                    <6>1. seqs[i] \in Seq(S) /\ f[i - 1] = <<>>
                        BY <1>1, <1>3, <5>1
                    <6>2. f[i] = <<>> \o seqs[i]
                        BY <6>0, <6>1
                    <6>3. f[i] = seqs[i]
                        BY <6>1, <6>2
                    <6> QED
                        BY <5>1, <6>3
                <5>2. CASE i # 1
                    <6>1. i - 1 \in 1 .. N
                        BY <1>1, <5>2
                    <6> QED
                        BY <1>4, <5>2, <6>1
                <5> QED
                    BY <5>1, <5>2
            <4> QED
                BY <4>1
        <3>2. is(g1)
            <4>1. \E g : is(g)
                BY <3>1
            <4> HIDE DEF is
            <4> QED
                BY <4>1
        <3>3. FlattenSeq(seqs) = g1[N]
            BY <2>2 DEF FlattenSeq, N
        <3> HIDE DEF g1
        <3>4. /\ DOMAIN g1 = 1 .. N
              /\ \A i \in 1 .. N : g1[i] = IF i = 1 THEN seqs[i] ELSE g1[i - 1] \o seqs[i]
            BY <3>2
        <3> DEFINE T == {n \in Nat : n = 0 \/ g1[n] = f[n]}
        <3>5. \A n \in 1 .. N : n - 1 \in T => n \in T
            <4> SUFFICES ASSUME NEW n \in 1 .. N, n - 1 \in T PROVE g1[n] = f[n]
                OBVIOUS
            <4>1. CASE n = 1
                <5>0. f[n] = f[n - 1] \o seqs[n]
                    BY <1>4
                <5>1. seqs[n] \in Seq(S) /\ f[n - 1] = <<>>
                    BY <1>1, <1>3, <4>1
                <5>2. f[n] = <<>> \o seqs[n]
                    BY <5>0, <5>1
                <5>3. f[n] = seqs[n]
                    BY <5>1, <5>2
                <5>4. g1[n] = seqs[n]
                    BY <3>4, <4>1
                <5> QED
                    BY <5>3, <5>4
            <4>2. CASE n # 1
                <5>1. g1[n - 1] = f[n - 1]
                    BY <4>2
                <5> QED
                    BY <1>4, <3>4, <4>2, <5>1
            <4> QED
                BY <4>1, <4>2
        <3>6. 0 \in T
            OBVIOUS
        <3> HIDE DEF T
        <3>7. \A n \in 0 .. N : n \in T
            BY <1>1, <3>5, <3>6, InductionTo
        <3>8. N \in T
            BY <1>1, <3>7
        <3> QED
            BY <2>2, <3>3, <3>8 DEF T
    <2> QED
        BY <2>1, <2>2
<1> QED
    BY <1>3, <1>4, <1>5 DEF N

\* One sequence more goes to the end.
LEMMA FlattenAppend ==
    ASSUME NEW S, NEW seqs \in Seq(Seq(S)), NEW s \in Seq(S)
    PROVE  /\ FlattenSeq(<<>>) = <<>>
           /\ FlattenSeq(seqs) \in Seq(S)
           /\ FlattenSeq(Append(seqs, s)) = FlattenSeq(seqs) \o s
<1> DEFINE N == Len(seqs)
           more == Append(seqs, s)
<1>1. PICK f \in [0 .. N -> Seq(S)] :
          /\ f[0] = <<>> /\ \A n \in 1 .. N : f[n] = f[n - 1] \o seqs[n]
          /\ FlattenSeq(seqs) = f[N]
    BY FlattenedSoFar
<1>2. /\ more \in Seq(Seq(S)) /\ Len(more) = N + 1 /\ N \in Nat
      /\ more[N + 1] = s /\ \A n \in 1 .. N : more[n] = seqs[n]
    OBVIOUS
<1> HIDE DEF more
<1>3. PICK g \in [0 .. N + 1 -> Seq(S)] :
          /\ g[0] = <<>> /\ \A n \in 1 .. N + 1 : g[n] = g[n - 1] \o more[n]
          /\ FlattenSeq(more) = g[N + 1]
    <2>1. more \in Seq(Seq(S)) /\ Len(more) = N + 1
        BY <1>2
    <2>2. \E g \in [0 .. Len(more) -> Seq(S)] :
              /\ g[0] = <<>> /\ \A n \in 1 .. Len(more) : g[n] = g[n - 1] \o more[n]
              /\ FlattenSeq(more) = g[Len(more)]
        BY <2>1, FlattenedSoFar, Zenon
    <2> QED
        BY <2>1, <2>2
<1> HIDE DEF N
<1> DEFINE T == {n \in Nat : g[n] = f[n]}
<1>4. 0 \in T
    BY <1>1, <1>3
<1>5. \A n \in 1 .. N : n - 1 \in T => n \in T
    <2> SUFFICES ASSUME NEW n \in 1 .. N, g[n - 1] = f[n - 1] PROVE g[n] = f[n]
        OBVIOUS
    <2>1. n \in 1 .. N + 1 /\ more[n] = seqs[n]
        BY <1>2
    <2> QED
        BY <1>1, <1>3, <2>1
<1> HIDE DEF T
<1>6. N \in T
    <2>1. N \in Nat
        BY <1>2
    <2>2. \A n \in 0 .. N : n \in T
        BY <1>4, <1>5, <2>1, InductionTo
    <2> QED
        BY <2>1, <2>2
<1>7. g[N] = f[N]
    BY <1>6 DEF T
<1>8. g[N + 1] = g[N] \o s
    <2>1. N + 1 \in 1 .. N + 1 /\ (N + 1) - 1 = N
        BY <1>2
    <2> QED
        BY <1>2, <1>3, <2>1
<1>9. FlattenSeq(<<>>) = <<>>
    BY DEF FlattenSeq
<1> QED
    BY <1>1, <1>2, <1>3, <1>7, <1>8, <1>9 DEF more

\* One element more in the last sequence goes to the end.
LEMMA FlattenLonger ==
    ASSUME NEW S, NEW seqs \in Seq(Seq(S)), NEW s \in Seq(S), NEW e \in S
    PROVE  FlattenSeq(Append(seqs, Append(s, e))) = Append(FlattenSeq(Append(seqs, s)), e)
<1> DEFINE flat == FlattenSeq(seqs)
<1>1. flat \in Seq(S) /\ FlattenSeq(Append(seqs, s)) = flat \o s
    BY FlattenAppend
<1>2. Append(s, e) \in Seq(S)
    OBVIOUS
<1>3. FlattenSeq(Append(seqs, Append(s, e))) = flat \o Append(s, e)
    BY <1>2, FlattenAppend
<1> HIDE DEF flat
<1>4. flat \o Append(s, e) = Append(flat \o s, e)
    BY <1>1
<1> QED
    BY <1>1, <1>3, <1>4

-----------------------------------------------------------------------------
(* Each element of a sequence replaced by a sequence.                       *)

\* The functions that give a sequence for an element, and what such a function makes of a
\* sequence: the sequences for its elements, one behind the other.
Maps(A, B) == [A -> Seq(B)]

Images(h, s) == [i \in DOMAIN s |-> h[s[i]]]

Mapped(h, s) == FlattenSeq(Images(h, s))

\* Two elements, the second put behind the first.
LEMMA TwoAre ==
    ASSUME NEW C, NEW x \in C, NEW y \in C
    PROVE  Append(<<x>>, y) = <<x, y>>
<1> DEFINE o == <<x>>
           q == <<x, y>>
           p == Append(o, y)
<1>1. o \in Seq(C) /\ Len(o) = 1 /\ o[1] = x
    OBVIOUS
<1>2. q \in Seq(C) /\ Len(q) = 2 /\ q[1] = x /\ q[2] = y
    OBVIOUS
<1> HIDE DEF o, q
<1>3. o \in Seq(C)
    BY <1>1
<1>4. p \in Seq(C) /\ Len(p) = Len(o) + 1
    BY <1>3
<1>5. p[Len(o) + 1] = y
    BY <1>3, AppendProperties
<1>6. \A i \in 1 .. Len(o) : p[i] = o[i]
    BY <1>3, AppendProperties
<1>7. p[1] = x
    BY <1>1, <1>6
<1> HIDE DEF p
<1>8. p = q
    BY <1>1, <1>2, <1>4, <1>5, <1>7
<1> QED
    BY <1>8 DEF p, q, o

\* A function on the numbers up to another is a sequence.
LEMMA SequenceIs ==
    ASSUME NEW C, NEW n \in Nat, NEW m \in [1 .. n -> C]
    PROVE  m \in Seq(C) /\ Len(m) = n
OBVIOUS

\* Of no elements come no sequences.
LEMMA MappedNothing ==
    ASSUME NEW h
    PROVE  Mapped(h, <<>>) = <<>>
<1>1. [i \in DOMAIN <<>> |-> h[<<>>[i]]] = <<>>
    OBVIOUS
<1>2. FlattenSeq(<<>>) = <<>>
    BY DEF FlattenSeq
<1> QED
    BY <1>1, <1>2 DEF Mapped, Images

\* The sequences for the elements, and what they make together.
LEMMA MappedIs ==
    ASSUME NEW A, NEW B, NEW h \in Maps(A, B), NEW s \in Seq(A)
    PROVE  /\ Images(h, s) \in Seq(Seq(B)) /\ Len(Images(h, s)) = Len(s)
           /\ \A i \in 1 .. Len(s) : Images(h, s)[i] = h[s[i]]
           /\ Mapped(h, s) \in Seq(B)
<1> DEFINE m == Images(h, s)
           C == Seq(B)
<1>1. Len(s) \in Nat /\ DOMAIN s = 1 .. Len(s) /\ \A i \in 1 .. Len(s) : s[i] \in A
    OBVIOUS
<1>2. m \in [1 .. Len(s) -> C]
    BY <1>1 DEF Maps, Images
<1>3. \A i \in 1 .. Len(s) : m[i] = h[s[i]]
    BY <1>1 DEF Images
<1> HIDE DEF m, C
<1>4. m \in Seq(C) /\ Len(m) = Len(s)
    BY <1>1, <1>2, SequenceIs
<1>5. <<>> \in Seq(B)
    OBVIOUS
<1>6. FlattenSeq(m) \in Seq(B)
    BY <1>4, <1>5, FlattenAppend DEF C
<1> QED
    BY <1>3, <1>4, <1>6 DEF m, C, Mapped

\* One element more puts its sequence at the end.
LEMMA MappedAppend ==
    ASSUME NEW A, NEW B, NEW h \in Maps(A, B), NEW s \in Seq(A), NEW e \in A
    PROVE  Mapped(h, Append(s, e)) = Mapped(h, s) \o h[e]
<1> DEFINE m == Images(h, s)
           t == Append(s, e)
           n == Images(h, t)
           x == h[e]
           C == Seq(B)
           N == Len(s)
<1>1. N \in Nat /\ DOMAIN s = 1 .. N
    OBVIOUS
<1>2. /\ t \in Seq(A) /\ Len(t) = N + 1 /\ DOMAIN t = 1 .. N + 1
      /\ t[N + 1] = e /\ \A i \in 1 .. N : t[i] = s[i]
    BY <1>1
<1>3. m \in Seq(C) /\ Len(m) = N /\ \A i \in 1 .. N : m[i] = h[s[i]]
    BY MappedIs
<1>4. x \in C
    BY DEF Maps
<1> HIDE DEF t
<1>5. n \in Seq(C) /\ Len(n) = N + 1 /\ \A i \in 1 .. N + 1 : n[i] = h[t[i]]
    <2>1. t \in Seq(A)
        BY <1>2
    <2>2. n \in Seq(C) /\ Len(n) = Len(t) /\ \A i \in 1 .. Len(t) : n[i] = h[t[i]]
        BY <2>1, MappedIs
    <2> QED
        BY <1>2, <2>2
<1>6. n[N + 1] = x /\ \A i \in 1 .. N : n[i] = m[i]
    <2>1. N + 1 \in 1 .. N + 1 /\ \A i \in 1 .. N : i \in 1 .. N + 1
        BY <1>1
    <2> HIDE DEF n, m, N
    <2>2. n[N + 1] = h[t[N + 1]]
        BY <1>5, <2>1
    <2>3. ASSUME NEW i \in 1 .. N PROVE n[i] = m[i]
        <3>1. n[i] = h[t[i]]
            BY <1>5, <2>1
        <3>2. m[i] = h[s[i]]
            BY <1>3
        <3> QED
            BY <1>2, <3>1, <3>2
    <2> QED
        BY <1>2, <2>2, <2>3
<1> HIDE DEF m, n, x, C, N
<1>7. n = Append(m, x)
    BY <1>1, <1>3, <1>4, <1>5, <1>6
<1>8. FlattenSeq(Append(m, x)) = FlattenSeq(m) \o x
    BY <1>3, <1>4, FlattenAppend DEF C
<1> QED
    BY <1>7, <1>8 DEF m, n, x, t, Mapped

\* What is put in the place of two sequences, one behind the other.
LEMMA MappedConcat ==
    ASSUME NEW A, NEW B, NEW h \in Maps(A, B), NEW s \in Seq(A), NEW t \in Seq(A)
    PROVE  Mapped(h, s \o t) = Mapped(h, s) \o Mapped(h, t)
<1> DEFINE To(n) == SubSeq(t, 1, n)
           T == {n \in Nat : n <= Len(t) => Mapped(h, s \o To(n)) = Mapped(h, s) \o Mapped(h, To(n))}
<1>1. Len(t) \in Nat /\ \A i \in 1 .. Len(t) : t[i] \in A
    OBVIOUS
<1>2. 0 \in T
    <2>1. To(0) = <<>>
        BY SubSeqEmpty
    <2>2. s \o <<>> = s
        BY ConcatEmptySeq
    <2>3. Mapped(h, s) \in Seq(B)
        BY MappedIs
    <2>4. Mapped(h, <<>>) = <<>>
        BY MappedNothing
    <2> DEFINE x == Mapped(h, s)
    <2> HIDE DEF x
    <2>5. x \o <<>> = x
        BY <2>3, ConcatEmptySeq DEF x
    <2>6. Mapped(h, s \o To(0)) = Mapped(h, s) \o Mapped(h, To(0))
        BY <2>1, <2>2, <2>4, <2>5 DEF x
    <2> QED
        BY <2>6
<1>3. ASSUME NEW n \in Nat, n \in T PROVE n + 1 \in T
    <2> SUFFICES ASSUME n + 1 <= Len(t)
                 PROVE  Mapped(h, s \o To(n + 1)) = Mapped(h, s) \o Mapped(h, To(n + 1))
        OBVIOUS
    <2>1. Mapped(h, s \o To(n)) = Mapped(h, s) \o Mapped(h, To(n))
        BY <1>1, <1>3
    <2> HIDE DEF T
    <2> DEFINE u == To(n)
               e == t[n + 1]
    <2>2. u \in Seq(A) /\ e \in A
        BY <1>1
    <2>3. To(n + 1) = Append(u, e)
        <3>1. 1 \in 1 .. Len(t) /\ n + 1 \in 1 .. Len(t) /\ (n + 1) - 1 = n
            BY <1>1
        <3>2. To(n + 1) = SubSeq(t, 1, (n + 1) - 1) \o <<e>>
            BY <3>1, SubSeqRecursiveSecond
        <3>3. To(n + 1) = u \o <<e>>
            BY <3>1, <3>2
        <3>4. u \o <<e>> = Append(u, e)
            <4> HIDE DEF u, e
            <4> QED
                BY <2>2
        <3> QED
            BY <3>3, <3>4
    <2> HIDE DEF u, e, To
    <2>4. s \o Append(u, e) = Append(s \o u, e) /\ s \o u \in Seq(A)
        BY <2>2
    <2>5. Mapped(h, Append(s \o u, e)) = Mapped(h, s \o u) \o h[e]
        <3> DEFINE v == s \o u
        <3>1. v \in Seq(A)
            BY <2>4
        <3> HIDE DEF v
        <3>2. Mapped(h, Append(v, e)) = Mapped(h, v) \o h[e]
            BY <2>2, <3>1, MappedAppend
        <3> QED
            BY <3>2 DEF v
    <2>6. /\ Mapped(h, Append(u, e)) = Mapped(h, u) \o h[e]
          /\ Mapped(h, s) \in Seq(B) /\ Mapped(h, u) \in Seq(B) /\ h[e] \in Seq(B)
        <3>1. h[e] \in Seq(B)
            BY <2>2 DEF Maps
        <3> QED
            BY <2>2, <3>1, MappedAppend, MappedIs, SMTT(30)
    <2> DEFINE x == Mapped(h, s)
               y == Mapped(h, u)
               z == h[e]
    <2>7. (x \o y) \o z = x \o (y \o z)
        <3>1. x \in Seq(B) /\ y \in Seq(B) /\ z \in Seq(B)
            BY <2>6
        <3> HIDE DEF x, y, z
        <3> QED
            BY ONLY <3>1, ConcatMoves
    <2> QED
        BY <2>1, <2>3, <2>4, <2>5, <2>6, <2>7 DEF u
<1> HIDE DEF T
<1>4. \A n \in Nat : n \in T
    BY <1>2, <1>3, Induction
<1>5. Mapped(h, s \o To(Len(t))) = Mapped(h, s) \o Mapped(h, To(Len(t)))
    <2>1. Len(t) \in T /\ Len(t) <= Len(t)
        BY <1>1, <1>4
    <2> QED
        BY <2>1 DEF T
<1>6. To(Len(t)) = t
    BY SubSeqFull
<1> QED
    BY <1>5, <1>6

\* Elements for which there is nothing can be left out at the end.
LEMMA MappedFront ==
    ASSUME NEW A, NEW B, NEW h \in Maps(A, B), NEW s \in Seq(A), NEW n \in 0 .. Len(s),
           \A i \in n + 1 .. Len(s) : h[s[i]] = <<>>
    PROVE  Mapped(h, SubSeq(s, 1, n)) = Mapped(h, s)
<1> DEFINE To(m) == SubSeq(s, 1, m)
           T == {m \in Nat : n + m <= Len(s) => Mapped(h, To(n + m)) = Mapped(h, To(n))}
<1>1. Len(s) \in Nat /\ n \in Nat /\ n <= Len(s) /\ \A i \in 1 .. Len(s) : s[i] \in A
    OBVIOUS
<1>2. 0 \in T
    BY <1>1
<1>3. ASSUME NEW m \in Nat, m \in T PROVE m + 1 \in T
    <2> SUFFICES ASSUME n + (m + 1) <= Len(s)
                 PROVE  Mapped(h, To(n + (m + 1))) = Mapped(h, To(n))
        OBVIOUS
    <2> DEFINE k == n + m
    <2>1. Mapped(h, To(k)) = Mapped(h, To(n)) /\ k \in Nat /\ k + 1 = n + (m + 1)
        BY <1>1, <1>3
    <2>2. k + 1 \in n + 1 .. Len(s) /\ k + 1 \in 1 .. Len(s) /\ (k + 1) - 1 = k
        BY <1>1
    <2> HIDE DEF T, k
    <2> DEFINE u == To(k)
               e == s[k + 1]
    <2>3. u \in Seq(A) /\ e \in A /\ h[e] = <<>>
        BY <1>1, <2>1, <2>2
    <2>4. To(k + 1) = Append(u, e)
        <3>1. 1 \in 1 .. Len(s) /\ k + 1 \in 1 .. Len(s)
            BY <1>1, <2>1, <2>2
        <3>2. To(k + 1) = SubSeq(s, 1, (k + 1) - 1) \o <<e>>
            BY <3>1, SubSeqRecursiveSecond
        <3>3. To(k + 1) = u \o <<e>>
            BY <2>2, <3>2
        <3>4. u \o <<e>> = Append(u, e)
            <4> HIDE DEF u, e
            <4> QED
                BY <2>3
        <3> QED
            BY <3>3, <3>4
    <2> HIDE DEF u, e, To
    <2>5. Mapped(h, Append(u, e)) = Mapped(h, u) \o h[e] /\ Mapped(h, u) \in Seq(B)
        <3>1. u \in Seq(A) /\ e \in A
            BY <2>3
        <3> QED
            BY <3>1, MappedAppend, MappedIs
    <2> DEFINE x == Mapped(h, u)
    <2>6. x \o <<>> = x
        <3>1. x \in Seq(B)
            BY <2>5
        <3> HIDE DEF x
        <3> QED
            BY <3>1, ConcatEmptySeq
    <2> QED
        BY <2>1, <2>3, <2>4, <2>5, <2>6 DEF u
<1> HIDE DEF T
<1>4. \A m \in Nat : m \in T
    BY <1>2, <1>3, Induction
<1>5. Len(s) - n \in Nat /\ n + (Len(s) - n) = Len(s) /\ Len(s) <= Len(s)
    BY <1>1
<1>6. Mapped(h, To(Len(s))) = Mapped(h, To(n))
    <2>1. Len(s) - n \in T
        BY <1>4, <1>5
    <2>2. Mapped(h, To(n + (Len(s) - n))) = Mapped(h, To(n))
        BY <1>5, <2>1 DEF T
    <2> QED
        BY <1>5, <2>2
<1>7. To(Len(s)) = s
    BY SubSeqFull
<1> QED
    BY <1>6, <1>7
=============================================================================
