--------------------------- MODULE SequenceLemmas ---------------------------
(***************************************************************************)
(* What the operations on sequences that the queues are built from return, *)
(* least elements and induction for sets of naturals, and the ascending    *)
(* enumeration of such a set: the facts the other proofs rest on.          *)
(***************************************************************************)
EXTENDS SequencesExt, SequenceTheorems, FiniteSetTheorems, FunctionTheorems,
        WellFoundedInduction, TLAPS

\* Removing the item at one place keeps the others, in order.
LEMMA RemoveAtProperties ==
  ASSUME NEW S, NEW s \in Seq(S), NEW i \in 1..Len(s)
  PROVE  /\ RemoveAt(s, i) \in Seq(S)
         /\ Len(RemoveAt(s, i)) = Len(s) - 1
         /\ \A j \in 1..(Len(s) - 1) :
              RemoveAt(s, i)[j] = IF j < i THEN s[j] ELSE s[j + 1]
<1> DEFINE l == SubSeq(s, 1, i - 1)
           r == SubSeq(s, i + 1, Len(s))
<1>0. /\ Len(s) \in Nat
      /\ \A j \in 1..Len(s) : s[j] \in S
  BY ElementOfSeq, LenProperties
<1>1. /\ l \in Seq(S)
      /\ Len(l) = i - 1
      /\ \A j \in 1..(i - 1) : l[j] = s[j]
  <2>1. \A j \in 1..(i - 1) : s[j] \in S  BY <1>0
  <2>2. /\ l \in Seq(S)
        /\ Len(l) = IF 1 <= i - 1 THEN (i - 1) - 1 + 1 ELSE 0
        /\ \A j \in 1..((i - 1) - 1 + 1) : l[j] = s[1 + j - 1]
    BY <2>1, <1>0, SubSeqProperties
  <2> QED  BY <2>2, <1>0
<1>2. /\ r \in Seq(S)
      /\ Len(r) = Len(s) - i
      /\ \A j \in 1..(Len(s) - i) : r[j] = s[i + j]
  <2>1. \A j \in (i + 1)..Len(s) : s[j] \in S  BY <1>0
  <2>2. /\ r \in Seq(S)
        /\ Len(r) = IF i + 1 <= Len(s) THEN Len(s) - (i + 1) + 1 ELSE 0
        /\ \A j \in 1..(Len(s) - (i + 1) + 1) : r[j] = s[(i + 1) + j - 1]
    BY <2>1, <1>0, SubSeqProperties
  <2> QED  BY <2>2, <1>0
<1>3. RemoveAt(s, i) = l \o r  BY DEF RemoveAt
<1>4. /\ l \o r \in Seq(S)
      /\ Len(l \o r) = Len(l) + Len(r)
      /\ \A j \in 1..(Len(l) + Len(r)) :
           (l \o r)[j] = IF j <= Len(l) THEN l[j] ELSE r[j - Len(l)]
  BY <1>1, <1>2, ConcatProperties
<1> HIDE DEF l, r
<1> QED  BY <1>0, <1>1, <1>2, <1>3, <1>4

\* Removing the first item leaves the tail.
LEMMA RemoveAtFirst ==
  ASSUME NEW S, NEW s \in Seq(S), s # << >>
  PROVE  RemoveAt(s, 1) = Tail(s)
<1> DEFINE r == RemoveAt(s, 1)
           t == Tail(s)
<1>1. Len(s) \in Nat /\ 1 \in 1..Len(s)  BY EmptySeq, LenProperties
<1>2. /\ r \in Seq(S) /\ Len(r) = Len(s) - 1
      /\ \A j \in 1..(Len(s) - 1) : r[j] = s[j + 1]
  BY <1>1, RemoveAtProperties
<1>3. /\ t \in Seq(S) /\ Len(t) = Len(s) - 1
      /\ \A j \in 1..Len(t) : t[j] = s[j + 1]
  BY HeadTailProperties
<1> HIDE DEF r, t
<1>4. r = t  BY <1>2, <1>3, SeqEqual
<1> QED  BY <1>4 DEF r, t

\* What was written in a place is gone when the place is.
LEMMA RemoveUpdated ==
  ASSUME NEW S, NEW s \in Seq(S), NEW j \in 1..Len(s), NEW e
  PROVE  RemoveAt([s EXCEPT ![j] = e], j) = RemoveAt(s, j)
<1> DEFINE T == S \cup {e}
           s2 == [s EXCEPT ![j] = e]
           r == RemoveAt(s, j)
           r2 == RemoveAt(s2, j)
<1>1. s \in Seq(T) /\ e \in T /\ Len(s) \in Nat  BY SeqMonotonic, LenProperties
<1>2. /\ s2 \in Seq(T) /\ Len(s2) = Len(s)
      /\ \A i \in 1..Len(s) : s2[i] = IF i = j THEN e ELSE s[i]
  <2> HIDE DEF T
  <2> QED  BY <1>1, ExceptSeq
<1> HIDE DEF T, s2
<1>3. /\ r \in Seq(T) /\ Len(r) = Len(s) - 1
      /\ \A i \in 1..(Len(s) - 1) : r[i] = IF i < j THEN s[i] ELSE s[i + 1]
  BY <1>1, RemoveAtProperties
<1>4. /\ r2 \in Seq(T) /\ Len(r2) = Len(s) - 1
      /\ \A i \in 1..(Len(s) - 1) : r2[i] = IF i < j THEN s2[i] ELSE s2[i + 1]
  BY <1>1, <1>2, RemoveAtProperties
<1>5. ASSUME NEW i \in 1..(Len(s) - 1) PROVE r2[i] = r[i]
  <2> DEFINE n == Len(s)
  <2>1. n \in Nat /\ i \in 1..(n - 1) /\ j \in 1..n  BY <1>1
  <2>2. \A a \in 1..n : a # j => s2[a] = s[a]  BY <1>2
  <2>3. r[i] = (IF i < j THEN s[i] ELSE s[i + 1]) /\ r2[i] = IF i < j THEN s2[i] ELSE s2[i + 1]
    BY <1>3, <1>4
  <2> HIDE DEF n, r, r2
  <2>4. i \in 1..n /\ i + 1 \in 1..n /\ (i < j => i # j) /\ (~(i < j) => i + 1 # j)
    BY <2>1
  <2> QED  BY <2>2, <2>3, <2>4
<1> HIDE DEF r, r2
<1>6. r2 = r  BY <1>3, <1>4, <1>5, SeqEqual
<1> QED  BY <1>6 DEF r, r2, s2

\* The sequences << >>, <<x>> and <<x, y>>.
UpToTwo(m, x, y) == [i \in 1..m |-> IF i = 1 THEN x ELSE y]

\* Putting one of them behind a sequence is appending its items.
LEMMA ConcatUpToTwo ==
  ASSUME NEW S, NEW s \in Seq(S), NEW x \in S, NEW y \in S
  PROVE  /\ s \o UpToTwo(0, x, y) = s
         /\ s \o UpToTwo(1, x, y) = Append(s, x)
         /\ s \o UpToTwo(2, x, y) = Append(Append(s, x), y)
<1> DEFINE n == Len(s)
           a == Append(s, x)
           b == Append(a, y)
<1>0. n \in Nat  BY LenProperties
<1>1. ASSUME NEW m \in {0, 1, 2}
      PROVE  /\ s \o UpToTwo(m, x, y) \in Seq(S)
             /\ Len(s \o UpToTwo(m, x, y)) = n + m
             /\ \A i \in 1..(n + m) :
                  (s \o UpToTwo(m, x, y))[i] =
                    IF i <= n THEN s[i] ELSE IF i = n + 1 THEN x ELSE y
  <2> DEFINE u == UpToTwo(m, x, y)
  <2>1. m \in Nat /\ u \in [1..m -> S]  BY DEF UpToTwo
  <2>2. u \in Seq(S) /\ Len(u) = m  BY <2>1, SeqDef, LenProperties
  <2>3. \A i \in 1..m : u[i] = IF i = 1 THEN x ELSE y  BY DEF UpToTwo
  <2> DEFINE v == s \o u
  <2>4. /\ v \in Seq(S) /\ Len(v) = n + m
        /\ \A i \in 1..(n + m) : v[i] = IF i <= n THEN s[i] ELSE u[i - n]
    BY <2>2, ConcatProperties
  <2> HIDE DEF u, v, n
  <2>5. \A i \in 1..(n + m) : i <= n \/ (i - n \in 1..m /\ (i - n = 1 <=> i = n + 1))
    BY <1>0, <2>1
  <2>6. \A i \in 1..(n + m) : v[i] = IF i <= n THEN s[i] ELSE IF i = n + 1 THEN x ELSE y
    BY <2>3, <2>4, <2>5
  <2> QED  BY <2>4, <2>6 DEF u, v
<1>2. /\ a \in Seq(S) /\ Len(a) = n + 1
      /\ \A i \in 1..(n + 1) : a[i] = IF i <= n THEN s[i] ELSE x
  BY <1>0, AppendProperties
<1>3. /\ b \in Seq(S) /\ Len(b) = n + 2
      /\ \A i \in 1..(n + 2) :
           b[i] = IF i <= n THEN s[i] ELSE IF i = n + 1 THEN x ELSE y
  <2> HIDE DEF a, n
  <2>1. /\ b \in Seq(S) /\ Len(b) = (n + 1) + 1
        /\ \A i \in 1..(n + 1) : b[i] = a[i]
        /\ b[(n + 1) + 1] = y
    BY <1>2, AppendProperties
  <2> HIDE DEF b
  <2> QED  BY <1>0, <1>2, <2>1
<1> DEFINE w0 == s \o UpToTwo(0, x, y)
           w1 == s \o UpToTwo(1, x, y)
           w2 == s \o UpToTwo(2, x, y)
<1>4. /\ w0 \in Seq(S) /\ Len(w0) = n /\ \A i \in 1..n : w0[i] = s[i]
      /\ w1 \in Seq(S) /\ Len(w1) = n + 1
      /\ \A i \in 1..(n + 1) : w1[i] = IF i <= n THEN s[i] ELSE x
      /\ w2 \in Seq(S) /\ Len(w2) = n + 2
      /\ \A i \in 1..(n + 2) :
           w2[i] = IF i <= n THEN s[i] ELSE IF i = n + 1 THEN x ELSE y
  <2> DEFINE Item(i) == IF i <= n THEN s[i] ELSE IF i = n + 1 THEN x ELSE y
  <2>1. w0 \in Seq(S) /\ Len(w0) = n + 0 /\ \A i \in 1..(n + 0) : w0[i] = Item(i)
    BY <1>1, 0 \in {0, 1, 2}, Zenon
  <2>2. w1 \in Seq(S) /\ Len(w1) = n + 1 /\ \A i \in 1..(n + 1) : w1[i] = Item(i)
    BY <1>1, 1 \in {0, 1, 2}, Zenon
  <2>3. w2 \in Seq(S) /\ Len(w2) = n + 2 /\ \A i \in 1..(n + 2) : w2[i] = Item(i)
    BY <1>1, 2 \in {0, 1, 2}, Zenon
  <2> HIDE DEF n, w0, w1, w2
  <2>4. w0 \in Seq(S) /\ Len(w0) = n /\ \A i \in 1..n : w0[i] = s[i]
    BY <1>0, <2>1
  <2>5. \A i \in 1..(n + 1) : w1[i] = IF i <= n THEN s[i] ELSE x
    BY <1>0, <2>2
  <2> QED  BY <2>2, <2>3, <2>4, <2>5, Zenon
<1> HIDE DEF w0, w1, w2, a, b
<1>5. w0 = s  BY <1>4, SeqEqual
<1>6. w1 = a  BY <1>2, <1>4, SeqEqual
<1>7. w2 = b  BY <1>3, <1>4, SeqEqual
<1> QED  BY <1>5, <1>6, <1>7 DEF w0, w1, w2, a, b

\* The last of these facts, by itself.
LEMMA ConcatTwo ==
  ASSUME NEW S, NEW s \in Seq(S), NEW x \in S, NEW y \in S
  PROVE  s \o UpToTwo(2, x, y) = Append(Append(s, x), y)
BY ConcatUpToTwo, Z3

\* Inserting an item at one place moves those from there on up by one.
LEMMA InsertAtProperties ==
  ASSUME NEW S, NEW s \in Seq(S), NEW e \in S, NEW i \in 1..(Len(s) + 1)
  PROVE  /\ InsertAt(s, i, e) \in Seq(S)
         /\ Len(InsertAt(s, i, e)) = Len(s) + 1
         /\ \A j \in 1..(i - 1) : InsertAt(s, i, e)[j] = s[j]
         /\ InsertAt(s, i, e)[i] = e
         /\ \A j \in (i + 1)..(Len(s) + 1) : InsertAt(s, i, e)[j] = s[j - 1]
<1> DEFINE l == SubSeq(s, 1, i - 1)
           m == l \o <<e>>
           r == SubSeq(s, i, Len(s))
<1>0. /\ Len(s) \in Nat
      /\ \A j \in 1..Len(s) : s[j] \in S
  BY ElementOfSeq, LenProperties
<1>1. /\ l \in Seq(S)
      /\ Len(l) = i - 1
      /\ \A j \in 1..(i - 1) : l[j] = s[j]
  <2>1. \A j \in 1..(i - 1) : s[j] \in S  BY <1>0
  <2>2. /\ l \in Seq(S)
        /\ Len(l) = IF 1 <= i - 1 THEN (i - 1) - 1 + 1 ELSE 0
        /\ \A j \in 1..((i - 1) - 1 + 1) : l[j] = s[1 + j - 1]
    BY <2>1, <1>0, SubSeqProperties
  <2> QED  BY <2>2, <1>0
<1>2. /\ r \in Seq(S)
      /\ Len(r) = Len(s) - i + 1
      /\ \A j \in 1..(Len(s) - i + 1) : r[j] = s[i + j - 1]
  <2>1. \A j \in i..Len(s) : s[j] \in S  BY <1>0
  <2>2. /\ r \in Seq(S)
        /\ Len(r) = IF i <= Len(s) THEN Len(s) - i + 1 ELSE 0
        /\ \A j \in 1..(Len(s) - i + 1) : r[j] = s[i + j - 1]
    BY <2>1, <1>0, SubSeqProperties
  <2> QED  BY <2>2, <1>0
<1>3. /\ m \in Seq(S)
      /\ Len(m) = i
      /\ \A j \in 1..i : m[j] = IF j < i THEN s[j] ELSE e
  <2>1. <<e>> \in Seq(S) /\ Len(<<e>>) = 1 /\ <<e>>[1] = e
    OBVIOUS
  <2>2. /\ m \in Seq(S)
        /\ Len(m) = Len(l) + 1
        /\ \A j \in 1..(Len(l) + 1) : m[j] = IF j <= Len(l) THEN l[j] ELSE <<e>>[j - Len(l)]
    BY <2>1, <1>1, ConcatProperties
  <2> HIDE DEF l, m
  <2> QED  BY <2>1, <2>2, <1>1
<1>4. InsertAt(s, i, e) = m \o r  BY DEF InsertAt
<1>5. /\ m \o r \in Seq(S)
      /\ Len(m \o r) = Len(m) + Len(r)
      /\ \A j \in 1..(Len(m) + Len(r)) :
           (m \o r)[j] = IF j <= Len(m) THEN m[j] ELSE r[j - Len(m)]
  BY <1>3, <1>2, ConcatProperties
<1> HIDE DEF m, r
<1> QED  BY <1>0, <1>2, <1>3, <1>4, <1>5

\* Adding an item at the front moves the others up by one.
LEMMA ConsProperties ==
  ASSUME NEW S, NEW s \in Seq(S), NEW e \in S
  PROVE  /\ Cons(e, s) \in Seq(S)
         /\ Len(Cons(e, s)) = Len(s) + 1
         /\ Cons(e, s)[1] = e
         /\ \A j \in 1..Len(s) : Cons(e, s)[j + 1] = s[j]
<1>1. /\ <<e>> \in Seq(S)
      /\ Len(<<e>>) = 1
      /\ <<e>>[1] = e
  OBVIOUS
<1>2. Cons(e, s) = <<e>> \o s  BY DEF Cons
<1>3. Len(s) \in Nat  BY LenProperties
<1>4. /\ <<e>> \o s \in Seq(S)
      /\ Len(<<e>> \o s) = 1 + Len(s)
      /\ \A j \in 1..(1 + Len(s)) :
           (<<e>> \o s)[j] = IF j <= 1 THEN <<e>>[j] ELSE s[j - 1]
  BY <1>1, ConcatProperties
<1>5. \A j \in 1..Len(s) : (<<e>> \o s)[j + 1] = s[j]
  <2> TAKE j \in 1..Len(s)
  <2>1. j + 1 \in 1..(1 + Len(s)) /\ ~(j + 1 <= 1) /\ (j + 1) - 1 = j  BY <1>3
  <2> QED  BY <2>1, <1>4
<1> QED  BY <1>1, <1>2, <1>3, <1>4, <1>5

\* Dropping the last item keeps the others.
LEMMA FrontProperties ==
  ASSUME NEW S, NEW s \in Seq(S), s # << >>
  PROVE  /\ Front(s) \in Seq(S)
         /\ Len(Front(s)) = Len(s) - 1
         /\ \A j \in 1..(Len(s) - 1) : Front(s)[j] = s[j]
<1> DEFINE f == SubSeq(s, 1, Len(s) - 1)
<1>1. /\ Len(s) \in Nat \ {0}
      /\ \A j \in 1..Len(s) : s[j] \in S
  BY EmptySeq, ElementOfSeq, LenProperties
<1>2. \A j \in 1..(Len(s) - 1) : s[j] \in S  BY <1>1
<1>3. /\ f \in Seq(S)
      /\ Len(f) = IF 1 <= Len(s) - 1 THEN (Len(s) - 1) - 1 + 1 ELSE 0
      /\ \A j \in 1..((Len(s) - 1) - 1 + 1) : f[j] = s[1 + j - 1]
  BY <1>1, <1>2, SubSeqProperties
<1>4. Front(s) = f  BY DEF Front
<1> HIDE DEF f
<1>5. Len(f) = Len(s) - 1
  <2> DEFINE k == Len(s)
  <2>1. k \in Nat /\ k # 0  BY <1>1
  <2>2. Len(f) = IF 1 <= k - 1 THEN (k - 1) - 1 + 1 ELSE 0  BY <1>3
  <2> HIDE DEF k
  <2>3. Len(f) = k - 1  BY <2>1, <2>2
  <2> QED  BY <2>3 DEF k
<1>6. \A j \in 1..(Len(s) - 1) : f[j] = s[j]  BY <1>1, <1>3
<1> QED  BY <1>3, <1>4, <1>5, <1>6

-----------------------------------------------------------------------------
(* Sets of naturals.  The induction theorems of the library take the       *)
(* predicate as an operator; here it is the set of numbers that have it.   *)

\* A set of naturals that is not empty has a least element.
LEMMA LeastNatural ==
  ASSUME NEW T \in SUBSET Nat, T # {}
  PROVE  \E x \in T : \A y \in T : x <= y
<1> DEFINE R == OpToRel(<, Nat)
<1>1. \A x, y \in Nat : <<x, y>> \in R <=> x < y
  BY Zenon DEF OpToRel
<1>2. IsWellFoundedOn(R, Nat)
  BY NatLessThanWellFounded, Zenon
<1> HIDE DEF R
<1>3. PICK x \in T : \A y \in T : ~(<<y, x>> \in R)
  BY <1>2, WFMin
<1>4. ASSUME NEW y \in T PROVE x <= y
  <2>1. ~(y < x)  BY <1>1, <1>3
  <2> QED  BY <2>1
<1> QED  BY <1>4

\* A set of numbers that holds all below each of its members is an interval.
LEMMA InitialSegment ==
  ASSUME NEW n \in Nat, NEW T \in SUBSET (1..n),
         \A i \in T : \A j \in 1..i : j \in T
  PROVE  Cardinality(T) \in 0..n /\ T = 1..Cardinality(T)
<1> DEFINE out == {i \in Nat : i >= 1 /\ i \notin T}
<1>1. n + 1 \in out
  OBVIOUS
<1>2. PICK m \in out : \A i \in out : m <= i
  <2>1. out \in SUBSET Nat /\ out # {}
    BY <1>1
  <2> HIDE DEF out
  <2> QED  BY <2>1, LeastNatural
<1>3. m \in 1..(n + 1)
  BY <1>1, <1>2
<1>4. T = 1..(m - 1)
  <2>1. ASSUME NEW i \in T PROVE i \in 1..(m - 1)
    <3>1. i \in 1..n /\ i < m
      <4>1. i \in 1..n /\ (i >= m => m \in T)
        BY <1>3
      <4> QED BY <4>1, <1>2
    <3> QED BY <3>1, <1>3
  <2>2. ASSUME NEW i \in 1..(m - 1) PROVE i \in T
    BY <1>2, <1>3
  <2> QED BY <2>1, <2>2
<1>5. Cardinality(1..(m - 1)) = m - 1
  BY <1>3, FS_Interval
<1> QED BY <1>3, <1>4, <1>5

\* What holds of 0 and goes from each number to the next holds of all.
LEMMA SetInduction ==
  ASSUME NEW T \in SUBSET Nat, 0 \in T, \A n \in T : n + 1 \in T
  PROVE  T = Nat
<1> SUFFICES ASSUME Nat \ T # {} PROVE FALSE
  OBVIOUS
<1>1. PICK x \in Nat \ T : \A y \in Nat \ T : x <= y
  BY LeastNatural
<1>2. x - 1 \in Nat /\ x - 1 \notin Nat \ T  BY <1>1
<1>3. (x - 1) + 1 \in T  BY <1>2
<1> QED  BY <1>1, <1>3

\* f lists the k elements of M in ascending order.
Enumerates(f, k, M) ==
  /\ k \in Nat
  /\ f \in [1..k -> M]
  /\ \A i, j \in 1..k : i < j => f[i] < f[j]
  /\ \A m \in M : \E i \in 1..k : f[i] = m

\* Adding a number above all others extends the list.
LEMMA EnumeratesExtended ==
  ASSUME NEW M \in SUBSET Nat, NEW k, NEW f, Enumerates(f, k, M),
         NEW x \in Nat, \A m \in M : m < x
  PROVE  Enumerates([i \in 1..(k + 1) |-> IF i = k + 1 THEN x ELSE f[i]],
                    k + 1, M \cup {x})
<1> DEFINE g == [i \in 1..(k + 1) |-> IF i = k + 1 THEN x ELSE f[i]]
<1>0. k \in Nat /\ f \in [1..k -> M]  BY DEF Enumerates
<1>1. \A i \in 1..k : i \in 1..(k + 1) /\ g[i] = f[i] /\ f[i] \in M
  BY <1>0
<1>2. k + 1 \in 1..(k + 1) /\ g[k + 1] = x  BY <1>0
<1>3. \A i \in 1..(k + 1) : i = k + 1 \/ i \in 1..k  BY <1>0
<1>4. g \in [1..(k + 1) -> M \cup {x}]  BY <1>1, <1>2, <1>3
<1>5. ASSUME NEW i \in 1..(k + 1), NEW j \in 1..(k + 1), i < j
      PROVE  g[i] < g[j]
  <2>1. i \in 1..k  BY <1>5, <1>0
  <2>2. CASE j = k + 1  BY <2>1, <2>2, <1>1, <1>2
  <2>3. CASE j \in 1..k  BY <2>1, <2>3, <1>1, <1>5 DEF Enumerates
  <2> QED  BY <2>2, <2>3, <1>3
<1>6. ASSUME NEW m \in M \cup {x}
      PROVE  \E i \in 1..(k + 1) : g[i] = m
  <2>1. CASE m = x  BY <2>1, <1>2
  <2>2. CASE m \in M
    <3>1. PICK i \in 1..k : f[i] = m  BY <2>2 DEF Enumerates
    <3> QED  BY <3>1, <1>1
  <2> QED  BY <2>1, <2>2
<1>7. k + 1 \in Nat  BY <1>0
<1> HIDE DEF g
<1>8. Enumerates(g, k + 1, M \cup {x})
  BY <1>4, <1>5, <1>6, <1>7 DEF Enumerates
<1> QED  BY <1>8 DEF g

\* Leaving out the element in place j shortens the list.
LEMMA EnumeratesWithout ==
  ASSUME NEW M \in SUBSET Nat, NEW k, NEW f, Enumerates(f, k, M), NEW j \in 1..k
  PROVE  Enumerates([a \in 1..(k - 1) |-> f[IF a < j THEN a ELSE a + 1]],
                    k - 1, M \ {f[j]})
<1> DEFINE p(a) == IF a < j THEN a ELSE a + 1
           g == [a \in 1..(k - 1) |-> f[p(a)]]
<1>0. k \in Nat /\ f \in [1..k -> M]  BY DEF Enumerates
<1>1. \A a \in 1..(k - 1) : p(a) \in 1..k /\ p(a) # j  BY <1>0
<1>2. \A a, b \in 1..(k - 1) : a < b => p(a) < p(b)  BY <1>0
<1>3. \A b \in 1..k : b # j => \E a \in 1..(k - 1) : p(a) = b
  <2> SUFFICES ASSUME NEW b \in 1..k, b # j PROVE \E a \in 1..(k - 1) : p(a) = b
    OBVIOUS
  <2>1. CASE b < j
    <3>1. b \in 1..(k - 1) /\ p(b) = b  BY <2>1, <1>0
    <3> QED  BY <3>1
  <2>2. CASE b > j
    <3>1. b - 1 \in 1..(k - 1) /\ p(b - 1) = b  BY <2>2, <1>0
    <3> QED  BY <3>1
  <2> QED  BY <2>1, <2>2
<1>4. \A a, b \in 1..k : a # b => f[a] # f[b]
  <2> SUFFICES ASSUME NEW a \in 1..k, NEW b \in 1..k, a # b PROVE f[a] # f[b]
    OBVIOUS
  <2>1. f[a] \in Nat /\ f[b] \in Nat  BY <1>0
  <2>2. f[a] < f[b] \/ f[b] < f[a]  BY DEF Enumerates
  <2> QED  BY <2>1, <2>2
<1> HIDE DEF p
<1>5. \A a \in 1..(k - 1) : g[a] = f[p(a)] /\ f[p(a)] \in M \ {f[j]}
  BY <1>0, <1>1, <1>4
<1>6. g \in [1..(k - 1) -> M \ {f[j]}]  BY <1>5
<1>7. \A a, b \in 1..(k - 1) : a < b => g[a] < g[b]
  BY <1>1, <1>2, <1>5 DEF Enumerates
<1>8. ASSUME NEW m \in M \ {f[j]} PROVE \E a \in 1..(k - 1) : g[a] = m
  <2>1. PICK b \in 1..k : f[b] = m  BY DEF Enumerates
  <2>2. PICK a \in 1..(k - 1) : p(a) = b  BY <2>1, <1>3
  <2> QED  BY <2>1, <2>2, <1>5
<1>9. k - 1 \in Nat  BY <1>0
<1> HIDE DEF g
<1>10. Enumerates(g, k - 1, M \ {f[j]})
  BY <1>6, <1>7, <1>8, <1>9 DEF Enumerates
<1> QED  BY <1>10 DEF g, p

\* There is one ascending list of a set.
LEMMA EnumeratesUnique ==
  ASSUME NEW M \in SUBSET Nat, NEW k, NEW f, NEW g,
         Enumerates(f, k, M), Enumerates(g, k, M)
  PROVE  f = g
<1> DEFINE T == {i \in 1..k : f[i] # g[i]}
<1>0. k \in Nat /\ f \in [1..k -> M] /\ g \in [1..k -> M]  BY DEF Enumerates
<1> SUFFICES ASSUME T # {} PROVE FALSE
  <2>1. \A i \in 1..k : f[i] = g[i]  OBVIOUS
  <2> QED  BY <2>1, <1>0
<1>1. T \in SUBSET Nat  OBVIOUS
<1>2. PICK i \in T : \A j \in T : i <= j
  <2> HIDE DEF T
  <2> QED  BY <1>1, LeastNatural
<1>3. i \in 1..k /\ f[i] # g[i] /\ f[i] \in M /\ g[i] \in M /\ f[i] \in Nat /\ g[i] \in Nat
  BY <1>0
<1>4. \A j \in 1..k : j < i => f[j] = g[j]  BY <1>2, <1>3
<1> HIDE DEF T
<1>5. CASE f[i] < g[i]
  <2>1. PICK j \in 1..k : g[j] = f[i]  BY <1>3 DEF Enumerates
  <2>2. CASE j < i
    <3>1. f[j] = f[i]  BY <2>1, <2>2, <1>4
    <3>2. f[j] < f[i]  BY <2>2, <1>3 DEF Enumerates
    <3> QED  BY <3>1, <3>2, <1>3
  <2>3. CASE j = i  BY <2>1, <2>3, <1>3
  <2>4. CASE i < j
    <3>1. g[i] < g[j]  BY <2>4, <1>3 DEF Enumerates
    <3> QED  BY <3>1, <2>1, <1>3, <1>5
  <2> QED  BY <2>2, <2>3, <2>4, <1>3, <1>0
<1>6. CASE g[i] < f[i]
  <2>1. PICK j \in 1..k : f[j] = g[i]  BY <1>3 DEF Enumerates
  <2>2. CASE j < i
    <3>1. g[j] = g[i]  BY <2>1, <2>2, <1>4
    <3>2. g[j] < g[i]  BY <2>2, <1>3 DEF Enumerates
    <3> QED  BY <3>1, <3>2, <1>3
  <2>3. CASE j = i  BY <2>1, <2>3, <1>3
  <2>4. CASE i < j
    <3>1. f[i] < f[j]  BY <2>4, <1>3 DEF Enumerates
    <3> QED  BY <3>1, <2>1, <1>3, <1>6
  <2> QED  BY <2>2, <2>3, <2>4, <1>3, <1>0
<1> QED  BY <1>3, <1>5, <1>6

\* A listed set is finite and its size is the length of the list.
LEMMA EnumeratesCardinality ==
  ASSUME NEW M \in SUBSET Nat, NEW k, NEW f, Enumerates(f, k, M)
  PROVE  IsFiniteSet(M) /\ Cardinality(M) = k
<1>0. k \in Nat /\ f \in [1..k -> M]  BY DEF Enumerates
<1>1. \A i, j \in 1..k : f[i] = f[j] => i = j
  <2> SUFFICES ASSUME NEW i \in 1..k, NEW j \in 1..k, f[i] = f[j], i # j PROVE FALSE
    OBVIOUS
  <2>1. f[i] \in Nat /\ f[j] \in Nat  BY <1>0
  <2>2. f[i] < f[j] \/ f[j] < f[i]  BY <1>0 DEF Enumerates
  <2> QED  BY <2>1, <2>2
<1>2. \A m \in M : \E i \in 1..k : f[i] = m  BY DEF Enumerates
<1>3. f \in Bijection(1..k, M)
  BY <1>0, <1>1, <1>2 DEF Bijection, Injection, Surjection, IsInjective
<1>4. ExistsBijection(1..k, M)  BY <1>3 DEF ExistsBijection
<1> QED  BY <1>0, <1>4, FS_CountingElements, FS_NatBijection

\* Every bounded set of positive naturals can be listed.
LEMMA EnumerationExists ==
  ASSUME NEW n \in Nat, NEW M \in SUBSET (1..n)
  PROVE  \E k, f : Enumerates(f, k, M)
<1> DEFINE T == {b \in Nat : \A L \in SUBSET (1..b) : \E k, f : Enumerates(f, k, L)}
<1>1. 0 \in T
  <2> SUFFICES ASSUME NEW L \in SUBSET (1..0) PROVE \E k, f : Enumerates(f, k, L)
    OBVIOUS
  <2>1. L = {}  OBVIOUS
  <2>2. Enumerates([i \in 1..0 |-> 0], 0, L)  BY <2>1 DEF Enumerates
  <2> QED  BY <2>2
<1>2. ASSUME NEW b \in T PROVE b + 1 \in T
  <2> SUFFICES ASSUME NEW L \in SUBSET (1..(b + 1))
               PROVE  \E k, f : Enumerates(f, k, L)
    OBVIOUS
  <2> DEFINE K == L \ {b + 1}
  <2>1. K \in SUBSET (1..b)  OBVIOUS
  <2>2. PICK k, f : Enumerates(f, k, K)  BY <2>1
  <2>3. CASE b + 1 \notin L
    <3>1. K = L  BY <2>3
    <3> QED  BY <3>1, <2>2
  <2>4. CASE b + 1 \in L
    <3>1. L = K \cup {b + 1}  BY <2>4
    <3>2. K \in SUBSET Nat /\ \A m \in K : m < b + 1  BY <2>1
    <3> HIDE DEF K
    <3>3. Enumerates([i \in 1..(k + 1) |-> IF i = k + 1 THEN b + 1 ELSE f[i]],
                     k + 1, K \cup {b + 1})
      BY <2>2, <3>2, EnumeratesExtended
    <3> QED  BY <3>1, <3>3
  <2> QED  BY <2>3, <2>4
<1>3. T = Nat
  <2>1. T \in SUBSET Nat  OBVIOUS
  <2> HIDE DEF T
  <2> QED  BY <2>1, <1>1, <1>2, SetInduction
<1>4. n \in T  BY <1>3
<1> QED  BY <1>4

=============================================================================
