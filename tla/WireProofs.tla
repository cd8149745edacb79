----------------------------- MODULE WireProofs -----------------------------
(***************************************************************************)
(* What is written with the conversions of Wire is read back, for every    *)
(* number and every text.                                                  *)
(*                                                                         *)
(* The definitions are recursive, and so the proofs are by induction.  The *)
(* induction theorems of the library take an operator; those below take a  *)
(* set, the set of the numbers for which the claim holds.                  *)
(***************************************************************************)
EXTENDS Wire, WellFoundedInduction, TLAPS

-----------------------------------------------------------------------------
(* Induction and recursion over the natural numbers. *)

\* A set of natural numbers has a least element.
LEMMA LeastNumber ==
  ASSUME NEW T \in SUBSET Nat, T # {}
  PROVE  \E m \in T : \A k \in T : m <= k
<1> DEFINE R == OpToRel(<, Nat)
<1>1. IsWellFoundedOn(R, Nat)
  BY NatLessThanWellFounded
<1>2. \A i, j \in Nat : i < j => <<i, j>> \in R
  BY DEF OpToRel
<1> HIDE DEF R
<1>3. PICK m \in T : \A k \in T : ~(<<k, m>> \in R)
  BY <1>1, WFMin
<1>4. \A k \in T : ~(k < m)
  BY <1>2, <1>3
<1> QED
  BY <1>4

LEMMA LeastIs ==
  ASSUME NEW T \in SUBSET Nat, NEW q \in T, \A r \in T : q <= r
  PROVE  (CHOOSE m \in T : \A r \in T : m <= r) = q
<1>1. \A m \in T : (\A r \in T : m <= r) => m = q
  OBVIOUS
<1> QED
  BY <1>1

\* Induction from n - 1 to n.
LEMMA Induction ==
  ASSUME NEW T, 0 \in T, \A n \in Nat : n \in T => n + 1 \in T
  PROVE  \A n \in Nat : n \in T
<1> SUFFICES ASSUME Nat \ T # {} PROVE FALSE
  OBVIOUS
<1>1. PICK m \in Nat \ T : \A k \in Nat \ T : m <= k
  BY LeastNumber
<1>2. m # 0 /\ m - 1 \in Nat
  BY <1>1
<1> QED
  BY <1>1, <1>2

\* Induction from all that is less than n to n.
LEMMA StrongInduction ==
  ASSUME NEW T, \A n \in Nat : (\A m \in Nat : m < n => m \in T) => n \in T
  PROVE  \A n \in Nat : n \in T
<1> SUFFICES ASSUME Nat \ T # {} PROVE FALSE
  OBVIOUS
<1>1. PICK m \in Nat \ T : \A k \in Nat \ T : m <= k
  BY LeastNumber
<1> QED
  BY <1>1

\* Values in S that are given below k and, from k on, are made of the one at an earlier
\* argument.
Recurrence(S, k, start, prev, step) ==
  /\ k \in Nat /\ start \in [Nat -> S] /\ prev \in [Nat -> Nat] /\ step \in [Nat -> [S -> S]]
  /\ \A n \in Nat : n >= k => prev[n] < n
Solves(f, S, k, start, prev, step) ==
  /\ f \in [Nat -> S]
  /\ \A n \in Nat : f[n] = IF n < k THEN start[n] ELSE step[n][f[prev[n]]]

\* A function may be defined by such a recurrence.
LEMMA Recursion ==
  ASSUME NEW S, NEW k, NEW start, NEW prev, NEW step, Recurrence(S, k, start, prev, step)
  PROVE  \E f : Solves(f, S, k, start, prev, step)
<1> USE DEF Recurrence
<1> DEFINE Next(f, n) == IF n < k THEN start[n] ELSE step[n][f[prev[n]]]
           UpTo(f, n) == f \in [0..n -> S] /\ \A i \in 0..n : f[i] = Next(f, i)
           F(n) == CHOOSE f : UpTo(f, n)
           T == {n \in Nat : \E f : UpTo(f, n)}
<1>1. ASSUME NEW n \in Nat, NEW m \in Nat, n <= m, NEW f, NEW g, UpTo(f, n), UpTo(g, m)
      PROVE  \A i \in 0..n : f[i] = g[i]
  <2> DEFINE D == {i \in 0..n : f[i] # g[i]}
  <2> SUFFICES ASSUME D # {} PROVE FALSE
    OBVIOUS
  <2>1. PICK d \in D : \A i \in D : d <= i
    <3> D \in SUBSET Nat
      OBVIOUS
    <3> HIDE DEF D
    <3> QED
      BY LeastNumber
  <2>2. d \in Nat /\ d \in 0..n /\ d \in 0..m /\ f[d] # g[d]
    BY <1>1
  <2>3. f[d] = Next(f, d) /\ g[d] = Next(g, d)
    BY <1>1, <2>2
  <2>4. d >= k
    BY <2>2, <2>3
  <2>5. prev[d] \in 0..n /\ prev[d] < d
    BY <2>2, <2>4
  <2>6. f[prev[d]] = g[prev[d]]
    BY <2>1, <2>2, <2>5
  <2> QED
    BY <2>2, <2>3, <2>6
<1>2. k > 0
  <2>1. prev[0] \in Nat
    OBVIOUS
  <2> QED
    BY <2>1
<1>3. \A n \in Nat : n \in T
  <2>1. 0 \in T
    <3> DEFINE f == [i \in 0..0 |-> start[0]]
    <3>1. UpTo(f, 0)
      BY <1>2
    <3> QED
      BY <3>1
  <2>2. ASSUME NEW n \in Nat, n \in T PROVE n + 1 \in T
    <3>1. PICK f : UpTo(f, n)
      BY <2>2
    <3> DEFINE g == [i \in 0..(n + 1) |-> IF i = n + 1 THEN Next(f, n + 1) ELSE f[i]]
    <3>2. n + 1 >= k => prev[n + 1] \in 0..n
      OBVIOUS
    <3>3. Next(f, n + 1) \in S
      BY <3>1, <3>2
    <3>4. g \in [0..(n + 1) -> S]
      BY <3>1, <3>3
    <3>5. \A i \in 0..n : g[i] = f[i]
      OBVIOUS
    <3>6. ASSUME NEW i \in 0..(n + 1) PROVE g[i] = Next(g, i)
      <4>1. CASE i = n + 1
        <5>1. g[i] = Next(f, n + 1)
          BY <4>1
        <5>2. n + 1 >= k => g[prev[n + 1]] = f[prev[n + 1]]
          BY <3>2, <3>5
        <5> QED
          BY <4>1, <5>1, <5>2
      <4>2. CASE i \in 0..n
        <5>1. i \in Nat /\ i <= n
          BY <4>2
        <5>2. i >= k => prev[i] \in 0..n
          BY <5>1
        <5>3. i >= k => g[prev[i]] = f[prev[i]]
          BY <3>5, <5>2
        <5>4. g[i] = f[i] /\ f[i] = Next(f, i)
          BY <3>1, <3>5, <4>2
        <5> QED
          BY <5>3, <5>4
      <4> QED
        BY <4>1, <4>2
    <3> HIDE DEF g
    <3>7. UpTo(g, n + 1)
      BY <3>4, <3>6
    <3> HIDE DEF UpTo
    <3> QED
      BY <3>7
  <2> HIDE DEF T
  <2> QED
    BY <2>1, <2>2, Induction
<1>4. \A n \in Nat : UpTo(F(n), n)
  BY <1>3
<1> DEFINE f == [n \in Nat |-> F(n)[n]]
<1> HIDE DEF F
<1>5. f \in [Nat -> S]
  <2>1. \A n \in Nat : n \in 0..n
    OBVIOUS
  <2> QED
    BY <1>4, <2>1
<1>6. ASSUME NEW n \in Nat PROVE f[n] = Next(f, n)
  <2>1. f[n] = Next(F(n), n)
    BY <1>4
  <2>2. CASE n < k
    BY <2>1, <2>2
  <2>3. CASE n >= k
    <3>1. prev[n] \in Nat /\ prev[n] <= n /\ prev[n] \in 0..prev[n]
      BY <2>3
    <3>2. F(prev[n])[prev[n]] = F(n)[prev[n]]
      <4>1. UpTo(F(prev[n]), prev[n]) /\ UpTo(F(n), n)
        BY <1>4, <3>1
      <4> HIDE DEF UpTo
      <4> QED
        BY <1>1, <3>1, <4>1
    <3> QED
      BY <2>1, <2>3, <3>1, <3>2
  <2> QED
    BY <2>2, <2>3
<1> HIDE DEF f
<1> QED
  BY <1>5, <1>6 DEF Solves

\* Values in S that are made one after the other, from base on.
Steps(S, n, base, step) == n \in Nat /\ base \in S /\ step \in [1..n -> [S -> S]]
Follows(f, S, n, base, step) ==
  f \in [0..n -> S] /\ f[0] = base /\ \A i \in 1..n : f[i] = step[i][f[i - 1]]

\* They are the values of a function, as the readers of sequences have it.
LEMMA FiniteRecursion ==
  ASSUME NEW S, NEW n, NEW base, NEW step, Steps(S, n, base, step)
  PROVE  \E f : Follows(f, S, n, base, step)
<1> USE DEF Steps
<1>1. PICK k \in Nat : k = 1
  OBVIOUS
<1>2. PICK start \in [Nat -> S] : \A i \in Nat : start[i] = base
  <2>1. [i \in Nat |-> base] \in [Nat -> S]
    OBVIOUS
  <2> QED
    BY <2>1
<1>3. PICK prev \in [Nat -> Nat] : \A i \in Nat : prev[i] = IF i = 0 THEN 0 ELSE i - 1
  <2> DEFINE h == [i \in Nat |-> IF i = 0 THEN 0 ELSE i - 1]
  <2>1. h \in [Nat -> Nat] /\ \A i \in Nat : h[i] = IF i = 0 THEN 0 ELSE i - 1
    OBVIOUS
  <2> HIDE DEF h
  <2> QED
    BY <2>1
<1>4. PICK later \in [Nat -> [S -> S]] : \A i \in 1..n : later[i] = step[i]
  <2> DEFINE h == [i \in Nat |-> IF i \in 1..n THEN step[i] ELSE [x \in S |-> x]]
  <2>1. h \in [Nat -> [S -> S]] /\ \A i \in 1..n : h[i] = step[i]
    OBVIOUS
  <2> HIDE DEF h
  <2> QED
    BY <2>1
<1>5. Recurrence(S, k, start, prev, later)
  <2>1. \A i \in Nat : i >= k => prev[i] < i
    <3>1. ASSUME NEW i \in Nat, i >= k PROVE prev[i] < i
      BY <1>1, <1>3, <3>1
    <3> QED
      BY <3>1
  <2>2. /\ k \in Nat /\ start \in [Nat -> S] /\ prev \in [Nat -> Nat]
        /\ later \in [Nat -> [S -> S]]
    BY Zenon
  <2> QED
    BY <2>1, <2>2, Zenon DEF Recurrence
<1>6. PICK f : Solves(f, S, k, start, prev, later)
  BY <1>5, Recursion
<1>7. f[0] = base /\ f \in [Nat -> S]
  BY <1>1, <1>2, <1>6 DEF Solves
<1>8. ASSUME NEW i \in 1..n PROVE f[i] = step[i][f[i - 1]]
  <2>1. i \in Nat /\ ~(i < k) /\ prev[i] = i - 1
    BY <1>1, <1>3
  <2> QED
    BY <1>4, <1>6, <2>1 DEF Solves
<1> DEFINE g == [i \in 0..n |-> f[i]]
<1>9. g \in [0..n -> S] /\ \A i \in 0..n : g[i] = f[i]
  BY <1>7
<1> HIDE DEF g
<1>10. \A i \in 1..n : i - 1 \in 0..n /\ i \in 0..n
  OBVIOUS
<1>11. \A i \in 1..n : g[i] = step[i][g[i - 1]]
  BY <1>8, <1>9, <1>10
<1>12. g \in [0..n -> S] /\ g[0] = base
  BY <1>7, <1>9
<1> QED
  BY <1>11, <1>12, Zenon DEF Follows

\* Two functions that start the same and go on the same up to n.
GoOnAlike(f, g, n) ==
  n \in Nat /\ f[0] = g[0] /\ \A i \in 1..n : f[i - 1] = g[i - 1] => f[i] = g[i]

\* They are the same.
LEMMA SameRecursion ==
  ASSUME NEW f, NEW g, NEW n, GoOnAlike(f, g, n)
  PROVE  \A i \in 0..n : f[i] = g[i]
<1> USE DEF GoOnAlike
<1> DEFINE T == {i \in Nat : i <= n => f[i] = g[i]}
<1>1. 0 \in T
  OBVIOUS
<1>2. \A i \in Nat : i \in T => i + 1 \in T
  <2> SUFFICES ASSUME NEW i \in Nat, i \in T, i + 1 <= n PROVE f[i + 1] = g[i + 1]
    OBVIOUS
  <2>1. i + 1 \in 1..n /\ (i + 1) - 1 = i /\ f[i] = g[i]
    OBVIOUS
  <2> QED
    BY <2>1
<1>3. \A i \in Nat : i \in T
  <2> HIDE DEF T
  <2> QED
    BY <1>1, <1>2, Induction
<1> QED
  BY <1>3

-----------------------------------------------------------------------------
(* Texts and the places where they stand in a line. *)

\* The characters are strings.  Those that mean something to the codecs are listed: the
\* provers have no type for a string that is spelled out.
Chars == STRING \cup DigitChars \cup {" ", "H", "LF", "{", "}"}
Texts == Seq(Chars)

LEMMA TextLen == \A t \in Texts : Len(t) \in Nat /\ DOMAIN t = 1..Len(t)
  BY DEF Texts

LEMMA Len1 == \A c : Len(<<c>>) = 1
  OBVIOUS

LEMMA TextConcat ==
  ASSUME NEW u \in Texts, NEW w \in Texts
  PROVE  /\ u \o w \in Texts /\ Len(u \o w) = Len(u) + Len(w)
         /\ \A i \in 1..Len(u) : (u \o w)[i] = u[i]
         /\ \A i \in 1..Len(w) : (u \o w)[Len(u) + i] = w[i]
<1>1. u \o w \in Texts
  BY DEF Texts
<1>2. Len(u \o w) = Len(u) + Len(w)
  BY DEF Texts
<1>3. \A i \in 1..Len(u) : (u \o w)[i] = u[i]
  BY DEF Texts
<1>4. \A i \in 1..Len(w) : (u \o w)[Len(u) + i] = w[i]
  BY DEF Texts
<1> QED
  BY <1>1, <1>2, <1>3, <1>4

LEMMA TextEqual ==
  ASSUME NEW u \in Texts, NEW w \in Texts, NEW n, Len(u) = n, Len(w) = n,
         \A i \in 1..n : u[i] = w[i]
  PROVE  u = w
  BY DEF Texts

\* x is u and then w, which are as long as a and b say.
Joins(x, u, a, w, b) ==
  /\ x \in Texts /\ Len(x) = a + b
  /\ \A i \in 1..a : x[i] = u[i]
  /\ \A i \in 1..b : x[a + i] = w[i]

LEMMA TextJoins ==
  ASSUME NEW u \in Texts, NEW w \in Texts
  PROVE  Joins(u \o w, u, Len(u), w, Len(w))
  BY TextConcat, Zenon DEF Joins

LEMMA TextAssociative ==
  ASSUME NEW u \in Texts, NEW v \in Texts, NEW w \in Texts
  PROVE  u \o v \o w = u \o (v \o w)
<1>1. PICK a \in Nat : a = Len(u)
  BY TextLen
<1>2. PICK b \in Nat : b = Len(v)
  BY TextLen
<1>3. PICK c \in Nat : c = Len(w)
  BY TextLen
<1>4. PICK x \in Texts : x = u \o v
  BY TextConcat
<1>5. PICK y \in Texts : y = v \o w
  BY TextConcat
<1>6. PICK l \in Texts : l = x \o w
  BY TextConcat
<1>7. PICK r \in Texts : r = u \o y
  BY TextConcat
<1>8. Joins(x, u, a, v, b) /\ Joins(y, v, b, w, c)
  BY <1>1, <1>2, <1>3, <1>4, <1>5, TextJoins
<1>9. Len(x) = a + b /\ Len(y) = b + c
  BY <1>8 DEF Joins
<1>10. Joins(l, x, a + b, w, c)
  BY <1>3, <1>6, <1>9, TextJoins
<1>11. Joins(r, u, a, y, b + c)
  BY <1>1, <1>7, <1>9, TextJoins
<1>12. PICK n \in Nat : n = a + b + c
  OBVIOUS
<1>13. ASSUME NEW i \in 1..n PROVE l[i] = r[i]
  <2>1. CASE i \in 1..a
    <3>1. i \in 1..(a + b)
      BY <2>1
    <3> QED
      BY <1>8, <1>10, <1>11, <2>1, <3>1 DEF Joins
  <2>2. CASE i - a \in 1..b
    <3>1. PICK k \in 1..b : k = i - a
      BY <2>2
    <3>2. i = a + k /\ k \in 1..(b + c) /\ i \in 1..(a + b)
      BY <3>1
    <3>3. l[i] = x[a + k] /\ x[a + k] = v[k]
      BY <1>8, <1>10, <3>2 DEF Joins
    <3>4. r[a + k] = y[k] /\ y[k] = v[k]
      BY <1>8, <1>11, <3>2 DEF Joins
    <3> QED
      BY <3>2, <3>3, <3>4
  <2>3. CASE i - (a + b) \in 1..c
    <3>1. PICK k \in 1..c : k = i - (a + b)
      BY <2>3
    <3>2. i = a + b + k /\ i = a + (b + k) /\ b + k \in 1..(b + c)
      BY <3>1
    <3>3. l[a + b + k] = w[k]
      BY <1>10 DEF Joins
    <3>4. r[a + (b + k)] = y[b + k] /\ y[b + k] = w[k]
      BY <1>8, <1>11, <3>2 DEF Joins
    <3> QED
      BY <3>2, <3>3, <3>4
  <2>4. i \in 1..a \/ i - a \in 1..b \/ i - (a + b) \in 1..c
    BY <1>12
  <2> QED
    BY <2>1, <2>2, <2>3, <2>4
<1>14. l = r
  <2>1. Len(l) = n /\ Len(r) = n
    BY <1>10, <1>11, <1>12 DEF Joins
  <2> QED
    BY <1>13, <2>1, TextEqual
<1> QED
  BY <1>4, <1>5, <1>6, <1>7, <1>14

\* The text w stands in s from position p on.
Holds(s, p, w) == /\ p \in Nat \ {0} /\ p + Len(w) <= Len(s) + 1
                  /\ \A i \in 1..Len(w) : s[p + i - 1] = w[i]

LEMMA HoldsAll == ASSUME NEW s \in Texts PROVE Holds(s, 1, s)
  BY DEF Holds, Texts

LEMMA HoldsConcat ==
  ASSUME NEW s \in Texts, NEW u \in Texts, NEW v \in Texts, NEW p, Holds(s, p, u \o v)
  PROVE  Holds(s, p, u) /\ Holds(s, p + Len(u), v)
<1>1. Len(u \o v) = Len(u) + Len(v) /\ Len(u) \in Nat /\ Len(v) \in Nat /\ p \in Nat \ {0}
  BY DEF Texts, Holds
<1>2. \A i \in 1..Len(u) : (u \o v)[i] = u[i] /\ i \in 1..Len(u \o v)
  BY <1>1 DEF Texts
<1>3. \A i \in 1..Len(v) :
        /\ (u \o v)[Len(u) + i] = v[i] /\ Len(u) + i \in 1..Len(u \o v)
        /\ p + (Len(u) + i) - 1 = p + Len(u) + i - 1
  BY <1>1 DEF Texts
<1> QED
  BY <1>1, <1>2, <1>3 DEF Holds

\* A character that stands in a line.
LEMMA HoldsOne ==
  ASSUME NEW s \in Texts, NEW c \in Chars, NEW p, Holds(s, p, <<c>>)
  PROVE  p \in DOMAIN s /\ s[p] = c
<1>1. p \in Nat \ {0} /\ p <= Len(s)
  BY DEF Holds, Texts
<1>2. 1 \in 1..Len(<<c>>) /\ p + 1 - 1 = p /\ <<c>>[1] = c
  BY <1>1
<1>3. s[p + 1 - 1] = <<c>>[1]
  BY <1>2 DEF Holds
<1>4. s[p] = c
  BY <1>2, <1>3, Zenon
<1>5. p \in 1..Len(s) /\ DOMAIN s = 1..Len(s)
  BY <1>1 DEF Texts
<1> QED
  BY <1>4, <1>5

\* What stands in a line is what a reader takes out of it.
LEMMA HoldsSub ==
  ASSUME NEW s \in Texts, NEW w \in Texts, NEW p, Holds(s, p, w)
  PROVE  SubSeq(s, p, p + Len(w) - 1) = w
<1> DEFINE t == SubSeq(s, p, p + Len(w) - 1)
<1>1. p \in Nat \ {0} /\ Len(w) \in Nat /\ Len(s) \in Nat /\ p + Len(w) - 1 <= Len(s)
  BY DEF Holds, Texts
<1>2. t \in Texts /\ Len(t) = Len(w) /\ \A i \in 1..Len(w) : t[i] = s[p + i - 1]
  BY <1>1 DEF Texts
<1>3. \A i \in 1..Len(w) : t[i] = w[i]
  BY <1>2 DEF Holds
<1> HIDE DEF t
<1> QED
  BY <1>1, <1>2, <1>3 DEF Texts

-----------------------------------------------------------------------------
(* Searching. *)

\* The first position whose character is in chars is found.
LEMMA FindAt ==
  ASSUME NEW s \in Texts, NEW chars, NEW p \in Nat, NEW q \in Nat,
         p <= q, q <= Len(s) + 1,
         \A r \in p..(q - 1) : s[r] \notin chars, q <= Len(s) => s[q] \in chars
  PROVE  Find(s, p, chars) = q
<1> DEFINE found == {r \in p..Len(s) : s[r] \in chars}
<1>1. Len(s) \in Nat
  BY DEF Texts
<1>2. CASE q = Len(s) + 1
  <2>1. found = {}
    BY <1>1, <1>2
  <2> QED
    BY <1>2, <2>1 DEF Find
<1>3. CASE q <= Len(s)
  <2>1. q \in found
    BY <1>1, <1>3
  <2>2. \A r \in found : r \in Nat /\ q <= r
    BY <1>1
  <2>3. (CHOOSE m \in found : \A r \in found : m <= r) = q
    <3>1. found \in SUBSET Nat
      BY <2>2
    <3> HIDE DEF found
    <3> QED
      BY <2>1, <2>2, <3>1, LeastIs
  <2> QED
    BY <2>1, <2>3 DEF Find
<1> QED
  BY <1>1, <1>2, <1>3

\* The first position whose character is not in chars is found.
LEMMA SkipOverAt ==
  ASSUME NEW s \in Texts, NEW chars, NEW p \in Nat, NEW q \in Nat,
         p <= q, q <= Len(s) + 1,
         \A r \in p..(q - 1) : s[r] \in chars, q <= Len(s) => s[q] \notin chars
  PROVE  SkipOver(s, p, chars) = q
<1> DEFINE other == {r \in p..Len(s) : s[r] \notin chars}
<1>1. Len(s) \in Nat
  BY DEF Texts
<1>2. CASE q = Len(s) + 1
  <2>1. other = {}
    BY <1>1, <1>2
  <2> QED
    BY <1>2, <2>1 DEF SkipOver
<1>3. CASE q <= Len(s)
  <2>1. q \in other
    BY <1>1, <1>3
  <2>2. \A r \in other : r \in Nat /\ q <= r
    BY <1>1
  <2>3. (CHOOSE m \in other : \A r \in other : m <= r) = q
    <3>1. other \in SUBSET Nat
      BY <2>2
    <3> HIDE DEF other
    <3> QED
      BY <2>1, <2>2, <3>1, LeastIs
  <2> QED
    BY <2>1, <2>3 DEF SkipOver
<1> QED
  BY <1>1, <1>2, <1>3

-----------------------------------------------------------------------------
(* Digits. *)
LEMMA DigitSet == DigitChars = {"0", "1", "2", "3", "4", "5", "6", "7", "8", "9"}
  BY DEF DigitChars, Digits

LEMMA NoDigits ==
  /\ " " \notin DigitChars /\ "H" \notin DigitChars /\ "LF" \notin DigitChars
  /\ "{" \notin DigitChars /\ "}" \notin DigitChars
<1>1. " " \notin DigitChars /\ "H" \notin DigitChars /\ "LF" \notin DigitChars
  BY DigitSet
<1>2. "{" \notin DigitChars /\ "}" \notin DigitChars
  BY DigitSet, Zenon
<1> QED
  BY <1>1, <1>2, Zenon

LEMMA MoreChars ==
  /\ DigitChars \subseteq Chars /\ " " \in Chars /\ "H" \in Chars /\ "LF" \in Chars
  /\ "{" \in Chars /\ "}" \in Chars /\ STRING \subseteq Chars
  BY Zenon DEF Chars

LEMMA DigitValues ==
  /\ \A d \in 0..9 : Digits[d + 1] \in DigitChars /\ DigitValue(Digits[d + 1]) = d
  /\ \A c \in DigitChars : DigitValue(c) \in 0..9
<1>1. \A i, j \in 1..10 : Digits[i] = Digits[j] => i = j
  BY DEF Digits
<1>2. DOMAIN Digits = 1..10
  BY DEF Digits
<1> HIDE DEF Digits
<1>3. ASSUME NEW i \in 1..10 PROVE DigitValue(Digits[i]) = i - 1
  <2>1. (CHOOSE j \in DOMAIN Digits : Digits[j] = Digits[i]) = i
    BY <1>1, <1>2
  <2> QED
    BY <2>1 DEF DigitValue
<1>4. \A d \in 0..9 : d + 1 \in 1..10 /\ (d + 1) - 1 = d
  OBVIOUS
<1>5. \A c \in DigitChars : \E i \in 1..10 : c = Digits[i]
  BY <1>2 DEF DigitChars
<1>6. \A i \in 1..10 : i - 1 \in 0..9
  OBVIOUS
<1>7. \A i \in 1..10 : Digits[i] \in DigitChars
  BY <1>2 DEF DigitChars
<1> QED
  BY <1>3, <1>4, <1>5, <1>6, <1>7

-----------------------------------------------------------------------------
(* Numbers. *)

\* Decimal is what its definition says.
LEMMA DecimalDef ==
  \A n \in Nat : Decimal[n] = IF n < 10 THEN <<Digits[n + 1]>>
                              ELSE Append(Decimal[n \div 10], Digits[(n % 10) + 1])
<1> DEFINE S == Seq(DigitChars)
<1>1. PICK k \in Nat : k = 10
  OBVIOUS
<1>2. PICK start \in [Nat -> S] : \A n \in Nat : n < 10 => start[n] = <<Digits[n + 1]>>
  <2> DEFINE h == [n \in Nat |-> IF n < 10 THEN <<Digits[n + 1]>> ELSE <<>>]
  <2>1. \A n \in Nat : n < 10 => n \in 0..9
    OBVIOUS
  <2>2. \A n \in Nat : n < 10 => <<Digits[n + 1]>> \in S
    BY <2>1, DigitValues
  <2>3. h \in [Nat -> S] /\ \A n \in Nat : n < 10 => h[n] = <<Digits[n + 1]>>
    BY <2>2
  <2> HIDE DEF h
  <2> QED
    BY <2>3
<1>3. PICK prev \in [Nat -> Nat] : \A n \in Nat : prev[n] = n \div 10
  <2> DEFINE h == [n \in Nat |-> n \div 10]
  <2>1. h \in [Nat -> Nat] /\ \A n \in Nat : h[n] = n \div 10
    OBVIOUS
  <2> HIDE DEF h
  <2> QED
    BY <2>1
<1>4. PICK step \in [Nat -> [S -> S]] :
        \A n \in Nat : \A d \in S : step[n][d] = Append(d, Digits[(n % 10) + 1])
  <2> DEFINE h == [n \in Nat |-> [d \in S |-> Append(d, Digits[(n % 10) + 1])]]
  <2>1. \A n \in Nat : n % 10 \in 0..9
    OBVIOUS
  <2>2. \A n \in Nat : Digits[(n % 10) + 1] \in DigitChars
    BY <2>1, DigitValues
  <2>3. \A n \in Nat : \A d \in S : Append(d, Digits[(n % 10) + 1]) \in S
    BY <2>2
  <2>4. h \in [Nat -> [S -> S]]
        /\ \A n \in Nat : \A d \in S : h[n][d] = Append(d, Digits[(n % 10) + 1])
    BY <2>3
  <2> HIDE DEF h
  <2> QED
    BY <2>4
<1>5. Recurrence(S, k, start, prev, step)
  <2>1. \A n \in Nat : n >= k => prev[n] < n
    <3>1. \A n \in Nat : n >= 10 => n \div 10 < n
      OBVIOUS
    <3> QED
      BY <1>1, <1>3, <3>1
  <2>2. k \in Nat /\ start \in [Nat -> S] /\ prev \in [Nat -> Nat] /\ step \in [Nat -> [S -> S]]
    BY Zenon
  <2> QED
    BY <2>1, <2>2, Zenon DEF Recurrence
<1>6. PICK f : Solves(f, S, k, start, prev, step)
  BY <1>5, Recursion
<1>7. f \in [Nat -> S]
  BY <1>6, Zenon DEF Solves
<1>8. ASSUME NEW n \in Nat
      PROVE  f[n] = IF n < 10 THEN <<Digits[n + 1]>>
                    ELSE Append(f[n \div 10], Digits[(n % 10) + 1])
  <2>1. n \div 10 \in Nat
    OBVIOUS
  <2>2. f[prev[n]] = f[n \div 10] /\ f[n \div 10] \in S
    BY <1>3, <1>7, <2>1
  <2>3. f[n] = IF n < k THEN start[n] ELSE step[n][f[prev[n]]]
    BY <1>6, Zenon DEF Solves
  <2>4. CASE n < 10
    BY <1>1, <1>2, <2>3, <2>4
  <2>5. CASE ~(n < 10)
    BY <1>1, <1>4, <2>2, <2>3, <2>5
  <2> QED
    BY <2>4, <2>5
<1> DEFINE Body(g) == [n \in Nat |-> IF n < 10 THEN <<Digits[n + 1]>>
                                     ELSE Append(g[n \div 10], Digits[(n % 10) + 1])]
<1>9. f = Body(f)
  BY <1>7, <1>8
<1>10. Decimal = CHOOSE g : g = Body(g)
  BY DEF Decimal
<1>11. Decimal = Body(Decimal)
  <2> HIDE DEF Body
  <2> QED
    BY <1>9, <1>10
<1>12. \A n \in Nat : Decimal[n] = Body(Decimal)[n]
  BY <1>11, Zenon
<1> QED
  BY <1>12

\* A number is written with digits, and with at least one.
LEMMA DecimalText ==
  \A n \in Nat : Decimal[n] \in Seq(DigitChars) /\ Decimal[n] # <<>>
<1> DEFINE T == {n \in Nat : Decimal[n] \in Seq(DigitChars) /\ Decimal[n] # <<>>}
<1>1. ASSUME NEW n \in Nat, \A m \in Nat : m < n => m \in T PROVE n \in T
  <2>1. CASE n < 10
    <3>1. n \in 0..9
      BY <2>1
    <3>2. Digits[n + 1] \in DigitChars
      BY <3>1, DigitValues
    <3>3. Decimal[n] = <<Digits[n + 1]>>
      BY <2>1, DecimalDef
    <3>4. <<Digits[n + 1]>> \in Seq(DigitChars) /\ <<Digits[n + 1]>> # <<>>
      BY <3>2
    <3> QED
      BY <3>3, <3>4, Zenon
  <2>2. CASE ~(n < 10)
    <3>1. n \div 10 \in Nat /\ n \div 10 < n /\ n % 10 \in 0..9
      BY <2>2
    <3>2. Decimal[n \div 10] \in Seq(DigitChars)
      BY <1>1, <3>1
    <3>3. Digits[(n % 10) + 1] \in DigitChars
      BY <3>1, DigitValues
    <3>4. Decimal[n] = Append(Decimal[n \div 10], Digits[(n % 10) + 1])
      BY <2>2, DecimalDef
    <3>5. \A d \in Seq(DigitChars) : \A c \in DigitChars :
            Append(d, c) \in Seq(DigitChars) /\ Append(d, c) # <<>>
      <4> SUFFICES ASSUME NEW d \in Seq(DigitChars), NEW c \in DigitChars
                   PROVE  Append(d, c) \in Seq(DigitChars) /\ Append(d, c) # <<>>
        OBVIOUS
      <4>1. Append(d, c) \in Seq(DigitChars) /\ Len(Append(d, c)) = Len(d) + 1 /\ Len(d) \in Nat
        OBVIOUS
      <4> QED
        BY <4>1
    <3> QED
      BY <3>2, <3>3, <3>4, <3>5, Zenon
  <2> QED
    BY <2>1, <2>2
<1>2. \A n \in Nat : n \in T
  <2> HIDE DEF T
  <2> QED
    BY <1>1, StrongInduction
<1> QED
  BY <1>2

LEMMA DecimalInTexts ==
  ASSUME NEW n \in Nat
  PROVE  /\ Decimal[n] \in Texts /\ Len(Decimal[n]) \in Nat \ {0}
         /\ \A i \in 1..Len(Decimal[n]) : Decimal[n][i] \in DigitChars
<1>1. PICK d \in Seq(DigitChars) : d = Decimal[n] /\ d # <<>>
  BY DecimalText
<1>2. Len(d) \in Nat \ {0} /\ \A i \in 1..Len(d) : d[i] \in DigitChars
  BY <1>1
<1>3. \A i \in 1..Len(d) : d[i] \in Chars
  BY <1>2, MoreChars
<1>4. d \in Seq(Chars)
  BY <1>2, <1>3
<1> QED
  BY <1>1, <1>2, <1>4 DEF Texts

\* The digits of s are read from left to right.
LEMMA UnsignedRead ==
  ASSUME NEW s \in Texts, NEW w \in Nat \ {0}
  PROVE  \E read \in [0..Len(s) -> Nat] :
           /\ Unsigned(s, w) = read[Len(s)]
           /\ read[0] = 0
           /\ \A i \in 1..Len(s) :
                read[i] = IF s[i] \in DigitChars
                          THEN (10 * read[i - 1] + DigitValue(s[i])) % w ELSE read[i - 1]
<1> DEFINE n == Len(s)
<1>1. n \in Nat
  BY DEF Texts
<1>2. PICK step \in [1..n -> [Nat -> Nat]] :
        \A i \in 1..n : \A x \in Nat :
          step[i][x] = IF s[i] \in DigitChars THEN (10 * x + DigitValue(s[i])) % w ELSE x
  <2> DEFINE h == [i \in 1..n |-> [x \in Nat |->
                     IF s[i] \in DigitChars THEN (10 * x + DigitValue(s[i])) % w ELSE x]]
  <2>1. \A x \in Nat : \A d \in 0..9 : (10 * x + d) % w \in Nat
    OBVIOUS
  <2>2. \A i \in 1..n : \A x \in Nat :
          s[i] \in DigitChars => (10 * x + DigitValue(s[i])) % w \in Nat
    BY <2>1, DigitValues
  <2> HIDE DEF n
  <2>3. h \in [1..n -> [Nat -> Nat]] /\ \A i \in 1..n : \A x \in Nat :
          h[i][x] = IF s[i] \in DigitChars THEN (10 * x + DigitValue(s[i])) % w ELSE x
    BY <2>2
  <2> HIDE DEF h
  <2> QED
    BY <2>3
<1>3. PICK f : Follows(f, Nat, n, 0, step)
  <2>1. Steps(Nat, n, 0, step)
    BY <1>1 DEF Steps
  <2> QED
    BY <2>1, FiniteRecursion
<1> DEFINE Body(g) ==
      [i \in 0..n |->
        CASE i = 0 -> 0
          [] i > 0 /\ s[i] \in DigitChars -> (10 * g[i - 1] + DigitValue(s[i])) % w
          [] OTHER -> g[i - 1]]
<1> DEFINE read == CHOOSE g : g = Body(g)
<1>4. \A i \in 1..n : i - 1 \in 0..n /\ i # 0 /\ i > 0
  BY <1>1
<1>5. \A i \in 1..n : f[i] = IF s[i] \in DigitChars
                             THEN (10 * f[i - 1] + DigitValue(s[i])) % w ELSE f[i - 1]
  BY <1>2, <1>3, <1>4 DEF Follows
<1>6. \A i \in 0..n : i = 0 \/ i \in 1..n
  BY <1>1
<1>7. ASSUME NEW i \in 0..n PROVE f[i] = Body(f)[i]
  <2>1. CASE i = 0
    BY <1>3, <2>1 DEF Follows
  <2>2. CASE i \in 1..n
    BY <1>4, <1>5, <2>2
  <2> QED
    BY <1>6, <2>1, <2>2
<1>8. f = Body(f)
  <2>1. f \in [0..n -> Nat]
    BY <1>3 DEF Follows
  <2> QED
    BY <1>7, <2>1
<1>9. read = Body(read)
  <2> HIDE DEF Body
  <2> QED
    BY <1>8
<1> HIDE DEF read
<1>10. \A i \in 0..n : read[i] = Body(read)[i]
  BY <1>9, Zenon
<1>11. 0 \in 0..n /\ \A i \in 1..n : i \in 0..n
  BY <1>1
<1>12. read[0] = 0
  BY <1>10, <1>11
<1>13. \A i \in 1..n : read[i] = IF s[i] \in DigitChars
                                 THEN (10 * read[i - 1] + DigitValue(s[i])) % w ELSE read[i - 1]
  BY <1>4, <1>10, <1>11
<1>14. \A i \in 0..n : read[i] = f[i]
  <2>1. \A i \in 1..n : read[i - 1] = f[i - 1] => read[i] = f[i]
    BY <1>5, <1>13
  <2>2. read[0] = f[0]
    BY <1>3, <1>12 DEF Follows
  <2>3. GoOnAlike(read, f, n)
    BY <1>1, <2>1, <2>2, Zenon DEF GoOnAlike
  <2> HIDE DEF n
  <2> QED
    BY <2>3, SameRecursion
<1>15. Unsigned(s, w) = read[n]
  BY DEF Unsigned, read
<1>16. read[n] = f[n]
  BY <1>1, <1>14
<1> QED
  BY <1>3, <1>5, <1>15, <1>16 DEF Follows

\* One character more.
LEMMA UnsignedAppend ==
  ASSUME NEW s \in Texts, NEW c \in Chars, NEW w \in Nat \ {0}
  PROVE  /\ Unsigned(s, w) \in Nat
         /\ Unsigned(Append(s, c), w) =
              IF c \in DigitChars THEN (10 * Unsigned(s, w) + DigitValue(c)) % w
                                  ELSE Unsigned(s, w)
<1> DEFINE t == Append(s, c)
<1>1. /\ t \in Texts /\ Len(s) \in Nat /\ Len(t) = Len(s) + 1 /\ t[Len(t)] = c
      /\ \A i \in 1..Len(s) : t[i] = s[i]
  BY DEF Texts
<1> HIDE DEF t
<1>2. PICK f \in [0..Len(s) -> Nat] :
           /\ Unsigned(s, w) = f[Len(s)]
           /\ f[0] = 0
           /\ \A i \in 1..Len(s) :
                f[i] = IF s[i] \in DigitChars
                       THEN (10 * f[i - 1] + DigitValue(s[i])) % w ELSE f[i - 1]
  BY UnsignedRead
<1>3. PICK g \in [0..Len(t) -> Nat] :
           /\ Unsigned(t, w) = g[Len(t)]
           /\ g[0] = 0
           /\ \A i \in 1..Len(t) :
                g[i] = IF t[i] \in DigitChars
                       THEN (10 * g[i - 1] + DigitValue(t[i])) % w ELSE g[i - 1]
  BY <1>1, UnsignedRead
<1>4. \A i \in 0..Len(s) : g[i] = f[i]
  <2>1. ASSUME NEW i \in 1..Len(s), g[i - 1] = f[i - 1] PROVE g[i] = f[i]
    <3>1. i \in 1..Len(t) /\ t[i] = s[i]
      BY <1>1
    <3> QED
      BY <1>2, <1>3, <2>1, <3>1
  <2>2. GoOnAlike(g, f, Len(s))
    BY <1>1, <1>2, <1>3, <2>1, Zenon DEF GoOnAlike
  <2> QED
    BY <2>2, SameRecursion
<1>5. /\ Len(s) + 1 \in 1..Len(t) /\ (Len(s) + 1) - 1 = Len(s) /\ Len(s) \in 0..Len(s)
      /\ t[Len(s) + 1] = c
  BY <1>1
<1>6. g[Len(s)] = f[Len(s)]
  BY <1>4, <1>5
<1>7. g[Len(s) + 1] = IF c \in DigitChars
                      THEN (10 * g[Len(s)] + DigitValue(c)) % w ELSE g[Len(s)]
  <2>1. g[Len(s) + 1] = IF t[Len(s) + 1] \in DigitChars
                        THEN (10 * g[(Len(s) + 1) - 1] + DigitValue(t[Len(s) + 1])) % w
                        ELSE g[(Len(s) + 1) - 1]
    BY <1>3, <1>5, Zenon
  <2> QED
    BY <1>5, <2>1
<1>8. Unsigned(s, w) \in Nat
  BY <1>2, <1>5
<1> QED
  BY <1>1, <1>2, <1>3, <1>6, <1>7, <1>8 DEF t

\* A text without digits says nothing.
LEMMA UnsignedNone ==
  ASSUME NEW s \in Texts, NEW w \in Nat \ {0}, \A i \in 1..Len(s) : s[i] \notin DigitChars
  PROVE  Unsigned(s, w) = 0
<1>1. Len(s) \in Nat /\ Len(s) \in 0..Len(s)
  BY DEF Texts
<1>2. PICK f \in [0..Len(s) -> Nat] :
           /\ Unsigned(s, w) = f[Len(s)]
           /\ f[0] = 0
           /\ \A i \in 1..Len(s) :
                f[i] = IF s[i] \in DigitChars
                       THEN (10 * f[i - 1] + DigitValue(s[i])) % w ELSE f[i - 1]
  BY UnsignedRead
<1>3. PICK zero : \A i \in 0..Len(s) : zero[i] = 0
  <2>1. \A i \in 0..Len(s) : [j \in 0..Len(s) |-> 0][i] = 0
    OBVIOUS
  <2> QED
    BY <2>1
<1>4. \A i \in 1..Len(s) : i - 1 \in 0..Len(s) /\ i \in 0..Len(s)
  BY <1>1
<1>5. GoOnAlike(f, zero, Len(s))
  <2>1. zero[0] = 0
    BY <1>1, <1>3
  <2>2. \A i \in 1..Len(s) : f[i - 1] = zero[i - 1] => f[i] = zero[i]
    BY <1>2, <1>3, <1>4
  <2> QED
    BY <1>1, <1>2, <2>1, <2>2, Zenon DEF GoOnAlike
<1>6. f[Len(s)] = zero[Len(s)]
  BY <1>1, <1>5, SameRecursion
<1> QED
  BY <1>1, <1>2, <1>3, <1>6

\* What is written with %d is read back, whatever stands before it that is no digit.
THEOREM DecimalReads ==
  ASSUME NEW u \in Texts, \A i \in 1..Len(u) : u[i] \notin DigitChars,
         NEW w \in Nat \ {0}, NEW n \in Nat, n < w
  PROVE  Unsigned(u \o Decimal[n], w) = n
<1> DEFINE T == {m \in Nat : m < w => Unsigned(u \o Decimal[m], w) = m}
<1>1. \A m \in Nat : Decimal[m] \in Texts
  BY DecimalInTexts
<1>2. \A s, t \in Texts : s \o t \in Texts
  BY DEF Texts
<1>3. ASSUME NEW m \in Nat, \A k \in Nat : k < m => k \in T, m < w
      PROVE  Unsigned(u \o Decimal[m], w) = m
  <2>1. CASE m < 10
    <3>1. PICK c : c = Digits[m + 1]
      OBVIOUS
    <3>2. c \in DigitChars /\ c \in Chars /\ DigitValue(c) = m
      <4>1. m \in 0..9
        BY <2>1
      <4> QED
        BY <3>1, <4>1, DigitValues, MoreChars
    <3>3. u \o Decimal[m] = Append(u, c)
      <4>1. Decimal[m] = <<c>>
        BY <2>1, <3>1, DecimalDef
      <4>2. u \o <<c>> = Append(u, c)
        BY <3>2 DEF Texts
      <4> QED
        BY <4>1, <4>2
    <3>4. Unsigned(Append(u, c), w) = (10 * 0 + m) % w
      BY <3>2, UnsignedNone, UnsignedAppend
    <3>5. (10 * 0 + m) % w = m
      BY <1>3
    <3> QED
      BY <3>3, <3>4, <3>5
  <2>2. CASE ~(m < 10)
    <3>1. PICK k \in Nat, r \in 0..9 : k = m \div 10 /\ r = m % 10
      OBVIOUS
    <3>2. k < m /\ 10 * k + r = m
      BY <2>2, <3>1
    <3>3. PICK c : c = Digits[r + 1]
      OBVIOUS
    <3>4. c \in DigitChars /\ c \in Chars /\ DigitValue(c) = r
      BY <3>3, DigitValues, MoreChars
    <3>5. u \o Decimal[m] = Append(u \o Decimal[k], c)
      <4>1. Decimal[m] = Append(Decimal[k], c)
        BY <2>2, <3>1, <3>3, DecimalDef
      <4>2. PICK d \in Texts : d = Decimal[k]
        BY <1>1
      <4>3. u \o Append(d, c) = Append(u \o d, c)
        BY <3>4 DEF Texts
      <4> QED
        BY <4>1, <4>2, <4>3
    <3>6. Unsigned(u \o Decimal[k], w) = k
      BY <1>3, <3>2
    <3>7. u \o Decimal[k] \in Texts
      BY <1>1, <1>2
    <3>8. Unsigned(Append(u \o Decimal[k], c), w) = (10 * k + r) % w
      BY <3>4, <3>6, <3>7, UnsignedAppend
    <3>9. (10 * k + r) % w = m
      BY <1>3, <3>2
    <3> QED
      BY <3>5, <3>8, <3>9
  <2> QED
    BY <2>1, <2>2
<1>4. \A m \in Nat : m \in T
  <2>1. \A m \in Nat : (\A k \in Nat : k < m => k \in T) => m \in T
    BY <1>3
  <2> HIDE DEF T
  <2> QED
    BY <2>1, StrongInduction
<1> QED
  BY <1>4

LEMMA DecimalReadsAlone ==
  ASSUME NEW w \in Nat \ {0}, NEW n \in Nat, n < w
  PROVE  Unsigned(Decimal[n], w) = n
<1>1. PICK u : u = <<>>
  OBVIOUS
<1>2. u \in Texts /\ \A i \in 1..Len(u) : u[i] \notin DigitChars
  BY <1>1 DEF Texts
<1>3. u \o Decimal[n] = Decimal[n]
  BY <1>1, DecimalInTexts DEF Texts
<1> QED
  BY <1>2, <1>3, DecimalReads

-----------------------------------------------------------------------------
(* What the readers make of what the writers wrote. *)

\* The characters of a text that stands in a line, at their positions in the line.
LEMMA HoldsChars ==
  ASSUME NEW s \in Texts, NEW w \in Texts, NEW p, Holds(s, p, w)
  PROVE  /\ p \in Nat \ {0} /\ Len(w) \in Nat /\ p + Len(w) \in Nat /\ p + Len(w) <= Len(s) + 1
         /\ \A r \in p..(p + Len(w) - 1) : r - p + 1 \in 1..Len(w) /\ s[r] = w[r - p + 1]
<1>1. p \in Nat \ {0} /\ Len(w) \in Nat /\ p + Len(w) <= Len(s) + 1
  BY DEF Holds, Texts
<1>2. ASSUME NEW r \in p..(p + Len(w) - 1)
      PROVE  r - p + 1 \in 1..Len(w) /\ s[r] = w[r - p + 1]
  <2>1. r - p + 1 \in 1..Len(w) /\ p + (r - p + 1) - 1 = r
    BY <1>1
  <2>2. s[p + (r - p + 1) - 1] = w[r - p + 1]
    BY <2>1 DEF Holds
  <2> QED
    BY <2>1, <2>2
<1> QED
  BY <1>1, <1>2

\* The characters of a text that stands in a line are in the line.
LEMMA HoldsIn ==
  ASSUME NEW s \in Texts, NEW w \in Texts, NEW p \in Nat, Holds(s, p, w),
         NEW q \in Nat, q = p + Len(w), NEW chars, \A i \in 1..Len(w) : w[i] \in chars
  PROVE  p <= q /\ q <= Len(s) + 1 /\ \A r \in p..(q - 1) : s[r] \in chars
<1>1. /\ p + Len(w) <= Len(s) + 1 /\ Len(w) \in Nat
      /\ \A r \in p..(p + Len(w) - 1) : r - p + 1 \in 1..Len(w) /\ s[r] = w[r - p + 1]
  <2>1. /\ p \in Nat \ {0} /\ Len(w) \in Nat /\ p + Len(w) \in Nat /\ p + Len(w) <= Len(s) + 1
        /\ \A r \in p..(p + Len(w) - 1) : r - p + 1 \in 1..Len(w) /\ s[r] = w[r - p + 1]
    BY HoldsChars, ZenonT(60)
  <2> QED
    BY <2>1, Zenon
<1>2. ASSUME NEW r \in p..(q - 1) PROVE s[r] \in chars
  <2>1. r - p + 1 \in 1..Len(w) /\ s[r] = w[r - p + 1]
    BY <1>1
  <2> QED
    BY <2>1
<1> QED
  BY <1>1, <1>2

\* readUInt32 reads what %d wrote and takes the character after it.
LEMMA ReadUInt32Reads ==
  ASSUME NEW s \in Texts, NEW n \in Nat, n < Word, NEW p \in Nat, Holds(s, p, Decimal[n]),
         p + Len(Decimal[n]) <= Len(s) => s[p + Len(Decimal[n])] \notin DigitChars
  PROVE  ReadUInt32(s, p) = Value(n, p + Len(Decimal[n]) + 1)
<1>1. PICK d \in Texts : d = Decimal[n] /\ \A i \in 1..Len(d) : d[i] \in DigitChars
  BY DecimalInTexts
<1>2. PICK q \in Nat : q = p + Len(d)
  BY DEF Texts
<1>3. p <= q /\ q <= Len(s) + 1 /\ \A r \in p..(q - 1) : s[r] \in DigitChars
  BY <1>1, <1>2, HoldsIn
<1>4. SkipOver(s, p, DigitChars) = q
  BY <1>1, <1>2, <1>3, SkipOverAt
<1>5. SubSeq(s, p, q - 1) = d
  <2>1. SubSeq(s, p, p + Len(d) - 1) = d
    BY <1>1, HoldsSub
  <2> QED
    BY <1>2, <2>1
<1>6. Unsigned(d, Word) = n
  BY <1>1, DecimalReadsAlone, WireAssumption
<1> QED
  BY <1>1, <1>2, <1>4, <1>5, <1>6 DEF ReadUInt32

\* The text of a Hollerith string.
LEMMA SprintText ==
  ASSUME NEW t \in Texts
  PROVE  /\ Sprint(t) \in Texts /\ Len(t) \in Nat
         /\ Sprint(t) = Decimal[Len(t)] \o <<"H">> \o t
         /\ Len(Sprint(t)) = Len(Decimal[Len(t)]) + 1 + Len(t)
<1>1. Len(t) \in Nat
  BY DEF Texts
<1>2. PICK h : h = "H"
  OBVIOUS
<1>3. h \in Chars
  BY <1>2, MoreChars
<1>4. PICK d \in Texts : d = Decimal[Len(t)]
  BY <1>1, DecimalInTexts
<1>5. d \o <<h>> \o t \in Texts /\ Len(d \o <<h>> \o t) = Len(d) + 1 + Len(t)
  BY <1>3 DEF Texts
<1> QED
  BY <1>1, <1>2, <1>4, <1>5 DEF Sprint

\* The parts of a Hollerith string that stands in a line.
LEMMA SprintHolds ==
  ASSUME NEW s \in Texts, NEW t \in Texts, NEW p, Holds(s, p, Sprint(t))
  PROVE  \E h \in Nat : /\ h = p + Len(Decimal[Len(t)]) /\ p <= h
                        /\ Holds(s, p, Decimal[Len(t)])
                        /\ At(s, h, {"H"}) /\ Holds(s, h + 1, t) /\ h + Len(t) <= Len(s)
                        /\ h + Len(t) + 1 = p + Len(Sprint(t))
<1>1. PICK c : c = "H"
  OBVIOUS
<1>2. c \in Chars
  BY <1>1, MoreChars
<1>3. Len(t) \in Nat /\ Len(s) \in Nat
  BY DEF Texts
<1>4. PICK d \in Texts : d = Decimal[Len(t)] /\ Len(d) \in Nat \ {0}
  BY <1>3, DecimalInTexts
<1>5. <<c>> \in Texts /\ <<c>> \o t \in Texts /\ d \o (<<c>> \o t) = d \o <<c>> \o t /\ Len(<<c>>) = 1
  BY <1>2 DEF Texts
<1>6. Holds(s, p, d \o (<<c>> \o t))
  BY <1>1, <1>4, <1>5, SprintText
<1>7. Holds(s, p, d) /\ Holds(s, p + Len(d), <<c>> \o t)
  BY <1>5, <1>6, HoldsConcat
<1>8. Holds(s, p + Len(d), <<c>>) /\ Holds(s, p + Len(d) + 1, t)
  BY <1>5, <1>7, HoldsConcat
<1>9. p + Len(d) \in DOMAIN s /\ s[p + Len(d)] = c
  BY <1>2, <1>8, HoldsOne
<1>10. p \in Nat /\ p + Len(d) + 1 + Len(t) <= Len(s) + 1
  BY <1>4, <1>7, <1>8, HoldsChars
<1>11. PICK h \in Nat : h = p + Len(d)
  BY <1>4, <1>10
<1>12. At(s, h, {"H"})
  BY <1>1, <1>9, <1>11 DEF At
<1>13. h + Len(t) <= Len(s) /\ p <= h
  BY <1>3, <1>4, <1>10, <1>11
<1>14. h + Len(t) + 1 = p + Len(Sprint(t))
  <2>1. Len(Sprint(t)) = Len(d) + 1 + Len(t)
    BY <1>4, SprintText
  <2> QED
    BY <1>3, <1>4, <1>10, <1>11, <2>1
<1> QED
  BY <1>4, <1>7, <1>8, <1>11, <1>12, <1>13, <1>14

\* The characters of s from p up to q.
Cut(s, p, q) == SubSeq(s, p, q - 1)

\* What stands before a text is read together with it.
LEMMA CutText ==
  ASSUME NEW s \in Texts, NEW p \in Nat \ {0}, NEW q \in Nat, p <= q, q <= Len(s) + 1
  PROVE  /\ Cut(s, p, q) \in Texts /\ Len(Cut(s, p, q)) = q - p
         /\ \A i \in 1..(q - p) : Cut(s, p, q)[i] = s[p + i - 1]
<1>1. q - 1 <= Len(s) /\ Len(s) \in Nat
  BY TextLen
<1> QED
  BY <1>1 DEF Texts, Cut

LEMMA CutBefore ==
  ASSUME NEW s \in Texts, NEW w \in Texts, NEW p \in Nat \ {0}, NEW q \in Nat, p <= q,
         Holds(s, q, w)
  PROVE  Cut(s, p, q + Len(w)) = Cut(s, p, q) \o w
<1> DEFINE e == q + Len(w)
<1>1. PICK k \in Nat, n \in Nat : k = q - p /\ n = Len(w)
  <2>1. Len(w) \in Nat /\ q - p \in Nat
    BY TextLen
  <2> QED
    BY <2>1
<1>2. /\ Len(s) \in Nat /\ e \in Nat /\ q - 1 <= Len(s) /\ e - 1 <= Len(s)
      /\ q = p + k /\ e = p + k + n
  <2>1. q + Len(w) <= Len(s) + 1 /\ Len(s) \in Nat
    BY HoldsChars DEF Texts
  <2> QED
    BY <1>1, <2>1
<1> HIDE DEF e
<1> DEFINE u == Cut(s, p, q)
           v == Cut(s, p, e)
<1>3. u \in Texts /\ Len(u) = k /\ \A i \in 1..k : u[i] = s[p + i - 1]
  BY <1>1, <1>2 DEF Texts, Cut
<1>4. v \in Texts /\ Len(v) = k + n /\ \A i \in 1..(k + n) : v[i] = s[p + i - 1]
  BY <1>1, <1>2 DEF Texts, Cut
<1> HIDE DEF u, v
<1>5. /\ u \o w \in Texts /\ Len(u \o w) = k + n
      /\ \A i \in 1..k : (u \o w)[i] = u[i]
      /\ \A i \in 1..n : (u \o w)[k + i] = w[i]
  <2>1. /\ u \o w \in Texts /\ Len(u \o w) = Len(u) + Len(w)
        /\ \A i \in 1..Len(u) : (u \o w)[i] = u[i]
        /\ \A i \in 1..Len(w) : (u \o w)[Len(u) + i] = w[i]
    BY <1>3, TextConcat
  <2>2. Len(u) = k /\ Len(w) = n
    BY <1>1, <1>3
  <2> QED
    BY <2>1, <2>2, Zenon
<1>6. ASSUME NEW i \in 1..(k + n) PROVE v[i] = (u \o w)[i]
  <2>1. CASE i \in 1..k
    BY <1>3, <1>4, <1>5, <2>1
  <2>2. CASE i - k \in 1..n
    <3>1. PICK r \in 1..n : r = i - k
      BY <2>2
    <3>2. i = k + r /\ p + i - 1 = q + r - 1
      BY <1>2, <3>1
    <3>3. s[q + r - 1] = w[r]
      BY <1>1 DEF Holds
    <3>4. (u \o w)[i] = w[r]
      BY <1>5, <3>2
    <3> QED
      BY <1>4, <3>2, <3>3, <3>4
  <2>3. i \in 1..k \/ i - k \in 1..n
    OBVIOUS
  <2> QED
    BY <2>1, <2>2, <2>3
<1>7. v = u \o w
  <2>1. PICK m \in Nat : m = k + n
    OBVIOUS
  <2>2. PICK x \in Texts : x = u \o w
    BY <1>5
  <2>3. Len(v) = m /\ Len(x) = m /\ \A i \in 1..m : v[i] = x[i]
    BY <1>4, <1>5, <1>6, <2>1, <2>2
  <2>4. v = x
    BY <1>4, <2>3, TextEqual
  <2> QED
    BY <2>2, <2>4
<1> QED
  BY <1>7, Zenon DEF u, v, e

\* There are only blanks from p up to q.
Blanks(s, p, q) == \A r \in p..(q - 1) : s[r] = " "

\* hollerith.Scan reads every text that hollerith.Sprint wrote, and no byte more, whatever
\* the text is, blanks, digits, braces and H's in it included, and whatever follows it.  It
\* skips the blanks before it.
THEOREM ScanReads ==
  ASSUME NEW s \in Texts, NEW t \in Texts, Len(t) < Word, NEW q \in Nat, Holds(s, q, Sprint(t)),
         NEW p \in Nat \ {0}, p <= q, Blanks(s, p, q)
  PROVE  Scan(s, p) = [v |-> t, next |-> q + Len(Sprint(t)), ok |-> TRUE]
<1>1. Len(t) \in Nat
  BY DEF Texts
<1>2. PICK d \in Texts : d = Decimal[Len(t)] /\ \A i \in 1..Len(d) : d[i] \in DigitChars
  BY <1>1, DecimalInTexts
<1>3. PICK h \in Nat : /\ h = q + Len(Decimal[Len(t)]) /\ q <= h
                       /\ Holds(s, q, Decimal[Len(t)])
                       /\ At(s, h, {"H"}) /\ Holds(s, h + 1, t) /\ h + Len(t) <= Len(s)
                       /\ h + Len(t) + 1 = q + Len(Sprint(t))
  BY SprintHolds
<1>4. Holds(s, q, d) /\ h = q + Len(d)
  BY <1>2, <1>3
<1>5. PICK width : width = DigitChars \cup {" "}
  OBVIOUS
<1>6. s[h] \notin width
  <2>1. s[h] = "H"
    BY <1>3 DEF At
  <2> QED
    BY <1>5, <2>1, NoDigits
<1>7. h <= Len(s) + 1 /\ \A r \in q..(h - 1) : s[r] \in DigitChars
  BY <1>2, <1>4, HoldsIn
<1>8. p <= h /\ \A r \in p..(h - 1) : s[r] \in width
  <2>1. \A r \in p..(h - 1) : r \in p..(q - 1) \/ r \in q..(h - 1)
    OBVIOUS
  <2>2. \A r \in p..(q - 1) : s[r] \in width
    BY <1>5, Zenon DEF Blanks
  <2>3. \A r \in q..(h - 1) : s[r] \in width
    BY <1>5, <1>7, Zenon
  <2> QED
    BY <1>3, <2>1, <2>2, <2>3, SMTT(20)
<1>9. SkipOver(s, p, width) = h
  <2>1. h <= Len(s) => s[h] \notin width
    BY <1>6
  <2> QED
    BY <1>7, <1>8, <2>1, SkipOverAt
<1>10. PICK u : u = Cut(s, p, q)
  OBVIOUS
<1>11. u \in Texts /\ \A i \in 1..Len(u) : u[i] \notin DigitChars
  <2>1. u \in Texts /\ Len(u) = q - p /\ \A i \in 1..(q - p) : u[i] = s[p + i - 1]
    <3>1. q <= Len(s) + 1
      BY <1>4, HoldsChars
    <3> QED
      BY <1>10, <3>1, CutText, ZenonT(30)
  <2>2. \A i \in 1..(q - p) : p + i - 1 \in p..(q - 1)
    BY <1>7
  <2>3. \A r \in p..(q - 1) : s[r] \notin DigitChars
    BY NoDigits, Zenon DEF Blanks
  <2> QED
    BY <2>1, <2>2, <2>3
<1>12. SubSeq(s, p, h - 1) = u \o d
  <2>1. Cut(s, p, q + Len(d)) = Cut(s, p, q) \o d
    BY <1>4, CutBefore
  <2> QED
    BY <1>4, <1>10, <2>1 DEF Cut
<1>13. Unsigned(u \o d, Word) = Len(t)
  BY <1>1, <1>2, <1>11, DecimalReads, WireAssumption
<1>14. SubSeq(s, h + 1, h + Len(t)) = t
  <2>1. SubSeq(s, h + 1, h + 1 + Len(t) - 1) = t
    BY <1>3, HoldsSub
  <2>2. h + 1 + Len(t) - 1 = h + Len(t)
    BY <1>1
  <2> QED
    BY <2>1, <2>2
<1>15. Unsigned(SubSeq(s, p, h - 1), Word) = Len(t)
  BY <1>12, <1>13
<1> QED
  BY <1>3, <1>5, <1>9, <1>14, <1>15 DEF Scan

-----------------------------------------------------------------------------
(* Words with blanks between them. *)

IsBlank(sep) == sep = <<" ">>

\* The line grows by a blank and a word at a time.
LEMMA SpacedGrows ==
  ASSUME NEW words \in Seq(Texts)
  PROVE  \E sep \in Texts, line \in [0..Len(words) -> Texts] :
           /\ IsBlank(sep) /\ Spaced(words) = line[Len(words)] /\ line[0] = <<>>
           /\ \A i \in 1..Len(words) :
                line[i] = IF i = 1 THEN words[1] ELSE line[i - 1] \o sep \o words[i]
<1> DEFINE n == Len(words)
           sep == <<" ">>
<1> HIDE DEF sep
<1>1. n \in Nat /\ \A i \in 1..n : words[i] \in Texts
  OBVIOUS
<1>2. sep \in Texts
  <2>1. PICK c \in Chars : c = " "
    BY MoreChars
  <2>2. sep = <<c>>
    BY <2>1, Zenon DEF sep
  <2> QED
    BY <2>2 DEF Texts
<1> HIDE DEF n
<1>3. PICK step \in [1..n -> [Texts -> Texts]] :
        \A i \in 1..n : \A x \in Texts :
          step[i][x] = IF i = 1 THEN words[1] ELSE x \o sep \o words[i]
  <2> DEFINE h == [i \in 1..n |-> [x \in Texts |->
                     IF i = 1 THEN words[1] ELSE x \o sep \o words[i]]]
  <2>1. \A i \in 1..n : \A x \in Texts : x \o sep \o words[i] \in Texts
    BY <1>1, <1>2, TextConcat
  <2>2. 1 \in 1..n => words[1] \in Texts
    BY <1>1
  <2>3. \A i \in 1..n : i = 1 => words[1] \in Texts
    BY <2>2
  <2>4. h \in [1..n -> [Texts -> Texts]] /\ \A i \in 1..n : \A x \in Texts :
          h[i][x] = IF i = 1 THEN words[1] ELSE x \o sep \o words[i]
    BY <2>1, <2>3
  <2> HIDE DEF h
  <2> QED
    BY <2>4
<1>4. <<>> \in Texts
  BY DEF Texts
<1>5. PICK f : Follows(f, Texts, n, <<>>, step)
  <2>1. Steps(Texts, n, <<>>, step)
    BY <1>1, <1>4 DEF Steps
  <2> QED
    BY <2>1, FiniteRecursion
<1> DEFINE Body(g) == [i \in 0..n |-> CASE i = 0 -> <<>>
                                        [] i = 1 -> words[1]
                                        [] OTHER -> g[i - 1] \o sep \o words[i]]
<1> DEFINE line == CHOOSE g : g = Body(g)
<1>6. \A i \in 1..n : i - 1 \in 0..n /\ i # 0
  BY <1>1
<1>7. \A i \in 1..n : f[i] = IF i = 1 THEN words[1] ELSE f[i - 1] \o sep \o words[i]
  BY <1>3, <1>5, <1>6 DEF Follows
<1>8. \A i \in 0..n : i = 0 \/ i \in 1..n
  BY <1>1
<1>9. ASSUME NEW i \in 0..n PROVE f[i] = Body(f)[i]
  <2>1. CASE i = 0
    BY <1>5, <2>1 DEF Follows
  <2>2. CASE i \in 1..n
    BY <1>6, <1>7, <2>2
  <2> QED
    BY <1>8, <2>1, <2>2
<1>10. f = Body(f)
  <2>1. f \in [0..n -> Texts]
    BY <1>5 DEF Follows
  <2> QED
    BY <1>9, <2>1
<1>11. line = Body(line)
  <2> HIDE DEF Body
  <2> QED
    BY <1>10
<1> HIDE DEF line
<1>12. \A i \in 0..n : line[i] = Body(line)[i]
  BY <1>11, Zenon
<1>13. 0 \in 0..n /\ \A i \in 1..n : i \in 0..n
  BY <1>1
<1>14. line[0] = <<>>
  BY <1>12, <1>13
<1>15. \A i \in 1..n : line[i] = IF i = 1 THEN words[1] ELSE line[i - 1] \o sep \o words[i]
  BY <1>6, <1>12, <1>13
<1>16. \A i \in 0..n : line[i] = f[i]
  <2>1. \A i \in 1..n : line[i - 1] = f[i - 1] => line[i] = f[i]
    BY <1>7, <1>15
  <2>2. line[0] = f[0]
    BY <1>5, <1>14 DEF Follows
  <2>3. GoOnAlike(line, f, n)
    BY <1>1, <2>1, <2>2, Zenon DEF GoOnAlike
  <2> QED
    BY <2>3, SameRecursion
<1>17. Spaced(words) = line[n]
  BY Zenon DEF Spaced, sep, line, n
<1>18. n \in 0..n
  BY <1>1
<1>19. f \in [0..n -> Texts] /\ f[0] = <<>> /\ Spaced(words) = f[n]
  BY <1>5, <1>16, <1>17, <1>18 DEF Follows
<1>20. IsBlank(sep)
  BY Zenon DEF IsBlank, sep
<1> QED
  BY <1>2, <1>7, <1>19, <1>20, Zenon DEF n

\* The words stand in s from at[1], at[2] and so on, each with a blank before the next one.
WordsAt(s, words, at) ==
  /\ at \in [1..(Len(words) + 1) -> Nat]
  /\ \A i \in 1..Len(words) :
       /\ Holds(s, at[i], words[i]) /\ at[i + 1] = at[i] + Len(words[i]) + 1
       /\ i < Len(words) => At(s, at[i + 1] - 1, {" "})

\* They do where the line that they make stands.
LEMMA SpacedWords ==
  ASSUME NEW words \in Seq(Texts), Len(words) > 0, NEW s \in Texts, NEW p \in Nat,
         Holds(s, p, Spaced(words))
  PROVE  \E at : /\ WordsAt(s, words, at) /\ at[1] = p
                 /\ at[Len(words) + 1] = p + Len(Spaced(words)) + 1
<1>1. PICK n \in Nat : n = Len(words) /\ n > 0 /\ \A i \in 1..n : words[i] \in Texts
  OBVIOUS
<1>2. PICK sep \in Texts, line \in [0..n -> Texts] :
        /\ IsBlank(sep) /\ Spaced(words) = line[n] /\ line[0] = <<>>
        /\ \A i \in 1..n :
             line[i] = IF i = 1 THEN words[1] ELSE line[i - 1] \o sep \o words[i]
  BY <1>1, SpacedGrows
<1>3. PICK c \in Chars : sep = <<c>> /\ c = " "
  BY <1>2, MoreChars, Zenon DEF IsBlank
<1>4. \A i \in 0..n : line[i] \in Texts
  OBVIOUS
<1>5. ASSUME NEW i \in 1..n, i # 1, Holds(s, p, line[i])
      PROVE  /\ Holds(s, p, line[i - 1]) /\ At(s, p + Len(line[i - 1]), {" "})
             /\ Holds(s, p + Len(line[i - 1]) + 1, words[i])
             /\ Len(line[i]) = Len(line[i - 1]) + 1 + Len(words[i])
  <2>1. PICK l \in Texts : l = line[i - 1]
    <3>1. i - 1 \in 0..n
      BY <1>1
    <3> QED
      BY <1>4, <3>1
  <2>2. PICK w \in Texts : w = words[i]
    BY <1>1
  <2>3. line[i] = l \o sep \o w
    BY <1>2, <1>5, <2>1, <2>2
  <2>4. /\ l \o sep \o w = l \o (sep \o w) /\ sep \o w \in Texts
        /\ Len(sep) = 1 /\ Len(l \o sep \o w) = Len(l) + 1 + Len(w)
    <3>1. l \o sep \o w = l \o (sep \o w) /\ sep \o w \in Texts
      BY TextConcat, TextAssociative, ZenonT(30)
    <3>2. Len(sep) = 1
      BY <1>3, Zenon, Len1
    <3>3. Len(l \o sep \o w) = Len(l) + Len(sep) + Len(w)
      BY DEF Texts
    <3> QED
      BY <3>1, <3>2, <3>3
  <2>5. Holds(s, p, l \o (sep \o w))
    BY <1>5, <2>3, <2>4
  <2>6. Holds(s, p, l) /\ Holds(s, p + Len(l), sep \o w)
    BY <2>4, <2>5, HoldsConcat
  <2>7. Holds(s, p + Len(l), sep) /\ Holds(s, p + Len(l) + Len(sep), w)
    BY <2>6, HoldsConcat
  <2>8. p + Len(l) \in DOMAIN s /\ s[p + Len(l)] = c
    <3>1. PICK q : q = p + Len(l)
      OBVIOUS
    <3>2. Holds(s, q, <<c>>)
      BY <1>3, <2>7, <3>1, Zenon
    <3>3. q \in DOMAIN s /\ s[q] = c
      BY <3>2, HoldsOne
    <3> QED
      BY <3>1, <3>3, Zenon
  <2>9. At(s, p + Len(l), {" "})
    BY <1>3, <2>8, Zenon DEF At
  <2> QED
    BY <2>1, <2>2, <2>3, <2>4, <2>6, <2>7, <2>9
<1>6. \A i \in 1..n : Holds(s, p, line[i])
  <2> DEFINE T == {k \in Nat : k < n => Holds(s, p, line[n - k])}
  <2>1. 0 \in T
    BY <1>1, <1>2
  <2>2. ASSUME NEW k \in Nat, k \in T PROVE k + 1 \in T
    <3> SUFFICES ASSUME k + 1 < n PROVE Holds(s, p, line[n - (k + 1)])
      OBVIOUS
    <3>1. PICK i \in 1..n : i = n - k /\ i # 1 /\ n - (k + 1) = i - 1
      <4>1. n - k \in 1..n /\ n - k # 1 /\ n - (k + 1) = (n - k) - 1
        OBVIOUS
      <4> QED
        BY <4>1
    <3>2. Holds(s, p, line[i])
      BY <2>2, <3>1
    <3>3. Holds(s, p, line[i - 1])
      BY <1>5, <3>1, <3>2
    <3> QED
      BY <3>1, <3>3
  <2>3. \A k \in Nat : k \in T
    <3> HIDE DEF T
    <3> QED
      BY <2>1, <2>2, Induction
  <2>4. ASSUME NEW i \in 1..n PROVE Holds(s, p, line[i])
    <3>1. PICK k \in Nat : k = n - i /\ k < n /\ n - k = i
      <4>1. n - i \in Nat /\ n - i < n /\ n - (n - i) = i
        OBVIOUS
      <4> QED
        BY <4>1
    <3>2. k \in T
      BY <2>3
    <3> QED
      BY <3>1, <3>2
  <2> QED
    BY <2>4
<1> DEFINE at == [i \in 1..(n + 1) |-> IF i = 1 THEN p ELSE p + Len(line[i - 1]) + 1]
<1>7. at \in [1..(n + 1) -> Nat]
  <2>1. \A i \in 1..(n + 1) : i - 1 \in 0..n
    BY <1>1
  <2>2. \A i \in 1..(n + 1) : Len(line[i - 1]) \in Nat
    BY <1>4, <2>1, TextLen
  <2> QED
    BY <2>2
<1>8. ASSUME NEW i \in 1..n
      PROVE  /\ Holds(s, at[i], words[i]) /\ at[i + 1] = at[i] + Len(words[i]) + 1
             /\ i < n => At(s, at[i + 1] - 1, {" "})
  <2>1. /\ i \in 1..(n + 1) /\ i + 1 \in 1..(n + 1) /\ i + 1 # 1 /\ (i + 1) - 1 = i
        /\ Len(line[i]) \in Nat
    BY <1>1, <1>4, TextLen
  <2>2. at[i + 1] = p + Len(line[i]) + 1
    BY <2>1
  <2>3. at[i + 1] - 1 = p + Len(line[i])
    BY <2>1, <2>2
  <2>4. i < n => At(s, at[i + 1] - 1, {" "})
    <3> SUFFICES ASSUME i < n PROVE At(s, p + Len(line[i]), {" "})
      BY <2>3
    <3>1. PICK j \in 1..n : j = i + 1 /\ j # 1 /\ j - 1 = i
      <4>1. i + 1 \in 1..n /\ i + 1 # 1 /\ (i + 1) - 1 = i
        BY <1>1
      <4> QED
        BY <4>1
    <3>2. At(s, p + Len(line[j - 1]), {" "})
      BY <1>5, <1>6, <3>1
    <3> QED
      BY <3>1, <3>2
  <2>5. CASE i = 1
    <3>1. line[i] = words[1] /\ at[i] = p
      BY <1>2, <2>1, <2>5
    <3> QED
      BY <1>6, <2>2, <2>4, <2>5, <3>1
  <2>6. CASE i # 1
    <3>1. at[i] = p + Len(line[i - 1]) + 1
      BY <2>1, <2>6
    <3>2. /\ Holds(s, p + Len(line[i - 1]) + 1, words[i])
          /\ Len(line[i]) = Len(line[i - 1]) + 1 + Len(words[i])
      BY <1>5, <1>6, <2>6
    <3>3. i - 1 \in 0..n
      BY <1>1
    <3>4. Len(line[i - 1]) \in Nat /\ Len(words[i]) \in Nat
      BY <1>1, <1>4, <3>3, TextLen
    <3> HIDE DEF at
    <3>5. at[i + 1] = at[i] + Len(words[i]) + 1
      BY <2>2, <3>1, <3>2, <3>4
    <3>6. Holds(s, at[i], words[i])
      BY <3>1, <3>2
    <3> QED
      BY <2>4, <3>5, <3>6, Zenon
  <2> QED
    BY <2>5, <2>6
<1>9. at[1] = p /\ at[n + 1] = p + Len(line[n]) + 1
  <2>1. 1 \in 1..(n + 1) /\ n + 1 \in 1..(n + 1) /\ n + 1 # 1 /\ (n + 1) - 1 = n
    BY <1>1
  <2> QED
    BY <2>1
<1> HIDE DEF at
<1>10. WordsAt(s, words, at)
  BY <1>1, <1>7, <1>8, Zenon DEF WordsAt
<1> QED
  BY <1>1, <1>2, <1>9, <1>10, Zenon

LEMMA SpacedText ==
  ASSUME NEW words \in Seq(Texts) PROVE Spaced(words) \in Texts
<1>1. Len(words) \in Nat /\ Len(words) \in 0..Len(words)
  OBVIOUS
<1> QED
  BY <1>1, SpacedGrows

-----------------------------------------------------------------------------
(* Bit fields. *)
Bits == {"0", "1"}

LEMMA BitsAreDigits == Bits \subseteq DigitChars /\ " " \notin Bits
  BY DigitSet DEF Bits

\* A text of n bits.
BitText(b, n) == b \in Texts /\ Len(b) = n /\ \A i \in 1..n : b[i] \in Bits

LEMMA BitsOfText ==
  ASSUME NEW flags, NEW list, NEW n \in Nat
  PROVE  /\ BitText(BitsOf(flags, list, n), n)
         /\ \A i \in 1..n : BitsOf(flags, list, n)[i] = "1" <=> i <= Len(list) /\ list[i] \in flags
<1> DEFINE b == BitsOf(flags, list, n)
           on(i) == i <= Len(list) /\ list[i] \in flags
<1>1. \A i \in 1..n : b[i] = Bit(on(i))
  BY DEF BitsOf
<1>2. \A x : Bit(x) \in Bits /\ Bit(x) \in Chars
  <2>1. \A x : Bit(x) \in Bits
    BY DEF Bit, Bits
  <2> QED
    BY <2>1, BitsAreDigits, MoreChars
<1>3. ASSUME NEW i \in 1..n PROVE b[i] = "1" <=> on(i)
  <2> HIDE DEF b, on
  <2>1. CASE on(i)
    BY <1>1, <2>1 DEF Bit
  <2>2. CASE ~on(i)
    BY <1>1, <2>2 DEF Bit
  <2> QED
    BY <2>1, <2>2
<1>4. b = [i \in 1..n |-> Bit(on(i))]
  BY Zenon DEF BitsOf
<1>5. b \in [1..n -> Chars]
  <2> HIDE DEF on
  <2>1. [i \in 1..n |-> Bit(on(i))] \in [1..n -> Chars]
    BY <1>2, Zenon
  <2> HIDE DEF b
  <2> QED
    BY <1>4, <2>1, Zenon
<1>6. b \in Texts /\ Len(b) = n
  <2> HIDE DEF b
  <2> QED
    BY <1>5 DEF Texts
<1>7. \A i \in 1..n : b[i] \in Bits
  <2> HIDE DEF b, on
  <2> QED
    BY <1>1, <1>2, Zenon
<1>8. BitText(b, n)
  <2> HIDE DEF b
  <2> QED
    BY <1>6, <1>7, Zenon DEF BitText
<1> HIDE DEF b
<1> QED
  BY <1>3, <1>8, Zenon DEF b

\* The flags of a list whose bit is set.
Marked(list, b) == {list[i] : i \in {j \in DOMAIN list : b[j] = "1"}}

\* A bit field that is as long as the verb wants is read as it was written, after blanks.
LEMMA ReadFlagsReads ==
  ASSUME NEW s \in Texts, NEW n \in Nat \ {0}, NEW b, BitText(b, n), NEW o \in Nat, Holds(s, o, b),
         NEW p \in Nat \ {0}, p <= o, Blanks(s, p, o),
         NEW q \in Nat, q = o + n, q <= Len(s) => s[q] \notin Bits,
         NEW list, DOMAIN list \subseteq 1..n
  PROVE  ReadFlags(s, p, list, n) = Value(Marked(list, b), q)
<1>1. b \in Texts /\ Len(b) = n /\ \A i \in 1..Len(b) : b[i] \in Bits
  BY DEF BitText
<1>2. PICK blank : blank = {" "}
  OBVIOUS
<1>3. o <= q /\ q <= Len(s) + 1 /\ \A r \in o..(q - 1) : s[r] \in Bits
  BY <1>1, HoldsIn
<1>4. s[o] \notin blank
  <2>1. s[o] \in Bits
    BY <1>3
  <2> QED
    BY <1>2, <2>1, BitsAreDigits, Zenon
<1>5. \A r \in p..(o - 1) : s[r] \in blank
  BY <1>2, Zenon DEF Blanks
<1>6. SkipOver(s, p, blank) = o
  BY <1>3, <1>4, <1>5, SkipOverAt
<1>7. SkipOver(s, o, Bits) = q
  BY <1>3, SkipOverAt
<1>8. PICK end : end = (IF q > o + n THEN o + n ELSE q)
  OBVIOUS
<1>9. end = q
  BY <1>8
<1>10. \A j \in DOMAIN list : j > n - (end - o) /\ s[end - 1 - n + j] = b[j]
  <2>1. ASSUME NEW j \in DOMAIN list PROVE j > n - (end - o) /\ s[end - 1 - n + j] = b[j]
    <3>1. j \in 1..n
      OBVIOUS
    <3>2. s[o + j - 1] = b[j]
      BY <1>1, <3>1 DEF Holds
    <3>3. end - 1 - n + j = o + j - 1 /\ j > n - (end - o)
      BY <1>9, <3>1
    <3> QED
      BY <3>2, <3>3
  <2> QED
    BY <2>1
<1>11. ReadFlags(s, p, list, n) =
         Value({list[i] : i \in {j \in DOMAIN list : /\ j > n - (end - o)
                                                     /\ s[end - 1 - n + j] = "1"}}, end)
  BY <1>2, <1>6, <1>7, <1>8, Zenon DEF ReadFlags, Bits
<1>12. {j \in DOMAIN list : j > n - (end - o) /\ s[end - 1 - n + j] = "1"}
         = {j \in DOMAIN list : b[j] = "1"}
  BY <1>10, Zenon
<1> QED
  BY <1>9, <1>11, <1>12, Zenon DEF Marked

\* The flags of a list are read from the bits that say them.
LEMMA FlagsOfBits ==
  ASSUME NEW flags, NEW n \in Nat, NEW list, Len(list) \in Nat, Len(list) <= n,
         DOMAIN list = 1..Len(list),
         \A f \in flags : \E i \in 1..Len(list) : list[i] = f
  PROVE  Marked(list, BitsOf(flags, list, n)) = flags
<1>1. \A i \in 1..Len(list) : i \in 1..n /\ i <= Len(list)
  OBVIOUS
<1>2. \A i \in 1..Len(list) : BitsOf(flags, list, n)[i] = "1" <=> list[i] \in flags
  BY <1>1, BitsOfText
<1> QED
  BY <1>1, <1>2, Zenon DEF Marked
=============================================================================
