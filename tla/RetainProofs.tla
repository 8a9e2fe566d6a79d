----------------------------- MODULE RetainProofs -----------------------------
(***************************************************************************)
(* What the loops of Retain compute, for every sequence and every function *)
(* of naturals.  Each is a function defined by recursion on a natural; the *)
(* proofs go from a number to the next with Upwards, whose hypothesis is a *)
(* set instead of a predicate.                                             *)
(***************************************************************************)
EXTENDS Retain, TLAPS, WellFoundedInduction, SequenceTheorems

\* A set that holds 0, and with each number the next, holds all up to n.
LEMMA Upwards ==
    ASSUME NEW n \in Nat, NEW good, 0 \in good,
           \A i \in 1 .. n : i - 1 \in good => i \in good
    PROVE  \A i \in 0 .. n : i \in good
<1> DEFINE bad == {i \in 0 .. n : i \notin good}
<1> SUFFICES ASSUME bad # {} PROVE FALSE
  OBVIOUS
<1>1. bad \in SUBSET Nat
  OBVIOUS
<1>2. PICK x \in bad : \A y \in bad : ~ (<<y, x>> \in OpToRel(<, Nat))
  BY <1>1, WFMin, NatLessThanWellFounded, Zenon
<1>3. x # 0 /\ x \in 1 .. n
  OBVIOUS
<1>4. x - 1 \in 0 .. n /\ x - 1 < x
  BY <1>3
<1>5. x - 1 \in good
  <2>1. x - 1 \in bad => <<x - 1, x>> \in OpToRel(<, Nat)
    BY <1>3, <1>4 DEF OpToRel
  <2> QED
    BY <1>2, <1>4, <2>1
<1> QED
  BY <1>3, <1>5

-----------------------------------------------------------------------------
(* Sums *)

\* The partial sums of f up to n.
IsSums(g, f, n) ==
    /\ g \in [0 .. n -> Nat]
    /\ g[0] = f[0]
    /\ \A i \in 1 .. n : g[i] = g[i - 1] + f[i]

\* They exist.
LEMMA SumsExist ==
    ASSUME NEW n \in Nat, NEW f, \A i \in 0 .. n : f[i] \in Nat
    PROVE  \E g : IsSums(g, f, n)
<1> DEFINE good == {m \in 0 .. n : \E g : IsSums(g, f, m)}
<1>1. 0 \in good
  <2>1. IsSums([i \in 0 .. 0 |-> f[0]], f, 0)
    BY DEF IsSums
  <2> QED
    BY <2>1
<1>2. ASSUME NEW m \in 1 .. n, m - 1 \in good PROVE m \in good
  <2>1. PICK g : IsSums(g, f, m - 1)
    BY <1>2
  <2> DEFINE h == [i \in 0 .. m |-> IF i = m THEN g[m - 1] + f[m] ELSE g[i]]
  <2>2. IsSums(h, f, m)
    <3>1. m - 1 \in 0 .. n /\ m \in 0 .. n /\ m - 1 \in 0 .. m - 1
      OBVIOUS
    <3>2. g[m - 1] + f[m] \in Nat
      BY <2>1, <3>1 DEF IsSums
    <3>3. \A i \in 0 .. m : i # m => i \in 0 .. m - 1
      OBVIOUS
    <3>4. h \in [0 .. m -> Nat] /\ h[0] = f[0]
      BY <2>1, <3>1, <3>2, <3>3 DEF IsSums
    <3>5. \A i \in 1 .. m : h[i] = h[i - 1] + f[i]
      <4> TAKE i \in 1 .. m
      <4>1. CASE i = m
        BY <2>1, <3>1, <4>1 DEF IsSums
      <4>2. CASE i # m
        <5>1. i \in 1 .. m - 1 /\ i \in 0 .. m /\ i - 1 \in 0 .. m /\ i - 1 # m
          BY <4>2
        <5> QED
          BY <2>1, <4>2, <5>1 DEF IsSums
      <4> QED
        BY <4>1, <4>2
    <3> QED
      BY <3>4, <3>5 DEF IsSums
  <2> HIDE DEF h
  <2>3. m \in 0 .. n
    OBVIOUS
  <2> QED
    BY <2>2, <2>3
<1>3. \A i \in 0 .. n : i \in good
  <2> HIDE DEF good
  <2> QED
    BY <1>1, <1>2, Upwards
<1>4. n \in good
  BY <1>3
<1> QED
  BY <1>4

\* SumTo is the last of them.
LEMMA SumIsLast ==
    ASSUME NEW n \in Nat, NEW f, \A i \in 0 .. n : f[i] \in Nat, NEW g, IsSums(g, f, n)
    PROVE  SumTo(f, n) = g[n]
<1> DEFINE F == CHOOSE h : h = [i \in 0 .. n |-> IF i = 0 THEN f[0] ELSE h[i - 1] + f[i]]
           good == {i \in 0 .. n : F[i] = g[i]}
<1>1. F = [i \in 0 .. n |-> IF i = 0 THEN f[0] ELSE F[i - 1] + f[i]]
  <2>1. g = [i \in 0 .. n |-> IF i = 0 THEN f[0] ELSE g[i - 1] + f[i]]
    <3>1. \A i \in 0 .. n : g[i] = IF i = 0 THEN f[0] ELSE g[i - 1] + f[i]
      BY DEF IsSums
    <3> QED
      BY <3>1 DEF IsSums
  <2> QED
    BY <2>1
<1>2. SumTo(f, n) = F[n]
  BY DEF SumTo
<1> HIDE DEF F
<1>3. 0 \in good
  BY <1>1 DEF IsSums
<1>4. ASSUME NEW m \in 1 .. n, m - 1 \in good PROVE m \in good
  <2>1. m \in 0 .. n /\ m # 0
    OBVIOUS
  <2>2. F[m] = F[m - 1] + f[m]
    BY <1>1, <2>1
  <2> QED
    BY <1>4, <2>1, <2>2 DEF IsSums
<1>5. \A i \in 0 .. n : i \in good
  <2> HIDE DEF good
  <2> QED
    BY <1>3, <1>4, Upwards
<1>6. n \in good
  BY <1>5
<1> QED
  BY <1>2, <1>6

\* The sum up to 0, and up to a number from the one before.
LEMMA SumStep ==
    ASSUME NEW n \in Nat, NEW f, \A i \in 0 .. n : f[i] \in Nat
    PROVE  /\ SumTo(f, 0) = f[0]
           /\ \A i \in 0 .. n : SumTo(f, i) \in Nat
           /\ \A i \in 1 .. n : SumTo(f, i) = SumTo(f, i - 1) + f[i]
<1>1. PICK g : IsSums(g, f, n)
  BY SumsExist
<1>2. ASSUME NEW i \in 0 .. n PROVE SumTo(f, i) = g[i]
  <2> DEFINE h == [j \in 0 .. i |-> g[j]]
  <2>1. i \in Nat /\ i \in 0 .. i /\ \A j \in 0 .. i : j \in 0 .. n
    OBVIOUS
  <2>2. IsSums(h, f, i)
    <3>1. h \in [0 .. i -> Nat] /\ h[0] = f[0]
      BY <1>1, <2>1 DEF IsSums
    <3>2. ASSUME NEW j \in 1 .. i PROVE h[j] = h[j - 1] + f[j]
      <4>1. j \in 1 .. n /\ j \in 0 .. i /\ j - 1 \in 0 .. i
        OBVIOUS
      <4> QED
        BY <1>1, <4>1 DEF IsSums
    <3> QED
      BY <3>1, <3>2 DEF IsSums
  <2>3. h[i] = g[i]
    BY <2>1
  <2> HIDE DEF h
  <2>4. SumTo(f, i) = h[i]
    BY <2>1, <2>2, SumIsLast
  <2> QED
    BY <2>3, <2>4
<1>3. \A i \in 1 .. n : i \in 0 .. n /\ i - 1 \in 0 .. n
  OBVIOUS
<1> QED
  BY <1>1, <1>2, <1>3 DEF IsSums

\* A sum of smaller terms is smaller.
LEMMA SumLe ==
    ASSUME NEW n \in Nat, NEW f, \A i \in 0 .. n : f[i] \in Nat,
           NEW h, \A i \in 0 .. n : h[i] \in Nat,
           \A i \in 0 .. n : f[i] <= h[i]
    PROVE  SumTo(f, n) <= SumTo(h, n)
<1> DEFINE good == {i \in 0 .. n : SumTo(f, i) <= SumTo(h, i)}
<1>1. /\ SumTo(f, 0) = f[0] /\ SumTo(h, 0) = h[0]
      /\ \A i \in 0 .. n : SumTo(f, i) \in Nat /\ SumTo(h, i) \in Nat
      /\ \A i \in 1 .. n : SumTo(f, i) = SumTo(f, i - 1) + f[i] /\ SumTo(h, i) = SumTo(h, i - 1) + h[i]
  BY SumStep
<1>2. 0 \in good
  BY <1>1
<1>3. ASSUME NEW m \in 1 .. n, m - 1 \in good PROVE m \in good
  <2>1. m \in 0 .. n /\ m - 1 \in 0 .. n
    OBVIOUS
  <2>2. SumTo(f, m - 1) <= SumTo(h, m - 1) /\ f[m] <= h[m]
    BY <1>3, <2>1
  <2>3. SumTo(f, m) <= SumTo(h, m)
    BY <1>1, <2>1, <2>2
  <2> QED
    BY <2>1, <2>3
<1>4. \A i \in 0 .. n : i \in good
  <2> HIDE DEF good
  <2> QED
    BY <1>2, <1>3, Upwards
<1>5. n \in good
  BY <1>4
<1> QED
  BY <1>5

LEMMA SumEqual ==
    ASSUME NEW n \in Nat, NEW f, \A i \in 0 .. n : f[i] \in Nat,
           NEW h, \A i \in 0 .. n : h[i] = f[i]
    PROVE  SumTo(f, n) = SumTo(h, n)
<1>1. SumTo(f, n) <= SumTo(h, n) /\ SumTo(h, n) <= SumTo(f, n)
  BY SumLe
<1>2. SumTo(f, n) \in Nat /\ SumTo(h, n) \in Nat
  <2>1. n \in 0 .. n
    OBVIOUS
  <2> QED
    BY <2>1, SumStep
<1> QED
  BY <1>1, <1>2

\* A sum in which one term changes.
LEMMA SumChange ==
    ASSUME NEW n \in Nat, NEW f, \A i \in 0 .. n : f[i] \in Nat,
           NEW k \in 0 .. n, NEW h, \A i \in 0 .. n : h[i] \in Nat,
           \A i \in 0 .. n : i # k => h[i] = f[i]
    PROVE  SumTo(h, n) + f[k] = SumTo(f, n) + h[k]
<1> DEFINE good == {i \in 0 .. n : IF i < k THEN SumTo(h, i) = SumTo(f, i)
                                   ELSE SumTo(h, i) + f[k] = SumTo(f, i) + h[k]}
<1>1. /\ SumTo(f, 0) = f[0] /\ SumTo(h, 0) = h[0]
      /\ \A i \in 0 .. n : SumTo(f, i) \in Nat /\ SumTo(h, i) \in Nat
      /\ \A i \in 1 .. n : SumTo(f, i) = SumTo(f, i - 1) + f[i] /\ SumTo(h, i) = SumTo(h, i - 1) + h[i]
  BY SumStep
<1>2. 0 \in good
  BY <1>1
<1>3. ASSUME NEW m \in 1 .. n, m - 1 \in good PROVE m \in good
  <2>1. m \in 0 .. n /\ m - 1 \in 0 .. n /\ k \in Nat /\ f[k] \in Nat /\ h[k] \in Nat
    OBVIOUS
  <2>2. /\ SumTo(f, m - 1) \in Nat /\ SumTo(h, m - 1) \in Nat /\ f[m] \in Nat /\ h[m] \in Nat
        /\ SumTo(f, m) = SumTo(f, m - 1) + f[m] /\ SumTo(h, m) = SumTo(h, m - 1) + h[m]
        /\ m # k => h[m] = f[m]
    BY <1>1, <2>1
  <2>3. IF m - 1 < k THEN SumTo(h, m - 1) = SumTo(f, m - 1)
        ELSE SumTo(h, m - 1) + f[k] = SumTo(f, m - 1) + h[k]
    BY <1>3
  <2>4. IF m < k THEN SumTo(h, m) = SumTo(f, m) ELSE SumTo(h, m) + f[k] = SumTo(f, m) + h[k]
    BY ONLY <2>1, <2>2, <2>3, m \in 1 .. n
  <2> QED
    BY <2>1, <2>4
<1>4. \A i \in 0 .. n : i \in good
  <2> HIDE DEF good
  <2> QED
    BY <1>2, <1>3, Upwards
<1>5. n \in good
  BY <1>4
<1> QED
  BY <1>5

\* A term is at most the sum, and a sum of zeros is zero.
LEMMA SumTerm ==
    ASSUME NEW n \in Nat, NEW f, \A i \in 0 .. n : f[i] \in Nat
    PROVE  /\ SumTo(f, n) \in Nat
           /\ \A k \in 0 .. n : f[k] <= SumTo(f, n)
           /\ (\A i \in 0 .. n : f[i] = 0) => SumTo(f, n) = 0
<1>1. SumTo(f, n) \in Nat
  <2>1. n \in 0 .. n
    OBVIOUS
  <2> QED
    BY <2>1, SumStep
<1>2. ASSUME NEW k \in 0 .. n PROVE f[k] <= SumTo(f, n)
  <2> DEFINE h == [i \in 0 .. n |-> IF i = k THEN 0 ELSE f[i]]
  <2>1. \A i \in 0 .. n : h[i] \in Nat /\ (i # k => h[i] = f[i])
    OBVIOUS
  <2>2. h[k] = 0
    OBVIOUS
  <2> HIDE DEF h
  <2>3. SumTo(h, n) + f[k] = SumTo(f, n) + h[k]
    BY <2>1, SumChange
  <2>4. SumTo(h, n) \in Nat
    <3>1. n \in 0 .. n
      OBVIOUS
    <3> QED
      BY <2>1, <3>1, SumStep
  <2> QED
    BY <1>1, <2>2, <2>3, <2>4
<1>3. ASSUME \A i \in 0 .. n : f[i] = 0 PROVE SumTo(f, n) = 0
  <2> DEFINE good == {i \in 0 .. n : SumTo(f, i) = 0}
  <2>1. 0 \in good
    BY <1>3, SumStep
  <2>2. ASSUME NEW m \in 1 .. n, m - 1 \in good PROVE m \in good
    <3>1. m \in 0 .. n
      OBVIOUS
    <3>2. SumTo(f, m) = SumTo(f, m - 1) + f[m]
      BY SumStep
    <3> QED
      BY <1>3, <2>2, <3>1, <3>2
  <2>3. \A i \in 0 .. n : i \in good
    <3> HIDE DEF good
    <3> QED
      BY <2>1, <2>2, Upwards
  <2>4. n \in good
    BY <2>3
  <2> QED
    BY <2>4
<1> QED
  BY <1>1, <1>2, <1>3

-----------------------------------------------------------------------------
(* retain *)

\* What is kept of each prefix of s, a sequence of members of T.
IsKept(g, T, s, out, n) ==
    /\ g \in [0 .. n -> Seq(T)]
    /\ g[0] = <<>>
    /\ \A i \in 1 .. n : g[i] = IF s[i] \in out THEN g[i - 1] ELSE Append(g[i - 1], s[i])

LEMMA KeptExist ==
    ASSUME NEW n \in Nat, NEW T, NEW s, \A i \in 1 .. n : s[i] \in T, NEW out
    PROVE  \E g : IsKept(g, T, s, out, n)
<1> DEFINE good == {m \in 0 .. n : \E g : IsKept(g, T, s, out, m)}
<1>1. 0 \in good
  <2>1. <<>> \in Seq(T)
    OBVIOUS
  <2>2. IsKept([i \in 0 .. 0 |-> <<>>], T, s, out, 0)
    BY <2>1 DEF IsKept
  <2> QED
    BY <2>2
<1>2. ASSUME NEW m \in 1 .. n, m - 1 \in good PROVE m \in good
  <2>1. PICK g : IsKept(g, T, s, out, m - 1)
    BY <1>2
  <2> DEFINE last == IF s[m] \in out THEN g[m - 1] ELSE Append(g[m - 1], s[m])
             h == [i \in 0 .. m |-> IF i = m THEN last ELSE g[i]]
  <2>2. IsKept(h, T, s, out, m)
    <3>1. last \in Seq(T)
      <4>1. g[m - 1] \in Seq(T) /\ s[m] \in T
        BY <2>1 DEF IsKept
      <4> QED
        BY <4>1, AppendProperties
    <3> HIDE DEF last
    <3>2. h \in [0 .. m -> Seq(T)] /\ h[0] = <<>> /\ h[m] = last
      BY <2>1, <3>1 DEF IsKept
    <3>3. ASSUME NEW i \in 1 .. m
          PROVE  h[i] = IF s[i] \in out THEN h[i - 1] ELSE Append(h[i - 1], s[i])
      <4>1. i \in 0 .. m /\ i - 1 \in 0 .. m /\ i - 1 # m
        OBVIOUS
      <4>2. h[i - 1] = g[i - 1]
        BY <4>1
      <4>3. CASE i = m
        BY <3>2, <4>2, <4>3 DEF last
      <4>4. CASE i # m
        <5>1. i \in 1 .. m - 1 /\ h[i] = g[i]
          BY <4>1, <4>4
        <5> QED
          BY <2>1, <4>2, <5>1 DEF IsKept
      <4> QED
        BY <4>3, <4>4
    <3> HIDE DEF h
    <3> QED
      BY <3>2, <3>3 DEF IsKept
  <2> HIDE DEF h
  <2>3. m \in 0 .. n
    OBVIOUS
  <2> QED
    BY <2>2, <2>3
<1>3. \A i \in 0 .. n : i \in good
  <2> HIDE DEF good
  <2> QED
    BY <1>1, <1>2, Upwards
<1>4. n \in good
  BY <1>3
<1> QED
  BY <1>4

\* The members of a sequence that grows by one.
LEMMA AppendSet ==
    ASSUME NEW T, NEW s \in Seq(T), NEW e \in T
    PROVE  Append(s, e) \in Seq(T) /\ ToSet(Append(s, e)) = ToSet(s) \union {e}
<1> DEFINE t == Append(s, e)
<1>1. /\ t \in Seq(T) /\ DOMAIN t = 1 .. Len(s) + 1 /\ DOMAIN s = 1 .. Len(s) /\ Len(s) \in Nat
      /\ \A i \in 1 .. Len(s) : t[i] = s[i]
      /\ t[Len(s) + 1] = e
  BY AppendProperties
<1> HIDE DEF t
<1>2. ToSet(t) \subseteq ToSet(s) \union {e}
  <2> SUFFICES ASSUME NEW i \in 1 .. Len(s) + 1 PROVE t[i] \in ToSet(s) \union {e}
    BY <1>1 DEF ToSet
  <2>1. i \in 1 .. Len(s) \/ i = Len(s) + 1
    BY <1>1
  <2> QED
    BY <1>1, <2>1 DEF ToSet
<1>3. ToSet(s) \union {e} \subseteq ToSet(t)
  <2>1. Len(s) + 1 \in 1 .. Len(s) + 1 /\ \A i \in 1 .. Len(s) : i \in 1 .. Len(s) + 1
    BY <1>1
  <2> QED
    BY <1>1, <2>1 DEF ToSet
<1> QED
  BY <1>1, <1>2, <1>3 DEF t

\* Without is the last of them.
LEMMA WithoutIsLast ==
    ASSUME NEW T, NEW s \in Seq(T), NEW out
    PROVE  \E g : IsKept(g, T, s, out, Len(s)) /\ Without(s, out) = g[Len(s)]
<1> DEFINE n == Len(s)
           F == CHOOSE h : h = [i \in 0 .. n |->
                    IF i = 0 THEN <<>>
                    ELSE IF s[i] \in out THEN h[i - 1] ELSE Append(h[i - 1], s[i])]
<1>1. n \in Nat /\ DOMAIN s = 1 .. n /\ \A i \in 1 .. n : s[i] \in T
  OBVIOUS
<1>2. PICK g : IsKept(g, T, s, out, n)
  BY <1>1, KeptExist
<1>3. g = [i \in 0 .. n |->
              IF i = 0 THEN <<>>
              ELSE IF s[i] \in out THEN g[i - 1] ELSE Append(g[i - 1], s[i])]
  <2>1. \A i \in 0 .. n : i # 0 => i \in 1 .. n
    BY <1>1
  <2>2. \A i \in 0 .. n : g[i] = IF i = 0 THEN <<>>
                                ELSE IF s[i] \in out THEN g[i - 1] ELSE Append(g[i - 1], s[i])
    BY <1>2, <2>1 DEF IsKept
  <2>3. g = [i \in 0 .. n |-> g[i]]
    <3>1. g \in [0 .. n -> Seq(T)]
      BY <1>2 DEF IsKept
    <3> HIDE DEF n
    <3> QED
      BY <3>1
  <2> QED
    BY <2>2, <2>3, Zenon
<1>4. F = [i \in 0 .. n |->
              IF i = 0 THEN <<>>
              ELSE IF s[i] \in out THEN F[i - 1] ELSE Append(F[i - 1], s[i])]
  BY <1>3
<1>5. Without(s, out) = F[n]
  BY DEF Without
<1> HIDE DEF F
<1> DEFINE good == {i \in 0 .. n : F[i] = g[i]}
<1>6. 0 \in good
  BY <1>1, <1>3, <1>4
<1>7. ASSUME NEW m \in 1 .. n, m - 1 \in good PROVE m \in good
  <2>1. m \in 0 .. n /\ m # 0 /\ F[m - 1] = g[m - 1]
    BY <1>7
  <2>2. /\ F[m] = IF s[m] \in out THEN F[m - 1] ELSE Append(F[m - 1], s[m])
        /\ g[m] = IF s[m] \in out THEN g[m - 1] ELSE Append(g[m - 1], s[m])
    BY <2>1, <1>3, <1>4
  <2> QED
    BY <2>1, <2>2
<1>8. n \in good
  <2>1. n \in 0 .. n
    BY <1>1
  <2> HIDE DEF good, n
  <2> QED
    BY <1>1, <1>6, <1>7, <2>1, Upwards
<1> QED
  BY <1>2, <1>5, <1>8

\* Without keeps the members that are not in `out`, and no others.
LEMMA WithoutFacts ==
    ASSUME NEW T, NEW s \in Seq(T), NEW out
    PROVE  Without(s, out) \in Seq(T) /\ ToSet(Without(s, out)) = ToSet(s) \ out
<1> DEFINE n == Len(s)
           Of(i) == {s[j] : j \in 1 .. i} \ out
<1>1. n \in Nat /\ DOMAIN s = 1 .. n /\ \A i \in 1 .. n : s[i] \in T
  OBVIOUS
<1>2. PICK g : IsKept(g, T, s, out, n) /\ Without(s, out) = g[n]
  BY WithoutIsLast
<1> DEFINE good == {i \in 0 .. n : ToSet(g[i]) = Of(i)}
<1>3. 0 \in good
  <2>1. g[0] = <<>> /\ 0 \in 0 .. n
    BY <1>1, <1>2 DEF IsKept
  <2>2. ToSet(<<>>) = {} /\ Of(0) = {}
    <3>1. DOMAIN <<>> = {} /\ 1 .. 0 = {}
      OBVIOUS
    <3> QED
      BY <3>1 DEF ToSet
  <2> QED
    BY <2>1, <2>2
<1>4. ASSUME NEW m \in 1 .. n, m - 1 \in good PROVE m \in good
  <2>1. m \in 0 .. n /\ m - 1 \in 0 .. n /\ s[m] \in T
    BY <1>1
  <2>2. g[m] = (IF s[m] \in out THEN g[m - 1] ELSE Append(g[m - 1], s[m])) /\ g[m - 1] \in Seq(T)
    BY <1>2, <2>1 DEF IsKept
  <2>3. ToSet(g[m - 1]) = Of(m - 1)
    BY <1>4
  <2>4. {s[j] : j \in 1 .. m} = {s[j] : j \in 1 .. m - 1} \union {s[m]}
    <3>1. \A j : j \in 1 .. m <=> (j \in 1 .. m - 1 \/ j = m)
      BY <1>1
    <3> QED
      BY <3>1
  <2>5. Of(m) = IF s[m] \in out THEN Of(m - 1) ELSE Of(m - 1) \union {s[m]}
    BY <2>4
  <2> HIDE DEF Of
  <2>6. ToSet(g[m]) = Of(m)
    <3>1. CASE s[m] \in out
      BY <2>2, <2>3, <2>5, <3>1
    <3>2. CASE s[m] \notin out
      <4>1. g[m] = Append(g[m - 1], s[m]) /\ Of(m) = Of(m - 1) \union {s[m]}
        BY <2>2, <2>5, <3>2
      <4>2. ToSet(Append(g[m - 1], s[m])) = ToSet(g[m - 1]) \union {s[m]}
        BY ONLY <2>1, <2>2, AppendSet
      <4> QED
        BY <2>3, <4>1, <4>2, Zenon
    <3> QED
      BY <3>1, <3>2
  <2> QED
    BY <2>1, <2>6
<1>5. n \in good
  <2>1. n \in 0 .. n
    BY <1>1
  <2> HIDE DEF good, n
  <2> QED
    BY <1>1, <1>3, <1>4, <2>1, Upwards
<1>6. Of(n) = ToSet(s) \ out
  BY <1>1 DEF ToSet
<1>7. g[n] \in Seq(T)
  <2>1. n \in 0 .. n
    BY <1>1
  <2> HIDE DEF n
  <2> QED
    BY <2>1, <1>2 DEF IsKept
<1> HIDE DEF Of
<1> QED
  BY <1>2, <1>5, <1>6, <1>7

-----------------------------------------------------------------------------
(* What the members of a sequence weigh together *)

Weigh(w, s) == SumTo([i \in 0 .. Len(s) |-> IF i = 0 THEN 0 ELSE w[s[i]]], Len(s))

LEMMA WeighFacts ==
    ASSUME NEW T, NEW w \in [T -> Nat], NEW s \in Seq(T)
    PROVE  /\ \A i \in 1 .. Len(s) : w[s[i]] \in Nat
           /\ \A f : (\A i \in 0 .. Len(s) : f[i] = IF i = 0 THEN 0 ELSE w[s[i]])
                      => Weigh(w, s) = SumTo(f, Len(s))
           /\ Weigh(w, s) \in Nat
           /\ s = <<>> => Weigh(w, s) = 0
<1> DEFINE n == Len(s)
           h == [i \in 0 .. n |-> IF i = 0 THEN 0 ELSE w[s[i]]]
<1>1. n \in Nat /\ \A i \in 1 .. n : s[i] \in T
  OBVIOUS
<1>2. \A i \in 1 .. n : w[s[i]] \in Nat
  BY <1>1
<1>3. \A i \in 0 .. n : h[i] \in Nat /\ h[i] = IF i = 0 THEN 0 ELSE w[s[i]]
  <2> TAKE i \in 0 .. n
  <2>1. i = 0 \/ i \in 1 .. n
    BY <1>1
  <2> QED
    BY <2>1, <1>2
<1>4. Weigh(w, s) = SumTo(h, n)
  BY DEF Weigh
<1>5. s = <<>> => n = 0
  OBVIOUS
<1> HIDE DEF h, n
<1>6. SumTo(h, n) \in Nat
  BY <1>1, <1>3, SumTerm
<1>7. n = 0 => SumTo(h, n) = 0
  BY <1>1, <1>3, SumStep
<1>8. ASSUME NEW f, \A i \in 0 .. n : f[i] = IF i = 0 THEN 0 ELSE w[s[i]]
      PROVE  SumTo(h, n) = SumTo(f, n)
  <2>1. \A i \in 0 .. n : f[i] = h[i]
    BY <1>3, <1>8
  <2> QED
    BY <2>1, <1>1, <1>3, SumEqual
<1> QED
  BY <1>2, <1>4, <1>5, <1>6, <1>7, <1>8 DEF n

LEMMA WeighAppend ==
    ASSUME NEW T, NEW w \in [T -> Nat], NEW s \in Seq(T), NEW e \in T
    PROVE  Weigh(w, Append(s, e)) = Weigh(w, s) + w[e] /\ Len(Append(s, e)) = Len(s) + 1
<1> DEFINE t == Append(s, e)
           n == Len(s)
           h == [i \in 0 .. n + 1 |-> IF i = 0 THEN 0 ELSE w[t[i]]]
<1>1. /\ t \in Seq(T) /\ Len(t) = n + 1 /\ n \in Nat
      /\ \A i \in 1 .. n : t[i] = s[i]
      /\ t[n + 1] = e
  BY AppendProperties
<1> HIDE DEF t
<1>2. \A i \in 1 .. n + 1 : w[t[i]] \in Nat
  BY <1>1, WeighFacts
<1>3. \A i \in 0 .. n + 1 : h[i] \in Nat /\ h[i] = IF i = 0 THEN 0 ELSE w[t[i]]
  <2> TAKE i \in 0 .. n + 1
  <2>1. i = 0 \/ i \in 1 .. n + 1
    BY <1>1
  <2> QED
    BY <2>1, <1>2
<1> HIDE DEF h
<1>4. Weigh(w, t) = SumTo(h, n + 1)
  <2>1. \A i \in 0 .. Len(t) : h[i] = IF i = 0 THEN 0 ELSE w[t[i]]
    <3> TAKE i \in 0 .. Len(t)
    <3>1. i \in 0 .. n + 1
      BY <1>1
    <3> QED
      BY <3>1, <1>3
  <2>2. Weigh(w, t) = SumTo(h, Len(t))
    BY SMTT(20), <1>1, <2>1, WeighFacts
  <2> QED
    BY <1>1, <2>2
<1>5. Weigh(w, s) = SumTo(h, n)
  <2>1. \A i \in 0 .. n : h[i] = IF i = 0 THEN 0 ELSE w[s[i]]
    <3> TAKE i \in 0 .. n
    <3>1. i \in 0 .. n + 1 /\ (i # 0 => i \in 1 .. n)
      BY <1>1
    <3> QED
      BY <3>1, <1>1, <1>3
  <2> QED
    BY <2>1, WeighFacts
<1>6. SumTo(h, n + 1) = SumTo(h, n) + h[n + 1] /\ h[n + 1] = w[e]
  <2>1. n + 1 \in Nat /\ n + 1 \in 1 .. n + 1 /\ n + 1 \in 0 .. n + 1 /\ n + 1 - 1 = n /\ n + 1 # 0
    BY <1>1
  <2> DEFINE k == n + 1
  <2>2. SumTo(h, k) = SumTo(h, k - 1) + h[k]
    <3>1. k \in Nat /\ k \in 1 .. k /\ \A i \in 0 .. k : h[i] \in Nat
      BY <2>1, <1>3
    <3> HIDE DEF k
    <3> QED
      BY ONLY <3>1, SumStep
  <2> QED
    BY <2>1, <2>2, <1>1, <1>3
<1> QED
  BY <1>1, <1>4, <1>5, <1>6 DEF t

\* Without is shorter and lighter, by at least a member that goes.
LEMMA WithoutLighter ==
    ASSUME NEW T, NEW w \in [T -> Nat], NEW s \in Seq(T), NEW out, NEW e \in T, e \in out
    PROVE  LET gone == e \in ToSet(s) IN
           /\ Len(Without(s, out)) + (IF gone THEN 1 ELSE 0) <= Len(s)
           /\ Weigh(w, Without(s, out)) + (IF gone THEN w[e] ELSE 0) <= Weigh(w, s)
<1> DEFINE n == Len(s)
           f == [i \in 0 .. n |-> IF i = 0 THEN 0 ELSE w[s[i]]]
           Met(i) == \E j \in 1 .. i : s[j] = e
<1>1. n \in Nat /\ DOMAIN s = 1 .. n /\ \A i \in 1 .. n : s[i] \in T
  OBVIOUS
<1>2. PICK g : IsKept(g, T, s, out, n) /\ Without(s, out) = g[n]
  BY WithoutIsLast
<1>3. \A i \in 0 .. n : f[i] \in Nat /\ f[i] = IF i = 0 THEN 0 ELSE w[s[i]]
  <2> TAKE i \in 0 .. n
  <2>1. i = 0 \/ i \in 1 .. n
    BY <1>1
  <2> QED
    BY <2>1, WeighFacts
<1> HIDE DEF f
<1>4. Weigh(w, s) = SumTo(f, n)
  BY <1>3, WeighFacts
<1> DEFINE c(i) == IF Met(i) THEN 1 ELSE 0
           v(i) == IF Met(i) THEN w[e] ELSE 0
           Light(i) == Len(g[i]) + c(i) <= i /\ Weigh(w, g[i]) + v(i) <= SumTo(f, i)
           good == {i \in 0 .. n : Light(i)}
<1>5. 0 \in good
  <2>1. g[0] = <<>> /\ 0 \in 0 .. n /\ c(0) = 0 /\ v(0) = 0
    BY <1>1, <1>2 DEF IsKept
  <2>2. Weigh(w, <<>>) = 0 /\ Len(<<>>) = 0
    <3>1. <<>> \in Seq(T)
      OBVIOUS
    <3> QED
      BY <3>1, WeighFacts
  <2>3. SumTo(f, 0) = 0
    BY <2>1, <1>1, <1>3, SumStep
  <2> HIDE DEF c, v
  <2> QED
    BY <2>1, <2>2, <2>3
<1>6. ASSUME NEW m \in 1 .. n, m - 1 \in good PROVE m \in good
  <2>1. m \in 0 .. n /\ m - 1 \in 0 .. n /\ s[m] \in T /\ m # 0 /\ m \in Nat
    BY <1>1
  <2>2. g[m] = (IF s[m] \in out THEN g[m - 1] ELSE Append(g[m - 1], s[m])) /\ g[m - 1] \in Seq(T)
    BY <1>2, <2>1 DEF IsKept
  <2>3. /\ Len(g[m - 1]) \in Nat /\ Weigh(w, g[m - 1]) \in Nat /\ w[e] \in Nat /\ w[s[m]] \in Nat
        /\ SumTo(f, m - 1) \in Nat /\ SumTo(f, m) = SumTo(f, m - 1) + w[s[m]]
    <3>1. Len(g[m - 1]) \in Nat /\ Weigh(w, g[m - 1]) \in Nat
      BY <2>2, WeighFacts
    <3>2. w[e] \in Nat /\ w[s[m]] \in Nat
      BY <2>1
    <3>3. SumTo(f, m - 1) \in Nat /\ SumTo(f, m) = SumTo(f, m - 1) + f[m]
      BY <2>1, <1>1, <1>3, SumStep
    <3>4. f[m] = w[s[m]]
      BY <2>1, <1>3
    <3> QED
      BY <3>1, <3>2, <3>3, <3>4
  <2>4. Met(m) <=> (Met(m - 1) \/ s[m] = e)
    <3>1. \A j : j \in 1 .. m <=> (j \in 1 .. m - 1 \/ j = m)
      BY <1>1
    <3> QED
      BY <3>1
  <2>5. Light(m - 1)
    BY <1>6
  <2>6. c(m - 1) \in Nat /\ v(m - 1) \in Nat
    <3> HIDE DEF Met
    <3> QED
      BY <2>3
  <2>7. c(m) <= c(m - 1) + 1 /\ v(m) <= v(m - 1) + w[s[m]] /\ c(m) \in Nat /\ v(m) \in Nat
    <3> HIDE DEF Met
    <3> QED
      BY <2>3, <2>4
  <2>8. CASE s[m] \in out
    <3>1. g[m] = g[m - 1]
      BY <2>2, <2>8
    <3> HIDE DEF Met, c, v
    <3>2. Len(g[m]) + c(m) <= m
      <4> DEFINE x == Len(g[m - 1])
                 y == c(m - 1)
                 u == c(m)
      <4>1. x \in Nat /\ y \in Nat /\ u \in Nat /\ m \in Nat
        BY <2>1, <2>3, <2>6, <2>7
      <4>2. x + y <= m - 1
        BY <2>5
      <4>3. u <= y + 1
        BY <2>7
      <4>4. Len(g[m]) = x
        BY <3>1
      <4> HIDE DEF x, y, u
      <4>5. x + u <= m
        BY ONLY <4>1, <4>2, <4>3
      <4> QED
        BY <4>4, <4>5 DEF u
    <3>3. Weigh(w, g[m]) + v(m) <= SumTo(f, m)
      <4> DEFINE x == Weigh(w, g[m - 1])
                 y == v(m - 1)
                 z == SumTo(f, m - 1)
                 k == w[s[m]]
                 u == v(m)
      <4>1. x \in Nat /\ y \in Nat /\ z \in Nat /\ k \in Nat /\ u \in Nat
        BY <2>3, <2>6, <2>7
      <4>2. x + y <= z
        BY <2>5
      <4>3. u <= y + k
        BY <2>7
      <4>4. Weigh(w, g[m]) = x /\ SumTo(f, m) = z + k
        BY <2>3, <3>1
      <4> HIDE DEF x, y, z, k, u
      <4>5. x + u <= z + k
        BY ONLY <4>1, <4>2, <4>3
      <4> QED
        BY <4>4, <4>5 DEF u
    <3> QED
      BY <2>1, <3>2, <3>3
  <2>9. CASE s[m] \notin out
    <3>1. g[m] = Append(g[m - 1], s[m]) /\ s[m] # e
      BY <2>2, <2>9
    <3>2. Weigh(w, g[m]) = Weigh(w, g[m - 1]) + w[s[m]] /\ Len(g[m]) = Len(g[m - 1]) + 1
      <4> DEFINE q == g[m - 1]
                 x == s[m]
      <4>1. q \in Seq(T) /\ x \in T
        BY <2>1, <2>2
      <4> HIDE DEF q, x
      <4>2. Weigh(w, Append(q, x)) = Weigh(w, q) + w[x] /\ Len(Append(q, x)) = Len(q) + 1
        BY <4>1, WeighAppend
      <4> QED
        BY <4>2, <3>1 DEF q, x
    <3>3. c(m) = c(m - 1) /\ v(m) = v(m - 1)
      <4> HIDE DEF Met
      <4> QED
        BY <2>4, <3>1
    <3> HIDE DEF Met, c, v
    <3>4. Len(g[m]) + c(m) <= m
      <4> DEFINE x == Len(g[m - 1])
                 y == c(m - 1)
      <4>1. x \in Nat /\ y \in Nat /\ m \in Nat
        BY <2>1, <2>3, <2>6
      <4>2. x + y <= m - 1
        BY <2>5
      <4>3. Len(g[m]) = x + 1 /\ c(m) = y
        BY <3>2, <3>3
      <4> HIDE DEF x, y
      <4>4. (x + 1) + y <= m
        BY ONLY <4>1, <4>2
      <4> QED
        BY <4>3, <4>4
    <3>5. Weigh(w, g[m]) + v(m) <= SumTo(f, m)
      <4> DEFINE x == Weigh(w, g[m - 1])
                 y == v(m - 1)
                 z == SumTo(f, m - 1)
                 k == w[s[m]]
      <4>1. x \in Nat /\ y \in Nat /\ z \in Nat /\ k \in Nat
        BY <2>3, <2>6
      <4>2. x + y <= z
        BY <2>5
      <4>3. Weigh(w, g[m]) = x + k /\ v(m) = y /\ SumTo(f, m) = z + k
        BY <2>3, <3>2, <3>3
      <4> HIDE DEF x, y, z, k
      <4>4. (x + k) + y <= z + k
        BY ONLY <4>1, <4>2
      <4> QED
        BY <4>3, <4>4
    <3> QED
      BY <2>1, <3>4, <3>5
  <2> QED
    BY <2>8, <2>9
<1>7. n \in good
  <2>1. n \in 0 .. n
    BY <1>1
  <2> HIDE DEF good, n
  <2> QED
    BY <1>1, <1>5, <1>6, <2>1, Upwards
<1>8. Met(n) <=> e \in ToSet(s)
  BY <1>1 DEF ToSet
<1> HIDE DEF Met
<1> QED
  BY <1>2, <1>4, <1>7, <1>8

-----------------------------------------------------------------------------
(* remove(0) *)

\* Ascending iteration starts with a member that none is below.
LEMMA MinMember ==
    ASSUME NEW set \in SUBSET Nat, set # {}
    PROVE  Min(set) \in set /\ \A y \in set : Min(set) <= y
<1>1. PICK x \in set : \A y \in set : ~ (<<y, x>> \in OpToRel(<, Nat))
  BY WFMin, NatLessThanWellFounded, Zenon
<1>2. \A y \in set : x <= y
  <2> TAKE y \in set
  <2>1. x \in Nat /\ y \in Nat
    OBVIOUS
  <2>2. ~ (y < x)
    BY <1>1, <2>1 DEF OpToRel
  <2> QED
    BY <2>1, <2>2
<1>3. Min(set) = CHOOSE z \in set : \A y \in set : z <= y
  BY DEF Min
<1> QED
  BY <1>2, <1>3

\* The least member of a set of naturals, below a member of it.
LEMMA LeastMember ==
    ASSUME NEW n \in Nat, NEW good, n \in good
    PROVE  \E k \in 0 .. n : k \in good /\ \A m \in 0 .. k - 1 : m \notin good
<1> DEFINE some == good \cap 0 .. n
           k == Min(some)
<1>1. some \in SUBSET Nat /\ some # {}
  OBVIOUS
<1>2. k \in some /\ \A y \in some : k <= y
  BY <1>1, MinMember
<1> HIDE DEF k
<1>3. ASSUME NEW m \in 0 .. k - 1 PROVE m \notin good
  <2>1. k \in 0 .. n /\ m \in 0 .. n /\ m < k
    BY <1>2
  <2> QED
    BY <2>1, <1>2
<1> QED
  BY <1>2, <1>3

\* The members of a suffix are members.
LEMMA FromFacts ==
    ASSUME NEW T, NEW s \in Seq(T), NEW n \in 0 .. Len(s)
    PROVE  /\ From(s, n) \in Seq(T)
           /\ ToSet(From(s, n)) \subseteq ToSet(s)
           /\ Len(From(s, n)) = Len(s) - n
           /\ \A i \in 1 .. Len(s) - n : From(s, n)[i] = s[n + i]
<1> DEFINE t == SubSeq(s, n + 1, Len(s))
<1>1. Len(s) \in Nat /\ DOMAIN s = 1 .. Len(s) /\ \A i \in 1 .. Len(s) : s[i] \in T
  BY LenProperties, ElementOfSeq
<1>2. n \in Nat /\ n <= Len(s)
  BY <1>1
<1>3. \A i \in n + 1 .. Len(s) : s[i] \in T
  BY <1>1, <1>2
<1>4. /\ t \in Seq(T)
      /\ Len(t) = IF n + 1 <= Len(s) THEN Len(s) - (n + 1) + 1 ELSE 0
      /\ \A i \in 1 .. Len(s) - (n + 1) + 1 : t[i] = s[n + 1 + i - 1]
  <2>1. n + 1 \in Int /\ Len(s) \in Int
    BY <1>1, <1>2
  <2> QED
    BY <2>1, <1>3, SubSeqProperties
<1> HIDE DEF t
<1>5. Len(t) = Len(s) - n
  <2>1. \A k, m \in Nat : m <= k => (IF m + 1 <= k THEN k - (m + 1) + 1 ELSE 0) = k - m
    OBVIOUS
  <2> QED
    BY ONLY <2>1, <1>4, <1>1, <1>2
<1>6. \A i \in 1 .. Len(s) - n : t[i] = s[n + i]
  <2> TAKE i \in 1 .. Len(s) - n
  <2>1. i \in 1 .. Len(s) - (n + 1) + 1 /\ n + 1 + i - 1 = n + i
    BY <1>1, <1>2
  <2> QED
    BY <2>1, <1>4
<1>7. ToSet(t) \subseteq ToSet(s)
  <2> SUFFICES ASSUME NEW x \in ToSet(t) PROVE x \in ToSet(s)
    OBVIOUS
  <2>1. DOMAIN t = 1 .. Len(t)
    BY <1>4, LenProperties
  <2>2. PICK i \in 1 .. Len(t) : t[i] = x
    BY <2>1 DEF ToSet
  <2>3. n + i \in 1 .. Len(s)
    BY <1>1, <1>2, <1>5
  <2>4. x = s[n + i]
    BY <2>2, <1>5, <1>6
  <2> QED
    BY <2>3, <2>4, <1>1 DEF ToSet
<1> QED
  BY <1>4, <1>5, <1>6, <1>7 DEF From, t

=============================================================================
