---------------------------- MODULE NumberProofs ----------------------------
(***************************************************************************)
(* Facts about numbers and finite sets of them that the other proofs rest  *)
(* on: remainders, as the circular indices take them; the least and the    *)
(* greatest element of a set; and the sum of a function's values.          *)
(***************************************************************************)
EXTENDS Integers, FiniteSetsExt, Functions, FiniteSetTheorems,
        WellFoundedInduction, TLAPS

(* Division with remainder, and the fact that the remainder is unique: the *)
(* two facts about % the index lemmas need.                                *)
LEMMA DivMod ==
  ASSUME NEW a \in Int, NEW d \in Nat \ {0}
  PROVE  /\ a \div d \in Int
         /\ a % d \in 0 .. d - 1
         /\ a = d * (a \div d) + (a % d)
<1>1. a \div d \in Int
  BY SMT
<1>2. a % d \in 0 .. d - 1
  BY SMT
<1>3. a = d * (a \div d) + (a % d)
  BY SMT
<1>4. QED
  BY <1>1, <1>2, <1>3

LEMMA ModUnique ==
  ASSUME NEW d \in Nat \ {0}, NEW q \in Int, NEW r \in 0 .. d - 1
  PROVE  (d * q + r) % d = r
  BY SMT

(* Reducing modulo a multiple of d first does not change the rest modulo   *)
(* d: the wrap of an unsigned int is invisible in an index.                *)
LEMMA WrapInvisible ==
  ASSUME NEW a \in Int, NEW u \in Nat \ {0}, NEW d \in Nat \ {0}, u % d = 0
  PROVE  (a % u) % d = a % d
<1> DEFINE k == u \div d
           q == a \div u
           s == a % u
           p == s \div d
           r == s % d
<1>1. k \in Int /\ u = d * k
  BY DivMod
<1>2. q \in Int /\ s \in 0 .. u - 1 /\ a = u * q + s
  BY DivMod
<1>3. p \in Int /\ r \in 0 .. d - 1 /\ s = d * p + r
  BY <1>2, DivMod
<1> HIDE DEF k, q, s, p, r
<1> DEFINE m == k * q + p
<1>4. m \in Int /\ a = d * m + r
  BY <1>1, <1>2, <1>3
<1> HIDE DEF m
<1>5. a % d = r
  BY <1>3, <1>4, ModUnique, Zenon
<1>6. QED
  BY <1>5 DEF r, s

(* Stepping an index is stepping the update: the remainder of n plus e is  *)
(* the remainder of n + e.                                                 *)
LEMMA ModShift ==
  ASSUME NEW n \in Int, NEW e \in Int, NEW d \in Nat \ {0}
  PROVE  ((n % d) + e) % d = (n + e) % d
<1> DEFINE q == n \div d
           r == n % d
           p == (n + e) \div d
           s == (n + e) % d
<1>1. q \in Int /\ r \in 0 .. d - 1 /\ n = d * q + r
  BY DivMod
<1>2. p \in Int /\ s \in 0 .. d - 1 /\ n + e = d * p + s
  BY DivMod
<1> HIDE DEF q, r, p, s
<1> DEFINE m == p - q
<1>3. m \in Int /\ r + e = d * m + s
  BY <1>1, <1>2
<1> HIDE DEF m
<1>4. (r + e) % d = s
  BY <1>2, <1>3, ModUnique, Zenon
<1>5. QED
  BY <1>4 DEF r, s
-----------------------------------------------------------------------------
(* A non-empty set of natural numbers has a least element: the library     *)
(* theorem on well-founded relations, for < on the natural numbers.        *)
LEMMA LeastElement ==
  ASSUME NEW S \in SUBSET Nat, S # {}
  PROVE  \E x \in S : \A y \in S : x <= y
<1> DEFINE R == OpToRel(<, Nat)
<1>1. IsWellFoundedOn(R, Nat)
  BY NatLessThanWellFounded
<1>2. \A x, y \in Nat : <<x, y>> \in R <=> x < y
  BY DEF OpToRel
<1> HIDE DEF R
<1>3. PICK x \in S : \A y \in S : ~(<<y, x>> \in R)
  BY <1>1, WFMin
<1>4. \A y \in S : ~(y < x)
  BY <1>2, <1>3
<1>5. QED
  BY <1>4

(* Min and Max of a set are in the set, and no other element is less or    *)
(* greater: what rb_t_first and rb_t_last return, and where a file ends.   *)
LEMMA LeastIsMin ==
  ASSUME NEW S \in SUBSET Nat, S # {}
  PROVE  /\ Min(S) \in S
         /\ \A y \in S : Min(S) <= y
  BY LeastElement DEF Min

LEMMA GreatestIsMax ==
  ASSUME NEW n \in Nat, NEW S \in SUBSET (0 .. n), S # {}
  PROVE  /\ Max(S) \in S
         /\ \A y \in S : Max(S) >= y
<1> DEFINE T == {m \in Nat : n - m \in S}
<1>1. PICK z \in S : TRUE
  OBVIOUS
<1>2. \A y \in S : n - y \in T
  OBVIOUS
<1>3. T \in SUBSET Nat /\ T # {}
  BY <1>1, <1>2
<1>4. PICK t \in T : \A u \in T : t <= u
  BY <1>3, LeastElement, Zenon
<1>5. t \in Nat /\ n - t \in S
  OBVIOUS
<1> HIDE DEF T
<1>6. \A y \in S : n - t >= y
  BY <1>2, <1>4, <1>5
<1>7. QED
  BY <1>5, <1>6 DEF Max
-----------------------------------------------------------------------------
(* An induction on the natural numbers, over a set.                        *)
LEMMA SetInduction ==
  ASSUME NEW S \in SUBSET Nat, 0 \in S, \A n \in S : n + 1 \in S
  PROVE  S = Nat
<1>1. SUFFICES ASSUME Nat \ S # {} PROVE FALSE
  OBVIOUS
<1>2. PICK x \in Nat \ S : \A y \in Nat \ S : x <= y
  BY <1>1, LeastElement
<1>3. x # 0 /\ x - 1 \in Nat
  BY <1>2
<1>4. x - 1 \in S
  BY <1>2, <1>3
<1>5. QED
  BY <1>2, <1>4

(* The recursion by which SumFunctionOnSet adds up the values at the       *)
(* members of a set: it takes them out one by one.                         *)
Picked(s) == CHOOSE x \in s : TRUE
Rest(s) == s \ {Picked(s)}
AddsUp(f, g, s) == g[s] = IF s = {} THEN 0 ELSE f[Picked(s)] + g[Rest(s)]

LEMMA SumRecursion ==
  ASSUME NEW f, NEW S, IsFiniteSet(S)
  PROVE  \E g : /\ g = [s \in SUBSET S |-> g[s]]
                /\ \A s \in SUBSET S : AddsUp(f, g, s)
                /\ SumFunctionOnSet(f, S) = g[S]
<1> DEFINE Small(n) == {s \in SUBSET S : Cardinality(s) <= n}
           Sums == {n \in Nat : \E g : \A s \in Small(n) : AddsUp(f, g, s)}
           Body(g) == [s \in SUBSET S |->
                         IF s = {} THEN 0 ELSE f[Picked(s)] + g[Rest(s)]]
<1>1. \A s \in SUBSET S : IsFiniteSet(s) /\ Cardinality(s) \in Nat
                          /\ Cardinality(s) <= Cardinality(S)
  BY FS_Subset, FS_CardinalityType
<1>2. \A s \in SUBSET S : s # {} =>
        Picked(s) \in s /\ Rest(s) \in SUBSET S /\ Cardinality(Rest(s)) = Cardinality(s) - 1
  BY <1>1, FS_RemoveElement DEF Picked, Rest
<1>3. 0 \in Sums
  <2>1. \A s \in Small(0) : s = {}
    BY <1>1, FS_EmptySet
  <2>2. \A s \in Small(0) : AddsUp(f, [s2 \in SUBSET S |-> 0], s)
    BY <2>1 DEF AddsUp
  <2>3. QED
    BY <2>2
<1>4. ASSUME NEW n \in Sums
      PROVE  n + 1 \in Sums
  <2>1. PICK g : \A s \in Small(n) : AddsUp(f, g, s)
    OBVIOUS
  <2>2. ASSUME NEW s \in Small(n + 1)
        PROVE  AddsUp(f, Body(g), s)
    <3>1. CASE s = {}
      BY <3>1 DEF AddsUp
    <3>2. CASE s # {}
      <4>1. Rest(s) \in Small(n)
        BY <1>1, <1>2, <3>2
      <4>2. Body(g)[Rest(s)] = g[Rest(s)]
        BY <2>1, <4>1 DEF AddsUp
      <4>3. QED
        BY <3>2, <4>2 DEF AddsUp
    <3>3. QED
      BY <3>1, <3>2
  <2>3. \E h : \A s \in Small(n + 1) : AddsUp(f, h, s)
    BY <2>2
  <2>4. QED
    BY <2>3
<1>5. Sums = Nat
  <2>1. Sums \in SUBSET Nat
    OBVIOUS
  <2> HIDE DEF Sums
  <2>2. QED
    BY <1>3, <1>4, <2>1, SetInduction
<1>6. PICK h : \A s \in SUBSET S : AddsUp(f, h, s)
  <2>1. Cardinality(S) \in Sums
    BY <1>1, <1>5
  <2>2. PICK h : \A s \in Small(Cardinality(S)) : AddsUp(f, h, s)
    BY <2>1
  <2>3. QED
    BY <1>1, <2>2
<1>7. \E g : g = Body(g)
  <2>1. Body(h) = Body(Body(h))
    <3>1. \A s \in SUBSET S : s # {} => Body(h)[Rest(s)] = h[Rest(s)]
      BY <1>2, <1>6 DEF AddsUp
    <3>2. QED
      BY <3>1
  <2>2. QED
    BY <2>1
<1> DEFINE g == CHOOSE g : g = Body(g)
<1>8. g = Body(g)
  BY <1>7
<1>9. SumFunctionOnSet(f, S) = g[S]
  BY DEF SumFunctionOnSet, FoldFunctionOnSet, MapThenFoldSet, Picked, Rest
<1>10. \A s \in SUBSET S : AddsUp(f, g, s)
  <2> HIDE DEF g
  <2>1. QED
    BY <1>8 DEF AddsUp
<1>11. g = [s \in SUBSET S |-> g[s]]
  <2> HIDE DEF g
  <2>1. QED
    BY <1>8
<1>12. QED
  <2> HIDE DEF g
  <2>1. QED
    BY <1>9, <1>10, <1>11

(* So the sum of a set's values does not depend on more than the values,   *)
(* and it is one of them added to the sum of the rest.                     *)
LEMMA SumsAgree ==
  ASSUME NEW S, IsFiniteSet(S), NEW e, NEW f, \A x \in S : e[x] = f[x],
         NEW g, NEW h, \A s \in SUBSET S : AddsUp(e, g, s) /\ AddsUp(f, h, s)
  PROVE  \A s \in SUBSET S : g[s] = h[s]
<1> DEFINE Agree == {n \in Nat : \A s \in SUBSET S : Cardinality(s) <= n => g[s] = h[s]}
<1>1. \A s \in SUBSET S : IsFiniteSet(s) /\ Cardinality(s) \in Nat
  BY FS_Subset, FS_CardinalityType
<1>2. \A s \in SUBSET S : s # {} =>
        Picked(s) \in s /\ Rest(s) \in SUBSET S /\ Cardinality(Rest(s)) = Cardinality(s) - 1
  BY <1>1, FS_RemoveElement DEF Picked, Rest
<1>3. 0 \in Agree
  BY <1>1, FS_EmptySet DEF AddsUp
<1>4. ASSUME NEW n \in Agree
      PROVE  n + 1 \in Agree
  <2>1. ASSUME NEW s \in SUBSET S, Cardinality(s) <= n + 1
        PROVE  g[s] = h[s]
    <3>1. CASE s = {}
      BY <3>1 DEF AddsUp
    <3>2. CASE s # {}
      <4>1. g[Rest(s)] = h[Rest(s)]
        BY <1>1, <1>2, <2>1, <3>2
      <4>2. e[Picked(s)] = f[Picked(s)]
        BY <1>2, <3>2
      <4>3. QED
        BY <3>2, <4>1, <4>2 DEF AddsUp
    <3>3. QED
      BY <3>1, <3>2
  <2>2. QED
    BY <2>1
<1>5. Agree = Nat
  <2>1. Agree \in SUBSET Nat
    OBVIOUS
  <2> HIDE DEF Agree
  <2>2. QED
    BY <1>3, <1>4, <2>1, SetInduction
<1>6. QED
  BY <1>1, <1>5

LEMMA SumUnfold ==
  ASSUME NEW f, NEW S, IsFiniteSet(S)
  PROVE  SumFunctionOnSet(f, S) =
           IF S = {} THEN 0 ELSE f[Picked(S)] + SumFunctionOnSet(f, Rest(S))
<1>1. PICK g : /\ \A s \in SUBSET S : AddsUp(f, g, s)
               /\ SumFunctionOnSet(f, S) = g[S]
  BY SumRecursion
<1>2. CASE S = {}
  BY <1>1, <1>2 DEF AddsUp
<1>3. CASE S # {}
  <2>1. Rest(S) \subseteq S /\ IsFiniteSet(Rest(S))
    BY FS_Subset DEF Rest
  <2>2. PICK h : /\ \A s \in SUBSET Rest(S) : AddsUp(f, h, s)
                 /\ SumFunctionOnSet(f, Rest(S)) = h[Rest(S)]
    BY <2>1, SumRecursion
  <2>3. \A s \in SUBSET Rest(S) : AddsUp(f, g, s)
    BY <1>1, <2>1
  <2>4. \A s \in SUBSET Rest(S) : g[s] = h[s]
    <3>1. \A s \in SUBSET Rest(S) : AddsUp(f, g, s) /\ AddsUp(f, h, s)
      BY <2>2, <2>3
    <3> DEFINE T == Rest(S)
    <3> HIDE DEF T
    <3>2. IsFiniteSet(T) /\ \A s \in SUBSET T : AddsUp(f, g, s) /\ AddsUp(f, h, s)
      BY <2>1, <3>1 DEF T
    <3>3. \A s \in SUBSET T : g[s] = h[s]
      <4>1. PICK e : e = f
        OBVIOUS
      <4>2. (\A x \in T : e[x] = f[x]) /\ \A s \in SUBSET T : AddsUp(e, g, s) /\ AddsUp(f, h, s)
        BY <3>2, <4>1
      <4> HIDE <4>1
      <4>3. QED
        BY <3>2, <4>2, SumsAgree
    <3>4. QED
      BY <3>3 DEF T
  <2>5. g[S] = f[Picked(S)] + g[Rest(S)]
    BY <1>1, <1>3 DEF AddsUp
  <2>6. QED
    BY <1>1, <1>3, <2>2, <2>4, <2>5
<1>4. QED
  BY <1>2, <1>3

LEMMA SumOfSame ==
  ASSUME NEW S, IsFiniteSet(S), NEW e, NEW f, \A x \in S : e[x] = f[x]
  PROVE  SumFunctionOnSet(e, S) = SumFunctionOnSet(f, S)
<1>1. PICK g : /\ \A s \in SUBSET S : AddsUp(e, g, s)
               /\ SumFunctionOnSet(e, S) = g[S]
  BY SumRecursion
<1>2. PICK h : /\ \A s \in SUBSET S : AddsUp(f, h, s)
               /\ SumFunctionOnSet(f, S) = h[S]
  BY SumRecursion
<1>3. \A s \in SUBSET S : g[s] = h[s]
  BY <1>1, <1>2, SumsAgree
<1>4. QED
  BY <1>1, <1>2, <1>3

(* Taking any member out of the set takes its value off the sum; with no   *)
(* value negative, no sum is, and none falls below one of its parts.       *)
LEMMA SumOfParts ==
  ASSUME NEW f, NEW S, IsFiniteSet(S), \A x \in S : f[x] \in Int
  PROVE  /\ SumFunctionOnSet(f, S) \in Int
         /\ \A x \in S : SumFunctionOnSet(f, S) = f[x] + SumFunctionOnSet(f, S \ {x})
<1> DEFINE Parts(s) == SumFunctionOnSet(f, s) \in Int /\ \A x \in s : SumFunctionOnSet(f, s) = f[x] + SumFunctionOnSet(f, s \ {x})
           Fine == {n \in Nat : \A s \in SUBSET S : Cardinality(s) <= n => Parts(s)}
<1>1. \A s \in SUBSET S : IsFiniteSet(s) /\ Cardinality(s) \in Nat
  BY FS_Subset, FS_CardinalityType
<1>2. \A s \in SUBSET S : \A x \in s :
        s \ {x} \in SUBSET S /\ Cardinality(s \ {x}) = Cardinality(s) - 1
  BY <1>1, FS_RemoveElement
<1>3. \A s \in SUBSET S :
        SumFunctionOnSet(f, s) = IF s = {} THEN 0 ELSE f[Picked(s)] + SumFunctionOnSet(f, Rest(s))
  BY <1>1, SumUnfold
<1>4. \A s \in SUBSET S : s # {} => Picked(s) \in s /\ Rest(s) = s \ {Picked(s)}
  BY DEF Picked, Rest
<1>5. 0 \in Fine
  BY <1>1, <1>3, FS_EmptySet
<1>6. ASSUME NEW n \in Fine
      PROVE  n + 1 \in Fine
  <2>1. ASSUME NEW s \in SUBSET S, Cardinality(s) <= n + 1
        PROVE  Parts(s)
    <3>1. CASE s = {}
      <4>1. SumFunctionOnSet(f, s) = 0
        BY <1>3, <3>1
      <4>2. QED
        BY <3>1, <4>1
    <3>2. CASE s # {}
      <4>1. PICK p \in s, r \in SUBSET S :
              /\ r = s \ {p} /\ f[p] \in Int
              /\ SumFunctionOnSet(f, s) = f[p] + SumFunctionOnSet(f, r)
        <5>1. Picked(s) \in s /\ Rest(s) = s \ {Picked(s)}
          BY <1>4, <3>2
        <5>2. SumFunctionOnSet(f, s) = f[Picked(s)] + SumFunctionOnSet(f, Rest(s))
          BY <1>3, <3>2
        <5>3. f[Picked(s)] \in Int /\ Rest(s) \in SUBSET S
          BY <5>1
        <5>4. QED
          BY <5>1, <5>2, <5>3, Zenon
      <4>2. r \in SUBSET S /\ Cardinality(r) <= n /\ Parts(r)
        <5>1. Cardinality(r) = Cardinality(s) - 1
          BY <1>2, <4>1
        <5>2. Cardinality(r) <= n
          BY <1>1, <2>1, <5>1
        <5>3. QED
          BY <4>1, <5>2
      <4>3. ASSUME NEW x \in s, x # p
            PROVE  SumFunctionOnSet(f, s) = f[x] + SumFunctionOnSet(f, s \ {x})
        <5>1. SumFunctionOnSet(f, r) = f[x] + SumFunctionOnSet(f, r \ {x})
          BY <4>1, <4>2, <4>3
        <5>2. s \ {x} \in SUBSET S /\ Cardinality(s \ {x}) <= n /\ p \in s \ {x}
          BY <1>1, <1>2, <2>1, <4>1, <4>3
        <5>3. SumFunctionOnSet(f, s \ {x}) = f[p] + SumFunctionOnSet(f, (s \ {x}) \ {p})
          BY <5>2
        <5>4. (s \ {x}) \ {p} = r \ {x}
          BY <4>1
        <5>5. r \ {x} \in SUBSET S /\ Cardinality(r \ {x}) <= n /\ SumFunctionOnSet(f, r \ {x}) \in Int
          <6>1. x \in r
            BY <4>1, <4>3
          <6>2. Cardinality(r \ {x}) <= n
            BY <1>1, <1>2, <4>2, <6>1
          <6>3. QED
            BY <4>2, <6>2
        <5>6. f[x] \in Int
          BY <4>3
        <5>7. SumFunctionOnSet(f, s) = f[p] + (f[x] + SumFunctionOnSet(f, r \ {x}))
          BY <4>1, <5>1
        <5>8. SumFunctionOnSet(f, s \ {x}) = f[p] + SumFunctionOnSet(f, r \ {x})
          BY <5>3, <5>4
        <5>9. \A a, b, c \in Int : a + (b + c) = b + (a + c)
          OBVIOUS
        <5>10. QED
          BY <4>1, <5>5, <5>6, <5>7, <5>8, <5>9
      <4>4. SumFunctionOnSet(f, s) \in Int
        <5>1. SumFunctionOnSet(f, r) \in Int
          BY <4>2
        <5>2. QED
          BY <4>1, <5>1
      <4>5. \A x \in s : SumFunctionOnSet(f, s) = f[x] + SumFunctionOnSet(f, s \ {x})
        BY <4>1, <4>3
      <4>6. QED
        BY <4>4, <4>5
    <3>3. QED
      BY <3>1, <3>2
  <2>2. QED
    BY <2>1
<1>7. Fine = Nat
  <2>1. Fine \in SUBSET Nat
    OBVIOUS
  <2> HIDE DEF Fine
  <2>2. QED
    BY <1>5, <1>6, <2>1, SetInduction
<1>8. Parts(S)
  BY <1>1, <1>7
<1>9. QED
  BY <1>8

LEMMA SumOfNaturals ==
  ASSUME NEW f, NEW S, IsFiniteSet(S), \A x \in S : f[x] \in Nat
  PROVE  /\ SumFunctionOnSet(f, S) \in Nat
         /\ \A x \in S : f[x] <= SumFunctionOnSet(f, S)
<1> DEFINE Fine == {n \in Nat : \A s \in SUBSET S : Cardinality(s) <= n => SumFunctionOnSet(f, s) \in Nat}
<1>1. \A s \in SUBSET S : IsFiniteSet(s) /\ Cardinality(s) \in Nat
  BY FS_Subset, FS_CardinalityType
<1>2. \A s \in SUBSET S : \A x \in s :
        s \ {x} \in SUBSET S /\ Cardinality(s \ {x}) = Cardinality(s) - 1
  BY <1>1, FS_RemoveElement
<1>3. ASSUME NEW s \in SUBSET S, NEW x \in s
      PROVE  SumFunctionOnSet(f, s) = f[x] + SumFunctionOnSet(f, s \ {x})
  <2>1. IsFiniteSet(s) /\ \A y \in s : f[y] \in Int
    BY <1>1
  <2>2. QED
    BY <2>1, SumOfParts
<1>4. SumFunctionOnSet(f, {}) = 0
  BY FS_EmptySet, SumUnfold
<1>5. 0 \in Fine
  BY <1>1, <1>4, FS_EmptySet
<1>6. ASSUME NEW n \in Fine
      PROVE  n + 1 \in Fine
  <2>1. ASSUME NEW s \in SUBSET S, Cardinality(s) <= n + 1
        PROVE  SumFunctionOnSet(f, s) \in Nat
    <3>1. CASE s = {}
      BY <1>4, <3>1
    <3>2. CASE s # {}
      <4>1. PICK x \in s : TRUE
        BY <3>2
      <4>2. s \ {x} \in SUBSET S /\ Cardinality(s \ {x}) <= n
        BY <1>1, <1>2, <2>1, <4>1
      <4>3. SumFunctionOnSet(f, s \ {x}) \in Nat /\ f[x] \in Nat
        BY <4>1, <4>2
      <4>4. QED
        BY <1>3, <4>1, <4>3
    <3>3. QED
      BY <3>1, <3>2
  <2>2. QED
    BY <2>1
<1>7. Fine = Nat
  <2>1. Fine \in SUBSET Nat
    OBVIOUS
  <2> HIDE DEF Fine
  <2>2. QED
    BY <1>5, <1>6, <2>1, SetInduction
<1>8. \A s \in SUBSET S : SumFunctionOnSet(f, s) \in Nat
  BY <1>1, <1>7
<1>9. ASSUME NEW x \in S
      PROVE  f[x] <= SumFunctionOnSet(f, S)
  <2>1. /\ SumFunctionOnSet(f, S) = f[x] + SumFunctionOnSet(f, S \ {x})
        /\ SumFunctionOnSet(f, S \ {x}) \in Nat
        /\ f[x] \in Nat
    BY <1>3, <1>8
  <2>2. QED
    BY <2>1
<1>10. QED
  BY <1>8, <1>9
=============================================================================
