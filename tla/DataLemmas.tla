----------------------------- MODULE DataLemmas -----------------------------
(***************************************************************************)
(* Lemmas about data, which no component owns: integer division and what   *)
(* decays by halves, least elements, and finite sums.                      *)
(***************************************************************************)
EXTENDS ScoreDecay, FiniteSetTheorems, WellFoundedInduction, TLAPS

-----------------------------------------------------------------------------
(* Least elements: what stands in for induction over the naturals.         *)

\* Every nonempty set of naturals has a least element.
LEMMA LeastNat ==
    ASSUME NEW S \in SUBSET Nat, S # {}
    PROVE  \E b \in S : \A c \in S : b <= c
<1>1. PICK b \in S : \A c \in S : <<c, b>> \notin OpToRel(<, Nat)
  BY WFMin, NatLessThanWellFounded, Zenon
<1>2. \A c \in S : ~(c < b)
  BY <1>1, Zenon DEF OpToRel
<1>3. QED
  BY <1>2

\* If some finite set of a family is bad, there is one of which no smaller one is.
LEMMA SmallestBad ==
    ASSUME NEW Bad, Bad # {}, \A s \in Bad : IsFiniteSet(s)
    PROVE  \E s \in Bad : \A t \in Bad : Cardinality(s) <= Cardinality(t)
<1> DEFINE sizes == {Cardinality(s) : s \in Bad}
<1>1. sizes \in SUBSET Nat /\ sizes # {}
  BY FS_CardinalityType
<1>2. PICK b \in sizes : \A c \in sizes : b <= c
  BY <1>1, LeastNat, Zenon
<1>3. QED
  BY <1>2

-----------------------------------------------------------------------------
(* Integer division.                                                       *)

\* Quotient and remainder of a natural number.
LEMMA Division ==
    ASSUME NEW x \in Nat, NEW h \in Nat \ {0}
    PROVE  /\ x \div h \in Nat /\ x % h \in 0..(h - 1)
           /\ x = h * (x \div h) + (x % h)
OBVIOUS

\* A product with a larger factor is no smaller.
LEMMA Product ==
    ASSUME NEW c \in Nat, NEW x \in Nat, NEW y \in Nat, x <= y
    PROVE  c * x <= c * y
<1>1. PICK k \in Nat : y = x + k
  <2>1. y - x \in Nat /\ y = x + (y - x)
    OBVIOUS
  <2>2. QED
    BY <2>1
<1>2. c * y = c * x + c * k
  BY <1>1
<1>3. c * x \in Nat /\ c * k \in Nat
  BY <1>1
<1>4. QED
  BY <1>2, <1>3

\* A larger dividend has no smaller quotient.
LEMMA QuotientGrows ==
    ASSUME NEW x \in Nat, NEW y \in Nat, x <= y, NEW h \in Nat \ {0}
    PROVE  x \div h <= y \div h
<1> DEFINE p == x \div h
           q == y \div h
<1>1. /\ p \in Nat /\ x % h \in 0..(h - 1) /\ x = h * p + (x % h)
      /\ q \in Nat /\ y % h \in 0..(h - 1) /\ y = h * q + (y % h)
  BY Division
<1> HIDE DEF p, q
<1>2. SUFFICES ASSUME q + 1 <= p PROVE FALSE
  BY <1>1 DEF p, q
<1>3. h * (q + 1) <= h * p
  BY <1>1, <1>2, Product
<1>4. h * (q + 1) = h * q + h
  BY <1>1
<1>5. h * q \in Nat /\ h * p \in Nat
  BY <1>1
<1>6. QED
  BY <1>1, <1>3, <1>4, <1>5

\* A larger divisor has no larger quotient.
LEMMA QuotientShrinks ==
    ASSUME NEW x \in Nat, NEW a \in Nat \ {0}, NEW b \in Nat \ {0}, a <= b
    PROVE  x \div b <= x \div a
<1> DEFINE p == x \div a
           q == x \div b
<1>1. /\ p \in Nat /\ x % a \in 0..(a - 1) /\ x = a * p + (x % a)
      /\ q \in Nat /\ x % b \in 0..(b - 1) /\ x = b * q + (x % b)
  BY Division
<1> HIDE DEF p, q
<1>2. SUFFICES ASSUME p + 1 <= q PROVE FALSE
  BY <1>1 DEF p, q
<1>3. a * (p + 1) <= a * q
  BY <1>1, <1>2, Product
<1>4. q * a <= q * b
  BY <1>1, Product
<1>5. a * (p + 1) = a * p + a /\ q * a = a * q /\ q * b = b * q
  BY <1>1
<1>6. a * p \in Nat /\ a * q \in Nat /\ b * q \in Nat
  BY <1>1
<1>7. QED
  BY <1>1, <1>3, <1>4, <1>5, <1>6

-----------------------------------------------------------------------------
(* The decay.                                                              *)

\* What a shift divides by.
LEMMA Powers ==
    /\ Power2[1] = 1 /\ Power2[2] = 2 /\ Power2[3] = 4 /\ Power2[4] = 8 /\ Power2[5] = 16
    /\ Power2[6] = 32 /\ Power2[7] = 64 /\ Power2[8] = 128 /\ Power2[9] = 256
    /\ Power2[10] = 512 /\ Power2[11] = 1024 /\ Power2[12] = 2048 /\ Power2[13] = 4096
BY DEF Power2

\* One shift more is one halving more.
LEMMA Halving ==
    ASSUME NEW x \in Nat, NEW n \in 1..12
    PROVE  /\ Power2[n] \in Nat \ {0}
           /\ (x \div Power2[n]) \div 2 = x \div Power2[n + 1]
<1>1. CASE n \in 1..4
  BY <1>1, Powers
<1>2. CASE n \in 5..8
  BY <1>2, Powers
<1>3. CASE n \in 9..12
  BY <1>3, Powers
<1>4. QED
  BY <1>1, <1>2, <1>3

\* The powers grow.
LEMMA PowersGrow ==
    ASSUME NEW m \in 1..13, NEW n \in 1..13, m <= n
    PROVE  /\ Power2[m] \in Nat \ {0} /\ Power2[n] \in Nat \ {0}
           /\ Power2[m] <= Power2[n]
<1>1. \A k \in 1..12 : Power2[k] \in Nat \ {0} /\ Power2[k + 1] = 2 * Power2[k]
  BY Powers
<1>2. QED
  BY Powers, <1>1

\* Between two full half-lives the score lies between theirs, and only falls.
LEMMA Interpolation ==
    ASSUME NEW s \in Nat, NEW h \in Nat \ {0}, NEW r \in 0..(h - 1), NEW r2 \in r..(h - 1)
    PROVE  /\ interpolated(s, r, h) \in (s \div 2)..s
           /\ interpolated(s, r2, h) <= interpolated(s, r, h)
<1> DEFINE d == s - s \div 2
           f(x) == (d * x) \div h
<1>1. d \in Nat /\ s \div 2 \in Nat /\ s \div 2 <= s /\ s - d = s \div 2
  OBVIOUS
<1> HIDE DEF d
<1>2. d * r \in Nat /\ d * r2 \in Nat /\ d * h \in Nat
  BY <1>1
<1>3. d * r <= d * r2 /\ d * r <= d * h
  BY <1>1, Product
<1>4. f(r) <= f(r2) /\ f(r) <= f(h)
  BY <1>2, <1>3, QuotientGrows
<1>5. f(h) = d
  <2>1. /\ f(h) \in Nat /\ (d * h) % h \in 0..(h - 1)
        /\ d * h = h * f(h) + ((d * h) % h)
    BY <1>2, Division
  <2> DEFINE q == f(h)
             m == (d * h) % h
  <2> HIDE DEF q, m
  <2>2. q \in Nat /\ m \in 0..(h - 1) /\ d * h = h * q + m /\ h * d = d * h
    BY <2>1, <1>1 DEF q, m
  <2>3. ~(q + 1 <= d)
    <3>1. SUFFICES ASSUME q + 1 <= d PROVE FALSE
      OBVIOUS
    <3>2. h * (q + 1) <= h * d
      BY <1>1, <2>2, <3>1, Product
    <3>3. h * (q + 1) = h * q + h /\ h * q \in Nat
      BY <2>2
    <3>4. QED
      BY <1>2, <2>2, <3>2, <3>3
  <2>4. ~(d + 1 <= q)
    <3>1. SUFFICES ASSUME d + 1 <= q PROVE FALSE
      OBVIOUS
    <3>2. h * (d + 1) <= h * q
      BY <1>1, <2>2, <3>1, Product
    <3>3. h * (d + 1) = h * d + h /\ h * q \in Nat
      BY <1>1, <2>2
    <3>4. QED
      BY <1>2, <2>2, <3>2, <3>3
  <2>5. q = d
    BY <1>1, <2>2, <2>3, <2>4
  <2>6. QED
    BY <2>5 DEF q
<1>6. f(r) \in Nat /\ f(r2) \in Nat
  BY <1>2, Division
<1>7. interpolated(s, r, h) = s - f(r) /\ interpolated(s, r2, h) = s - f(r2)
  BY DEF interpolated, d
<1> HIDE DEF f
<1>8. QED
  BY <1>1, <1>4, <1>5, <1>6, <1>7

\* A score is a natural number, no larger than it was, and never grows with the time.
LEMMA Decay ==
    ASSUME NEW raw \in Nat, NEW h \in Nat \ {0}, NEW e \in Nat, NEW e2 \in Nat, e <= e2,
           NEW dead \in 1..13
    PROVE  /\ decayedScore(raw, e, h, dead) \in Nat
           /\ decayedScore(raw, e2, h, dead) <= decayedScore(raw, e, h, dead)
<1> DEFINE n == e \div h
           n2 == e2 \div h
           r == e % h
           r2 == e2 % h
           at(k) == raw \div Power2[k + 1]
<1>1. /\ n \in Nat /\ r \in 0..(h - 1) /\ e = h * n + r
      /\ n2 \in Nat /\ r2 \in 0..(h - 1) /\ e2 = h * n2 + r2
      /\ n <= n2
  BY Division, QuotientGrows
<1>2. /\ n >= dead => decayedScore(raw, e, h, dead) = 0
      /\ n < dead => decayedScore(raw, e, h, dead) = interpolated(at(n), r, h)
      /\ n2 >= dead => decayedScore(raw, e2, h, dead) = 0
      /\ n2 < dead => decayedScore(raw, e2, h, dead) = interpolated(at(n2), r2, h)
  BY <1>1 DEF decayedScore
<1> HIDE DEF n, n2, r, r2
<1>3. ASSUME NEW k \in 0..12
      PROVE  at(k) \in Nat
  <2>1. k + 1 \in 1..13
    OBVIOUS
  <2>2. Power2[k + 1] \in Nat \ {0}
    BY <2>1, PowersGrow
  <2>3. QED
    BY <2>2, Division
<1> HIDE DEF at
<1>4. ASSUME NEW k \in 0..12, NEW x \in 0..(h - 1)
      PROVE  interpolated(at(k), x, h) \in (at(k) \div 2)..at(k)
  <2>1. x \in x..(h - 1) /\ at(k) \in Nat
    BY <1>3
  <2>2. QED
    BY <2>1, Interpolation
<1>5. \A k \in 0..12 : /\ interpolated(at(k), r, h) \in (at(k) \div 2)..at(k)
                        /\ interpolated(at(k), r2, h) \in (at(k) \div 2)..at(k)
  BY <1>1, <1>4
<1>6. \A k \in 0..12 : at(k) \div 2 \in Nat
  BY <1>3
<1>7. decayedScore(raw, e, h, dead) \in Nat
  BY <1>1, <1>2, <1>3, <1>5, <1>6
<1>8. CASE n2 >= dead
  BY <1>2, <1>7, <1>8
<1>9. CASE n2 < dead /\ n = n2
  <2>1. r <= r2
    BY <1>1, <1>9
  <2>2. n \in 0..12
    BY <1>1, <1>9
  <2>3. interpolated(at(n), r2, h) <= interpolated(at(n), r, h)
    <3>1. at(n) \in Nat /\ r2 \in r..(h - 1)
      BY <1>1, <1>3, <2>1, <2>2
    <3>2. QED
      BY <1>1, <3>1, Interpolation
  <2>4. QED
    BY <1>2, <1>7, <1>9, <2>3
<1>10. CASE n2 < dead /\ n < n2
  <2>1. n \in 0..11 /\ n2 \in 1..12 /\ n + 1 \in 1..12 /\ n + 2 \in 1..13 /\ n2 + 1 \in 1..13
    BY <1>1, <1>10
  <2>2. at(n2) <= raw \div Power2[n + 2]
    <3>1. Power2[n + 2] \in Nat \ {0} /\ Power2[n2 + 1] \in Nat \ {0} /\ Power2[n + 2] <= Power2[n2 + 1]
      BY <1>1, <1>10, <2>1, PowersGrow
    <3>2. QED
      BY <3>1, QuotientShrinks DEF at
  <2>3. at(n) \div 2 = raw \div Power2[n + 2]
    <3>1. (raw \div Power2[n + 1]) \div 2 = raw \div Power2[(n + 1) + 1]
      BY <2>1, Halving
    <3>2. (n + 1) + 1 = n + 2
      BY <2>1
    <3>3. QED
      BY <3>1, <3>2 DEF at
  <2>4. interpolated(at(n2), r2, h) <= at(n2) /\ at(n) \div 2 <= interpolated(at(n), r, h)
    BY <1>5, <2>1
  <2>5. /\ interpolated(at(n2), r2, h) \in Int /\ at(n2) \in Int /\ at(n) \div 2 \in Int
        /\ interpolated(at(n), r, h) \in Int
    BY <1>3, <1>5, <1>6, <2>1
  <2>6. interpolated(at(n2), r2, h) <= interpolated(at(n), r, h)
    BY <2>2, <2>3, <2>4, <2>5
  <2>7. QED
    BY <1>1, <1>2, <1>7, <1>10, <2>6
<1>11. QED
  BY <1>1, <1>7, <1>8, <1>9, <1>10

-----------------------------------------------------------------------------
(* Finite sums.  A sum is a table over the subsets of its index set, which *)
(* the fold of the community modules fills by taking out one index after   *)
(* another; in which order does not matter.                                *)

First(s) == CHOOSE x \in s : TRUE

SumTable(it, f, S) ==
    it = [s \in SUBSET S |-> IF s = {} THEN 0 ELSE f[First(s)] + it[s \ {First(s)}]]

\* An index that is taken out leaves a smaller set.
LEMMA TakeOne ==
    ASSUME NEW s, IsFiniteSet(s), NEW x \in s
    PROVE  /\ IsFiniteSet(s \ {x}) /\ Cardinality(s) \in Nat \ {0}
           /\ Cardinality(s \ {x}) \in Nat /\ Cardinality(s \ {x}) = Cardinality(s) - 1
<1>1. /\ IsFiniteSet(s \ {x}) /\ Cardinality(s) \in Nat /\ Cardinality(s \ {x}) \in Nat
  BY FS_RemoveElement, FS_CardinalityType
<1>2. Cardinality(s \ {x}) = Cardinality(s) - 1
  BY FS_RemoveElement
<1>3. QED
  BY <1>1, <1>2

LEMMA FirstIn ==
    ASSUME NEW s, s # {}
    PROVE  First(s) \in s
BY DEF First

\* There is such a table for every finite set.
LEMMA TableExists ==
    ASSUME NEW f, NEW S, IsFiniteSet(S)
    PROVE  \E it : SumTable(it, f, S)
<1> DEFINE D(n) == {s \in SUBSET S : Cardinality(s) <= n}
           Row(it, s) == IF s = {} THEN 0 ELSE f[First(s)] + it[s \ {First(s)}]
           Good(n) == \E it : it = [s \in D(n) |-> Row(it, s)]
           Bad == {n \in Nat : ~Good(n)}
<1>1. \A s \in SUBSET S : IsFiniteSet(s) /\ Cardinality(s) \in Nat /\ Cardinality(s) <= Cardinality(S)
  BY FS_Subset, FS_CardinalityType
<1>2. Good(0)
  <2>1. \A s \in D(0) : s = {}
    BY <1>1, FS_EmptySet
  <2>2. [s \in D(0) |-> 0] = [s \in D(0) |-> Row([t \in D(0) |-> 0], s)]
    BY <2>1
  <2>3. QED
    BY <2>2
<1>3. ASSUME NEW n \in Nat, Good(n) PROVE Good(n + 1)
  <2>1. PICK it : it = [s \in D(n) |-> Row(it, s)]
    BY <1>3
  <2> DEFINE jt == [s \in D(n + 1) |-> Row(it, s)]
  <2>2. ASSUME NEW s \in D(n + 1), s # {}
        PROVE  it[s \ {First(s)}] = jt[s \ {First(s)}]
    <3>1. First(s) \in s /\ s \in SUBSET S /\ IsFiniteSet(s) /\ Cardinality(s) <= n + 1
      BY <1>1, <2>2, FirstIn
    <3>2. Cardinality(s \ {First(s)}) \in Nat /\ Cardinality(s \ {First(s)}) <= n
      <4>1. PICK x : x = First(s)
        OBVIOUS
      <4>2. /\ Cardinality(s) \in Nat /\ Cardinality(s \ {x}) \in Nat
            /\ Cardinality(s \ {x}) = Cardinality(s) - 1
        BY <3>1, <4>1, TakeOne
      <4>3. Cardinality(s \ {x}) <= n
        BY <3>1, <4>2
      <4>4. QED
        BY <4>1, <4>2, <4>3
    <3>3. s \ {First(s)} \in D(n) /\ s \ {First(s)} \in D(n + 1)
      BY <3>1, <3>2
    <3>4. it[s \ {First(s)}] = Row(it, s \ {First(s)})
      BY <2>1, <3>3, Zenon
    <3>5. QED
      BY <3>3, <3>4
  <2>3. \A s \in D(n + 1) : Row(it, s) = Row(jt, s)
    BY <2>2
  <2>4. jt = [s \in D(n + 1) |-> Row(jt, s)]
    BY <2>3, Zenon
  <2>5. QED
    BY <2>4
<1>4. Bad = {}
  <2>1. SUFFICES ASSUME Bad # {} PROVE FALSE
    OBVIOUS
  <2> HIDE DEF Good
  <2>2. PICK b \in Bad : \A c \in Bad : b <= c
    BY <2>1, LeastNat
  <2>3. b \in Nat /\ ~Good(b) /\ b # 0
    BY <1>2
  <2>4. b - 1 \in Nat /\ b - 1 \notin Bad
    BY <2>2, <2>3
  <2>5. Good((b - 1) + 1)
    BY <1>3, <2>4
  <2>6. QED
    BY <2>3, <2>5
<1>5. Good(Cardinality(S))
  BY <1>1, <1>4
<1>6. D(Cardinality(S)) = SUBSET S
  BY <1>1
<1>7. QED
  BY <1>5, <1>6 DEF SumTable

\* What a table holds for a set with a member.
LEMMA TableRow ==
    ASSUME NEW it, NEW f, NEW S, SumTable(it, f, S), NEW s \in SUBSET S
    PROVE  /\ s = {} => it[s] = 0
           /\ s # {} => it[s] = f[First(s)] + it[s \ {First(s)}]
BY DEF SumTable

\* Two tables agree where what they add up agrees.
LEMMA TablesAgree ==
    ASSUME NEW S, IsFiniteSet(S), NEW T, NEW f, NEW g,
           NEW it, SumTable(it, f, S), NEW jt, SumTable(jt, g, T)
    PROVE  \A U \in SUBSET S : U \subseteq T /\ (\A x \in U : f[x] = g[x]) => it[U] = jt[U]
<1>0. SUFFICES ASSUME NEW U \in SUBSET S, U \subseteq T, \A x \in U : f[x] = g[x]
               PROVE  it[U] = jt[U]
  OBVIOUS
<1> DEFINE Bad == {s \in SUBSET U : it[s] # jt[s]}
<1>1. SUFFICES ASSUME Bad # {} PROVE FALSE
  OBVIOUS
<1>2. \A s \in SUBSET U : IsFiniteSet(s) /\ s \in SUBSET S /\ s \in SUBSET T
  BY <1>0, FS_Subset
<1>3. PICK s \in Bad : \A t \in Bad : Cardinality(s) <= Cardinality(t)
  BY <1>1, <1>2, SmallestBad
<1>4. s # {}
  BY <1>2, TableRow
<1>5. First(s) \in s /\ s \in SUBSET U
  BY <1>4, FirstIn
<1>6. s \ {First(s)} \notin Bad
  BY <1>2, <1>3, <1>5, TakeOne
<1>7. it[s \ {First(s)}] = jt[s \ {First(s)}] /\ f[First(s)] = g[First(s)]
  BY <1>0, <1>5, <1>6
<1>8. /\ it[s] = f[First(s)] + it[s \ {First(s)}]
      /\ jt[s] = g[First(s)] + jt[s \ {First(s)}]
  BY <1>2, <1>4, <1>5, TableRow
<1>9. QED
  BY <1>7, <1>8

\* Sums of integers are integers, and any index may be taken out.
LEMMA TableTake ==
    ASSUME NEW S, IsFiniteSet(S), NEW it, NEW f, SumTable(it, f, S), \A x \in S : f[x] \in Int
    PROVE  \A s \in SUBSET S : it[s] \in Int /\ \A x \in s : it[s] = f[x] + it[s \ {x}]
<1> DEFINE Fits(s) == it[s] \in Int /\ \A x \in s : it[s] = f[x] + it[s \ {x}]
           Bad == {s \in SUBSET S : ~Fits(s)}
<1>1. SUFFICES ASSUME Bad # {} PROVE FALSE
  OBVIOUS
<1>2. \A s \in SUBSET S : IsFiniteSet(s)
  BY FS_Subset
<1> HIDE DEF Fits
<1>3. PICK s \in Bad : \A t \in Bad : Cardinality(s) <= Cardinality(t)
  BY <1>1, <1>2, SmallestBad
<1>4. s \in SUBSET S /\ ~Fits(s) /\ IsFiniteSet(s)
  BY <1>2
<1>5. s # {}
  <2>1. SUFFICES ASSUME s = {} PROVE Fits(s)
    BY <1>4
  <2>2. it[s] = 0
    BY <1>4, <2>1, TableRow
  <2>3. QED
    BY <2>1, <2>2 DEF Fits
<1>6. \A x \in s : Fits(s \ {x})
  BY <1>2, <1>3, <1>4, TakeOne
<1> DEFINE e == First(s)
<1>7. e \in s /\ it[s] = f[e] + it[s \ {e}]
  BY <1>4, <1>5, FirstIn, TableRow
<1> HIDE DEF e
<1>8. it[s \ {e}] \in Int /\ f[e] \in Int /\ it[s] \in Int
  BY <1>4, <1>6, <1>7 DEF Fits
<1>9. ASSUME NEW x \in s PROVE it[s] = f[x] + it[s \ {x}]
  <2>1. CASE x = e
    BY <1>7, <2>1
  <2>2. CASE x # e
    <3> DEFINE rest == it[(s \ {e}) \ {x}]
    <3>1. (s \ {e}) \ {x} = (s \ {x}) \ {e} /\ x \in s \ {e} /\ e \in s \ {x}
      BY <1>7, <2>2
    <3>2. it[s \ {e}] = f[x] + rest /\ it[s \ {x}] = f[e] + rest
      BY <1>6, <1>7, <3>1 DEF Fits
    <3>3. Fits((s \ {e}) \ {x}) \/ rest \in Int
      <4>1. (s \ {e}) \ {x} \in SUBSET S /\ (s \ {e}) \ {x} \notin Bad
        <5>1. IsFiniteSet(s \ {e}) /\ Cardinality(s \ {e}) < Cardinality(s)
          BY <1>4, <1>7, TakeOne
        <5>2. Cardinality((s \ {e}) \ {x}) < Cardinality(s)
          BY <1>4, <1>7, <3>1, <5>1, TakeOne
        <5>3. Cardinality((s \ {e}) \ {x}) \in Nat /\ Cardinality(s) \in Nat
          BY <1>2, <1>4, FS_CardinalityType
        <5>4. QED
          BY <1>3, <1>4, <5>2, <5>3
      <4>2. QED
        BY <4>1
    <3>4. rest \in Int /\ f[x] \in Int
      BY <1>4, <3>3 DEF Fits
    <3> HIDE DEF rest
    <3>5. QED
      BY <1>7, <1>8, <3>2, <3>4
  <2>3. QED
    BY <2>1, <2>2
<1>10. QED
  BY <1>4, <1>8, <1>9 DEF Fits

\* A sum is what such a table holds for the whole index set.
LEMMA SumIsTable ==
    ASSUME NEW f, NEW S, IsFiniteSet(S)
    PROVE  \E it : SumTable(it, f, S) /\ SumFunctionOnSet(f, S) = it[S]
<1>1. PICK it : SumTable(it, f, S)
  BY TableExists
<1>2. \E jt : jt = [s \in SUBSET S |-> IF s = {} THEN 0 ELSE f[First(s)] + jt[s \ {First(s)}]]
  BY <1>1 DEF SumTable
<1>3. QED
  BY <1>2 DEF SumFunctionOnSet, FoldFunctionOnSet, MapThenFoldSet, First, SumTable

LEMMA SumEmpty ==
    ASSUME NEW f
    PROVE  SumFunctionOnSet(f, {}) = 0
<1>1. PICK it : SumTable(it, f, {}) /\ SumFunctionOnSet(f, {}) = it[{}]
  BY SumIsTable, FS_EmptySet
<1>2. QED
  BY <1>1, TableRow

\* A sum depends on what it adds up, and on nothing else.
LEMMA SumSame ==
    ASSUME NEW S, IsFiniteSet(S), NEW f, NEW g, \A x \in S : f[x] = g[x]
    PROVE  SumFunctionOnSet(f, S) = SumFunctionOnSet(g, S)
<1>1. PICK it : SumTable(it, f, S) /\ SumFunctionOnSet(f, S) = it[S]
  BY SumIsTable
<1>2. PICK jt : SumTable(jt, g, S) /\ SumFunctionOnSet(g, S) = jt[S]
  BY SumIsTable
<1>3. \A U \in SUBSET S : U \subseteq S /\ (\A x \in U : f[x] = g[x]) => it[U] = jt[U]
  BY <1>1, <1>2, TablesAgree
<1>4. S \in SUBSET S /\ S \subseteq S
  OBVIOUS
<1>5. it[S] = jt[S]
  BY <1>3, <1>4, Zenon
<1>6. QED
  BY <1>1, <1>2, <1>5

\* One index may be taken out of a sum.
LEMMA SumTake ==
    ASSUME NEW S, IsFiniteSet(S), NEW f, \A y \in S : f[y] \in Int, NEW x \in S
    PROVE  /\ SumFunctionOnSet(f, S) \in Int
           /\ SumFunctionOnSet(f, S) = f[x] + SumFunctionOnSet(f, S \ {x})
<1>1. PICK it : SumTable(it, f, S) /\ SumFunctionOnSet(f, S) = it[S]
  BY SumIsTable
<1>2. IsFiniteSet(S \ {x})
  BY FS_RemoveElement
<1>3. PICK jt : SumTable(jt, f, S \ {x}) /\ SumFunctionOnSet(f, S \ {x}) = jt[S \ {x}]
  BY <1>2, SumIsTable
<1>4. it[S \ {x}] = jt[S \ {x}]
  BY <1>1, <1>2, <1>3, TablesAgree
<1>5. it[S] \in Int /\ it[S] = f[x] + it[S \ {x}]
  BY <1>1, TableTake
<1>6. QED
  BY <1>1, <1>3, <1>4, <1>5

\* A sum of naturals is a natural.
LEMMA SumNat ==
    ASSUME NEW S, IsFiniteSet(S), NEW f, \A y \in S : f[y] \in Nat
    PROVE  SumFunctionOnSet(f, S) \in Nat
<1> DEFINE Bad == {s \in SUBSET S : SumFunctionOnSet(f, s) \notin Nat}
<1>1. SUFFICES ASSUME Bad # {} PROVE FALSE
  OBVIOUS
<1>2. \A s \in SUBSET S : IsFiniteSet(s)
  BY FS_Subset
<1>3. PICK s \in Bad : \A t \in Bad : Cardinality(s) <= Cardinality(t)
  BY <1>1, <1>2, SmallestBad
<1>4. PICK x : x \in s
  BY <1>3, SumEmpty
<1>5. /\ IsFiniteSet(s) /\ Cardinality(s) \in Nat /\ Cardinality(s \ {x}) \in Nat
      /\ Cardinality(s \ {x}) = Cardinality(s) - 1
  BY <1>2, <1>3, <1>4, TakeOne
<1>6. s \ {x} \notin Bad
  BY <1>3, <1>5
<1>7. SumFunctionOnSet(f, s \ {x}) \in Nat /\ f[x] \in Nat
  BY <1>3, <1>4, <1>6
<1>8. SumFunctionOnSet(f, s) = f[x] + SumFunctionOnSet(f, s \ {x})
  BY <1>3, <1>4, <1>5, SumTake
<1>9. QED
  BY <1>3, <1>7, <1>8

\* A new index brings what it adds, and the rest stays.
LEMMA SumNew ==
    ASSUME NEW S, IsFiniteSet(S), NEW f, NEW g, NEW x, x \notin S,
           \A y \in S : f[y] \in Int /\ f[y] = g[y], g[x] \in Int
    PROVE  SumFunctionOnSet(g, S \cup {x}) = SumFunctionOnSet(f, S) + g[x]
<1>1. IsFiniteSet(S \cup {x}) /\ x \in S \cup {x} /\ (S \cup {x}) \ {x} = S
  BY FS_AddElement
<1>2. SumFunctionOnSet(g, S \cup {x}) = g[x] + SumFunctionOnSet(g, S)
  BY <1>1, SumTake
<1>3. SumFunctionOnSet(f, S) = SumFunctionOnSet(g, S)
  BY SumSame
<1>4. SumFunctionOnSet(f, S) \in Int
  <2>1. CASE S = {}
    BY <2>1, SumEmpty
  <2>2. CASE S # {}
    BY <2>2, SumTake
  <2>3. QED
    BY <2>1, <2>2
<1>5. QED
  BY <1>2, <1>3, <1>4
=============================================================================
