-------------------------- MODULE MoneyFlowProofs --------------------------
(***************************************************************************)
(* Theorems about MoneyFlow, for every set of purchases, payouts, agents   *)
(* and editors, all fees that may be on file and all amounts.              *)
(***************************************************************************)
EXTENDS MoneyFlow, FiniteSetTheorems, WellFoundedInduction, TLAPS

-----------------------------------------------------------------------------
(* Sums over finite sets: what MapThenSumSet computes, one element at a    *)
(* time.                                                                   *)

Sum(w, S) == MapThenSumSet(LAMBDA x : w[x], S)

Pick(s) == CHOOSE x \in s : TRUE

\* The sums of the weights w over the subsets of S.
IsSums(g, w, S) ==
    /\ g = [s \in SUBSET S |-> g[s]]
    /\ \A s \in SUBSET S :
          g[s] = IF s = {} THEN 0 ELSE w[Pick(s)] + g[s \ {Pick(s)}]

LEMMA PickIn == ASSUME NEW s, s # {} PROVE Pick(s) \in s
BY DEF Pick

LEMMA LeastNatural ==
    ASSUME NEW S \in SUBSET Nat, S # {}
    PROVE  \E x \in S : \A y \in S : x <= y
<1>1. PICK x \in S : \A y \in S : ~(<<y, x>> \in OpToRel(<, Nat))
  BY NatLessThanWellFounded, WFMin
<1>2. ASSUME NEW y \in S
      PROVE  x <= y
  <2>1. <<y, x>> \in Nat \X Nat
    OBVIOUS
  <2>2. ~(y < x)
    BY <1>1, <2>1 DEF OpToRel
  <2>. QED
    BY <2>2
<1>. QED
  BY <1>2

\* A set of subsets of a finite set has a smallest member.
LEMMA LeastSubset ==
    ASSUME NEW S, IsFiniteSet(S), NEW C \in SUBSET (SUBSET S), C # {}
    PROVE  \E s \in C : \A x \in s : s \ {x} \notin C
<1>. DEFINE sizes == {Cardinality(s) : s \in C}
<1>1. \A s \in C : IsFiniteSet(s) /\ Cardinality(s) \in Nat
  BY FS_Subset, FS_CardinalityType
<1>2. PICK n \in sizes : \A k \in sizes : n <= k
  <2>1. sizes \in SUBSET Nat /\ sizes # {}
    BY <1>1
  <2>. HIDE DEF sizes
  <2>. QED
    BY <2>1, LeastNatural
<1>3. PICK s \in C : n = Cardinality(s)
  OBVIOUS
<1>4. ASSUME NEW x \in s, s \ {x} \in C
      PROVE  FALSE
  <2>1. Cardinality(s \ {x}) = Cardinality(s) - 1
    BY <1>1, FS_RemoveElement
  <2>2. n <= Cardinality(s \ {x})
    BY <1>2, <1>4
  <2>. QED
    BY <1>1, <1>3, <2>1, <2>2
<1>. QED
  BY <1>4

LEMMA SumsExist ==
    ASSUME NEW S, IsFiniteSet(S), NEW w
    PROVE  \E g : IsSums(g, w, S)
<1>. DEFINE Upto(g, n) ==
              /\ g = [s \in SUBSET S |-> g[s]]
              /\ \A s \in SUBSET S : Cardinality(s) <= n =>
                    g[s] = IF s = {} THEN 0 ELSE w[Pick(s)] + g[s \ {Pick(s)}]
            Missing == {n \in Nat : ~ \E g : Upto(g, n)}
<1>0. \A s \in SUBSET S : IsFiniteSet(s) /\ Cardinality(s) \in Nat /\ Cardinality(s) <= Cardinality(S)
  BY FS_Subset, FS_CardinalityType
<1>1. Missing = {}
  <2>1. SUFFICES ASSUME Missing # {} PROVE FALSE
    OBVIOUS
  <2>2. PICK n \in Missing : \A k \in Missing : n <= k
    <3>. Missing \in SUBSET Nat
      OBVIOUS
    <3>. HIDE DEF Missing
    <3>. QED
      BY <2>1, LeastNatural
  <2>3. CASE n = 0
    <3>. DEFINE g == [s \in SUBSET S |-> 0]
    <3>1. \A s \in SUBSET S : Cardinality(s) <= 0 => s = {}
      BY <1>0, FS_EmptySet
    <3>2. Upto(g, 0)
      BY <3>1
    <3>. HIDE DEF Upto
    <3>. QED
      BY <2>2, <2>3, <3>2
  <2>4. CASE n # 0
    <3>1. n - 1 \in Nat /\ n - 1 \notin Missing
      <4>. n \in Nat
        OBVIOUS
      <4>. HIDE DEF Missing
      <4>. QED
        BY <2>2, <2>4
    <3>2. PICK f : Upto(f, n - 1)
      BY <3>1
    <3>. DEFINE g == [s \in SUBSET S |-> IF Cardinality(s) = n
                                         THEN w[Pick(s)] + f[s \ {Pick(s)}] ELSE f[s]]
    <3>3. ASSUME NEW s \in SUBSET S, Cardinality(s) <= n
          PROVE  g[s] = IF s = {} THEN 0 ELSE w[Pick(s)] + g[s \ {Pick(s)}]
      <4>0. /\ n \in Nat /\ Cardinality(s) \in Nat
            /\ Cardinality(s) # n => Cardinality(s) <= n - 1
        BY <1>0, <3>3
      <4>1. CASE s = {}
        <5>1. Cardinality(s) = 0 /\ 0 <= n - 1
          BY <2>4, <4>0, <4>1, FS_EmptySet
        <5>2. f[s] = 0
          BY <3>2, <4>1, <5>1
        <5>. QED
          BY <2>4, <4>1, <5>1, <5>2
      <4>2. CASE s # {}
        <5>1. Pick(s) \in s
          BY <4>2, PickIn
        <5>2. /\ s \ {Pick(s)} \in SUBSET S
              /\ Cardinality(s \ {Pick(s)}) = Cardinality(s) - 1
          BY <1>0, <5>1, FS_RemoveElement
        <5>3. g[s \ {Pick(s)}] = f[s \ {Pick(s)}]
          BY <1>0, <2>2, <3>3, <5>2
        <5>4. g[s] = w[Pick(s)] + f[s \ {Pick(s)}]
          <6>1. CASE Cardinality(s) = n
            BY <6>1
          <6>2. CASE Cardinality(s) # n
            <7>1. f[s] = w[Pick(s)] + f[s \ {Pick(s)}]
              BY <3>2, <4>0, <4>2, <6>2
            <7>. QED
              BY <6>2, <7>1
          <6>. QED
            BY <6>1, <6>2
        <5>. QED
          BY <4>2, <5>3, <5>4
      <4>. QED
        BY <4>1, <4>2
    <3>4. Upto(g, n)
      <4>1. g = [s \in SUBSET S |-> g[s]]
        OBVIOUS
      <4>. HIDE DEF g
      <4>. QED
        BY <3>3, <4>1
    <3>. HIDE DEF Upto, g
    <3>. QED
      BY <2>2, <3>4
  <2>. QED
    BY <2>3, <2>4
<1>2. PICK g : Upto(g, Cardinality(S))
  BY <1>0, <1>1
<1>. QED
  BY <1>0, <1>2 DEF IsSums

LEMMA SumsUnique ==
    ASSUME NEW S, IsFiniteSet(S), NEW T, S \subseteq T, NEW w, NEW v,
           \A x \in S : v[x] = w[x],
           NEW g, IsSums(g, w, T), NEW h, IsSums(h, v, S)
    PROVE  g[S] = h[S]
<1>. DEFINE C == {s \in SUBSET S : g[s] # h[s]}
<1>1. SUFFICES ASSUME C # {} PROVE FALSE
  OBVIOUS
<1>2. PICK s \in C : \A x \in s : s \ {x} \notin C
  <2>. C \in SUBSET (SUBSET S)
    OBVIOUS
  <2>. HIDE DEF C
  <2>. QED
    BY <1>1, LeastSubset
<1>3. CASE s = {}
  BY <1>3 DEF IsSums
<1>4. CASE s # {}
  <2>1. Pick(s) \in s
    BY <1>4, PickIn
  <2>2. g[s \ {Pick(s)}] = h[s \ {Pick(s)}]
    BY <1>2, <2>1
  <2>. QED
    BY <1>4, <2>1, <2>2 DEF IsSums
<1>. QED
  BY <1>3, <1>4

LEMMA SumsAreInt ==
    ASSUME NEW S, IsFiniteSet(S), NEW w, \A x \in S : w[x] \in Int,
           NEW g, IsSums(g, w, S), NEW t \in SUBSET S
    PROVE  g[t] \in Int
<1>. DEFINE C == {s \in SUBSET S : g[s] \notin Int}
<1>1. SUFFICES ASSUME C # {} PROVE FALSE
  OBVIOUS
<1>2. PICK s \in C : \A x \in s : s \ {x} \notin C
  <2>. C \in SUBSET (SUBSET S)
    OBVIOUS
  <2>. HIDE DEF C
  <2>. QED
    BY <1>1, LeastSubset
<1>0. s \in SUBSET S /\ g[s] \notin Int
  OBVIOUS
<1>3. CASE s = {}
  <2>1. g[s] = 0
    BY <1>0, <1>3 DEF IsSums
  <2>. QED
    BY <1>0, <2>1
<1>4. CASE s # {}
  <2>1. Pick(s) \in s
    BY <1>4, PickIn
  <2>2. g[s \ {Pick(s)}] \in Int
    BY <1>2, <2>1
  <2>3. g[s] = w[Pick(s)] + g[s \ {Pick(s)}]
    BY <1>0, <1>4 DEF IsSums
  <2>. QED
    BY <1>0, <2>1, <2>2, <2>3
<1>. QED
  BY <1>3, <1>4

\* The order in which the elements are picked does not matter.
LEMMA SumsRemove ==
    ASSUME NEW S, IsFiniteSet(S), NEW w, \A x \in S : w[x] \in Int,
           NEW g, IsSums(g, w, S), NEW t \in SUBSET S, NEW x \in t
    PROVE  g[t] = w[x] + g[t \ {x}]
<1>. DEFINE C == {s \in SUBSET S : \E y \in s : g[s] # w[y] + g[s \ {y}]}
<1>1. SUFFICES ASSUME C # {} PROVE FALSE
  OBVIOUS
<1>2. PICK s \in C : \A y \in s : s \ {y} \notin C
  <2>. C \in SUBSET (SUBSET S)
    OBVIOUS
  <2>. HIDE DEF C
  <2>. QED
    BY <1>1, LeastSubset
<1>3. PICK y \in s : g[s] # w[y] + g[s \ {y}]
  OBVIOUS
<1>. DEFINE p == Pick(s)
            rest == s \ {p, y}
<1>4. /\ p \in s /\ w[p] \in Int /\ w[y] \in Int
      /\ g[s] = w[p] + g[s \ {p}]
  BY PickIn DEF IsSums
<1>5. p # y
  BY <1>3, <1>4
<1>6. g[s \ {p}] = w[y] + g[rest]
  <2>1. (s \ {p}) \ {y} = rest /\ y \in s \ {p} /\ s \ {p} \in SUBSET S
    BY <1>5
  <2>2. s \ {p} \notin C
    BY <1>2, <1>4
  <2>. QED
    BY <2>1, <2>2
<1>7. g[s \ {y}] = w[p] + g[rest]
  <2>1. (s \ {y}) \ {p} = rest /\ p \in s \ {y} /\ s \ {y} \in SUBSET S
    BY <1>4, <1>5
  <2>2. s \ {y} \notin C
    BY <1>2
  <2>. QED
    BY <2>1, <2>2
<1>8. g[rest] \in Int
  <2>. rest \in SUBSET S
    OBVIOUS
  <2>. QED
    BY SumsAreInt
<1>. QED
  BY <1>3, <1>4, <1>6, <1>7, <1>8

LEMMA SumIs ==
    ASSUME NEW S, IsFiniteSet(S), NEW w
    PROVE  \E h : IsSums(h, w, S) /\ Sum(w, S) = h[S]
<1>. DEFINE Eq(i) == i = [s \in SUBSET S |-> IF s = {} THEN 0
                             ELSE w[CHOOSE x \in s : TRUE] + i[s \ {CHOOSE x \in s : TRUE}]]
            iter == CHOOSE i : Eq(i)
<1>1. \A i : Eq(i) <=> IsSums(i, w, S)
  BY DEF IsSums, Pick
<1>2. Sum(w, S) = iter[S]
  BY DEF Sum, MapThenSumSet, MapThenFoldSet
<1>3. Eq(iter)
  <2>1. PICK i : IsSums(i, w, S)
    BY SumsExist
  <2>2. Eq(i)
    BY <1>1, <2>1
  <2>. HIDE DEF Eq
  <2>. QED
    BY <2>2
<1>. HIDE DEF iter, Eq
<1>. QED
  BY <1>1, <1>2, <1>3

LEMMA SumOfNone ==
    ASSUME NEW w
    PROVE  Sum(w, {}) = 0
<1>1. PICK h : IsSums(h, w, {}) /\ Sum(w, {}) = h[{}]
  BY SumIs, FS_EmptySet
<1>. QED
  BY <1>1 DEF IsSums

LEMMA SumWithOne ==
    ASSUME NEW S, IsFiniteSet(S), NEW x, x \notin S,
           NEW w, \A y \in S \cup {x} : w[y] \in Int
    PROVE  /\ Sum(w, S) \in Int
           /\ Sum(w, S \cup {x}) = Sum(w, S) + w[x]
<1>. DEFINE T == S \cup {x}
<1>0. IsFiniteSet(T) /\ T \ {x} = S /\ x \in T /\ S \subseteq T /\ T \in SUBSET T
  BY FS_AddElement
<1>1. PICK g : IsSums(g, w, T) /\ Sum(w, T) = g[T]
  BY <1>0, SumIs
<1>2. PICK h : IsSums(h, w, S) /\ Sum(w, S) = h[S]
  BY SumIs
<1>3. \A y \in T : w[y] \in Int
  OBVIOUS
<1>. HIDE DEF T
<1>4. g[S] = h[S]
  BY <1>0, <1>1, <1>2, SumsUnique
<1>5. h[S] \in Int
  BY <1>0, <1>2, <1>3, SumsAreInt
<1>6. g[T] = w[x] + g[S]
  BY <1>0, <1>1, <1>3, SumsRemove
<1>7. w[x] \in Int
  BY <1>0, <1>3
<1>. QED
  BY <1>1, <1>2, <1>4, <1>5, <1>6, <1>7 DEF T

\* A sum over two.
LEMMA SumOfTwo ==
    ASSUME NEW x, NEW y, x # y, NEW w, w[x] \in Int, w[y] \in Int
    PROVE  Sum(w, {x, y}) = w[x] + w[y]
<1>1. Sum(w, {}) = 0 /\ IsFiniteSet({}) /\ IsFiniteSet({x})
  BY SumOfNone, FS_EmptySet, FS_Singleton
<1>2. {} \cup {x} = {x} /\ {x} \cup {y} = {x, y}
  OBVIOUS
<1>3. Sum(w, {x}) = w[x]
  <2>1. Sum(w, {} \cup {x}) = Sum(w, {}) + w[x]
    BY <1>1, SumWithOne
  <2>. QED
    BY <1>1, <1>2, <2>1
<1>4. Sum(w, {x, y}) = Sum(w, {x}) + w[y]
  <2>1. Sum(w, {x} \cup {y}) = Sum(w, {x}) + w[y]
    BY <1>1, SumWithOne
  <2>. QED
    BY <1>2, <2>1
<1>. QED
  BY <1>3, <1>4

\* What is put in a movement and what is taken from a holder are such sums.
LEMMA SignedSum ==
    ASSUME NEW L, IsFiniteSet(L)
    PROVE  MapThenSumSet(Signed, L) = Sum([l \in L |-> Signed(l)], L)
<1>. DEFINE w == [l \in L |-> Signed(l)]
            Eq(i) == i = [s \in SUBSET L |-> IF s = {} THEN 0
                             ELSE Signed(CHOOSE x \in s : TRUE) + i[s \ {CHOOSE x \in s : TRUE}]]
            iter == CHOOSE i : Eq(i)
<1>1. ASSUME NEW i PROVE Eq(i) <=> IsSums(i, w, L)
  <2>1. ASSUME NEW s \in SUBSET L, s # {}
        PROVE  Signed(CHOOSE x \in s : TRUE) = w[Pick(s)]
    BY <2>1 DEF Pick
  <2>2. ASSUME NEW s \in SUBSET L
        PROVE  (IF s = {} THEN 0
                ELSE Signed(CHOOSE x \in s : TRUE) + i[s \ {CHOOSE x \in s : TRUE}])
               = IF s = {} THEN 0 ELSE w[Pick(s)] + i[s \ {Pick(s)}]
    BY <2>1 DEF Pick
  <2>. HIDE DEF w
  <2>3. ASSUME IsSums(i, w, L) PROVE Eq(i)
    BY <2>2, <2>3 DEF IsSums
  <2>4. ASSUME Eq(i) PROVE IsSums(i, w, L)
    BY <2>2, <2>4 DEF IsSums
  <2>. QED
    BY <2>3, <2>4
<1>2. MapThenSumSet(Signed, L) = iter[L]
  BY DEF MapThenSumSet, MapThenFoldSet
<1>3. Eq(iter)
  <2>1. PICK i : IsSums(i, w, L)
    BY SumsExist
  <2>2. Eq(i)
    BY <1>1, <2>1
  <2>. HIDE DEF Eq
  <2>. QED
    BY <2>2
<1>4. PICK h : IsSums(h, w, L) /\ Sum(w, L) = h[L]
  BY SumIs
<1>. HIDE DEF iter, Eq, w
<1>5. iter[L] = h[L]
  BY <1>1, <1>3, <1>4, SumsUnique
<1>. QED
  BY <1>2, <1>4, <1>5 DEF w

-----------------------------------------------------------------------------
(* The arithmetic of Fees.                                                 *)

\* What is rounded is a whole number, and not negative if it was not.
LEMMA RoundedToWhole ==
    ASSUME NEW x \in Int, NEW unit \in Nat \ {0}
    PROVE  ToFixed(x, unit) \in Int
  BY SMT DEF ToFixed

LEMMA RoundedNat ==
    ASSUME NEW x \in Nat, NEW unit \in Nat \ {0}
    PROVE  ToFixed(x, unit) \in Nat
  BY SMT DEF ToFixed

LEMMA ExactNat ==
    ASSUME NEW price \in Price, NEW nominal \in Nat
    PROVE  Exact(price, nominal) \in Nat
  <1>1. price.fixed \in Nat /\ price.part \in Nat /\ Whole \in Nat
    BY FeeAssumption DEF Price
  <1>2. price.fixed * Whole \in Nat /\ price.part * nominal \in Nat
    BY <1>1
  <1>3. QED
    BY <1>2 DEF Exact

\* The quotient is the greatest whole number below.
LEMMA DivBounds ==
    ASSUME NEW a \in Int, NEW b \in Nat \ {0}
    PROVE  /\ a \div b \in Int
           /\ b * (a \div b) <= a
           /\ a < b * (a \div b) + b
  BY SMTT(30)

\* toFixed is off by half a unit at most.
LEMMA RoundsToNearest ==
    ASSUME NEW x \in Int, NEW unit \in Nat \ {0}
    PROVE  Near(2 * (unit * ToFixed(x, unit) - x), unit)
  <1>1. CASE x >= 0
    <2> DEFINE q == (2 * x + unit) \div (2 * unit)
    <2>1. 2 * unit \in Nat \ {0} /\ 2 * x + unit \in Int
      OBVIOUS
    <2>2. q \in Int /\ (2 * unit) * q <= 2 * x + unit /\ 2 * x + unit < (2 * unit) * q + 2 * unit
      BY <2>1, DivBounds
    <2>3. ToFixed(x, unit) = q
      BY <1>1 DEF ToFixed
    <2> HIDE DEF q
    <2>4. 2 * (unit * q - x) = (2 * unit) * q - 2 * x
      BY <2>2
    <2>5. QED
      BY <2>2, <2>3, <2>4 DEF Near
  <1>2. CASE ~(x >= 0)
    <2> DEFINE q == (unit - 2 * x) \div (2 * unit)
    <2>1. 2 * unit \in Nat \ {0} /\ unit - 2 * x \in Int
      OBVIOUS
    <2>2. q \in Int /\ (2 * unit) * q <= unit - 2 * x /\ unit - 2 * x < (2 * unit) * q + 2 * unit
      BY <2>1, DivBounds
    <2>3. ToFixed(x, unit) = -q
      BY <1>2 DEF ToFixed
    <2> HIDE DEF q
    <2>4. 2 * (unit * (-q) - x) = -((2 * unit) * q) - 2 * x
      BY <2>2
    <2>5. QED
      BY <2>2, <2>3, <2>4 DEF Near
  <1>3. QED
    BY <1>1, <1>2

LEMMA ScaleDown ==
    ASSUME NEW unit \in Nat \ {0}, NEW x \in Int, NEW n \in Nat, Near(unit * x, n * unit)
    PROVE  Near(x, n)
  <1>1. ~(x >= n + 1)
    <2> SUFFICES ASSUME x >= n + 1
                 PROVE  FALSE
      OBVIOUS
    <2>1. unit * x >= unit * (n + 1)
      OBVIOUS
    <2>2. unit * (n + 1) = n * unit + unit
      OBVIOUS
    <2>3. QED
      BY <2>1, <2>2 DEF Near
  <1>2. ~(x <= -n - 1)
    <2> SUFFICES ASSUME x <= -n - 1
                 PROVE  FALSE
      OBVIOUS
    <2>1. unit * x <= unit * (-n - 1)
      OBVIOUS
    <2>2. unit * (-n - 1) = -(n * unit) - unit
      OBVIOUS
    <2>3. QED
      BY <2>1, <2>2 DEF Near
  <1>3. QED
    BY <1>1, <1>2 DEF Near

(***************************************************************************)
(* The split of a nominal adds up to it but for two of the smallest unit:  *)
(* the provider's, the house's and the agents' fees and the merchant's net *)
(* are each rounded from an exact amount, and none takes the residual, for *)
(* all fees and nominals (calculate of both fee services).                 *)
(***************************************************************************)
THEOREM SplitAddsUp ==
    ASSUME NEW base \in Price, NEW fee \in MerchantFee, NEW shares, NEW nominal \in Nat
    PROVE  LET in == Calculate("PURCHASE", base, fee, shares, nominal)
               out == Calculate("DISBURSEMENT", base, fee, shares, nominal)
           IN  /\ Near(nominal - in.provider - in.internal - in.agent - in.net, 2)
               /\ Near(nominal + out.provider + out.internal + out.agent - out.net, 2)
  <1> DEFINE e1 == Exact(base, nominal)
             e2 == Exact(fee.internal, nominal)
             e3 == Exact(fee.agent, nominal)
             less == nominal * Whole - (e1 + e2 + e3)
             more == nominal * Whole + (e1 + e2 + e3)
             R(x) == ToFixed(x, Whole)
  <1>1. Whole \in Nat \ {0}
    BY FeeAssumption
  <1>2. e1 \in Nat /\ e2 \in Nat /\ e3 \in Nat
    BY ExactNat DEF MerchantFee
  <1>3. nominal * Whole \in Nat /\ less \in Int /\ more \in Int
    BY <1>1, <1>2
  <1>4. /\ Calculate("PURCHASE", base, fee, shares, nominal).provider = R(e1)
        /\ Calculate("PURCHASE", base, fee, shares, nominal).internal = R(e2)
        /\ Calculate("PURCHASE", base, fee, shares, nominal).agent = R(e3)
        /\ Calculate("PURCHASE", base, fee, shares, nominal).net = R(less)
        /\ Calculate("DISBURSEMENT", base, fee, shares, nominal).provider = R(e1)
        /\ Calculate("DISBURSEMENT", base, fee, shares, nominal).internal = R(e2)
        /\ Calculate("DISBURSEMENT", base, fee, shares, nominal).agent = R(e3)
        /\ Calculate("DISBURSEMENT", base, fee, shares, nominal).net = R(more)
    BY DEF Calculate, NetNominal, FeesOf
  <1> HIDE DEF e1, e2, e3
  <1>5. \A x \in Int : R(x) \in Int /\ Near(2 * (Whole * R(x) - x), Whole)
    BY <1>1, RoundedToWhole, RoundsToNearest
  <1> HIDE DEF less, more, R
  <1>6. Near(nominal - R(e1) - R(e2) - R(e3) - R(less), 2)
    <2> DEFINE gap == nominal - R(e1) - R(e2) - R(e3) - R(less)
    <2>1. /\ Near(2 * (Whole * R(e1) - e1), Whole) /\ Near(2 * (Whole * R(e2) - e2), Whole)
          /\ Near(2 * (Whole * R(e3) - e3), Whole) /\ Near(2 * (Whole * R(less) - less), Whole)
          /\ R(e1) \in Int /\ R(e2) \in Int /\ R(e3) \in Int /\ R(less) \in Int
      BY <1>2, <1>3, <1>5
    <2>2. Whole * gap = nominal * Whole - Whole * R(e1) - Whole * R(e2) - Whole * R(e3) - Whole * R(less)
      BY <1>1, <2>1
    <2>3. /\ Whole * R(e1) \in Int /\ Whole * R(e2) \in Int
          /\ Whole * R(e3) \in Int /\ Whole * R(less) \in Int /\ gap \in Int
      BY <1>1, <2>1
    <2> HIDE DEF gap
    <2>4. Near(Whole * gap, 2 * Whole)
      BY <1>1, <1>2, <1>3, <2>1, <2>2, <2>3 DEF Near, less
    <2>5. Near(gap, 2)
      BY <1>1, <2>3, <2>4, ScaleDown
    <2>6. QED
      BY <2>5 DEF gap
  <1>7. Near(nominal + R(e1) + R(e2) + R(e3) - R(more), 2)
    <2> DEFINE gap == nominal + R(e1) + R(e2) + R(e3) - R(more)
    <2>1. /\ Near(2 * (Whole * R(e1) - e1), Whole) /\ Near(2 * (Whole * R(e2) - e2), Whole)
          /\ Near(2 * (Whole * R(e3) - e3), Whole) /\ Near(2 * (Whole * R(more) - more), Whole)
          /\ R(e1) \in Int /\ R(e2) \in Int /\ R(e3) \in Int /\ R(more) \in Int
      BY <1>2, <1>3, <1>5
    <2>2. Whole * gap = nominal * Whole + Whole * R(e1) + Whole * R(e2) + Whole * R(e3) - Whole * R(more)
      BY <1>1, <2>1
    <2>3. /\ Whole * R(e1) \in Int /\ Whole * R(e2) \in Int
          /\ Whole * R(e3) \in Int /\ Whole * R(more) \in Int /\ gap \in Int
      BY <1>1, <2>1
    <2> HIDE DEF gap
    <2>4. Near(Whole * gap, 2 * Whole)
      BY <1>1, <1>2, <1>3, <2>1, <2>2, <2>3 DEF Near, more
    <2>5. Near(gap, 2)
      BY <1>1, <2>3, <2>4, ScaleDown
    <2>6. QED
      BY <2>5 DEF gap
  <1>8. QED
    BY <1>4, <1>6, <1>7

LEMMA Distributes ==
    ASSUME NEW a \in Int, NEW b \in Int, NEW c \in Int
    PROVE  a * (b + c) = a * b + a * c /\ a * (b - c) = a * b - a * c /\ a * b \in Int
  BY SMT

LEMMA NearAdds ==
    ASSUME NEW x \in Int, NEW y \in Int, NEW b \in Int, NEW c \in Int, Near(x, b), Near(y, c)
    PROVE  Near(x + y, b + c) /\ Near(x - y, b + c)
  BY DEF Near

\* The distance from 0.
Absolute(x) == IF x >= 0 THEN x ELSE -x

LEMMA NearTimes ==
    ASSUME NEW x \in Int, NEW y \in Int, NEW b \in Nat, Near(x, b)
    PROVE  Near(x * y, b * Absolute(y))
  <1>1. CASE y >= 0
    <2>1. x * y <= b * y /\ (-b) * y <= x * y
      BY <1>1 DEF Near
    <2>2. QED
      BY <1>1, <2>1 DEF Near, Absolute
  <1>2. CASE ~(y >= 0)
    <2> DEFINE z == -y
    <2>1. z \in Nat /\ y = -z
      BY <1>2
    <2> HIDE DEF z
    <2>2. x * z <= b * z /\ (-b) * z <= x * z
      BY <2>1 DEF Near
    <2>3. x * y = -(x * z) /\ Absolute(y) = z
      BY <2>1, <1>2 DEF Absolute
    <2>4. QED
      BY <2>1, <2>2, <2>3 DEF Near
  <1>3. QED
    BY <1>1, <1>2

\* What the agents are given is, but for half a unit each, their parts of the fee.
LEMMA AgentsAddUp ==
    ASSUME NEW D, IsFiniteSet(D), NEW parts, \A a \in D : parts[a] \in Nat,
           NEW exact \in Nat, NEW unit \in Nat \ {0},
           NEW agents, \A a \in D : agents[a] = ToFixed(exact * parts[a], unit)
    PROVE  /\ Sum(agents, D) \in Int /\ Sum(parts, D) \in Int
           /\ Near(2 * (unit * Sum(agents, D) - exact * Sum(parts, D)), unit * Cardinality(D))
  <1> DEFINE Good(B) == /\ Sum(agents, B) \in Int /\ Sum(parts, B) \in Int
                        /\ Near(2 * (unit * Sum(agents, B) - exact * Sum(parts, B)), unit * Cardinality(B))
             C == {B \in SUBSET D : ~Good(B)}
  <1>1. SUFFICES ASSUME C # {} PROVE FALSE
    BY DEF Good
  <1>2. PICK B \in C : \A a \in B : B \ {a} \notin C
    <2>. C \in SUBSET (SUBSET D)
      OBVIOUS
    <2>. HIDE DEF C
    <2>. QED
      BY <1>1, LeastSubset
  <1>3. B \subseteq D /\ ~Good(B)
    OBVIOUS
  <1>4. \A a \in D : parts[a] \in Int /\ agents[a] \in Int /\ exact * parts[a] \in Int
    <2> SUFFICES ASSUME NEW a \in D
                 PROVE  parts[a] \in Int /\ agents[a] \in Int /\ exact * parts[a] \in Int
      OBVIOUS
    <2>1. parts[a] \in Nat
      OBVIOUS
    <2>2. exact * parts[a] \in Int
      BY <2>1
    <2>3. QED
      BY <2>1, <2>2, RoundedToWhole
  <1>5. CASE B = {}
    <2>1. Sum(agents, B) = 0 /\ Sum(parts, B) = 0 /\ Cardinality(B) = 0
      BY <1>5, SumOfNone, FS_EmptySet
    <2>2. Good(B)
      BY <2>1 DEF Near
    <2>3. QED
      BY <1>3, <2>2
  <1>6. CASE B # {}
    <2>1. PICK a \in B : TRUE
      BY <1>6
    <2> DEFINE E == B \ {a}
               r == agents[a]
               p == parts[a]
               A == Sum(agents, E)
               P == Sum(parts, E)
               n == Cardinality(E)
    <2>2. /\ E \subseteq D /\ IsFiniteSet(E) /\ a \notin E /\ E \cup {a} = B /\ IsFiniteSet(B)
          /\ Cardinality(B) = n + 1 /\ n \in Nat
      <3>1. IsFiniteSet(B) /\ IsFiniteSet(E)
        BY <1>3, FS_Subset
      <3>2. Cardinality(B) \in Nat /\ n \in Nat /\ Cardinality(E) = Cardinality(B) - 1
        BY <3>1, FS_CardinalityType, FS_RemoveElement
      <3>3. QED
        BY <1>3, <3>1, <3>2
    <2>3. Good(E)
      BY <1>2, <2>2
    <2>4. Sum(agents, B) = A + r /\ A \in Int /\ r \in Int
      <3>1. \A b \in E \cup {a} : agents[b] \in Int
        BY <1>3, <1>4, <2>2
      <3>2. Sum(agents, E \cup {a}) = Sum(agents, E) + agents[a] /\ Sum(agents, E) \in Int
        BY <2>2, <3>1, SumWithOne
      <3>3. QED
        BY <2>2, <3>1, <3>2
    <2>5. Sum(parts, B) = P + p /\ P \in Int /\ p \in Int
      <3>1. \A b \in E \cup {a} : parts[b] \in Int
        BY <1>3, <1>4, <2>2
      <3>2. Sum(parts, E \cup {a}) = Sum(parts, E) + parts[a] /\ Sum(parts, E) \in Int
        BY <2>2, <3>1, SumWithOne
      <3>3. QED
        BY <2>2, <3>1, <3>2
    <2>6. Near(2 * (unit * r - exact * p), unit)
      <3>1. exact * p \in Int /\ r = ToFixed(exact * p, unit)
        BY <1>3, <1>4
      <3>2. QED
        BY <3>1, RoundsToNearest
    <2>7. Near(2 * (unit * A - exact * P), unit * n)
      BY <2>3
    <2> HIDE DEF r, p, A, P, n, E
    <2>8. /\ unit * (A + r) = unit * A + unit * r /\ exact * (P + p) = exact * P + exact * p
          /\ unit * (n + 1) = unit * n + unit
          /\ unit * A \in Int /\ unit * r \in Int /\ exact * P \in Int /\ exact * p \in Int /\ unit * n \in Int
      BY <2>2, <2>4, <2>5, Distributes
    <2>9. Near(2 * (unit * A - exact * P) + 2 * (unit * r - exact * p), unit * n + unit)
      BY <2>6, <2>7, <2>8, NearAdds
    <2>10. 2 * (unit * A - exact * P) + 2 * (unit * r - exact * p)
             = 2 * (unit * (A + r) - exact * (P + p))
      BY <2>8
    <2>11. Near(2 * (unit * (A + r) - exact * (P + p)), unit * (n + 1))
      BY <2>8, <2>9, <2>10
    <2>12. A + r \in Int /\ P + p \in Int
      BY <2>4, <2>5
    <2>13. Good(B)
      BY <2>2, <2>4, <2>5, <2>11, <2>12
    <2>14. QED
      BY <1>3, <2>13
  <1>7. QED
    BY <1>5, <1>6
  
\* The arithmetic that brings the roundings together: W of them make one.
LEMMA RoundingsTogether ==
    ASSUME NEW W \in Nat \ {0}, NEW gap \in Int, NEW agent \in Int, NEW e3 \in Int,
           NEW A \in Int, NEW P \in Int, NEW n \in Nat, NEW off \in Int,
           2 * (W * gap) = 2 * e3 - off - 2 * (W * A), Near(off, 3 * W),
           Near(2 * (W * agent - e3), W),
           Near(2 * ((W * W) * A - e3 * P), (W * W) * n)
    PROVE  Near(2 * (W * gap - agent * (W - P)), W * (3 + n) + Absolute(W - P))
  <1> DEFINE missing == W - P
             d3 == 2 * (W * agent - e3)
             dA == 2 * ((W * W) * A - e3 * P)
             X == 2 * (W * gap - agent * missing)
             bound == W * (3 + n) + Absolute(missing)
  <1>1. /\ missing \in Int /\ W * agent \in Int /\ d3 \in Int /\ W * W \in Nat
        /\ W * A \in Int /\ W * gap \in Int /\ agent * missing \in Int /\ e3 * P \in Int /\ e3 * W \in Int
        /\ X \in Int
    <2>1. missing \in Int /\ W * agent \in Int /\ W * W \in Nat /\ W * A \in Int /\ W * gap \in Int
      BY Distributes
    <2> HIDE DEF missing
    <2>2. agent * missing \in Int /\ e3 * P \in Int /\ e3 * W \in Int
      BY <2>1, Distributes
    <2>3. QED
      BY <2>1, <2>2
  <1>2. (W * W) * A \in Int /\ (W * W) * A = W * (W * A) /\ dA \in Int
    <2>1. (W * W) * A \in Int
      BY <1>1, Distributes
    <2>2. (W * W) * A = W * (W * A)
      BY SMT
    <2>3. QED
      BY <1>1, <2>1, <2>2
  \* twice the gap, scaled
  <1>3. W * (2 * (W * gap)) = 2 * (e3 * W) - W * off - 2 * (W * (W * A))
    <2>1. W * (2 * e3 - off - 2 * (W * A)) = 2 * (e3 * W) - W * off - 2 * (W * (W * A))
      <3> DEFINE y == W * A
      <3> HIDE DEF y
      <3>1. y \in Int
        BY <1>1 DEF y
      <3>2. W * (2 * e3 - off - 2 * y) = 2 * (e3 * W) - W * off - 2 * (W * y)
        BY <3>1, SMT
      <3>3. QED
        BY <3>2 DEF y
    <2>2. QED
      BY <2>1
  <1>4. e3 * W - e3 * P = e3 * missing
    BY Distributes
  <1>5. W * (agent * missing) = (W * agent) * missing
    <2> HIDE DEF missing
    <2>1. QED
      BY <1>1, SMT
  <1>6. d3 * missing = 2 * ((W * agent) * missing) - 2 * (e3 * missing)
    <2> DEFINE y == W * agent
    <2> HIDE DEF missing, y
    <2>1. y \in Int
      BY <1>1 DEF y
    <2>2. (2 * (y - e3)) * missing = 2 * (y * missing) - 2 * (e3 * missing)
      BY <1>1, <2>1, SMT
    <2>3. QED
      BY <2>2 DEF y
  <1>7. W * X = W * (2 * (W * gap)) - 2 * (W * (agent * missing))
    <2> DEFINE y == W * gap
               z == agent * missing
    <2> HIDE DEF missing, y, z
    <2>1. y \in Int /\ z \in Int
      BY <1>1 DEF y, z
    <2>2. W * (2 * (y - z)) = W * (2 * y) - 2 * (W * z)
      BY <2>1, SMT
    <2>3. QED
      BY <2>2 DEF y, z
  <1>8. /\ W * off \in Int /\ d3 * missing \in Int /\ e3 * missing \in Int
        /\ (W * agent) * missing \in Int /\ (W * W) * n \in Int /\ W * (3 * W) \in Int
    <2>1. W * off \in Int /\ (W * W) * n \in Int /\ W * (3 * W) \in Int
      BY <1>1, Distributes
    <2> HIDE DEF missing, d3
    <2>2. QED
      BY <1>1, <2>1, Distributes
  <1>9. W * X = -(W * off) - dA - d3 * missing
    <2> HIDE DEF missing, X
    <2>1. dA = 2 * (W * (W * A)) - 2 * (e3 * P)
      BY <1>1, <1>2
    <2>2. W * (W * A) \in Int
      BY <1>2
    <2> HIDE DEF dA, d3
    <2>3. QED
      BY <1>1, <1>2, <1>3, <1>4, <1>5, <1>6, <1>7, <1>8, <2>1, <2>2
  <1>10. Near(W * off, W * (3 * W))
    BY Distributes DEF Near
  <1>11. Near(d3 * missing, W * Absolute(missing)) /\ W * Absolute(missing) \in Int
    <2>1. Absolute(missing) \in Int
      BY <1>1 DEF Absolute
    <2> HIDE DEF missing, d3
    <2>2. Near(d3, W)
      BY DEF d3
    <2>3. QED
      BY <1>1, <2>1, <2>2, NearTimes, Distributes
  <1>12. bound * W = W * (3 * W) + (W * W) * n + W * Absolute(missing) /\ bound \in Nat
    <2> DEFINE y == Absolute(missing)
    <2>1. y \in Nat
      BY <1>1 DEF Absolute
    <2> HIDE DEF missing, y
    <2>2. (W * (3 + n) + y) * W = W * (3 * W) + (W * W) * n + W * y
      BY <2>1, SMT
    <2>3. W * (3 + n) \in Nat
      OBVIOUS
    <2>4. QED
      BY <2>1, <2>2, <2>3 DEF y
  <1>13. Near(W * X, bound * W)
    <2> HIDE DEF missing, X, d3, bound, dA
    <2>1. Near(dA, (W * W) * n)
      BY DEF dA
    <2>2. QED
      BY <1>1, <1>2, <1>8, <1>9, <1>10, <1>11, <1>12, <2>1 DEF Near
  <1>14. Near(X, bound)
    <2> HIDE DEF X, bound
    <2>1. QED
      BY <1>1, <1>12, <1>13, ScaleDown
  <1>15. QED
    BY <1>14

(***************************************************************************)
(* What the house, the agents and the merchant are booked for a payment is *)
(* what arrived without the provider's fee, and for a payout what left, up *)
(* to half a unit for each amount that is rounded and to the part of the   *)
(* agents' fee that the shareholders do not add up to: for all fees,       *)
(* shareholders and nominals (calculate of both fee services).             *)
(***************************************************************************)
THEOREM SplitIsExplained ==
    ASSUME NEW base \in Price, NEW fee \in MerchantFee, NEW shares \in Shares, NEW nominal \in Nat
    PROVE  LET in == Calculate("PURCHASE", base, fee, shares, nominal)
               out == Calculate("DISBURSEMENT", base, fee, shares, nominal)
           IN  /\ Explained(nominal - in.provider - (in.net + in.internal + SumOf(in.agents)), in)
               /\ Explained(-(out.internal + SumOf(out.agents) - out.net) - nominal - out.provider, out)
  <1> DEFINE W == Whole
             e1 == Exact(base, nominal)
             e2 == Exact(fee.internal, nominal)
             e3 == Exact(fee.agent, nominal)
             less == nominal * W - (e1 + e2 + e3)
             more == nominal * W + (e1 + e2 + e3)
             r1 == ToFixed(e1, W)
             r2 == ToFixed(e2, W)
             r3 == ToFixed(e3, W)
             rl == ToFixed(less, W)
             rm == ToFixed(more, W)
             agents == AgentNominals(fee, shares, nominal)
             A == SumOf(agents)
             P == SumOf(shares)
             n == Cardinality(DOMAIN shares)
             fees == FeesOf(base, fee, nominal)
  <1>1. W \in Nat \ {0} /\ W * W \in Nat \ {0}
    <2>1. Whole \in Nat /\ Whole > 0
      BY FeeAssumption
    <2>2. Whole * Whole \in Nat /\ Whole * Whole > 0
      BY <2>1
    <2>3. QED
      BY <2>1, <2>2
  <1>2. e1 \in Nat /\ e2 \in Nat /\ e3 \in Nat
    BY ExactNat DEF MerchantFee
  <1>3. nominal * W \in Nat /\ less \in Int /\ more \in Int
    BY <1>1, <1>2
  <1>4. PICK D \in SUBSET Agents : shares \in [D -> 0 .. Whole]
    BY DEF Shares
  <1>5. /\ DOMAIN shares = D /\ DOMAIN agents = D /\ IsFiniteSet(D)
        /\ \A a \in D : shares[a] \in Nat /\ agents[a] = ToFixed(e3 * shares[a], W * W)
    <2>1. DOMAIN shares = D /\ IsFiniteSet(D)
      BY <1>4, FeeAssumption, FS_Subset
    <2>2. DOMAIN agents = D /\ \A a \in D : agents[a] = ToFixed(e3 * shares[a], W * W)
      BY <2>1 DEF AgentNominals
    <2>3. \A a \in D : shares[a] \in Nat
      BY <1>1, <1>4
    <2>4. QED
      BY <2>1, <2>2, <2>3
  <1>6. A = Sum(agents, D) /\ P = Sum(shares, D) /\ n = Cardinality(D)
    BY <1>5 DEF SumOf, Sum
  <1>7. \A kind : LET c == Calculate(kind, base, fee, shares, nominal)
                  IN  c.provider = r1 /\ c.internal = r2 /\ c.agent = r3 /\ c.agents = agents /\ c.parts = shares
    BY DEF Calculate
  <1>8. /\ Calculate("PURCHASE", base, fee, shares, nominal).net = rl
        /\ Calculate("DISBURSEMENT", base, fee, shares, nominal).net = rm
    BY DEF Calculate, NetNominal, FeesOf
  <1> HIDE DEF agents, e1, e2, e3
  <1>9. A \in Int /\ P \in Int /\ Near(2 * ((W * W) * A - e3 * P), (W * W) * n)
    BY <1>1, <1>2, <1>5, <1>6, AgentsAddUp
  <1>10. n \in Nat
    BY <1>5, <1>6, FS_CardinalityType
  <1> HIDE DEF A, P, n, less, more
  <1>11. /\ r1 \in Int /\ r2 \in Int /\ r3 \in Int /\ rl \in Int /\ rm \in Int
         /\ Near(2 * (W * r1 - e1), W) /\ Near(2 * (W * r2 - e2), W) /\ Near(2 * (W * r3 - e3), W)
         /\ Near(2 * (W * rl - less), W) /\ Near(2 * (W * rm - more), W)
    <2> DEFINE R(x) == ToFixed(x, W)
    <2>1. \A x \in Int : R(x) \in Int /\ Near(2 * (W * R(x) - x), W)
      BY <1>1, RoundedToWhole, RoundsToNearest
    <2>2. r1 = R(e1) /\ r2 = R(e2) /\ r3 = R(e3) /\ rl = R(less) /\ rm = R(more)
      OBVIOUS
    <2> HIDE DEF R, r1, r2, r3, rl, rm
    <2>3. QED
      BY <1>2, <1>3, <2>1, <2>2
  <1> HIDE DEF W, r1, r2, r3, rl, rm
  <1>12. /\ W * r1 \in Int /\ W * r2 \in Int /\ W * rl \in Int /\ W * rm \in Int /\ W * A \in Int
    BY <1>1, <1>9, <1>11, Distributes
  <1>13. ASSUME NEW gap \in Int, NEW off \in Int,
                2 * (W * gap) = 2 * e3 - off - 2 * (W * A), Near(off, 3 * W)
         PROVE  Near(2 * (W * gap - r3 * (W - P)), W * (3 + n) + Absolute(W - P))
    <2>1. /\ W \in Nat \ {0} /\ r3 \in Int /\ e3 \in Int /\ A \in Int /\ P \in Int /\ n \in Nat
          /\ Near(2 * (W * r3 - e3), W) /\ Near(2 * ((W * W) * A - e3 * P), (W * W) * n)
      BY <1>1, <1>2, <1>9, <1>10, <1>11
    <2>2. QED
      BY <1>13, <2>1, RoundingsTogether, Zenon
  <1>14. Near(2 * (W * (nominal - r1 - (rl + r2 + A)) - r3 * (W - P)), W * (3 + n) + Absolute(W - P))
    <2> DEFINE gap == nominal - r1 - (rl + r2 + A)
               off == 2 * (W * r1 - e1) + 2 * (W * r2 - e2) + 2 * (W * rl - less)
    <2>1. gap \in Int /\ off \in Int
      BY <1>2, <1>3, <1>9, <1>11, <1>12
    <2>2. W * gap = nominal * W - W * r1 - W * rl - W * r2 - W * A
      BY <1>1, <1>9, <1>11, SMT
    <2>3. Near(off, 3 * W)
      BY <1>1, <1>2, <1>3, <1>11, <1>12 DEF Near
    <2>4. 2 * (W * gap) = 2 * e3 - off - 2 * (W * A)
      <3> HIDE DEF gap
      <3>1. QED
        BY <1>2, <1>3, <1>12, <2>1, <2>2 DEF less
    <2> HIDE DEF gap, off
    <2>5. Near(2 * (W * gap - r3 * (W - P)), W * (3 + n) + Absolute(W - P))
      BY <2>1, <2>3, <2>4, <1>13
    <2>6. QED
      BY <2>5 DEF gap
  <1>15. Near(2 * (W * (-(r2 + A - rm) - nominal - r1) - r3 * (W - P)), W * (3 + n) + Absolute(W - P))
    <2> DEFINE gap == -(r2 + A - rm) - nominal - r1
               off == 2 * (W * r1 - e1) + 2 * (W * r2 - e2) - 2 * (W * rm - more)
    <2>1. gap \in Int /\ off \in Int
      BY <1>2, <1>3, <1>9, <1>11, <1>12
    <2>2. W * gap = W * rm - W * r2 - W * A - nominal * W - W * r1
      BY <1>1, <1>9, <1>11, SMT
    <2>3. Near(off, 3 * W)
      BY <1>1, <1>2, <1>3, <1>11, <1>12 DEF Near
    <2>4. 2 * (W * gap) = 2 * e3 - off - 2 * (W * A)
      <3> HIDE DEF gap
      <3>1. QED
        BY <1>2, <1>3, <1>12, <2>1, <2>2 DEF more
    <2> HIDE DEF gap, off
    <2>5. Near(2 * (W * gap - r3 * (W - P)), W * (3 + n) + Absolute(W - P))
      BY <2>1, <2>3, <2>4, <1>13
    <2>6. QED
      BY <2>5 DEF gap
  <1>16. QED
    BY <1>5, <1>7, <1>8, <1>14, <1>15 DEF Explained, Absolute, W, A, P, n

LEMMA CalculationTyped ==
    ASSUME NEW kind \in Kind, NEW base \in Price, NEW fee \in MerchantFee,
           NEW shares \in Shares, NEW nominal \in Nat
    PROVE  CalculationOK(Calculate(kind, base, fee, shares, nominal))
  <1> DEFINE c == Calculate(kind, base, fee, shares, nominal)
             exact == Exact(fee.agent, nominal)
             fees == FeesOf(base, fee, nominal)
  <1>1. Whole \in Nat \ {0} /\ Whole * Whole \in Nat \ {0}
    <2>1. Whole \in Nat /\ Whole > 0
      BY FeeAssumption
    <2>2. Whole * Whole \in Nat /\ Whole * Whole > 0
      BY <2>1
    <2>3. QED
      BY <2>1, <2>2
  <1>2. fee.internal \in Price /\ fee.agent \in Price
    BY DEF MerchantFee
  <1>3. exact \in Nat /\ Exact(base, nominal) \in Nat /\ Exact(fee.internal, nominal) \in Nat
    BY <1>2, ExactNat
  <1>4. {c.provider, c.internal, c.agent} \subseteq Nat
    BY <1>1, <1>3, RoundedNat DEF Calculate
  <1>5. PICK A \in SUBSET Agents : shares \in [A -> 0 .. Whole]
    BY DEF Shares
  <1>6. \A a \in DOMAIN shares : ToFixed(exact * shares[a], Whole * Whole) \in Nat
    <2> SUFFICES ASSUME NEW a \in DOMAIN shares
                 PROVE  ToFixed(exact * shares[a], Whole * Whole) \in Nat
      OBVIOUS
    <2>1. shares[a] \in Nat
      BY <1>1, <1>5
    <2>2. exact * shares[a] \in Nat
      BY <2>1, <1>3
    <2>3. QED
      BY <2>2, <1>1, RoundedNat
  <1>7. c.agents \in [DOMAIN c.parts -> Nat] /\ c.parts \in Shares
    BY <1>6 DEF Calculate, AgentNominals
  <1>8. fees \in Nat /\ nominal * Whole \in Nat
    BY <1>1, <1>3 DEF FeesOf
  <1>9. c.net \in Int
    <2>1. nominal * Whole - fees \in Int /\ nominal * Whole + fees \in Int
      BY <1>8
    <2>2. NetNominal(kind, base, fee, nominal) \in Int
      BY <2>1, <1>1, RoundedToWhole DEF NetNominal
    <2>3. QED
      BY <2>2 DEF Calculate
  <1>10. QED
    BY <1>4, <1>7, <1>9 DEF CalculationOK

-----------------------------------------------------------------------------
(* Types.                                                                  *)

LEMMA SourceFacts ==
    ASSUME NEW s \in Source
    PROVE  /\ KindOf(s) \in Kind
           /\ BaseFee[KindOf(s)] \in Price
           /\ Nominal[s] \in Nat
  BY MoneyAssumption DEF Kind, KindOf

LEMMA CalculatedIsOne ==
    ASSUME NEW s \in Source, NEW fee \in MerchantFee, NEW shares \in Shares
    PROVE  AnswerOK(CalculateWith(s, fee, shares))
  <1>1. CalculationOK(Calculate(KindOf(s), BaseFee[KindOf(s)], fee, shares, Nominal[s]))
    BY SourceFacts, CalculationTyped
  <1>2. QED
    BY <1>1 DEF CalculateWith, AnswerOK, AtMostOne

LEMMA NoSharesAreShares == NoShares \in Shares
  <1>1. NoShares \in [{} -> 0 .. Whole]
    BY DEF NoShares
  <1>2. QED
    BY <1>1 DEF Shares

LEMMA StageMoves ==
    ASSUME TypeOK, NEW s \in Source, NEW next, Goto(s, next), StageOK(next)
    PROVE  DOMAIN calculation' = Source /\ \A t \in Source : StageOK(calculation'[t])
  BY DEF TypeOK, Goto

\* What a find has found is what it looked for.
LEMMA FoundTyped ==
    ASSUME TypeOK, NEW s \in Source, NEW k \in Key, NEW fees \in SUBSET MerchantFee,
           NEW value \in Value(k), Found(s, k, fees, value)
    PROVE  DOMAIN calculation' = Source /\ \A t \in Source : StageOK(calculation'[t])
  <1>1. CASE k = "agents"
    <2>1. PICK fee \in fees : Answer(s, CalculateWith(s, fee, value))
      BY <1>1 DEF Found
    <2>2. AnswerOK(CalculateWith(s, fee, value))
      BY <1>1, CalculatedIsOne DEF Value
    <2>3. QED
      BY <2>1, <2>2, StageMoves DEF Answer, StageOK
  <1>2. CASE k # "agents"
    <2>1. FoundFee(s, value) /\ value \in MerchantFee
      BY <1>2 DEF Found, Value
    <2>2. CASE HasAgents(value)
      <3>1. StageOK([at |-> "get", fee |-> {value}])
        BY <2>1 DEF StageOK
      <3>2. QED
        BY <2>1, <2>2, <3>1, StageMoves DEF FoundFee
    <2>3. CASE ~HasAgents(value)
      <3>1. AnswerOK(CalculateWith(s, value, NoShares))
        BY <2>1, CalculatedIsOne, NoSharesAreShares
      <3>2. QED
        BY <2>1, <2>3, <3>1, StageMoves DEF FoundFee, Answer, StageOK
    <2>4. QED
      BY <2>2, <2>3
  <1>3. QED
    BY <1>1, <1>2

LEMMA GetTyped ==
    ASSUME TypeOK, NEW s \in Source, NEW k \in Key, NEW fees \in SUBSET MerchantFee, Get(s, k, fees)
    PROVE  DOMAIN calculation' = Source /\ \A t \in Source : StageOK(calculation'[t])
  <1>1. CASE Goto(s, [at |-> "query", key |-> k, fee |-> fees])
    <2>1. StageOK([at |-> "query", key |-> k, fee |-> fees])
      BY DEF StageOK, Asking
    <2>2. QED
      BY <1>1, <2>1, StageMoves
  <1>2. ASSUME NEW value \in cache[k], Found(s, k, fees, value)
        PROVE  DOMAIN calculation' = Source /\ \A t \in Source : StageOK(calculation'[t])
    <2>1. value \in Value(k)
      BY DEF TypeOK, FilesOK
    <2>2. QED
      BY <1>2, <2>1, FoundTyped
  <1>3. QED
    BY <1>1, <1>2 DEF Get

LEMMA AnswersTyped ==
    ASSUME TypeOK, NEW s \in Source, calculation[s].at = "answered"
    PROVE  AnswerOK(calculation[s].fees)
  BY DEF TypeOK, StageOK, Idle, Asking, Filling

\* The movements the callers build.
LEMMA AgentsTyped ==
    ASSUME NEW fees, CalculationOK(fees)
    PROVE  DOMAIN fees.agents \subseteq Nat /\ \A a \in DOMAIN fees.agents : fees.agents[a] \in Int
  <1> DEFINE parts == fees.parts
             agents == fees.agents
  <1>1. parts \in Shares /\ agents \in [DOMAIN parts -> Nat]
    BY DEF CalculationOK
  <1>2. PICK A \in SUBSET Agents : parts \in [A -> 0 .. Whole]
    BY <1>1 DEF Shares
  <1>3. DOMAIN parts \subseteq Nat
    BY <1>2, FeeAssumption
  <1> HIDE DEF parts, agents
  <1>4. DOMAIN agents \subseteq Nat /\ \A a \in DOMAIN agents : agents[a] \in Int
    BY <1>1, <1>3
  <1>5. QED
    BY <1>4 DEF agents

LEMMA EarnedTyped ==
    ASSUME NEW fees, CalculationOK(fees), NEW bucket \in Bucket
    PROVE  Earned(fees, bucket) \subseteq Leg
  <1>1. DOMAIN fees.agents \subseteq Nat /\ \A a \in DOMAIN fees.agents : fees.agents[a] \in Int
    BY AgentsTyped
  <1>2. fees.internal \in Int
    BY DEF CalculationOK
  <1>3. Credit(InternalRow(bucket), fees.internal) \in Leg
    BY <1>2 DEF Credit, InternalRow, RowOf, Leg, HolderType, Direction
  <1>4. \A a \in DOMAIN fees.agents : Credit(AgentRow(a, bucket), fees.agents[a]) \in Leg
    BY <1>1 DEF Credit, AgentRow, RowOf, Leg, HolderType, Direction
  <1>5. QED
    BY <1>3, <1>4 DEF Earned

LEMMA MerchantLegTyped ==
    ASSUME NEW amount \in Int, NEW bucket \in Bucket
    PROVE  /\ Credit(MerchantRow(bucket), amount) \in Leg
           /\ Debit(MerchantRow(bucket), amount) \in Leg
  BY MoneyAssumption DEF Credit, Debit, MerchantRow, RowOf, Leg, HolderType, Direction

LEMMA PayinTyped ==
    ASSUME NEW p \in Source, NEW answer, AnswerOK(answer)
    PROVE  BuildPayinMovement(p, answer) \in Movement
  <1>1. Credit(MerchantRow("PENDING"), Nominal[p]) \in Leg
    BY SourceFacts, MerchantLegTyped DEF Bucket
  <1>2. ASSUME NEW fees \in answer
        PROVE  {Credit(MerchantRow("PENDING"), fees.net)} \cup Earned(fees, "PENDING") \subseteq Leg
    <2>1. CalculationOK(fees) /\ fees.net \in Int
      BY DEF AnswerOK, CalculationOK
    <2>2. QED
      BY <2>1, EarnedTyped, MerchantLegTyped DEF Bucket
  <1>3. BuildPayinMovement(p, answer).legs \subseteq Leg
    BY <1>1, <1>2 DEF BuildPayinMovement, MovementOf
  <1>4. QED
    BY <1>3 DEF BuildPayinMovement, MovementOf, Movement, Reason

LEMMA TransferTyped ==
    ASSUME NEW type \in HolderType, NEW id \in Nat, NEW amount \in Int
    PROVE  Transfer(RowOf(type, id, "PENDING"), RowOf(type, id, "AVAILABLE"), amount) \subseteq Leg
  BY DEF Transfer, Credit, Debit, RowOf, Leg, Direction, Bucket

LEMMA SettlementTyped ==
    ASSUME NEW p \in Source, NEW fees, CalculationOK(fees)
    PROVE  BuildSettlementMovement(p, fees) \in Movement
  <1>1. DOMAIN fees.agents \subseteq Nat /\ \A a \in DOMAIN fees.agents : fees.agents[a] \in Int
    BY AgentsTyped
  <1>2. NetOf(p, fees) \in Int /\ fees.internal \in Int
    BY DEF NetOf, CalculationOK
  <1>3. Transfer(MerchantRow("PENDING"), MerchantRow("AVAILABLE"), NetOf(p, fees)) \subseteq Leg
    BY <1>2, MoneyAssumption, TransferTyped DEF MerchantRow, HolderType
  <1>4. Transfer(InternalRow("PENDING"), InternalRow("AVAILABLE"), fees.internal) \subseteq Leg
    BY <1>2, TransferTyped DEF InternalRow, HolderType
  <1>5. \A a \in DOMAIN fees.agents :
           Transfer(AgentRow(a, "PENDING"), AgentRow(a, "AVAILABLE"), fees.agents[a]) \subseteq Leg
    BY <1>1, TransferTyped DEF AgentRow, HolderType
  <1>6. BuildSettlementMovement(p, fees).legs \subseteq Leg
    BY <1>3, <1>4, <1>5 DEF BuildSettlementMovement, MovementOf
  <1>7. QED
    BY <1>6 DEF BuildSettlementMovement, MovementOf, Movement, Reason

LEMMA PayoutTyped ==
    ASSUME NEW d \in Source, NEW fees, CalculationOK(fees)
    PROVE  /\ BuildPayoutReserved(d, fees) \in Movement
           /\ BuildPayoutCompleted(d, fees) \in Movement
           /\ BuildPayoutFailed(d, fees) \in Movement
  <1>1. fees.net \in Int
    BY DEF CalculationOK
  <1>2. Earned(fees, "AVAILABLE") \subseteq Leg
    BY EarnedTyped DEF Bucket
  <1>3. \A bucket \in Bucket : /\ Credit(MerchantRow(bucket), fees.net) \in Leg
                               /\ Debit(MerchantRow(bucket), fees.net) \in Leg
    BY <1>1, MerchantLegTyped
  <1>4. BuildPayoutReserved(d, fees) \in Movement
    BY <1>3 DEF BuildPayoutReserved, MovementOf, Movement, Reason, Bucket
  <1>5. BuildPayoutCompleted(d, fees) \in Movement
    BY <1>2, <1>3 DEF BuildPayoutCompleted, MovementOf, Movement, Reason, Bucket
  <1>6. BuildPayoutFailed(d, fees) \in Movement
    BY <1>3 DEF BuildPayoutFailed, MovementOf, Movement, Reason, Bucket
  <1>7. QED
    BY <1>4, <1>5, <1>6

LEMMA PostTyped ==
    ASSUME MoneyOK, NEW s \in Source, NEW m \in Movement,
           NEW next \in {"PENDING", "SUCCESS", "FAILED", "SETTLED"},
           NEW fees, AnswerOK(fees), Post(s, m, next, fees)
    PROVE  MoneyOK'
  <1>1. CASE Valid(m)
    <2>1. /\ posted' = posted \cup {m}
          /\ status' = [status EXCEPT ![s] = next]
          /\ charged' = [charged EXCEPT ![s] = fees]
          /\ refused' = refused
      BY <1>1 DEF Post
    <2>2. QED
      BY <2>1 DEF MoneyOK
  <1>2. CASE ~Valid(m)
    <2>1. /\ refused' = [refused EXCEPT ![s] = {m}]
          /\ UNCHANGED <<posted, status, charged>>
      BY <1>2 DEF Post
    <2>2. QED
      BY <2>1 DEF MoneyOK
  <1>3. QED
    BY <1>1, <1>2

LEMMA InitTyped == Init => TypeOK
  <1> SUFFICES ASSUME Init
               PROVE  TypeOK
    OBVIOUS
  <1> USE DEF Init
  <1>1. FilesOK
    <2>1. DOMAIN cache = Key /\ \A k \in Key : cache[k] = {}
      OBVIOUS
    <2>2. DOMAIN stored = Key /\ \A k \in Key : stored[k] \subseteq Value(k) /\ AtMostOne(stored[k])
      BY MoneyAssumption
    <2>3. QED
      BY <2>1, <2>2 DEF FilesOK, AtMostOne
  <1>2. DOMAIN calculation = Source /\ \A s \in Source : StageOK(calculation[s])
    BY DEF StageOK
  <1>3. DOMAIN editor = Editors /\ \A e \in Editors : EditOK(editor[e])
    BY DEF EditOK
  <1>4. edits \in 0 .. MaxEdits
    BY MoneyAssumption
  <1>5. MoneyOK
    BY DEF MoneyOK, Uncharged, AnswerOK, AtMostOne
  <1>6. QED
    BY <1>1, <1>2, <1>3, <1>4, <1>5 DEF TypeOK

\* What a merchant's shareholders become are shares.
LEMMA MergedTyped ==
    ASSUME NEW old \in Shares, NEW dropped, NEW batch \in Shares
    PROVE  Merged(old, dropped, batch) \in Shares
  <1>1. PICK A \in SUBSET Agents : old \in [A -> 0 .. Whole]
    BY DEF Shares
  <1>2. PICK B \in SUBSET Agents : batch \in [B -> 0 .. Whole]
    BY DEF Shares
  <1>3. (A \ dropped) \cup B \in SUBSET Agents
    BY <1>1, <1>2
  <1>4. Merged(old, dropped, batch) \in [(A \ dropped) \cup B -> 0 .. Whole]
    BY <1>1, <1>2 DEF Merged
  <1>5. QED
    BY <1>3, <1>4 DEF Shares

\* A copy that is deleted, or set to a value, leaves the files in order.
LEMMA CacheTyped ==
    ASSUME FilesOK, NEW k \in Key, NEW value, value \subseteq Value(k), AtMostOne(value),
           \/ cache' = [cache EXCEPT ![k] = value]
           \/ UNCHANGED cache,
           UNCHANGED stored
    PROVE  FilesOK'
  BY DEF FilesOK

LEMMA NothingIsFine == \A k : {} \subseteq Value(k) /\ AtMostOne({})
  BY DEF AtMostOne

\* An edit that is written.
LEMMA WritesTyped ==
    ASSUME TypeOK, NEW e \in Editors, NEW k \in Key, NEW value,
           value \subseteq Value(k), AtMostOne(value), Writes(e, k, value)
    PROVE  /\ DOMAIN editor' = Editors /\ \A d \in Editors : EditOK(editor'[d])
           /\ edits' \in 0 .. MaxEdits
  <1>1. EditOK([at |-> "written", key |-> k, value |-> value])
    BY DEF EditOK, Writing
  <1>2. QED
    BY <1>1, MoneyAssumption DEF TypeOK, Writes, Edit

LEMMA EditTyped ==
    ASSUME TypeOK, NEW e \in Editors, NEW next, EditOK(next), Edit(e, next)
    PROVE  DOMAIN editor' = Editors /\ \A d \in Editors : EditOK(editor'[d])
  BY DEF TypeOK, Edit

LEMMA NextTyped == TypeOK /\ [Next]_vars => TypeOK'
  <1> SUFFICES ASSUME TypeOK, [Next]_vars
               PROVE  TypeOK'
    OBVIOUS
  <1> DEFINE StagesTyped == DOMAIN calculation = Source /\ \A s \in Source : StageOK(calculation[s])
             EditorsTyped == DOMAIN editor = Editors /\ \A e \in Editors : EditOK(editor[e])
             EditsTyped == edits \in 0 .. MaxEdits
  <1>0. FilesOK /\ StagesTyped /\ EditorsTyped /\ EditsTyped /\ MoneyOK
    BY DEF TypeOK
  <1>a. SUFFICES FilesOK' /\ StagesTyped' /\ EditorsTyped' /\ EditsTyped' /\ MoneyOK'
    BY DEF TypeOK
  <1>b. UNCHANGED configVars => FilesOK' /\ EditorsTyped' /\ EditsTyped'
    BY <1>0 DEF configVars, FilesOK
  <1>c. UNCHANGED moneyVars => MoneyOK'
    BY <1>0 DEF moneyVars, MoneyOK
  <1>d. UNCHANGED calculation => StagesTyped'
    BY <1>0
  <1>e. UNCHANGED editor => EditorsTyped'
    BY <1>0
  <1>1. ASSUME NEW s \in Source, CalculateFee(s)
        PROVE  FilesOK' /\ StagesTyped' /\ EditorsTyped' /\ EditsTyped' /\ MoneyOK'
    <2>1. KindOf(s) \in Key /\ {} \in SUBSET MerchantFee
      BY SourceFacts DEF Key
    <2>2. Get(s, KindOf(s), {})
      BY <1>1 DEF CalculateFee
    <2>3. StagesTyped'
      BY <2>1, <2>2, GetTyped
    <2>4. QED
      BY <2>2, <2>3, <1>b, <1>c DEF Get
  <1>2. ASSUME NEW s \in Source, GetAgentShareholder(s)
        PROVE  FilesOK' /\ StagesTyped' /\ EditorsTyped' /\ EditsTyped' /\ MoneyOK'
    <2>1. calculation[s].fee \in SUBSET MerchantFee
      <3>1. StageOK(calculation[s]) /\ calculation[s].at = "get"
        BY <1>0, <1>2 DEF GetAgentShareholder
      <3>2. QED
        BY <3>1 DEF StageOK, Idle, Asking, Filling
    <2>2. Get(s, "agents", calculation[s].fee)
      BY <1>2 DEF GetAgentShareholder
    <2>3. StagesTyped'
      BY <2>1, <2>2, GetTyped DEF Key
    <2>4. QED
      BY <2>2, <2>3, <1>b, <1>c DEF Get
  <1>3. ASSUME NEW s \in Source, Query(s)
        PROVE  FilesOK' /\ StagesTyped' /\ EditorsTyped' /\ EditsTyped' /\ MoneyOK'
    <2>1. PICK k \in Key : calculation[s] \in Asking(k)
      BY <1>0, <1>3 DEF Query, StageOK, Idle, Filling
    <2>2. calculation[s].key = k /\ calculation[s].fee \in SUBSET MerchantFee
      BY <2>1 DEF Asking
    <2>3. CASE stored[k] = {} /\ Answer(s, {})
      <3>1. StageOK([at |-> "answered", fees |-> {}])
        BY DEF StageOK, AnswerOK, AtMostOne
      <3>2. StagesTyped'
        BY <2>3, <3>1, StageMoves DEF Answer
      <3>3. QED
        BY <1>3, <3>2, <1>b, <1>c DEF Query
    <2>4. CASE \E value \in stored[k] :
                  Goto(s, [at |-> "set", key |-> k, fee |-> calculation[s].fee, value |-> value])
      <3>1. PICK value \in stored[k] :
                  Goto(s, [at |-> "set", key |-> k, fee |-> calculation[s].fee, value |-> value])
        BY <2>4
      <3>2. value \in Value(k)
        BY <1>0 DEF FilesOK
      <3>3. StageOK([at |-> "set", key |-> k, fee |-> calculation[s].fee, value |-> value])
        BY <2>2, <3>2 DEF StageOK, Filling
      <3>4. StagesTyped'
        BY <3>1, <3>3, StageMoves
      <3>5. QED
        BY <1>3, <3>4, <1>b, <1>c DEF Query
    <2>5. QED
      BY <1>3, <2>2, <2>3, <2>4 DEF Query
  <1>4. ASSUME NEW s \in Source, Set(s)
        PROVE  FilesOK' /\ StagesTyped' /\ EditorsTyped' /\ EditsTyped' /\ MoneyOK'
    <2>1. PICK k \in Key : calculation[s] \in Filling(k)
      BY <1>0, <1>4 DEF Set, StageOK, Idle, Asking
    <2>2. /\ calculation[s].key = k
          /\ calculation[s].fee \in SUBSET MerchantFee
          /\ calculation[s].value \in Value(k)
      BY <2>1 DEF Filling
    <2>3. /\ cache' = [cache EXCEPT ![k] = {calculation[s].value}]
          /\ Found(s, k, calculation[s].fee, calculation[s].value)
          /\ UNCHANGED <<stored, editor, edits, moneyVars>>
      BY <1>4, <2>2 DEF Set
    <2>4. StagesTyped'
      BY <2>2, <2>3, FoundTyped
    <2>5. FilesOK'
      <3>1. {calculation[s].value} \subseteq Value(k) /\ AtMostOne({calculation[s].value})
        BY <2>2 DEF AtMostOne
      <3>2. QED
        BY <1>0, <2>3, <3>1, CacheTyped
    <2>6. QED
      BY <1>0, <2>3, <2>4, <2>5, <1>c, <1>e
  <1>5. ASSUME NEW s \in Source, CalculationFails(s)
        PROVE  FilesOK' /\ StagesTyped' /\ EditorsTyped' /\ EditsTyped' /\ MoneyOK'
    <2>1. StageOK([at |-> "answered", fees |-> {}])
      BY DEF StageOK, AnswerOK, AtMostOne
    <2>2. StagesTyped'
      BY <1>5, <2>1, StageMoves DEF CalculationFails, Answer
    <2>3. QED
      BY <1>5, <2>2, <1>b, <1>c DEF CalculationFails
  <1>6. ASSUME NEW s \in Source, Capture(s)
        PROVE  FilesOK' /\ StagesTyped' /\ EditorsTyped' /\ EditsTyped' /\ MoneyOK'
    <2>1. AnswerOK(calculation[s].fees)
      BY <1>0, <1>6, AnswersTyped DEF Capture
    <2>2. MoneyOK'
      BY <1>0, <1>6, <2>1, PayinTyped, PostTyped DEF Capture
    <2>3. StagesTyped'
      BY <1>6, StageMoves DEF Capture, StageOK
    <2>4. QED
      BY <1>6, <2>2, <2>3, <1>b DEF Capture
  <1>7. ASSUME NEW s \in Source, CaptureFails(s)
        PROVE  FilesOK' /\ StagesTyped' /\ EditorsTyped' /\ EditsTyped' /\ MoneyOK'
    <2>1. StagesTyped'
      BY <1>7, StageMoves DEF CaptureFails, StageOK
    <2>2. QED
      BY <1>7, <2>1, <1>b, <1>c DEF CaptureFails
  <1>8. ASSUME NEW s \in Source, Settle(s)
        PROVE  FilesOK' /\ StagesTyped' /\ EditorsTyped' /\ EditsTyped' /\ MoneyOK'
    <2>1. PICK fees \in charged[s] :
              Post(s, BuildSettlementMovement(s, fees), "SETTLED", {fees})
      BY <1>8 DEF Settle
    <2>2. CalculationOK(fees) /\ AnswerOK({fees})
      BY <1>0 DEF MoneyOK, AnswerOK, AtMostOne
    <2>3. MoneyOK'
      BY <1>0, <2>1, <2>2, SettlementTyped, PostTyped
    <2>4. QED
      BY <1>8, <2>3, <1>b, <1>d DEF Settle
  <1>9. ASSUME NEW s \in Source, Reserve(s)
        PROVE  FilesOK' /\ StagesTyped' /\ EditorsTyped' /\ EditsTyped' /\ MoneyOK'
    <2>1. StagesTyped'
      BY <1>9, StageMoves DEF Reserve, StageOK
    <2>2. ASSUME NEW fees \in calculation[s].fees,
                 Post(s, BuildPayoutReserved(s, fees), "PENDING", {fees})
          PROVE  MoneyOK'
      <3>1. CalculationOK(fees) /\ AnswerOK({fees})
        BY <1>0, <1>9, AnswersTyped DEF Reserve, AnswerOK, AtMostOne
      <3>2. QED
        BY <1>0, <2>2, <3>1, PayoutTyped, PostTyped
    <2>3. MoneyOK'
      BY <1>9, <2>2, <1>c DEF Reserve
    <2>4. QED
      BY <1>9, <2>1, <2>3, <1>b DEF Reserve
  <1>10. ASSUME NEW s \in Source, NEW isPaid \in BOOLEAN, PostPayoutOutcome(s, isPaid)
         PROVE  FilesOK' /\ StagesTyped' /\ EditorsTyped' /\ EditsTyped' /\ MoneyOK'
    <2>1. PICK fees \in charged[s] :
              IF isPaid THEN Post(s, BuildPayoutCompleted(s, fees), "SUCCESS", {fees})
                        ELSE Post(s, BuildPayoutFailed(s, fees), "FAILED", {fees})
      BY <1>10 DEF PostPayoutOutcome
    <2>2. CalculationOK(fees) /\ AnswerOK({fees})
      BY <1>0 DEF MoneyOK, AnswerOK, AtMostOne
    <2>3. MoneyOK'
      BY <1>0, <2>1, <2>2, PayoutTyped, PostTyped
    <2>4. QED
      BY <1>10, <2>3, <1>b, <1>d DEF PostPayoutOutcome
  <1>11. ASSUME NEW e \in Editors, NEW k \in Kind, UpsertProvider(e, k)
         PROVE  FilesOK' /\ StagesTyped' /\ EditorsTyped' /\ EditsTyped' /\ MoneyOK'
    <2>1. PICK value \in FeeValues[k] : Writes(e, k, value)
      BY <1>11 DEF UpsertProvider
    <2>2. k \in Key /\ value \subseteq Value(k) /\ AtMostOne(value)
      BY MoneyAssumption DEF Key, Kind, Value
    <2>3. EditorsTyped' /\ EditsTyped'
      BY <2>1, <2>2, WritesTyped
    <2>4. FilesOK'
      BY <1>0, <1>11, <2>1, <2>2, CacheTyped, NothingIsFine DEF UpsertProvider, DeleteKey, Writes
    <2>5. QED
      BY <2>1, <2>3, <2>4, <1>c, <1>d DEF Writes
  <1>12. ASSUME NEW e \in Editors, NEW k \in Kind, DeleteProvider(e, k)
         PROVE  FilesOK' /\ StagesTyped' /\ EditorsTyped' /\ EditsTyped' /\ MoneyOK'
    <2>1. Writes(e, k, {}) /\ UNCHANGED cache
      BY <1>12 DEF DeleteProvider
    <2>2. EditorsTyped' /\ EditsTyped'
      BY <2>1, WritesTyped, NothingIsFine DEF Key
    <2>3. FilesOK'
      BY <1>0, <2>1 DEF Writes, FilesOK
    <2>4. QED
      BY <2>1, <2>2, <2>3, <1>c, <1>d DEF Writes
  <1>13. ASSUME NEW e \in Editors, OpenForm(e)
         PROVE  FilesOK' /\ StagesTyped' /\ EditorsTyped' /\ EditsTyped' /\ MoneyOK'
    <2>1. PICK shares \in stored["agents"] : Edit(e, [at |-> "form", shown |-> DOMAIN shares])
      BY <1>13 DEF OpenForm
    <2>2. shares \in Shares
      BY <1>0 DEF FilesOK, Key, Value
    <2>3. DOMAIN shares \in SUBSET Agents
      BY <2>2 DEF Shares
    <2>4. EditOK([at |-> "form", shown |-> DOMAIN shares])
      BY <2>3 DEF EditOK
    <2>5. EditorsTyped'
      BY <2>1, <2>4, EditTyped
    <2>6. FilesOK' /\ EditsTyped'
      BY <1>0, <1>13 DEF OpenForm, FilesOK
    <2>7. QED
      BY <1>13, <2>5, <2>6, <1>c, <1>d DEF OpenForm
  <1>14. ASSUME NEW e \in Editors, UpsertAgentShareholder(e)
         PROVE  FilesOK' /\ StagesTyped' /\ EditorsTyped' /\ EditsTyped' /\ MoneyOK'
    <2>1. PICK old \in stored["agents"], batch \in Batches :
              Writes(e, "agents", {Merged(old, editor[e].shown \ DOMAIN batch, batch)})
      BY <1>14 DEF UpsertAgentShareholder
    <2>2. old \in Shares /\ batch \in Shares
      BY <1>0, MoneyAssumption DEF FilesOK, Key, Value
    <2> DEFINE value == {Merged(old, editor[e].shown \ DOMAIN batch, batch)}
    <2>3. value \subseteq Value("agents") /\ AtMostOne(value)
      BY <2>2, MergedTyped DEF Value, AtMostOne
    <2>4. Writes(e, "agents", value) /\ "agents" \in Key
      BY <2>1 DEF Key
    <2> HIDE DEF value
    <2>5. EditorsTyped' /\ EditsTyped'
      BY <2>3, <2>4, WritesTyped
    <2>6. FilesOK'
      BY <1>0, <1>14, <2>4, CacheTyped, NothingIsFine
      DEF UpsertAgentShareholder, DeleteKey, Writes
    <2>7. QED
      BY <2>4, <2>5, <2>6, <1>c, <1>d DEF Writes
  <1>15. ASSUME NEW e \in Editors, CommitEdit(e)
         PROVE  FilesOK' /\ StagesTyped' /\ EditorsTyped' /\ EditsTyped' /\ MoneyOK'
    <2>1. PICK k \in Key : editor[e] \in Writing(k) /\ AtMostOne(editor[e].value)
      BY <1>0, <1>15 DEF CommitEdit, EditOK, Idle
    <2>2. editor[e].key = k /\ editor[e].value \subseteq Value(k)
      BY <2>1 DEF Writing
    <2>3. FilesOK'
      BY <1>0, <1>15, <2>1, <2>2 DEF CommitEdit, FilesOK
    <2>4. EditorsTyped' /\ EditsTyped'
      BY <1>0, <1>15, EditTyped DEF CommitEdit, EditOK
    <2>5. QED
      BY <1>15, <2>3, <2>4, <1>c, <1>d DEF CommitEdit
  <1>16. ASSUME NEW e \in Editors, EditFails(e)
         PROVE  FilesOK' /\ StagesTyped' /\ EditorsTyped' /\ EditsTyped' /\ MoneyOK'
    <2>1. FilesOK' /\ EditsTyped'
      BY <1>0, <1>16 DEF EditFails, FilesOK
    <2>2. EditorsTyped'
      BY <1>16, EditTyped DEF EditFails, EditOK
    <2>3. QED
      BY <1>16, <2>1, <2>2, <1>c, <1>d DEF EditFails
  <1>17. ASSUME NEW k \in Key, Expire(k)
         PROVE  FilesOK' /\ StagesTyped' /\ EditorsTyped' /\ EditsTyped' /\ MoneyOK'
    <2>1. FilesOK'
      BY <1>0, <1>17, CacheTyped, NothingIsFine DEF Expire
    <2>2. QED
      BY <1>0, <1>17, <2>1, <1>c, <1>d, <1>e DEF Expire
  <1>18. CASE UNCHANGED vars
    BY <1>18, <1>b, <1>c, <1>d DEF vars
  <1>19. QED
    BY <1>1, <1>2, <1>3, <1>4, <1>5, <1>6, <1>7, <1>8, <1>9, <1>10, <1>11, <1>12, <1>13, <1>14,
       <1>15, <1>16, <1>17, <1>18
    DEF Next, SourceStep, Advance, EditorStep

(***************************************************************************)
(* Whatever the fees, the amounts and the edits, the rows, the copies, the *)
(* calculations and the movements have their types (TypeOK).               *)
(***************************************************************************)
THEOREM TypeCorrect == Spec => []TypeOK
  <1>1. Init => TypeOK
    BY InitTyped
  <1>2. TypeOK /\ [Next]_vars => TypeOK'
    BY NextTyped
  <1>3. QED
    BY <1>1, <1>2, PTL DEF Spec

-----------------------------------------------------------------------------
(* What a settlement takes is what the capture gave, if that was valid.    *)

LEMMA LegFields ==
    ASSUME NEW row, NEW amount
    PROVE  /\ Credit(row, amount).row = row /\ Debit(row, amount).row = row
           /\ Credit(row, amount).amount = amount /\ Debit(row, amount).amount = amount
           /\ Credit(row, amount).direction = "CREDIT" /\ Debit(row, amount).direction = "DEBIT"
  BY DEF Credit, Debit

LEMMA RowFields ==
    ASSUME NEW bucket, NEW a
    PROVE  /\ MerchantRow(bucket).bucket = bucket
           /\ InternalRow(bucket).bucket = bucket
           /\ AgentRow(a, bucket).bucket = bucket
  BY DEF MerchantRow, InternalRow, AgentRow, RowOf

\* Valid amounts are positive.
LEMMA ValidPays ==
    ASSUME NEW p \in Source, NEW fees, CalculationOK(fees), Valid(BuildPayinMovement(p, {fees}))
    PROVE  fees.net > 0 /\ fees.internal > 0 /\ \A a \in DOMAIN fees.agents : fees.agents[a] > 0
  <1> DEFINE legs == BuildPayinMovement(p, {fees}).legs
  <1>1. legs = {Credit(MerchantRow("PENDING"), fees.net)} \cup Earned(fees, "PENDING")
    BY DEF BuildPayinMovement, MovementOf
  <1>2. \A l \in legs : l.amount > 0
    BY DEF Valid
  <1> HIDE DEF legs
  <1>3. fees.net > 0
    <2>1. Credit(MerchantRow("PENDING"), fees.net).amount > 0
      BY <1>1, <1>2
    <2>2. QED
      BY <2>1, LegFields
  <1>4. fees.internal > 0
    <2>1. Credit(InternalRow("PENDING"), fees.internal) \in legs
      BY <1>1 DEF Earned
    <2>2. Credit(InternalRow("PENDING"), fees.internal).amount > 0
      BY <1>2, <2>1
    <2>3. QED
      BY <2>2, LegFields
  <1>5. ASSUME NEW a \in DOMAIN fees.agents
        PROVE  fees.agents[a] > 0
    <2>1. Credit(AgentRow(a, "PENDING"), fees.agents[a]) \in legs
      BY <1>1 DEF Earned
    <2>2. Credit(AgentRow(a, "PENDING"), fees.agents[a]).amount > 0
      BY <1>2, <2>1
    <2>3. QED
      BY <2>2, LegFields
  <1>6. QED
    BY <1>3, <1>4, <1>5

LEMMA SettlementMirrorsPayin ==
    ASSUME NEW p \in Source, NEW fees, CalculationOK(fees), Valid(BuildPayinMovement(p, {fees}))
    PROVE  Into(BuildPayinMovement(p, {fees}), "PENDING") = OutOf(BuildSettlementMovement(p, fees), "PENDING")
  <1> DEFINE given == {Credit(MerchantRow("PENDING"), fees.net), Credit(InternalRow("PENDING"), fees.internal)}
                        \cup {Credit(AgentRow(a, "PENDING"), fees.agents[a]) : a \in DOMAIN fees.agents}
             taken == {Debit(MerchantRow("PENDING"), fees.net), Debit(InternalRow("PENDING"), fees.internal)}
                        \cup {Debit(AgentRow(a, "PENDING"), fees.agents[a]) : a \in DOMAIN fees.agents}
             shares == {<<MerchantRow("PENDING"), fees.net>>, <<InternalRow("PENDING"), fees.internal>>}
                         \cup {<<AgentRow(a, "PENDING"), fees.agents[a]>> : a \in DOMAIN fees.agents}
             m == BuildPayinMovement(p, {fees})
             n == BuildSettlementMovement(p, fees)
  <1>1. fees.net > 0 /\ fees.internal > 0 /\ \A a \in DOMAIN fees.agents : fees.agents[a] > 0
    BY ValidPays
  <1>2. fees.net \in Int /\ fees.internal \in Int /\ \A a \in DOMAIN fees.agents : fees.agents[a] \in Int
    BY AgentsTyped DEF CalculationOK
  <1>3. m.legs = given
    BY DEF BuildPayinMovement, MovementOf, Earned
  <1>4. \A amount \in Int : \A from, to : amount > 0 =>
            Transfer(from, to, amount) = {Debit(from, amount), Credit(to, amount)}
    BY DEF Transfer
  <1>5. /\ Transfer(MerchantRow("PENDING"), MerchantRow("AVAILABLE"), fees.net)
             = {Debit(MerchantRow("PENDING"), fees.net), Credit(MerchantRow("AVAILABLE"), fees.net)}
        /\ Transfer(InternalRow("PENDING"), InternalRow("AVAILABLE"), fees.internal)
             = {Debit(InternalRow("PENDING"), fees.internal), Credit(InternalRow("AVAILABLE"), fees.internal)}
        /\ \A a \in DOMAIN fees.agents :
              Transfer(AgentRow(a, "PENDING"), AgentRow(a, "AVAILABLE"), fees.agents[a])
                = {Debit(AgentRow(a, "PENDING"), fees.agents[a]), Credit(AgentRow(a, "AVAILABLE"), fees.agents[a])}
    BY <1>1, <1>2, <1>4
  <1>6. \A l : l \in n.legs /\ l.direction = "DEBIT" <=> l \in taken
    <2>1. n.legs = Transfer(MerchantRow("PENDING"), MerchantRow("AVAILABLE"), fees.net)
                     \cup Transfer(InternalRow("PENDING"), InternalRow("AVAILABLE"), fees.internal)
                     \cup UNION {Transfer(AgentRow(a, "PENDING"), AgentRow(a, "AVAILABLE"), fees.agents[a]) :
                                    a \in DOMAIN fees.agents}
      BY DEF BuildSettlementMovement, MovementOf, NetOf
    <2>2. \A l \in taken : l \in n.legs /\ l.direction = "DEBIT"
      <3>1. Debit(MerchantRow("PENDING"), fees.net) \in n.legs
        BY <2>1, <1>5
      <3>2. Debit(InternalRow("PENDING"), fees.internal) \in n.legs
        BY <2>1, <1>5
      <3>3. ASSUME NEW a \in DOMAIN fees.agents
            PROVE  Debit(AgentRow(a, "PENDING"), fees.agents[a]) \in n.legs
        BY <2>1, <1>5
      <3>4. \A l \in taken : l.direction = "DEBIT"
        BY LegFields
      <3>5. QED
        BY <3>1, <3>2, <3>3, <3>4
    <2>3. \A l \in n.legs : l.direction = "DEBIT" => l \in taken
      BY <2>1, <1>5, LegFields
    <2>4. QED
      BY <2>2, <2>3
  <1>7. Into(m, "PENDING") = shares
    <2>1. \A l \in given : l.direction = "CREDIT" /\ l.row.bucket = "PENDING"
      BY LegFields, RowFields
    <2>2. \A x : x \in Into(m, "PENDING") <=> \E l \in given : x = <<l.row, l.amount>>
      BY <1>3, <2>1 DEF Into
    <2>3. \A x : (\E l \in given : x = <<l.row, l.amount>>) <=> x \in shares
      BY LegFields
    <2> HIDE DEF given, shares, m
    <2>4. QED
      BY <2>2, <2>3
  <1>8. OutOf(n, "PENDING") = shares
    <2>1. \A l \in taken : l.row.bucket = "PENDING"
      BY LegFields, RowFields
    <2> HIDE DEF taken, n
    <2>2. \A x : x \in OutOf(n, "PENDING") <=> \E l \in taken : x = <<l.row, l.amount>>
      BY <1>6, <2>1 DEF OutOf
    <2>3. \A x : (\E l \in taken : x = <<l.row, l.amount>>) <=> x \in shares
      BY LegFields DEF taken
    <2> HIDE DEF shares
    <2>4. QED
      BY <2>2, <2>3
  <1>9. QED
    BY <1>7, <1>8

\* What either outcome of a payout takes is what was reserved.
LEMMA OutcomeMirrorsReservation ==
    ASSUME NEW d \in Source, NEW fees
    PROVE  /\ Into(BuildPayoutReserved(d, fees), "RESERVED") = OutOf(BuildPayoutCompleted(d, fees), "RESERVED")
           /\ Into(BuildPayoutReserved(d, fees), "RESERVED") = OutOf(BuildPayoutFailed(d, fees), "RESERVED")
  <1> DEFINE share == {<<MerchantRow("RESERVED"), fees.net>>}
             put == Credit(MerchantRow("RESERVED"), fees.net)
             got == Debit(MerchantRow("RESERVED"), fees.net)
  <1>1. \A l : l \in BuildPayoutReserved(d, fees).legs /\ l.direction = "CREDIT" <=> l = put
    BY LegFields DEF BuildPayoutReserved, MovementOf
  <1>2. \A l : l \in BuildPayoutFailed(d, fees).legs /\ l.direction = "DEBIT" <=> l = got
    BY LegFields DEF BuildPayoutFailed, MovementOf
  <1>3. \A l : l \in BuildPayoutCompleted(d, fees).legs /\ l.direction = "DEBIT" <=> l = got
    <2>1. \A l \in Earned(fees, "AVAILABLE") : l.direction = "CREDIT"
      BY LegFields DEF Earned
    <2>2. QED
      BY <2>1, LegFields DEF BuildPayoutCompleted, MovementOf
  <1>4. put.row.bucket = "RESERVED" /\ got.row.bucket = "RESERVED"
    BY LegFields, RowFields
  <1>5. <<put.row, put.amount>> = <<MerchantRow("RESERVED"), fees.net>>
    BY LegFields
  <1>6. <<got.row, got.amount>> = <<MerchantRow("RESERVED"), fees.net>>
    BY LegFields
  <1> HIDE DEF put, got
  <1>7. Into(BuildPayoutReserved(d, fees), "RESERVED") = share
    BY <1>1, <1>4, <1>5 DEF Into
  <1>8. OutOf(BuildPayoutFailed(d, fees), "RESERVED") = share
    BY <1>2, <1>4, <1>6 DEF OutOf
  <1>9. OutOf(BuildPayoutCompleted(d, fees), "RESERVED") = share
    BY <1>3, <1>4, <1>6 DEF OutOf
  <1>10. QED
    BY <1>7, <1>8, <1>9

-----------------------------------------------------------------------------
(* Nothing is left in PENDING or RESERVED.                                 *)

\* No fee is worked out for what has been posted.
CallsOK ==
    \A s \in Source : calculation[s] # Idle => status[s] = Uncharged(s)

\* What is to be settled was captured with its fees, and what is to have an
\* outcome was reserved with them.
BookedOK ==
    \A s \in Source :
        /\ s \in Purchases /\ status[s] = "SUCCESS" =>
              /\ Valid(BuildPayinMovement(s, charged[s]))
              /\ BuildPayinMovement(s, charged[s]) \in posted
        /\ s \in Payouts /\ status[s] = "PENDING" =>
              \A fees \in charged[s] : BuildPayoutReserved(s, fees) \in posted

FlowInv == TypeOK /\ CallsOK /\ BookedOK /\ NoResidue

LEMMA ResidueUnchanged ==
    ASSUME NoResidue, posted' = posted
    PROVE  NoResidue'
  BY DEF NoResidue, EmptiedBy

\* One more movement leaves nothing behind if it empties what it should.
LEMMA ResidueExtends ==
    ASSUME NoResidue, NEW m, posted' = posted \cup {m},
           m.reason = "MERCHANT_SETTLED" => EmptiedBy(m, "PAYIN_CAPTURED", "PENDING"),
           m.reason \in {"PAYOUT_COMPLETED", "PAYOUT_FAILED"} =>
              EmptiedBy(m, "PAYOUT_RESERVED", "RESERVED")
    PROVE  NoResidue'
  <1>1. ASSUME NEW k \in posted'
        PROVE  /\ k.reason = "MERCHANT_SETTLED" => EmptiedBy(k, "PAYIN_CAPTURED", "PENDING")
               /\ k.reason \in {"PAYOUT_COMPLETED", "PAYOUT_FAILED"} =>
                     EmptiedBy(k, "PAYOUT_RESERVED", "RESERVED")
    BY DEF NoResidue
  <1>2. \A k, reason, bucket : EmptiedBy(k, reason, bucket) =>
            \E j \in posted' : /\ j.reason = reason /\ j.source = k.source
                               /\ Into(j, bucket) = OutOf(k, bucket)
    BY DEF EmptiedBy
  <1>3. QED
    BY <1>1, <1>2 DEF NoResidue, EmptiedBy

LEMMA FoundGoes ==
    ASSUME NEW s, NEW k, NEW fees, NEW value, Found(s, k, fees, value)
    PROVE  \E next : Goto(s, next)
  BY DEF Found, FoundFee, Answer

\* A step of a calculation moves nothing but itself.
LEMMA CalculationGoes ==
    ASSUME NEW s \in Source, CalculateFee(s) \/ Advance(s) \/ CaptureFails(s)
    PROVE  /\ UNCHANGED moneyVars
           /\ \E next : Goto(s, next)
           /\ calculation[s] = Idle => status[s] = Uncharged(s)
  <1>1. CASE CalculateFee(s)
    <2>1. \E next : Goto(s, next)
      BY <1>1, FoundGoes DEF CalculateFee, Get
    <2>2. QED
      BY <1>1, <2>1 DEF CalculateFee, Get
  <1>2. CASE GetAgentShareholder(s)
    <2>1. \E next : Goto(s, next)
      BY <1>2, FoundGoes DEF GetAgentShareholder, Get
    <2>2. QED
      BY <1>2, <2>1 DEF GetAgentShareholder, Get, Idle
  <1>3. CASE Query(s)
    <2>1. \E next : Goto(s, next)
      BY <1>3 DEF Query, Answer
    <2>2. QED
      BY <1>3, <2>1 DEF Query, Idle
  <1>4. CASE Set(s)
    <2>1. \E next : Goto(s, next)
      BY <1>4, FoundGoes DEF Set
    <2>2. QED
      BY <1>4, <2>1 DEF Set, Idle
  <1>5. CASE CalculationFails(s)
    BY <1>5 DEF CalculationFails, Answer, Idle
  <1>6. CASE CaptureFails(s)
    BY <1>6 DEF CaptureFails, Idle
  <1>7. QED
    BY <1>1, <1>2, <1>3, <1>4, <1>5, <1>6 DEF Advance

LEMMA CallsKept ==
    ASSUME TypeOK, CallsOK, NEW s \in Source, NEW next, Goto(s, next),
           status' = status, calculation[s] = Idle => status[s] = Uncharged(s)
    PROVE  CallsOK'
  BY DEF TypeOK, CallsOK, Goto, Uncharged

LEMMA BookedKept ==
    ASSUME BookedOK, UNCHANGED moneyVars
    PROVE  BookedOK'
  BY DEF BookedOK, moneyVars

\* What Post does, and to whom.
LEMMA PostFacts ==
    ASSUME MoneyOK, NEW s \in Source, NEW m, NEW next, NEW fees, Post(s, m, next, fees)
    PROVE  \/ UNCHANGED <<posted, status, charged>>
           \/ /\ Valid(m)
              /\ posted' = posted \cup {m}
              /\ status'[s] = next /\ charged'[s] = fees
              /\ \A t \in Source \ {s} : status'[t] = status[t] /\ charged'[t] = charged[t]
  BY DEF Post, MoneyOK

LEMMA BookedExtends ==
    ASSUME BookedOK, NEW s \in Source, posted \subseteq posted',
           \A t \in Source \ {s} : status'[t] = status[t] /\ charged'[t] = charged[t],
           s \in Purchases /\ status'[s] = "SUCCESS" =>
              /\ Valid(BuildPayinMovement(s, charged'[s]))
              /\ BuildPayinMovement(s, charged'[s]) \in posted',
           s \in Payouts /\ status'[s] = "PENDING" =>
              \A fees \in charged'[s] : BuildPayoutReserved(s, fees) \in posted'
    PROVE  BookedOK'
  BY DEF BookedOK

LEMMA NextFlow ==
    ASSUME FlowInv, [Next]_vars
    PROVE  CallsOK' /\ BookedOK' /\ NoResidue'
  <1>0. TypeOK /\ MoneyOK /\ CallsOK /\ BookedOK /\ NoResidue
    BY DEF FlowInv, TypeOK
  <1>a. ASSUME UNCHANGED moneyVars
        PROVE  BookedOK' /\ NoResidue'
    BY <1>0, <1>a, BookedKept, ResidueUnchanged DEF moneyVars
  <1>b. ASSUME UNCHANGED moneyVars, UNCHANGED calculation
        PROVE  CallsOK'
    BY <1>0, <1>b DEF CallsOK, moneyVars
  \* A transaction for s that posts m, after which no fee is being worked out.
  <1>c. ASSUME NEW s \in Source, NEW m, NEW next, NEW fees, Post(s, m, next, fees),
               calculation' = calculation \/ Goto(s, Idle),
               calculation'[s] = Idle
        PROVE  CallsOK'
    <2>1. \A t \in Source \ {s} : status'[t] = status[t] /\ calculation'[t] = calculation[t]
      BY <1>0, <1>c, PostFacts DEF Goto, TypeOK
    <2>2. QED
      BY <1>0, <1>c, <2>1 DEF CallsOK, Uncharged
  <1>1. ASSUME NEW s \in Source, CalculateFee(s) \/ Advance(s) \/ CaptureFails(s)
        PROVE  CallsOK' /\ BookedOK' /\ NoResidue'
    <2>1. UNCHANGED moneyVars /\ CallsOK'
      BY <1>0, <1>1, CalculationGoes, CallsKept DEF moneyVars
    <2>2. QED
      BY <2>1, <1>a
  <1>2. ASSUME NEW s \in Source, Capture(s)
        PROVE  CallsOK' /\ BookedOK' /\ NoResidue'
    <2> DEFINE fees == calculation[s].fees
               m == BuildPayinMovement(s, fees)
    <2>1. Post(s, m, "SUCCESS", fees) /\ Goto(s, Idle) /\ s \in Purchases
      BY <1>2 DEF Capture
    <2>2. s \notin Payouts /\ m.reason = "PAYIN_CAPTURED"
      BY <2>1, MoneyAssumption DEF BuildPayinMovement, MovementOf
    <2>3. calculation'[s] = Idle
      BY <1>0, <2>1 DEF Goto, TypeOK
    <2>4. CallsOK'
      BY <2>1, <2>3, <1>c
    <2>5. CASE UNCHANGED <<posted, status, charged>>
      <3>1. BookedOK'
        BY <1>0, <2>5 DEF BookedOK
      <3>2. QED
        BY <1>0, <2>4, <2>5, <3>1, ResidueUnchanged
    <2>6. CASE /\ Valid(m)
               /\ posted' = posted \cup {m}
               /\ status'[s] = "SUCCESS" /\ charged'[s] = fees
               /\ \A t \in Source \ {s} : status'[t] = status[t] /\ charged'[t] = charged[t]
      <3>1. BookedOK'
        BY <1>0, <2>2, <2>6, BookedExtends
      <3>2. NoResidue'
        BY <1>0, <2>2, <2>6, ResidueExtends
      <3>3. QED
        BY <2>4, <3>1, <3>2
    <2>7. QED
      BY <1>0, <2>1, <2>5, <2>6, PostFacts
  <1>3. ASSUME NEW s \in Source, Settle(s)
        PROVE  CallsOK' /\ BookedOK' /\ NoResidue'
    <2>1. PICK fees \in charged[s] :
              Post(s, BuildSettlementMovement(s, fees), "SETTLED", {fees})
      BY <1>3 DEF Settle
    <2> DEFINE m == BuildSettlementMovement(s, fees)
               k == BuildPayinMovement(s, {fees})
    <2>2. s \in Purchases /\ status[s] = "SUCCESS" /\ calculation' = calculation
      BY <1>3 DEF Settle
    <2>3. charged[s] = {fees} /\ CalculationOK(fees)
      BY <1>0 DEF MoneyOK, AnswerOK, AtMostOne
    <2>4. Valid(k) /\ k \in posted
      BY <1>0, <2>2, <2>3 DEF BookedOK
    <2>5. /\ m.reason = "MERCHANT_SETTLED" /\ m.source = s
          /\ k.reason = "PAYIN_CAPTURED" /\ k.source = s
      BY DEF BuildSettlementMovement, BuildPayinMovement, MovementOf
    <2>6. EmptiedBy(m, "PAYIN_CAPTURED", "PENDING")
      BY <2>3, <2>4, <2>5, SettlementMirrorsPayin DEF EmptiedBy
    <2>7. CallsOK'
      <3>1. calculation[s] = Idle
        BY <1>0, <2>2 DEF CallsOK, Uncharged
      <3>2. QED
        BY <2>1, <2>2, <3>1, <1>c
    <2>8. CASE UNCHANGED <<posted, status, charged>>
      <3>1. BookedOK'
        BY <1>0, <2>8 DEF BookedOK
      <3>2. QED
        BY <1>0, <2>7, <2>8, <3>1, ResidueUnchanged
    <2>9. CASE /\ posted' = posted \cup {m}
               /\ status'[s] = "SETTLED"
               /\ \A t \in Source \ {s} : status'[t] = status[t] /\ charged'[t] = charged[t]
      <3>1. BookedOK'
        BY <1>0, <2>9, BookedExtends
      <3>2. NoResidue'
        BY <1>0, <2>5, <2>6, <2>9, ResidueExtends
      <3>3. QED
        BY <2>7, <3>1, <3>2
    <2>10. QED
      BY <1>0, <2>1, <2>8, <2>9, PostFacts
  <1>4. ASSUME NEW s \in Source, Reserve(s)
        PROVE  CallsOK' /\ BookedOK' /\ NoResidue'
    <2>1. s \in Payouts /\ s \notin Purchases /\ Goto(s, Idle)
      BY <1>4, MoneyAssumption DEF Reserve
    <2>2. calculation'[s] = Idle
      BY <1>0, <2>1 DEF Goto, TypeOK
    <2>3. CASE UNCHANGED moneyVars
      <3>1. CallsOK'
        BY <1>0, <2>1, <2>2, <2>3 DEF CallsOK, Goto, moneyVars, TypeOK
      <3>2. QED
        BY <2>3, <3>1, <1>a
    <2>4. ASSUME NEW fees \in calculation[s].fees,
                 Post(s, BuildPayoutReserved(s, fees), "PENDING", {fees})
          PROVE  CallsOK' /\ BookedOK' /\ NoResidue'
      <3> DEFINE m == BuildPayoutReserved(s, fees)
      <3>1. CallsOK'
        BY <2>1, <2>2, <2>4, <1>c
      <3>2. m.reason = "PAYOUT_RESERVED"
        BY DEF BuildPayoutReserved, MovementOf
      <3>3. CASE UNCHANGED <<posted, status, charged>>
        <4>1. BookedOK'
          BY <1>0, <3>3 DEF BookedOK
        <4>2. QED
          BY <1>0, <3>1, <3>3, <4>1, ResidueUnchanged
      <3>4. CASE /\ posted' = posted \cup {m}
                 /\ status'[s] = "PENDING" /\ charged'[s] = {fees}
                 /\ \A t \in Source \ {s} : status'[t] = status[t] /\ charged'[t] = charged[t]
        <4>1. BookedOK'
          BY <1>0, <2>1, <3>4, BookedExtends
        <4>2. NoResidue'
          BY <1>0, <3>2, <3>4, ResidueExtends
        <4>3. QED
          BY <3>1, <4>1, <4>2
      <3>5. QED
        BY <1>0, <2>4, <3>3, <3>4, PostFacts
    <2>5. QED
      BY <1>4, <2>3, <2>4 DEF Reserve
  <1>5. ASSUME NEW s \in Source, NEW isPaid \in BOOLEAN, PostPayoutOutcome(s, isPaid)
        PROVE  CallsOK' /\ BookedOK' /\ NoResidue'
    <2>1. /\ s \in Payouts /\ s \notin Purchases
          /\ status[s] = "PENDING" /\ calculation' = calculation
      BY <1>5, MoneyAssumption DEF PostPayoutOutcome
    <2>2. PICK fees \in charged[s] :
              \/ Post(s, BuildPayoutCompleted(s, fees), "SUCCESS", {fees})
              \/ Post(s, BuildPayoutFailed(s, fees), "FAILED", {fees})
      BY <1>5 DEF PostPayoutOutcome
    <2>3. calculation[s] = Idle
      BY <1>0, <2>1 DEF CallsOK, Uncharged
    <2>4. BuildPayoutReserved(s, fees) \in posted
      BY <1>0, <2>1 DEF BookedOK
    <2>5. ASSUME NEW m \in {BuildPayoutCompleted(s, fees), BuildPayoutFailed(s, fees)},
                 NEW next \in {"SUCCESS", "FAILED"}, Post(s, m, next, {fees})
          PROVE  CallsOK' /\ BookedOK' /\ NoResidue'
      <3>1. CallsOK'
        BY <2>1, <2>3, <2>5, <1>c
      <3>2. /\ m.reason \in {"PAYOUT_COMPLETED", "PAYOUT_FAILED"} /\ m.source = s
            /\ BuildPayoutReserved(s, fees).reason = "PAYOUT_RESERVED"
            /\ BuildPayoutReserved(s, fees).source = s
        BY DEF BuildPayoutCompleted, BuildPayoutFailed, BuildPayoutReserved, MovementOf
      <3>3. EmptiedBy(m, "PAYOUT_RESERVED", "RESERVED")
        BY <2>4, <3>2, OutcomeMirrorsReservation DEF EmptiedBy
      <3>4. CASE UNCHANGED <<posted, status, charged>>
        <4>1. BookedOK'
          BY <1>0, <3>4 DEF BookedOK
        <4>2. QED
          BY <1>0, <3>1, <3>4, <4>1, ResidueUnchanged
      <3>5. CASE /\ posted' = posted \cup {m}
                 /\ status'[s] = next
                 /\ \A t \in Source \ {s} : status'[t] = status[t] /\ charged'[t] = charged[t]
        <4>1. BookedOK'
          BY <1>0, <2>1, <3>5, BookedExtends
        <4>2. NoResidue'
          BY <1>0, <3>2, <3>3, <3>5, ResidueExtends
        <4>3. QED
          BY <3>1, <4>1, <4>2
      <3>6. QED
        BY <1>0, <2>5, <3>4, <3>5, PostFacts
    <2>6. QED
      BY <2>2, <2>5
  <1>6. ASSUME NEW e \in Editors, EditorStep(e)
        PROVE  CallsOK' /\ BookedOK' /\ NoResidue'
    <2>1. UNCHANGED moneyVars /\ UNCHANGED calculation
      BY <1>6 DEF EditorStep, UpsertProvider, DeleteProvider, OpenForm, UpsertAgentShareholder,
                  CommitEdit, EditFails, Writes
    <2>2. QED
      BY <2>1, <1>a, <1>b
  <1>7. ASSUME NEW k \in Key, Expire(k)
        PROVE  CallsOK' /\ BookedOK' /\ NoResidue'
    BY <1>7, <1>a, <1>b DEF Expire
  <1>8. CASE UNCHANGED vars
    BY <1>8, <1>a, <1>b DEF vars
  <1>9. QED
    BY <1>1, <1>2, <1>3, <1>4, <1>5, <1>6, <1>7, <1>8 DEF Next, SourceStep

LEMMA InitFlow == Init => FlowInv
  <1> SUFFICES ASSUME Init
               PROVE  FlowInv
    OBVIOUS
  <1>1. TypeOK
    BY InitTyped
  <1>2. CallsOK /\ NoResidue
    BY DEF Init, CallsOK, NoResidue
  <1>3. BookedOK
    BY DEF Init, BookedOK, Uncharged
  <1>4. QED
    BY <1>1, <1>2, <1>3 DEF FlowInv

(***************************************************************************)
(* A settlement takes from PENDING exactly what the capture put there, and *)
(* the outcome of a payout from RESERVED exactly what was reserved, for    *)
(* any amounts, fees, shareholders and edits in between (NoResidue).       *)
(***************************************************************************)
THEOREM NeverAnyResidue == Spec => []NoResidue
  <1>1. Init => FlowInv
    BY InitFlow
  <1>2. FlowInv /\ [Next]_vars => FlowInv'
    BY NextTyped, NextFlow DEF FlowInv
  <1>3. FlowInv => NoResidue
    BY DEF FlowInv
  <1>4. QED
    BY <1>1, <1>2, <1>3, PTL DEF Spec

-----------------------------------------------------------------------------
(* Money adds up: what a movement books, and of which fees it is built.    *)

SignedOf(L) == MapThenSumSet(Signed, L)

LEMMA SignedOfNone == SignedOf({}) = 0
  <1>1. SignedOf({}) = Sum([l \in {} |-> Signed(l)], {})
    BY FS_EmptySet, SignedSum DEF SignedOf
  <1>2. QED
    BY <1>1, SumOfNone

LEMMA SignedWithOne ==
    ASSUME NEW S, IsFiniteSet(S), NEW x, x \notin S, \A l \in S \cup {x} : Signed(l) \in Int
    PROVE  /\ SignedOf(S) \in Int
           /\ SignedOf(S \cup {x}) = SignedOf(S) + Signed(x)
  <1> DEFINE T == S \cup {x}
             w == [l \in T |-> Signed(l)]
             v == [l \in S |-> Signed(l)]
  <1>1. IsFiniteSet(T)
    BY FS_AddElement
  <1>2. SignedOf(T) = Sum(w, T) /\ SignedOf(S) = Sum(v, S)
    BY <1>1, SignedSum DEF SignedOf
  <1>3. /\ \A l \in T : w[l] \in Int
        /\ \A l \in S : w[l] = v[l]
        /\ w[x] = Signed(x)
    OBVIOUS
  <1> HIDE DEF w, v
  <1>4. Sum(w, S) = Sum(v, S)
    <2>1. PICK g : IsSums(g, w, S) /\ Sum(w, S) = g[S]
      BY SumIs
    <2>2. PICK h : IsSums(h, v, S) /\ Sum(v, S) = h[S]
      BY SumIs
    <2>3. g[S] = h[S]
      BY <1>3, <2>1, <2>2, SumsUnique
    <2>4. QED
      BY <2>1, <2>2, <2>3
  <1>5. Sum(w, S) \in Int /\ Sum(w, S \cup {x}) = Sum(w, S) + w[x]
    BY <1>3, SumWithOne
  <1>6. QED
    BY <1>2, <1>3, <1>4, <1>5

LEMMA SignedLegs ==
    ASSUME NEW row, NEW amount \in Int
    PROVE  /\ Signed(Credit(row, amount)) = amount /\ Signed(Debit(row, amount)) = -amount
           /\ Signed(Credit(row, amount)) \in Int /\ Signed(Debit(row, amount)) \in Int
  BY DEF Credit, Debit, Signed

LEMMA HoldersDiffer ==
    ASSUME NEW b, NEW c, NEW d, NEW a
    PROVE  /\ MerchantRow(b) # InternalRow(c) /\ MerchantRow(b) # AgentRow(a, d)
           /\ InternalRow(c) # AgentRow(a, d)
           /\ \A o : AgentRow(a, d) = AgentRow(o, d) => a = o
  BY DEF MerchantRow, InternalRow, AgentRow, RowOf

\* The house and the agents earn the sum of their shares.
LEMMA EarnedSum ==
    ASSUME NEW fees, CalculationOK(fees), NEW bucket
    PROVE  /\ IsFiniteSet(Earned(fees, bucket))
           /\ fees.internal \in Int /\ SumOf(fees.agents) \in Int
           /\ SignedOf(Earned(fees, bucket)) = fees.internal + SumOf(fees.agents)
           /\ \A l \in Earned(fees, bucket) : Signed(l) \in Int
  <1> DEFINE agents == fees.agents
             D == DOMAIN agents
             house == Credit(InternalRow(bucket), fees.internal)
             leg(a) == Credit(AgentRow(a, bucket), agents[a])
             legs(B) == {house} \cup {leg(a) : a \in B}
             Good(B) == /\ IsFiniteSet(legs(B))
                        /\ Sum(agents, B) \in Int
                        /\ SignedOf(legs(B)) = fees.internal + Sum(agents, B)
             C == {B \in SUBSET D : ~Good(B)}
  <1>1. fees.internal \in Int /\ \A a \in D : agents[a] \in Int
    BY AgentsTyped DEF CalculationOK
  <1>2. IsFiniteSet(D)
    <2>1. fees.parts \in Shares /\ fees.agents \in [DOMAIN fees.parts -> Nat]
      BY DEF CalculationOK
    <2>2. D = DOMAIN fees.parts /\ D \subseteq Agents
      BY <2>1 DEF Shares
    <2>3. QED
      BY <2>2, FeeAssumption, FS_Subset
  <1>3. /\ Signed(house) = fees.internal
        /\ \A a \in D : Signed(leg(a)) = agents[a] /\ leg(a) # house
        /\ \A a, o \in D : leg(a) = leg(o) => a = o
    BY <1>1, SignedLegs, LegFields, HoldersDiffer
  <1>4. \A B \in SUBSET D : \A l \in legs(B) : Signed(l) \in Int
    BY <1>1, <1>3
  <1> HIDE DEF house, leg, agents
  <1>5. C = {}
    <2>1. SUFFICES ASSUME C # {} PROVE FALSE
      OBVIOUS
    <2>2. PICK B \in C : \A a \in B : B \ {a} \notin C
      <3>. C \in SUBSET (SUBSET D)
        OBVIOUS
      <3>. HIDE DEF C, D
      <3>. QED
        BY <1>2, <2>1, LeastSubset
    <2>3. B \subseteq D /\ ~Good(B)
      OBVIOUS
    <2>4. CASE B = {}
      <3>1. legs(B) = {} \cup {house} /\ legs(B) = {house}
        BY <2>4
      <3>2. SignedOf({} \cup {house}) = SignedOf({}) + Signed(house)
        BY <1>1, <1>3, FS_EmptySet, SignedWithOne
      <3> HIDE DEF legs
      <3>3. SignedOf(legs(B)) = fees.internal
        <4>1. SignedOf(legs(B)) = SignedOf({}) + Signed(house)
          BY <3>1, <3>2
        <4>2. QED
          BY <1>1, <1>3, <4>1, SignedOfNone
      <3>4. Sum(agents, B) = 0 /\ IsFiniteSet(legs(B))
        BY <2>4, <3>1, SumOfNone, FS_Singleton
      <3>5. Good(B)
        BY <1>1, <3>3, <3>4
      <3>6. QED
        BY <2>3, <3>5
    <2>5. CASE B # {}
      <3>1. PICK a \in B : TRUE
        BY <2>5
      <3> DEFINE E == B \ {a}
      <3>2. /\ E \subseteq D /\ a \in D /\ a \notin E /\ E \cup {a} = B
            /\ legs(E) \cup {leg(a)} = legs(B)
        BY <2>3
      <3>3. Good(E) /\ leg(a) \notin legs(E)
        BY <1>3, <2>2, <3>2
      <3>4. IsFiniteSet(E)
        BY <1>2, <3>2, FS_Subset
      <3> HIDE DEF legs, E
      <3>5. /\ Sum(agents, E) \in Int
            /\ Sum(agents, E \cup {a}) = Sum(agents, E) + agents[a]
        <4>1. \A o \in E \cup {a} : agents[o] \in Int
          BY <1>1, <3>2
        <4>2. QED
          BY <3>2, <3>4, <4>1, SumWithOne
      <3>6. SignedOf(legs(E) \cup {leg(a)}) = SignedOf(legs(E)) + Signed(leg(a))
        <4>1. \A l \in legs(E) \cup {leg(a)} : Signed(l) \in Int
          BY <1>4, <2>3, <3>2
        <4>2. QED
          BY <3>3, <4>1, SignedWithOne
      <3>7. IsFiniteSet(legs(E) \cup {leg(a)})
        BY <3>3, FS_AddElement
      <3>8. SignedOf(legs(B)) = SignedOf(legs(E)) + agents[a] /\ IsFiniteSet(legs(B))
        BY <1>3, <3>2, <3>6, <3>7
      <3>9. Sum(agents, B) = Sum(agents, E) + agents[a] /\ agents[a] \in Int
        BY <1>1, <3>2, <3>5
      <3>10. SignedOf(legs(E)) = fees.internal + Sum(agents, E) /\ Sum(agents, E) \in Int
        BY <3>3
      <3>11. SignedOf(legs(B)) = fees.internal + Sum(agents, B) /\ Sum(agents, B) \in Int
        BY <1>1, <3>8, <3>9, <3>10
      <3>12. QED
        BY <2>3, <3>8, <3>11
    <2>6. QED
      BY <2>4, <2>5
  <1>6. Good(D)
    BY <1>5
  <1>7. Earned(fees, bucket) = legs(D)
    BY DEF Earned, house, leg, agents
  <1>8. SumOf(fees.agents) = Sum(agents, D)
    BY DEF SumOf, Sum, agents
  <1>9. QED
    BY <1>1, <1>4, <1>6, <1>7, <1>8

\* What a capture books, and what the payment of a payout does.
LEMMA PayinBooked ==
    ASSUME NEW p \in Source, NEW fees, CalculationOK(fees)
    PROVE  Booked(BuildPayinMovement(p, {fees})) = fees.net + fees.internal + SumOf(fees.agents)
  <1> DEFINE mine == Credit(MerchantRow("PENDING"), fees.net)
             others == Earned(fees, "PENDING")
  <1>1. BuildPayinMovement(p, {fees}).legs = others \cup {mine}
    BY DEF BuildPayinMovement, MovementOf
  <1>2. mine \notin others
    BY LegFields, HoldersDiffer DEF Earned
  <1>3. Signed(mine) = fees.net /\ fees.net \in Int
    BY SignedLegs DEF CalculationOK
  <1>4. /\ IsFiniteSet(others) /\ fees.internal \in Int /\ SumOf(fees.agents) \in Int
        /\ SignedOf(others) = fees.internal + SumOf(fees.agents)
        /\ \A l \in others : Signed(l) \in Int
    BY EarnedSum
  <1>5. Booked(BuildPayinMovement(p, {fees})) = SignedOf(others \cup {mine})
    BY <1>1 DEF Booked, SignedOf
  <1> HIDE DEF mine, others
  <1>6. SignedOf(others \cup {mine}) = SignedOf(others) + Signed(mine)
    BY <1>2, <1>3, <1>4, SignedWithOne
  <1>7. QED
    BY <1>3, <1>4, <1>5, <1>6

LEMMA GrossBooked ==
    ASSUME NEW p \in Source
    PROVE  Booked(BuildPayinMovement(p, {})) = Nominal[p]
  <1> DEFINE mine == Credit(MerchantRow("PENDING"), Nominal[p])
  <1>1. BuildPayinMovement(p, {}).legs = {} \cup {mine}
    BY DEF BuildPayinMovement, MovementOf
  <1>2. Signed(mine) = Nominal[p] /\ Nominal[p] \in Int
    BY SourceFacts, SignedLegs
  <1>3. Booked(BuildPayinMovement(p, {})) = SignedOf({} \cup {mine})
    BY <1>1 DEF Booked, SignedOf
  <1> HIDE DEF mine
  <1>4. SignedOf({} \cup {mine}) = SignedOf({}) + Signed(mine)
    BY <1>2, FS_EmptySet, SignedWithOne
  <1>5. QED
    BY <1>2, <1>3, <1>4, SignedOfNone

LEMMA CompletedBooked ==
    ASSUME NEW d \in Source, NEW fees, CalculationOK(fees)
    PROVE  Booked(BuildPayoutCompleted(d, fees)) = fees.internal + SumOf(fees.agents) - fees.net
  <1> DEFINE mine == Debit(MerchantRow("RESERVED"), fees.net)
             others == Earned(fees, "AVAILABLE")
  <1>1. BuildPayoutCompleted(d, fees).legs = others \cup {mine}
    BY DEF BuildPayoutCompleted, MovementOf
  <1>2. mine \notin others
    BY LegFields DEF Earned
  <1>3. Signed(mine) = -fees.net /\ fees.net \in Int
    BY SignedLegs DEF CalculationOK
  <1>4. /\ IsFiniteSet(others) /\ fees.internal \in Int /\ SumOf(fees.agents) \in Int
        /\ SignedOf(others) = fees.internal + SumOf(fees.agents)
        /\ \A l \in others : Signed(l) \in Int
    BY EarnedSum
  <1>5. Booked(BuildPayoutCompleted(d, fees)) = SignedOf(others \cup {mine})
    BY <1>1 DEF Booked, SignedOf
  <1> HIDE DEF mine, others
  <1>6. SignedOf(others \cup {mine}) = SignedOf(others) + Signed(mine)
    BY <1>2, <1>3, <1>4, SignedWithOne
  <1>7. QED
    BY <1>3, <1>4, <1>5, <1>6

\* Fees that were worked out for s.
CalculatedFor(s, fees) ==
    \E fee \in MerchantFee, shares \in Shares :
        fees = Calculate(KindOf(s), BaseFee[KindOf(s)], fee, shares, Nominal[s])

LEMMA CalculatedExplained ==
    ASSUME NEW s \in Source, NEW fees, CalculationOK(fees), CalculatedFor(s, fees)
    PROVE  /\ s \in Purchases => Explained(Gap(BuildPayinMovement(s, {fees}), fees), fees)
           /\ s \in Payouts => Explained(PaidGap(BuildPayoutCompleted(s, fees), fees), fees)
  <1>1. PICK fee \in MerchantFee, shares \in Shares :
            fees = Calculate(KindOf(s), BaseFee[KindOf(s)], fee, shares, Nominal[s])
    BY DEF CalculatedFor
  <1>2. BaseFee[KindOf(s)] \in Price /\ Nominal[s] \in Nat
    BY SourceFacts
  <1>3. ASSUME s \in Purchases
        PROVE  Explained(Gap(BuildPayinMovement(s, {fees}), fees), fees)
    <2>1. KindOf(s) = "PURCHASE"
      BY <1>3 DEF KindOf
    <2>2. Explained(Nominal[s] - fees.provider - (fees.net + fees.internal + SumOf(fees.agents)), fees)
      BY <1>1, <1>2, <2>1, SplitIsExplained
    <2>3. BuildPayinMovement(s, {fees}).source = s
      BY DEF BuildPayinMovement, MovementOf
    <2>4. QED
      BY <2>2, <2>3, PayinBooked DEF Gap
  <1>4. ASSUME s \in Payouts
        PROVE  Explained(PaidGap(BuildPayoutCompleted(s, fees), fees), fees)
    <2>1. KindOf(s) = "DISBURSEMENT"
      BY <1>4, MoneyAssumption DEF KindOf
    <2>2. Explained(-(fees.internal + SumOf(fees.agents) - fees.net) - Nominal[s] - fees.provider, fees)
      BY <1>1, <1>2, <2>1, SplitIsExplained
    <2>3. BuildPayoutCompleted(s, fees).source = s
      BY DEF BuildPayoutCompleted, MovementOf
    <2>4. QED
      BY <2>2, <2>3, CompletedBooked DEF PaidGap
  <1>5. QED
    BY <1>3, <1>4

\* Every fee that was answered or charged was worked out from a row and a set
\* of shareholders.
FeesCalculated ==
    \A s \in Source :
        /\ \A fees \in charged[s] : CalculatedFor(s, fees)
        /\ calculation[s].at = "answered" =>
              \A fees \in calculation[s].fees : CalculatedFor(s, fees)

\* A movement is still the one its caller would build from what is charged.
BuiltOK(m) ==
    /\ m.reason = "PAYIN_CAPTURED" =>
          /\ m.source \in Purchases /\ status[m.source] \in {"SUCCESS", "SETTLED"}
          /\ m = BuildPayinMovement(m.source, charged[m.source])
    /\ m.reason = "PAYOUT_COMPLETED" =>
          /\ m.source \in Payouts /\ status[m.source] = "SUCCESS"
          /\ \A fees \in charged[m.source] : m = BuildPayoutCompleted(m.source, fees)

BuiltAsCharged == \A m \in posted : BuiltOK(m)

LEMMA CalculatedWith ==
    ASSUME NEW s \in Source, NEW fee \in MerchantFee, NEW shares \in Shares
    PROVE  \A fees \in CalculateWith(s, fee, shares) : CalculatedFor(s, fees)
  BY DEF CalculateWith, CalculatedFor

\* A stage with nothing that was not worked out.
Honest(s, stage) ==
    stage.at = "answered" => \A fees \in stage.fees : CalculatedFor(s, fees)

LEMMA FeesMove ==
    ASSUME TypeOK, FeesCalculated, NEW s \in Source, NEW next, Goto(s, next), Honest(s, next),
           charged' = charged
    PROVE  FeesCalculated'
  BY DEF TypeOK, FeesCalculated, Goto, Honest

LEMMA FoundHonest ==
    ASSUME NEW s \in Source, NEW k \in Key, NEW fees \in SUBSET MerchantFee,
           NEW value \in Value(k), Found(s, k, fees, value)
    PROVE  \E next : Goto(s, next) /\ Honest(s, next)
  <1>1. CASE k = "agents"
    <2>1. PICK fee \in fees : Answer(s, CalculateWith(s, fee, value))
      BY <1>1 DEF Found
    <2>2. value \in Shares
      BY <1>1 DEF Value
    <2>3. Honest(s, [at |-> "answered", fees |-> CalculateWith(s, fee, value)])
      BY <2>2, CalculatedWith DEF Honest
    <2>4. QED
      BY <2>1, <2>3 DEF Answer
  <1>2. CASE k # "agents"
    <2>1. FoundFee(s, value) /\ value \in MerchantFee
      BY <1>2 DEF Found, Value
    <2>2. CASE HasAgents(value)
      <3>1. Honest(s, [at |-> "get", fee |-> {value}])
        BY DEF Honest
      <3>2. QED
        BY <2>1, <2>2, <3>1 DEF FoundFee
    <2>3. CASE ~HasAgents(value)
      <3>1. Honest(s, [at |-> "answered", fees |-> CalculateWith(s, value, NoShares)])
        BY <2>1, CalculatedWith, NoSharesAreShares DEF Honest
      <3>2. QED
        BY <2>1, <2>3, <3>1 DEF FoundFee, Answer
    <2>4. QED
      BY <2>2, <2>3
  <1>3. QED
    BY <1>1, <1>2

LEMMA GetHonest ==
    ASSUME TypeOK, NEW s \in Source, NEW k \in Key, NEW fees \in SUBSET MerchantFee, Get(s, k, fees)
    PROVE  \E next : Goto(s, next) /\ Honest(s, next)
  <1>1. CASE Goto(s, [at |-> "query", key |-> k, fee |-> fees])
    <2>1. Honest(s, [at |-> "query", key |-> k, fee |-> fees])
      BY DEF Honest
    <2>2. QED
      BY <1>1, <2>1
  <1>2. ASSUME NEW value \in cache[k], Found(s, k, fees, value)
        PROVE  \E next : Goto(s, next) /\ Honest(s, next)
    <2>1. value \in Value(k)
      BY DEF TypeOK, FilesOK
    <2>2. QED
      BY <1>2, <2>1, FoundHonest
  <1>3. QED
    BY <1>1, <1>2 DEF Get

LEMMA CalculationHonest ==
    ASSUME TypeOK, NEW s \in Source, CalculateFee(s) \/ Advance(s) \/ CaptureFails(s)
    PROVE  \E next : Goto(s, next) /\ Honest(s, next)
  <1>0. StageOK(calculation[s])
    BY DEF TypeOK
  <1>1. CASE CalculateFee(s)
    <2>1. KindOf(s) \in Key /\ Get(s, KindOf(s), {})
      BY <1>1, SourceFacts DEF CalculateFee, Key
    <2>2. QED
      BY <2>1, GetHonest
  <1>2. CASE GetAgentShareholder(s)
    <2>1. Get(s, "agents", calculation[s].fee) /\ "agents" \in Key
      BY <1>2 DEF GetAgentShareholder, Key
    <2>2. calculation[s].fee \in SUBSET MerchantFee
      BY <1>0, <1>2 DEF GetAgentShareholder, StageOK, Idle, Asking, Filling
    <2>3. QED
      BY <2>1, <2>2, GetHonest
  <1>3. CASE Query(s)
    <2>1. CASE Answer(s, {})
      <3>1. Honest(s, [at |-> "answered", fees |-> {}])
        BY DEF Honest
      <3>2. QED
        BY <2>1, <3>1 DEF Answer
    <2>2. ASSUME NEW value,
                 Goto(s, [at |-> "set", key |-> calculation[s].key,
                          fee |-> calculation[s].fee, value |-> value])
          PROVE  \E next : Goto(s, next) /\ Honest(s, next)
      <3>1. Honest(s, [at |-> "set", key |-> calculation[s].key,
                       fee |-> calculation[s].fee, value |-> value])
        BY DEF Honest
      <3>2. QED
        BY <2>2, <3>1
    <2>3. QED
      BY <1>3, <2>1, <2>2 DEF Query
  <1>4. CASE Set(s)
    <2>1. PICK k \in Key : calculation[s] \in Filling(k)
      BY <1>0, <1>4 DEF Set, StageOK, Idle, Asking
    <2>2. /\ calculation[s].fee \in SUBSET MerchantFee
          /\ calculation[s].value \in Value(k)
          /\ Found(s, k, calculation[s].fee, calculation[s].value)
      BY <1>4, <2>1 DEF Set, Filling
    <2>3. QED
      BY <2>2, FoundHonest
  <1>5. CASE CalculationFails(s)
    <2>1. Honest(s, [at |-> "answered", fees |-> {}])
      BY DEF Honest
    <2>2. QED
      BY <1>5, <2>1 DEF CalculationFails, Answer
  <1>6. CASE CaptureFails(s)
    <2>1. Honest(s, Idle)
      BY DEF Honest, Idle
    <2>2. QED
      BY <1>6, <2>1 DEF CaptureFails
  <1>7. QED
    BY <1>1, <1>2, <1>3, <1>4, <1>5, <1>6 DEF Advance

\* A transaction for s that charges what was worked out.
LEMMA FeesPost ==
    ASSUME MoneyOK, FeesCalculated, NEW s \in Source, NEW m, NEW next, NEW fees,
           Post(s, m, next, fees), \A c \in fees : CalculatedFor(s, c),
           calculation' = calculation \/ Goto(s, Idle), DOMAIN calculation = Source
    PROVE  FeesCalculated'
  <1>1. \A t \in Source : \A c \in charged'[t] : CalculatedFor(t, c)
    BY PostFacts DEF FeesCalculated
  <1>2. \A t \in Source : calculation'[t] = calculation[t] \/ calculation'[t] = Idle
    BY DEF Goto
  <1>3. QED
    BY <1>1, <1>2 DEF FeesCalculated, Idle

LEMMA BuiltPost ==
    ASSUME MoneyOK, BuiltAsCharged, NEW s \in Source, NEW m, NEW next, NEW fees,
           Post(s, m, next, fees),
           posted' = posted \cup {m} /\ status'[s] = next /\ charged'[s] = fees =>
              \A k \in posted \cup {m} : k.source = s => BuiltOK(k)',
           m.source = s
    PROVE  BuiltAsCharged'
  <1>1. CASE UNCHANGED <<posted, status, charged>>
    BY <1>1 DEF BuiltAsCharged, BuiltOK
  <1>2. CASE /\ posted' = posted \cup {m}
             /\ status'[s] = next /\ charged'[s] = fees
             /\ \A t \in Source \ {s} : status'[t] = status[t] /\ charged'[t] = charged[t]
    <2> SUFFICES ASSUME NEW k \in posted \cup {m}
                 PROVE  BuiltOK(k)'
      BY <1>2 DEF BuiltAsCharged
    <2>1. CASE k.source = s
      BY <1>2, <2>1
    <2>2. CASE k.source # s
      <3>1. k \in posted /\ k.source \in Source
        BY <2>2 DEF MoneyOK, Movement
      <3>2. BuiltOK(k) /\ status'[k.source] = status[k.source] /\ charged'[k.source] = charged[k.source]
        BY <1>2, <2>2, <3>1 DEF BuiltAsCharged
      <3>3. QED
        BY <3>2 DEF BuiltOK
    <2>3. QED
      BY <2>1, <2>2
  <1>3. QED
    BY <1>1, <1>2, PostFacts

LEMMA NextFees ==
    ASSUME FlowInv, FeesCalculated, BuiltAsCharged, [Next]_vars
    PROVE  FeesCalculated' /\ BuiltAsCharged'
  <1>0. /\ TypeOK /\ MoneyOK /\ CallsOK
        /\ DOMAIN calculation = Source
        /\ \A s \in Source : AnswerOK(charged[s])
    BY DEF FlowInv, TypeOK, MoneyOK
  <1>a. ASSUME UNCHANGED moneyVars
        PROVE  BuiltAsCharged'
    BY <1>a DEF BuiltAsCharged, BuiltOK, moneyVars
  <1>b. ASSUME UNCHANGED moneyVars, UNCHANGED calculation
        PROVE  FeesCalculated'
    BY <1>b DEF FeesCalculated, moneyVars
  <1>1. ASSUME NEW s \in Source, CalculateFee(s) \/ Advance(s) \/ CaptureFails(s)
        PROVE  FeesCalculated' /\ BuiltAsCharged'
    <2>1. UNCHANGED moneyVars
      BY <1>1, CalculationGoes
    <2>2. PICK next : Goto(s, next) /\ Honest(s, next)
      BY <1>0, <1>1, CalculationHonest
    <2>3. FeesCalculated'
      BY <1>0, <2>1, <2>2, FeesMove DEF moneyVars
    <2>4. QED
      BY <2>1, <2>3, <1>a
  <1>2. ASSUME NEW s \in Source, Capture(s)
        PROVE  FeesCalculated' /\ BuiltAsCharged'
    <2>0. PICK fees : fees = calculation[s].fees
      OBVIOUS
    <2> DEFINE m == BuildPayinMovement(s, fees)
    <2>1. Post(s, m, "SUCCESS", fees) /\ Goto(s, Idle) /\ s \in Purchases
      BY <1>2, <2>0 DEF Capture
    <2>2. status[s] = "PENDING" /\ s \notin Payouts
      BY <1>0, <1>2, <2>1, MoneyAssumption DEF CallsOK, Capture, Idle, Uncharged
    <2>3. m.source = s /\ m.reason = "PAYIN_CAPTURED"
      BY DEF BuildPayinMovement, MovementOf
    <2>4. \A c \in fees : CalculatedFor(s, c)
      BY <1>2, <2>0 DEF FeesCalculated, Capture
    <2>5. FeesCalculated'
      BY <1>0, <2>1, <2>4, FeesPost
    <2>6. ASSUME status'[s] = "SUCCESS", charged'[s] = fees
          PROVE  \A k \in posted \cup {m} : k.source = s => BuiltOK(k)'
      <3>1. ASSUME NEW k \in posted, k.source = s
            PROVE  BuiltOK(k)'
        <4>1. k.reason # "PAYIN_CAPTURED" /\ k.reason # "PAYOUT_COMPLETED"
          BY <2>2, <3>1 DEF BuiltAsCharged, BuiltOK
        <4>2. QED
          BY <4>1 DEF BuiltOK
      <3>2. BuiltOK(m)'
        BY <2>1, <2>3, <2>6 DEF BuiltOK
      <3>3. QED
        BY <3>1, <3>2
    <2>7. BuiltAsCharged'
      BY <1>0, <2>1, <2>3, <2>6, BuiltPost
    <2>8. QED
      BY <2>5, <2>7
  <1>3. ASSUME NEW s \in Source, Settle(s)
        PROVE  FeesCalculated' /\ BuiltAsCharged'
    <2>1. PICK fees \in charged[s] :
              Post(s, BuildSettlementMovement(s, fees), "SETTLED", {fees})
      BY <1>3 DEF Settle
    <2> DEFINE m == BuildSettlementMovement(s, fees)
    <2>2. s \in Purchases /\ s \notin Payouts /\ calculation' = calculation
      BY <1>3, MoneyAssumption DEF Settle
    <2>3. m.source = s /\ m.reason = "MERCHANT_SETTLED"
      BY DEF BuildSettlementMovement, MovementOf
    <2>4. charged[s] = {fees}
      BY <1>0 DEF AnswerOK, AtMostOne
    <2>5. FeesCalculated'
      BY <1>0, <2>1, <2>2, FeesPost DEF FeesCalculated
    <2>6. ASSUME status'[s] = "SETTLED", charged'[s] = {fees}
          PROVE  \A k \in posted \cup {m} : k.source = s => BuiltOK(k)'
      <3>1. ASSUME NEW k \in posted, k.source = s
            PROVE  BuiltOK(k)'
        <4>1. BuiltOK(k) /\ k.reason # "PAYOUT_COMPLETED"
          BY <2>2, <3>1 DEF BuiltAsCharged, BuiltOK
        <4>2. QED
          BY <2>4, <2>6, <3>1, <4>1 DEF BuiltOK
      <3>2. BuiltOK(m)'
        BY <2>3 DEF BuiltOK
      <3>3. QED
        BY <3>1, <3>2
    <2>7. BuiltAsCharged'
      BY <1>0, <2>1, <2>3, <2>6, BuiltPost
    <2>8. QED
      BY <2>5, <2>7
  <1>4. ASSUME NEW s \in Source, Reserve(s)
        PROVE  FeesCalculated' /\ BuiltAsCharged'
    <2>1. /\ s \in Payouts /\ s \notin Purchases /\ Goto(s, Idle)
          /\ calculation[s].at = "answered"
      BY <1>4, MoneyAssumption DEF Reserve
    <2>2. status[s] = "NONE"
      BY <1>0, <2>1 DEF CallsOK, Idle, Uncharged
    <2>3. CASE UNCHANGED moneyVars
      <3>1. Honest(s, Idle)
        BY DEF Honest, Idle
      <3>2. FeesCalculated'
        BY <1>0, <2>1, <2>3, <3>1, FeesMove DEF moneyVars
      <3>3. QED
        BY <2>3, <3>2, <1>a
    <2>4. ASSUME NEW fees \in calculation[s].fees,
                 Post(s, BuildPayoutReserved(s, fees), "PENDING", {fees})
          PROVE  FeesCalculated' /\ BuiltAsCharged'
      <3> DEFINE m == BuildPayoutReserved(s, fees)
      <3>1. m.source = s /\ m.reason = "PAYOUT_RESERVED"
        BY DEF BuildPayoutReserved, MovementOf
      <3>2. CalculatedFor(s, fees)
        BY <2>1 DEF FeesCalculated
      <3>3. FeesCalculated'
        BY <1>0, <2>1, <2>4, <3>2, FeesPost
      <3>4. \A k \in posted \cup {m} : k.source = s => BuiltOK(k)'
        <4>1. ASSUME NEW k \in posted, k.source = s
              PROVE  BuiltOK(k)'
          <5>1. k.reason # "PAYIN_CAPTURED" /\ k.reason # "PAYOUT_COMPLETED"
            BY <2>1, <2>2, <4>1 DEF BuiltAsCharged, BuiltOK
          <5>2. QED
            BY <5>1 DEF BuiltOK
        <4>2. BuiltOK(m)'
          BY <3>1 DEF BuiltOK
        <4>3. QED
          BY <4>1, <4>2
      <3>5. BuiltAsCharged'
        BY <1>0, <2>4, <3>1, <3>4, BuiltPost
      <3>6. QED
        BY <3>3, <3>5
    <2>5. QED
      BY <1>4, <2>3, <2>4 DEF Reserve
  <1>5. ASSUME NEW s \in Source, NEW isPaid \in BOOLEAN, PostPayoutOutcome(s, isPaid)
        PROVE  FeesCalculated' /\ BuiltAsCharged'
    <2>1. /\ s \in Payouts /\ s \notin Purchases
          /\ status[s] = "PENDING" /\ calculation' = calculation
      BY <1>5, MoneyAssumption DEF PostPayoutOutcome
    <2>2. PICK fees \in charged[s] :
              \/ Post(s, BuildPayoutCompleted(s, fees), "SUCCESS", {fees})
              \/ Post(s, BuildPayoutFailed(s, fees), "FAILED", {fees})
      BY <1>5 DEF PostPayoutOutcome
    <2>3. CalculatedFor(s, fees)
      BY DEF FeesCalculated
    <2>4. ASSUME NEW k \in posted, k.source = s
          PROVE  BuiltOK(k)'
      <3>1. k.reason # "PAYIN_CAPTURED" /\ k.reason # "PAYOUT_COMPLETED"
        BY <2>1, <2>4 DEF BuiltAsCharged, BuiltOK
      <3>2. QED
        BY <3>1 DEF BuiltOK
    <2>5. CASE Post(s, BuildPayoutCompleted(s, fees), "SUCCESS", {fees})
      <3> DEFINE m == BuildPayoutCompleted(s, fees)
      <3>1. m.source = s /\ m.reason = "PAYOUT_COMPLETED"
        BY DEF BuildPayoutCompleted, MovementOf
      <3>2. FeesCalculated'
        BY <1>0, <2>1, <2>3, <2>5, FeesPost
      <3>3. ASSUME status'[s] = "SUCCESS", charged'[s] = {fees}
            PROVE  BuiltOK(m)'
        BY <2>1, <3>1, <3>3 DEF BuiltOK
      <3> HIDE DEF m
      <3>4. BuiltAsCharged'
        BY <1>0, <2>4, <2>5, <3>1, <3>3, BuiltPost DEF m
      <3>5. QED
        BY <3>2, <3>4
    <2>6. CASE Post(s, BuildPayoutFailed(s, fees), "FAILED", {fees})
      <3> DEFINE m == BuildPayoutFailed(s, fees)
      <3>1. m.source = s /\ m.reason = "PAYOUT_FAILED"
        BY DEF BuildPayoutFailed, MovementOf
      <3>2. FeesCalculated'
        BY <1>0, <2>1, <2>3, <2>6, FeesPost
      <3>3. BuiltOK(m)'
        BY <3>1 DEF BuiltOK
      <3> HIDE DEF m
      <3>4. BuiltAsCharged'
        BY <1>0, <2>4, <2>6, <3>1, <3>3, BuiltPost DEF m
      <3>5. QED
        BY <3>2, <3>4
    <2>7. QED
      BY <2>2, <2>5, <2>6
  <1>6. ASSUME NEW e \in Editors, EditorStep(e)
        PROVE  FeesCalculated' /\ BuiltAsCharged'
    <2>1. UNCHANGED moneyVars /\ UNCHANGED calculation
      BY <1>6 DEF EditorStep, UpsertProvider, DeleteProvider, OpenForm, UpsertAgentShareholder,
                  CommitEdit, EditFails, Writes
    <2>2. QED
      BY <2>1, <1>a, <1>b
  <1>7. ASSUME NEW k \in Key, Expire(k)
        PROVE  FeesCalculated' /\ BuiltAsCharged'
    BY <1>7, <1>a, <1>b DEF Expire
  <1>8. CASE UNCHANGED vars
    BY <1>8, <1>a, <1>b DEF vars
  <1>9. QED
    BY <1>1, <1>2, <1>3, <1>4, <1>5, <1>6, <1>7, <1>8 DEF Next, SourceStep

\* Of fees that were worked out, every movement that is theirs adds up.
LEMMA BuiltAddsUp ==
    ASSUME TypeOK, FeesCalculated, BuiltAsCharged
    PROVE  MoneyAddsUp
  <1> SUFFICES ASSUME NEW m \in posted
               PROVE  /\ m.reason = "PAYIN_CAPTURED" =>
                            /\ charged[m.source] = {} => Booked(m) = Nominal[m.source]
                            /\ \A fees \in charged[m.source] : Explained(Gap(m, fees), fees)
                      /\ m.reason = "PAYOUT_COMPLETED" =>
                            \A fees \in charged[m.source] : Explained(PaidGap(m, fees), fees)
    BY DEF MoneyAddsUp
  <1> DEFINE s == m.source
  <1>1. s \in Source /\ BuiltOK(m) /\ AnswerOK(charged[s])
    BY DEF TypeOK, MoneyOK, Movement, BuiltAsCharged
  <1>2. ASSUME NEW fees \in charged[s]
        PROVE  charged[s] = {fees} /\ CalculationOK(fees) /\ CalculatedFor(s, fees)
    BY <1>1 DEF AnswerOK, AtMostOne, FeesCalculated
  <1>3. ASSUME m.reason = "PAYIN_CAPTURED"
        PROVE  /\ charged[s] = {} => Booked(m) = Nominal[s]
               /\ \A fees \in charged[s] : Explained(Gap(m, fees), fees)
    <2>1. s \in Purchases /\ m = BuildPayinMovement(s, charged[s])
      BY <1>1, <1>3 DEF BuiltOK
    <2>2. ASSUME charged[s] = {}
          PROVE  Booked(m) = Nominal[s]
      BY <1>1, <2>1, <2>2, GrossBooked
    <2>3. ASSUME NEW fees \in charged[s]
          PROVE  Explained(Gap(m, fees), fees)
      <3>1. charged[s] = {fees} /\ CalculationOK(fees) /\ CalculatedFor(s, fees)
        BY <1>2
      <3>2. m = BuildPayinMovement(s, {fees})
        BY <2>1, <3>1
      <3>3. Explained(Gap(BuildPayinMovement(s, {fees}), fees), fees)
        BY <1>1, <2>1, <3>1, CalculatedExplained
      <3>4. QED
        BY <3>2, <3>3
    <2>4. QED
      BY <2>2, <2>3
  <1>4. ASSUME m.reason = "PAYOUT_COMPLETED", NEW fees \in charged[s]
        PROVE  Explained(PaidGap(m, fees), fees)
    <2>1. s \in Payouts /\ m = BuildPayoutCompleted(s, fees)
      BY <1>1, <1>4 DEF BuiltOK
    <2>2. Explained(PaidGap(BuildPayoutCompleted(s, fees), fees), fees)
      BY <1>1, <1>2, <2>1, CalculatedExplained
    <2>3. QED
      BY <2>1, <2>2
  <1>5. QED
    BY <1>3, <1>4

(***************************************************************************)
(* What a capture or the payment of a payout books is the money that came  *)
(* or went, up to half a unit for each amount that is rounded and to what  *)
(* the shareholders' parts do not add up to, for any fees, shareholders,   *)
(* nominals and edits in between (MoneyAddsUp).                            *)
(***************************************************************************)
THEOREM MoneyAlwaysAddsUp == Spec => []MoneyAddsUp
  <1> DEFINE Inv == FlowInv /\ FeesCalculated /\ BuiltAsCharged
  <1>1. Init => Inv
    <2>1. Init => FlowInv
      BY InitFlow
    <2>2. Init => FeesCalculated /\ BuiltAsCharged
      BY DEF Init, FeesCalculated, BuiltAsCharged, Idle
    <2>3. QED
      BY <2>1, <2>2
  <1>2. Inv /\ [Next]_vars => Inv'
    BY NextTyped, NextFlow, NextFees DEF FlowInv
  <1>3. Inv => MoneyAddsUp
    BY BuiltAddsUp DEF FlowInv
  <1> HIDE DEF Inv
  <1>4. QED
    BY <1>1, <1>2, <1>3, PTL DEF Spec

-----------------------------------------------------------------------------
(* What validate refuses.                                                  *)

\* What goes from one bucket to another leaves its holder's total alone.
LEMMA PairNetsZero ==
    ASSUME NEW from, NEW to, NEW x \in Int
    PROVE  MapThenSumSet(Signed, {Debit(from, x), Credit(to, x)}) = 0
  <1> DEFINE d == Debit(from, x)
             c == Credit(to, x)
             w == [l \in {d, c} |-> Signed(l)]
  <1>1. d # c
    BY LegFields
  <1>2. Signed(d) = -x /\ Signed(c) = x
    BY SignedLegs
  <1>3. IsFiniteSet({d, c})
    <2>1. IsFiniteSet({d}) /\ {d, c} = {d} \cup {c}
      BY FS_Singleton
    <2>2. QED
      BY <2>1, FS_AddElement
  <1> HIDE DEF d, c
  <1>4. MapThenSumSet(Signed, {d, c}) = Sum(w, {d, c})
    BY <1>3, SignedSum
  <1>5. w[d] = -x /\ w[c] = x /\ w[d] \in Int /\ w[c] \in Int
    BY <1>2
  <1> HIDE DEF w
  <1>6. Sum(w, {d, c}) = w[d] + w[c]
    BY <1>1, <1>5, SumOfTwo
  <1>7. QED
    BY <1>4, <1>5, <1>6 DEF d, c

\* What one holder moves from PENDING to AVAILABLE.
Moved(type, id, x) ==
    {Debit(RowOf(type, id, "PENDING"), x), Credit(RowOf(type, id, "AVAILABLE"), x)}

LEMMA MovedLegs ==
    ASSUME NEW type, NEW id, NEW x, NEW l \in Moved(type, id, x)
    PROVE  /\ l.amount = x
           /\ l.row.holderType = type /\ l.row.holderId = id
           /\ \A k \in Moved(type, id, x) : k.row = l.row => k = l
  BY DEF Moved, Debit, Credit, RowOf

\* A set of legs in which each holder moves something positive, once.
LEMMA MovesAreValid ==
    ASSUME NEW H, NEW m, m.legs = UNION {Moved(h.type, h.id, h.x) : h \in H}, H # {},
           \A h \in H : h.x \in Int /\ h.x > 0,
           \A h, j \in H : h.type = j.type /\ h.id = j.id => h = j
    PROVE  Valid(m)
  <1>1. ASSUME NEW l \in m.legs
        PROVE  \E h \in H : l \in Moved(h.type, h.id, h.x)
    OBVIOUS
  <1>2. m.legs # {}
    BY DEF Moved
  <1>3. \A l \in m.legs : l.amount > 0
    BY <1>1, MovedLegs
  <1>4. ASSUME NEW k \in m.legs, NEW l \in m.legs, k.row = l.row
        PROVE  k = l
    <2>1. PICK h \in H : k \in Moved(h.type, h.id, h.x)
      BY <1>1
    <2>2. PICK j \in H : l \in Moved(j.type, j.id, j.x)
      BY <1>1
    <2>3. /\ k.row.holderType = h.type /\ k.row.holderId = h.id
          /\ l.row.holderType = j.type /\ l.row.holderId = j.id
      BY <2>1, <2>2, MovedLegs
    <2>4. h = j
      BY <2>3, <1>4
    <2>5. QED
      BY <1>4, <2>1, <2>2, <2>4, MovedLegs
  <1>5. ASSUME NEW l \in m.legs
        PROVE  NetOfHolder(m.legs, l.row) = 0
    <2>1. PICK h \in H : l \in Moved(h.type, h.id, h.x)
      BY <1>1
    <2> DEFINE mine == {k \in m.legs : SameHolder(k.row, l.row)}
    <2>2. \A k \in Moved(h.type, h.id, h.x) : k \in m.legs /\ SameHolder(k.row, l.row)
      <3>1. Moved(h.type, h.id, h.x) \subseteq m.legs
        OBVIOUS
      <3>2. \A k \in Moved(h.type, h.id, h.x) : SameHolder(k.row, l.row)
        BY <2>1, MovedLegs DEF SameHolder
      <3>3. QED
        BY <3>1, <3>2
    <2>3. ASSUME NEW k \in m.legs, SameHolder(k.row, l.row)
          PROVE  k \in Moved(h.type, h.id, h.x)
      <3>1. PICK j \in H : k \in Moved(j.type, j.id, j.x)
        BY <1>1
      <3>2. j.type = h.type /\ j.id = h.id
        BY <2>1, <2>3, <3>1, MovedLegs DEF SameHolder
      <3>3. QED
        BY <3>1, <3>2
    <2>4. mine = Moved(h.type, h.id, h.x)
      BY <2>2, <2>3
    <2>5. MapThenSumSet(Signed, Moved(h.type, h.id, h.x)) = 0
      BY PairNetsZero DEF Moved
    <2>6. QED
      BY <2>4, <2>5 DEF NetOfHolder
  <1>6. QED
    BY <1>2, <1>3, <1>4, <1>5 DEF Valid, NetsToZero

\* A settlement of what a valid capture gave is valid.
LEMMA SettlementValid ==
    ASSUME NEW p \in Source, NEW fees, CalculationOK(fees), Valid(BuildPayinMovement(p, {fees}))
    PROVE  Valid(BuildSettlementMovement(p, fees))
  <1> DEFINE D == DOMAIN fees.agents
             Holder(type, id, x) == [type |-> type, id |-> id, x |-> x]
             H == {Holder("MERCHANT", Merchant, fees.net), Holder("INTERNAL", 0, fees.internal)}
                    \cup {Holder("AGENT", a, fees.agents[a]) : a \in D}
             m == BuildSettlementMovement(p, fees)
  <1>1. fees.net > 0 /\ fees.internal > 0 /\ \A a \in D : fees.agents[a] > 0
    BY ValidPays
  <1>2. fees.net \in Int /\ fees.internal \in Int /\ \A a \in D : fees.agents[a] \in Int
    BY AgentsTyped DEF CalculationOK
  <1>3. \A type, id : \A x \in Int : x > 0 =>
            Transfer(RowOf(type, id, "PENDING"), RowOf(type, id, "AVAILABLE"), x) = Moved(type, id, x)
    BY DEF Transfer, Moved
  <1>4. m.legs = Moved("MERCHANT", Merchant, fees.net) \cup Moved("INTERNAL", 0, fees.internal)
                   \cup UNION {Moved("AGENT", a, fees.agents[a]) : a \in D}
    <2>1. m.legs = Transfer(MerchantRow("PENDING"), MerchantRow("AVAILABLE"), fees.net)
                     \cup Transfer(InternalRow("PENDING"), InternalRow("AVAILABLE"), fees.internal)
                     \cup UNION {Transfer(AgentRow(a, "PENDING"), AgentRow(a, "AVAILABLE"), fees.agents[a]) :
                                    a \in D}
      BY DEF BuildSettlementMovement, MovementOf, NetOf
    <2>2. \A a \in D : Transfer(AgentRow(a, "PENDING"), AgentRow(a, "AVAILABLE"), fees.agents[a])
                         = Moved("AGENT", a, fees.agents[a])
      BY <1>1, <1>2, <1>3 DEF AgentRow
    <2>3. /\ Transfer(MerchantRow("PENDING"), MerchantRow("AVAILABLE"), fees.net)
               = Moved("MERCHANT", Merchant, fees.net)
          /\ Transfer(InternalRow("PENDING"), InternalRow("AVAILABLE"), fees.internal)
               = Moved("INTERNAL", 0, fees.internal)
      BY <1>1, <1>2, <1>3 DEF MerchantRow, InternalRow
    <2> HIDE DEF m, D
    <2>4. QED
      BY <2>1, <2>2, <2>3
  <1>5. m.legs = UNION {Moved(h.type, h.id, h.x) : h \in H}
    <2>0. ASSUME NEW type, NEW id, NEW x, NEW l \in Moved(type, id, x), Holder(type, id, x) \in H
          PROVE  \E h \in H : l \in Moved(h.type, h.id, h.x)
      <3> DEFINE h == Holder(type, id, x)
      <3>1. h.type = type /\ h.id = id /\ h.x = x
        OBVIOUS
      <3> HIDE DEF h, H
      <3>2. QED
        BY <2>0, <3>1 DEF h
    <2>1. ASSUME NEW l \in m.legs
          PROVE  \E h \in H : l \in Moved(h.type, h.id, h.x)
      <3>1. /\ Holder("MERCHANT", Merchant, fees.net) \in H
            /\ Holder("INTERNAL", 0, fees.internal) \in H
            /\ \A a \in D : Holder("AGENT", a, fees.agents[a]) \in H
        OBVIOUS
      <3> HIDE DEF H, Holder, D, m
      <3>2. \/ l \in Moved("MERCHANT", Merchant, fees.net)
            \/ l \in Moved("INTERNAL", 0, fees.internal)
            \/ \E a \in D : l \in Moved("AGENT", a, fees.agents[a])
        BY <1>4
      <3>3. QED
        BY <2>0, <3>1, <3>2
    <2>2. ASSUME NEW h \in H, NEW l \in Moved(h.type, h.id, h.x)
          PROVE  l \in m.legs
      BY <1>4
    <2> HIDE DEF m, H
    <2>3. QED
      BY <2>1, <2>2
  <1>6. \A h \in H : h.x \in Int /\ h.x > 0
    BY <1>1, <1>2
  <1>7. \A h, j \in H : h.type = j.type /\ h.id = j.id => h = j
    OBVIOUS
  <1>8. H # {}
    OBVIOUS
  <1> HIDE DEF H, m
  <1>9. Valid(m)
    BY <1>5, <1>6, <1>7, <1>8, MovesAreValid
  <1>10. QED
    BY <1>9 DEF m

\* A reservation of something, and its release, are valid.
LEMMA TakenIsValid ==
    ASSUME NEW m, NEW from, NEW to, NEW x \in Int, x > 0, from # to, SameHolder(from, to),
           m.legs = {Debit(from, x), Credit(to, x)}
    PROVE  Valid(m)
  <1>1. m.legs # {} /\ \A l \in m.legs : l.amount > 0
    BY LegFields
  <1>2. \A k, l \in m.legs : k.row = l.row => k = l
    BY LegFields
  <1>3. \A k, l \in m.legs : SameHolder(k.row, l.row)
    BY LegFields DEF SameHolder
  <1>4. ASSUME NEW l \in m.legs
        PROVE  NetOfHolder(m.legs, l.row) = 0
    <2>1. {k \in m.legs : SameHolder(k.row, l.row)} = {Debit(from, x), Credit(to, x)}
      BY <1>3
    <2>2. QED
      BY <2>1, PairNetsZero DEF NetOfHolder
  <1>5. QED
    BY <1>1, <1>2, <1>4 DEF Valid, NetsToZero

LEMMA PayoutMovesValid ==
    ASSUME NEW d \in Source, NEW fees, CalculationOK(fees), fees.net > 0
    PROVE  Valid(BuildPayoutReserved(d, fees)) /\ Valid(BuildPayoutFailed(d, fees))
  <1>1. fees.net \in Int
    BY DEF CalculationOK
  <1>2. /\ MerchantRow("AVAILABLE") # MerchantRow("RESERVED")
        /\ SameHolder(MerchantRow("AVAILABLE"), MerchantRow("RESERVED"))
        /\ SameHolder(MerchantRow("RESERVED"), MerchantRow("AVAILABLE"))
    BY DEF MerchantRow, RowOf, SameHolder
  <1>3. BuildPayoutReserved(d, fees).legs
          = {Debit(MerchantRow("AVAILABLE"), fees.net), Credit(MerchantRow("RESERVED"), fees.net)}
    BY DEF BuildPayoutReserved, MovementOf
  <1>4. BuildPayoutFailed(d, fees).legs
          = {Debit(MerchantRow("RESERVED"), fees.net), Credit(MerchantRow("AVAILABLE"), fees.net)}
    BY DEF BuildPayoutFailed, MovementOf
  <1>5. Valid(BuildPayoutReserved(d, fees))
    BY <1>1, <1>2, <1>3, TakenIsValid
  <1>6. Valid(BuildPayoutFailed(d, fees))
    BY <1>1, <1>2, <1>4, TakenIsValid
  <1>7. QED
    BY <1>5, <1>6

\* Of rows that differ, and for no transfer, only a share of nothing is refused.
LEMMA RefusedForNothing ==
    ASSUME NEW m \in Movement, m.reason \notin TransferReasons, m.legs # {},
           \A k, l \in m.legs : k.row = l.row => k = l, ~Valid(m)
    PROVE  \E l \in m.legs : l.amount <= 0
  <1>1. \A l \in m.legs : l.amount \in Int
    BY DEF Movement, Leg
  <1>2. QED
    BY <1>1 DEF Valid

LEMMA EarnedRows ==
    ASSUME NEW fees, NEW bucket, NEW k \in Earned(fees, bucket), NEW l \in Earned(fees, bucket),
           k.row = l.row
    PROVE  k = l
  BY LegFields, HoldersDiffer DEF Earned

LEMMA PayinRefused ==
    ASSUME NEW p \in Source, NEW answer, AnswerOK(answer), ~Valid(BuildPayinMovement(p, answer))
    PROVE  \E l \in BuildPayinMovement(p, answer).legs : l.amount <= 0
  <1> DEFINE m == BuildPayinMovement(p, answer)
  <1>1. m \in Movement /\ m.reason \notin TransferReasons
    BY PayinTyped DEF BuildPayinMovement, MovementOf, TransferReasons
  <1>2. CASE answer = {}
    <2>1. m.legs = {Credit(MerchantRow("PENDING"), Nominal[p])}
      BY <1>2 DEF BuildPayinMovement, MovementOf
    <2> HIDE DEF m
    <2>2. QED
      BY <1>1, <2>1, RefusedForNothing DEF m
  <1>3. CASE answer # {}
    <2>1. PICK fees \in answer : answer = {fees}
      BY <1>3 DEF AnswerOK, AtMostOne
    <2> DEFINE mine == Credit(MerchantRow("PENDING"), fees.net)
    <2>2. m.legs = {mine} \cup Earned(fees, "PENDING")
      BY <2>1 DEF BuildPayinMovement, MovementOf
    <2>3. \A l \in Earned(fees, "PENDING") : l.row # mine.row
      BY LegFields, HoldersDiffer DEF Earned
    <2> HIDE DEF m, mine
    <2>4. \A k, l \in m.legs : k.row = l.row => k = l
      BY <2>2, <2>3, EarnedRows
    <2>5. QED
      BY <1>1, <2>2, <2>4, RefusedForNothing DEF m
  <1>4. QED
    BY <1>2, <1>3

LEMMA CompletedRefused ==
    ASSUME NEW d \in Source, NEW fees, CalculationOK(fees), ~Valid(BuildPayoutCompleted(d, fees))
    PROVE  \E l \in BuildPayoutCompleted(d, fees).legs : l.amount <= 0
  <1> DEFINE m == BuildPayoutCompleted(d, fees)
             mine == Debit(MerchantRow("RESERVED"), fees.net)
  <1>1. m \in Movement /\ m.reason \notin TransferReasons
    BY PayoutTyped DEF BuildPayoutCompleted, MovementOf, TransferReasons
  <1>2. m.legs = {mine} \cup Earned(fees, "AVAILABLE")
    BY DEF BuildPayoutCompleted, MovementOf
  <1>3. \A l \in Earned(fees, "AVAILABLE") : l.row # mine.row
    BY LegFields, HoldersDiffer DEF Earned
  <1> HIDE DEF m, mine
  <1>4. \A k, l \in m.legs : k.row = l.row => k = l
    BY <1>2, <1>3, EarnedRows
  <1>5. QED
    BY <1>1, <1>2, <1>4, RefusedForNothing DEF m

\* What is to have an outcome has reserved something.
ReservedPays ==
    \A s \in Payouts : status[s] = "PENDING" => \A fees \in charged[s] : fees.net > 0

\* What validate may refuse.
MayRefuse(m) ==
    m.reason \in {"PAYIN_CAPTURED", "PAYOUT_COMPLETED"} /\ \E l \in m.legs : l.amount <= 0

LEMMA RefusedPost ==
    ASSUME MoneyOK, OnlyNothingIsRefused, ReservedPays, NEW s \in Source, NEW m, NEW next, NEW fees,
           Post(s, m, next, fees), ~Valid(m) => MayRefuse(m),
           s \in Payouts /\ next = "PENDING" => \A c \in fees : c.net > 0
    PROVE  OnlyNothingIsRefused' /\ ReservedPays'
  <1>1. OnlyNothingIsRefused'
    <2>1. CASE Valid(m)
      BY <2>1 DEF Post, OnlyNothingIsRefused
    <2>2. CASE ~Valid(m)
      <3>1. refused' = [refused EXCEPT ![s] = {m}] /\ MayRefuse(m)
        BY <2>2 DEF Post
      <3>2. \A t \in Source : \A k \in refused'[t] : k \in refused[t] \/ k = m
        BY <3>1 DEF MoneyOK
      <3>3. \A t \in Source : \A k \in refused'[t] : MayRefuse(k)
        BY <3>1, <3>2 DEF OnlyNothingIsRefused, MayRefuse
      <3>4. QED
        BY <3>3 DEF OnlyNothingIsRefused, MayRefuse
    <2>3. QED
      BY <2>1, <2>2
  <1>2. ReservedPays'
    <2>1. Payouts \subseteq Source
      BY DEF Source
    <2>2. QED
      BY <2>1, PostFacts DEF ReservedPays
  <1>3. QED
    BY <1>1, <1>2

LEMMA NextRefuses ==
    ASSUME FlowInv, OnlyNothingIsRefused, ReservedPays, [Next]_vars
    PROVE  OnlyNothingIsRefused' /\ ReservedPays'
  <1>0. /\ TypeOK /\ MoneyOK /\ BookedOK
        /\ \A s \in Source : AnswerOK(charged[s])
    BY DEF FlowInv, TypeOK, MoneyOK
  <1>a. ASSUME UNCHANGED moneyVars
        PROVE  OnlyNothingIsRefused' /\ ReservedPays'
    BY <1>a DEF OnlyNothingIsRefused, ReservedPays, moneyVars
  <1>1. ASSUME NEW s \in Source, CalculateFee(s) \/ Advance(s) \/ CaptureFails(s)
        PROVE  OnlyNothingIsRefused' /\ ReservedPays'
    BY <1>1, <1>a, CalculationGoes
  <1>2. ASSUME NEW s \in Source, Capture(s)
        PROVE  OnlyNothingIsRefused' /\ ReservedPays'
    <2>0. PICK fees : fees = calculation[s].fees
      OBVIOUS
    <2> DEFINE m == BuildPayinMovement(s, fees)
    <2>1. Post(s, m, "SUCCESS", fees)
      BY <1>2, <2>0 DEF Capture
    <2>2. AnswerOK(fees) /\ m.reason = "PAYIN_CAPTURED"
      BY <1>0, <1>2, <2>0, AnswersTyped DEF Capture, BuildPayinMovement, MovementOf
    <2>3. ~Valid(m) => MayRefuse(m)
      BY <2>2, PayinRefused DEF MayRefuse
    <2> HIDE DEF m
    <2>4. QED
      BY <1>0, <2>1, <2>3, RefusedPost
  <1>3. ASSUME NEW s \in Source, Settle(s)
        PROVE  OnlyNothingIsRefused' /\ ReservedPays'
    <2>1. PICK fees \in charged[s] :
              Post(s, BuildSettlementMovement(s, fees), "SETTLED", {fees})
      BY <1>3 DEF Settle
    <2>2. charged[s] = {fees} /\ CalculationOK(fees)
      BY <1>0 DEF AnswerOK, AtMostOne
    <2>3. Valid(BuildPayinMovement(s, {fees}))
      BY <1>0, <1>3, <2>2 DEF BookedOK, Settle
    <2>4. Valid(BuildSettlementMovement(s, fees))
      BY <2>2, <2>3, SettlementValid
    <2>5. QED
      BY <1>0, <2>1, <2>4, RefusedPost
  <1>4. ASSUME NEW s \in Source, Reserve(s)
        PROVE  OnlyNothingIsRefused' /\ ReservedPays'
    <2>1. ASSUME NEW fees \in calculation[s].fees, fees.net > 0,
                 Post(s, BuildPayoutReserved(s, fees), "PENDING", {fees})
          PROVE  OnlyNothingIsRefused' /\ ReservedPays'
      <3>1. CalculationOK(fees)
        BY <1>0, <1>4, AnswersTyped DEF Reserve, AnswerOK
      <3>2. Valid(BuildPayoutReserved(s, fees))
        BY <2>1, <3>1, PayoutMovesValid
      <3>3. QED
        BY <1>0, <2>1, <3>2, RefusedPost
    <2>2. QED
      BY <1>4, <2>1, <1>a DEF Reserve
  <1>5. ASSUME NEW s \in Source, NEW isPaid \in BOOLEAN, PostPayoutOutcome(s, isPaid)
        PROVE  OnlyNothingIsRefused' /\ ReservedPays'
    <2>1. PICK fees \in charged[s] :
              \/ Post(s, BuildPayoutCompleted(s, fees), "SUCCESS", {fees})
              \/ Post(s, BuildPayoutFailed(s, fees), "FAILED", {fees})
      BY <1>5 DEF PostPayoutOutcome
    <2>2. CalculationOK(fees) /\ fees.net > 0
      BY <1>0, <1>5 DEF AnswerOK, PostPayoutOutcome, ReservedPays
    <2>3. ~Valid(BuildPayoutCompleted(s, fees)) => MayRefuse(BuildPayoutCompleted(s, fees))
      <3>1. BuildPayoutCompleted(s, fees).reason = "PAYOUT_COMPLETED"
        BY DEF BuildPayoutCompleted, MovementOf
      <3>2. QED
        BY <2>2, <3>1, CompletedRefused DEF MayRefuse
    <2>4. Valid(BuildPayoutFailed(s, fees))
      BY <2>2, PayoutMovesValid
    <2>5. QED
      BY <1>0, <2>1, <2>3, <2>4, RefusedPost
  <1>6. ASSUME NEW e \in Editors, EditorStep(e)
        PROVE  OnlyNothingIsRefused' /\ ReservedPays'
    <2>1. UNCHANGED moneyVars
      BY <1>6 DEF EditorStep, UpsertProvider, DeleteProvider, OpenForm, UpsertAgentShareholder,
                  CommitEdit, EditFails, Writes
    <2>2. QED
      BY <2>1, <1>a
  <1>7. ASSUME NEW k \in Key, Expire(k)
        PROVE  OnlyNothingIsRefused' /\ ReservedPays'
    BY <1>7, <1>a DEF Expire
  <1>8. CASE UNCHANGED vars
    BY <1>8, <1>a DEF vars
  <1>9. QED
    BY <1>1, <1>2, <1>3, <1>4, <1>5, <1>6, <1>7, <1>8 DEF Next, SourceStep

(***************************************************************************)
(* A settlement, a reservation and a release are never refused, and a      *)
(* capture or the payment of a payout only for a share of nothing, for any *)
(* fees, shareholders, nominals and edits (OnlyNothingIsRefused).          *)
(***************************************************************************)
THEOREM RefusedOnlyForNothing == Spec => []OnlyNothingIsRefused
  <1> DEFINE Inv == FlowInv /\ OnlyNothingIsRefused /\ ReservedPays
  <1>1. Init => Inv
    <2>1. Init => FlowInv
      BY InitFlow
    <2>2. Init => OnlyNothingIsRefused /\ ReservedPays
      BY DEF Init, OnlyNothingIsRefused, ReservedPays, Source
    <2>3. QED
      BY <2>1, <2>2
  <1>2. Inv /\ [Next]_vars => Inv'
    BY NextTyped, NextFlow, NextRefuses DEF FlowInv
  <1>3. Inv => OnlyNothingIsRefused
    OBVIOUS
  <1> HIDE DEF Inv
  <1>4. QED
    BY <1>1, <1>2, <1>3, PTL DEF Spec

=============================================================================
