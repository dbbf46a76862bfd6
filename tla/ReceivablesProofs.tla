------------------------- MODULE ReceivablesProofs -------------------------
(***************************************************************************)
(* What holds of payments and invoices for every number of payments,       *)
(* invoices and processes and for all amounts, as long as requests do not  *)
(* overlap; types hold even if they do.                                    *)
(*                                                                         *)
(* The first part is about SumFunction, which the balances are made of.    *)
(* A fold is a recursive function over the subsets of its domain; what it  *)
(* computes is shown by the minimal counterexample: a finite set has no    *)
(* infinite descending chain of subsets.                                   *)
(***************************************************************************)
EXTENDS Receivables, FiniteSetTheorems, WellFoundedInduction, TLAPS

-----------------------------------------------------------------------------
(* Sums over finite sets. *)

\* The element a fold takes first.
First(s) == CHOOSE x \in s : TRUE

\* g is the recursive function by which the sum of f over S is defined.
IsFold(f, S, g) ==
    g = [s \in SUBSET S |-> IF s = {} THEN 0 ELSE f[First(s)] + g[s \ {First(s)}]]

(* A nonempty collection of subsets of a finite set has a minimal member. *)
LEMMA MinimalSubset ==
    ASSUME NEW S, IsFiniteSet(S), NEW C \in SUBSET SUBSET S, C # {}
    PROVE  \E T \in C : \A U \in C : U \subseteq T => U = T
<1> DEFINE R == StrictSubsetOrdering(S)
<1>1. IsWellFoundedOn(R, SUBSET S)
  BY FS_StrictSubsetOrderingWellFounded, FS_FiniteSubsetsOfFinite
<1>2. C \subseteq SUBSET S
  OBVIOUS
<1>3. PICK T \in C : \A U \in C : ~(<<U, T>> \in R)
  <2> HIDE DEF R
  <2> QED
    BY <1>1, <1>2, WFMin
<1>4. ASSUME NEW U \in C, U \subseteq T, U # T PROVE FALSE
  <2>1. <<U, T>> \in R
    BY <1>4 DEF StrictSubsetOrdering
  <2> QED
    BY <2>1, <1>3, <1>4
<1> QED
  BY <1>3, <1>4

(* The element taken first is one of the set. *)
LEMMA FirstIn ==
    ASSUME NEW s, s # {}
    PROVE  First(s) \in s
  BY Zenon DEF First

(* The fold is the value of that recursive function at the whole set. *)
LEMMA SumIsFold ==
    ASSUME NEW f, NEW S
    PROVE  SumFunctionOnSet(f, S) = (CHOOSE g : IsFold(f, S, g))[S]
  BY Zenon DEF SumFunctionOnSet, FoldFunctionOnSet, MapThenFoldSet, IsFold, First

(* Two such functions agree on the subsets they share. *)
LEMMA FoldUnique ==
    ASSUME NEW f, NEW S, IsFiniteSet(S), NEW T \in SUBSET S, NEW g, NEW h,
           IsFold(f, S, g), IsFold(f, T, h)
    PROVE  \A s \in SUBSET T : g[s] = h[s]
<1> DEFINE C == {s \in SUBSET T : g[s] # h[s]}
<1> SUFFICES ASSUME C # {} PROVE FALSE
  OBVIOUS
<1>1. PICK s \in C : \A u \in C : u \subseteq s => u = s
  <2>1. IsFiniteSet(T)
    BY FS_Subset
  <2>2. C \in SUBSET SUBSET T
    OBVIOUS
  <2> HIDE DEF C
  <2> QED
    BY <2>1, <2>2, MinimalSubset
<1>2. /\ g[s] = IF s = {} THEN 0 ELSE f[First(s)] + g[s \ {First(s)}]
      /\ h[s] = IF s = {} THEN 0 ELSE f[First(s)] + h[s \ {First(s)}]
  BY DEF IsFold
<1>3. CASE s = {}
  BY <1>2, <1>3
<1>4. CASE s # {}
  <2>1. First(s) \in s
    BY <1>4, FirstIn
  <2>2. s \ {First(s)} \notin C
    BY <2>1, <1>1
  <2>3. g[s \ {First(s)}] = h[s \ {First(s)}]
    BY <2>2
  <2> QED
    BY <2>3, <1>2, <1>4
<1> QED
  BY <1>3, <1>4

(* The equation of a sum: nothing for the empty set, else the element taken *)
(* first and the rest.                                                      *)
LEMMA SumEquation ==
    ASSUME NEW f, NEW S, IsFiniteSet(S)
    PROVE  SumFunctionOnSet(f, S) =
             IF S = {} THEN 0 ELSE f[First(S)] + SumFunctionOnSet(f, S \ {First(S)})
<1> DEFINE Value(s) == IF s = {} THEN 0 ELSE f[First(s)] + SumFunctionOnSet(f, s \ {First(s)})
           C == {s \in SUBSET S : SumFunctionOnSet(f, s) # Value(s)}
<1> SUFFICES ASSUME C # {} PROVE FALSE
  OBVIOUS
<1>1. PICK T \in C : \A u \in C : u \subseteq T => u = T
  <2>1. C \in SUBSET SUBSET S
    OBVIOUS
  <2> HIDE DEF C
  <2> QED
    BY <2>1, MinimalSubset
<1>2. \A u \in SUBSET T : u # T => SumFunctionOnSet(f, u) = Value(u)
  BY <1>1
<1>3. \A s \in SUBSET T : s # {} => First(s) \in s /\ s \ {First(s)} \in SUBSET T /\ s \ {First(s)} # T
  BY FirstIn
<1>4. IsFiniteSet(T) /\ \A u \in SUBSET T : IsFiniteSet(u)
  BY FS_Subset
<1> DEFINE g == [s \in SUBSET T |-> Value(s)]
<1>5. IsFold(f, T, g)
  <2>1. ASSUME NEW s \in SUBSET T, s # {}
        PROVE  g[s \ {First(s)}] = SumFunctionOnSet(f, s \ {First(s)})
    <3> HIDE DEF Value
    <3> QED
      BY <1>2, <1>3, <2>1
  <2>2. \A s \in SUBSET T : g[s] = IF s = {} THEN 0 ELSE f[First(s)] + g[s \ {First(s)}]
    BY <2>1
  <2>3. g = [s \in SUBSET T |-> g[s]]
    OBVIOUS
  <2> HIDE DEF g
  <2> QED
    BY <2>2, <2>3 DEF IsFold
<1> DEFINE h == CHOOSE k : IsFold(f, T, k)
<1>6. IsFold(f, T, h)
  <2> HIDE DEF g
  <2> QED
    BY <1>5
<1>7. SumFunctionOnSet(f, T) = h[T]
  BY SumIsFold
<1> HIDE DEF h
<1>8. \A u \in SUBSET T : h[u] = g[u]
  <2> HIDE DEF g
  <2> QED
    BY <1>4, <1>5, <1>6, FoldUnique
<1>9. SumFunctionOnSet(f, T) = Value(T)
  BY <1>7, <1>8
<1> QED
  BY <1>1, <1>9

(* The empty sum. *)
LEMMA SumEmpty ==
    ASSUME NEW f
    PROVE  SumFunctionOnSet(f, {}) = 0
  BY SumEquation, FS_EmptySet

(* A sum of naturals is a natural. *)
LEMMA SumType ==
    ASSUME NEW f, NEW S, IsFiniteSet(S), \A x \in S : f[x] \in Nat
    PROVE  SumFunctionOnSet(f, S) \in Nat
<1> DEFINE C == {s \in SUBSET S : SumFunctionOnSet(f, s) \notin Nat}
<1> SUFFICES ASSUME C # {} PROVE FALSE
  OBVIOUS
<1>1. PICK T \in C : \A u \in C : u \subseteq T => u = T
  <2>1. C \in SUBSET SUBSET S
    OBVIOUS
  <2> HIDE DEF C
  <2> QED
    BY <2>1, MinimalSubset
<1>2. T # {}
  BY SumEmpty
<1>3. First(T) \in T
  BY <1>2, FirstIn
<1>4. SumFunctionOnSet(f, T \ {First(T)}) \in Nat
  BY <1>1, <1>3
<1>5. SumFunctionOnSet(f, T) = f[First(T)] + SumFunctionOnSet(f, T \ {First(T)})
  BY <1>2, FS_Subset, SumEquation
<1> QED
  BY <1>3, <1>4, <1>5

(* Any element may be taken out of a sum: the order of the fold is immaterial. *)
LEMMA SumTakeOut ==
    ASSUME NEW f, NEW S, IsFiniteSet(S), \A x \in S : f[x] \in Nat, NEW x \in S
    PROVE  SumFunctionOnSet(f, S) = f[x] + SumFunctionOnSet(f, S \ {x})
<1> DEFINE C == {s \in SUBSET S : \E y \in s :
                    SumFunctionOnSet(f, s) # f[y] + SumFunctionOnSet(f, s \ {y})}
<1> SUFFICES ASSUME C # {} PROVE FALSE
  OBVIOUS
<1>1. PICK T \in C : \A u \in C : u \subseteq T => u = T
  <2>1. C \in SUBSET SUBSET S
    OBVIOUS
  <2> HIDE DEF C
  <2> QED
    BY <2>1, MinimalSubset
<1>2. PICK y \in T : SumFunctionOnSet(f, T) # f[y] + SumFunctionOnSet(f, T \ {y})
  OBVIOUS
<1> DEFINE z == First(T)
<1>3. z \in T
  BY FirstIn
<1>4. IsFiniteSet(T) /\ IsFiniteSet(T \ {y, z})
  BY FS_Subset
<1>5. SumFunctionOnSet(f, T) = f[z] + SumFunctionOnSet(f, T \ {z})
  BY <1>4, SumEquation
<1> HIDE DEF z
<1>6. y # z
  BY <1>2, <1>5
<1>7. SumFunctionOnSet(f, T \ {z}) = f[y] + SumFunctionOnSet(f, (T \ {z}) \ {y})
  <2>1. T \ {z} \notin C
    BY <1>1, <1>3
  <2>2. T \ {z} \in SUBSET S /\ y \in T \ {z}
    BY <1>6
  <2> QED
    BY <2>1, <2>2
<1>8. SumFunctionOnSet(f, T \ {y}) = f[z] + SumFunctionOnSet(f, (T \ {y}) \ {z})
  <2>1. T \ {y} \notin C
    BY <1>1, <1>2
  <2>2. T \ {y} \in SUBSET S /\ z \in T \ {y}
    BY <1>3, <1>6
  <2> QED
    BY <2>1, <2>2
<1>9. (T \ {z}) \ {y} = T \ {y, z} /\ (T \ {y}) \ {z} = T \ {y, z}
  OBVIOUS
<1>10. SumFunctionOnSet(f, T \ {y, z}) \in Nat
  BY <1>4, SumType
<1>11. f[y] \in Nat /\ f[z] \in Nat
  BY <1>3
<1> HIDE DEF C
<1> QED
  BY <1>2, <1>5, <1>7, <1>8, <1>9, <1>10, <1>11

(* A sum grows with its terms. *)
LEMMA SumMonotone ==
    ASSUME NEW f, NEW g, NEW S, IsFiniteSet(S),
           \A x \in S : f[x] \in Nat /\ g[x] \in Nat /\ f[x] <= g[x]
    PROVE  SumFunctionOnSet(f, S) <= SumFunctionOnSet(g, S)
<1> DEFINE C == {s \in SUBSET S : ~(SumFunctionOnSet(f, s) <= SumFunctionOnSet(g, s))}
<1> SUFFICES ASSUME C # {} PROVE FALSE
  OBVIOUS
<1>1. PICK T \in C : \A u \in C : u \subseteq T => u = T
  <2>1. C \in SUBSET SUBSET S
    OBVIOUS
  <2> HIDE DEF C
  <2> QED
    BY <2>1, MinimalSubset
<1>2. PICK x \in T : TRUE
  BY SumEmpty
<1>3. IsFiniteSet(T) /\ IsFiniteSet(T \ {x}) /\ T \in SUBSET S
  BY FS_Subset
<1>4. T \ {x} \notin C
  BY <1>1, <1>2
<1>5. SumFunctionOnSet(f, T \ {x}) <= SumFunctionOnSet(g, T \ {x})
  BY <1>3, <1>4
<1>6. /\ SumFunctionOnSet(f, T) = f[x] + SumFunctionOnSet(f, T \ {x})
      /\ SumFunctionOnSet(g, T) = g[x] + SumFunctionOnSet(g, T \ {x})
  BY <1>3, SumTakeOut
<1>7. /\ SumFunctionOnSet(f, T \ {x}) \in Nat
      /\ SumFunctionOnSet(g, T \ {x}) \in Nat
  BY <1>3, SumType
<1>8. ~(SumFunctionOnSet(f, T) <= SumFunctionOnSet(g, T))
  OBVIOUS
<1>9. f[x] \in Nat /\ g[x] \in Nat /\ f[x] <= g[x]
  BY <1>3
<1> HIDE DEF C
<1> QED
  BY <1>5, <1>6, <1>7, <1>8, <1>9

(* A sum depends on its terms only. *)
LEMMA SumSame ==
    ASSUME NEW f, NEW g, NEW S, IsFiniteSet(S), \A x \in S : f[x] \in Nat /\ g[x] = f[x]
    PROVE  SumFunctionOnSet(g, S) = SumFunctionOnSet(f, S)
<1>1. SumFunctionOnSet(f, S) \in Nat /\ SumFunctionOnSet(g, S) \in Nat
  BY SumType
<1>2. /\ SumFunctionOnSet(f, S) <= SumFunctionOnSet(g, S)
      /\ SumFunctionOnSet(g, S) <= SumFunctionOnSet(f, S)
  BY SumMonotone
<1> QED
  BY <1>1, <1>2

(* A change of one term changes the sum by as much. *)
LEMMA SumOneTerm ==
    ASSUME NEW f, NEW g, NEW S, IsFiniteSet(S), NEW x \in S,
           \A y \in S : f[y] \in Nat /\ g[y] \in Nat,
           \A y \in S \ {x} : g[y] = f[y]
    PROVE  SumFunctionOnSet(g, S) + f[x] = SumFunctionOnSet(f, S) + g[x]
<1>1. IsFiniteSet(S \ {x})
  BY FS_Subset
<1>2. SumFunctionOnSet(g, S \ {x}) = SumFunctionOnSet(f, S \ {x})
  BY <1>1, SumSame
<1>3. /\ SumFunctionOnSet(f, S) = f[x] + SumFunctionOnSet(f, S \ {x})
      /\ SumFunctionOnSet(g, S) = g[x] + SumFunctionOnSet(g, S \ {x})
  BY SumTakeOut
<1>4. SumFunctionOnSet(f, S \ {x}) \in Nat
  BY <1>1, SumType
<1> QED
  BY <1>2, <1>3, <1>4

(* The sum of sums. *)
LEMMA SumPlus ==
    ASSUME NEW f, NEW g, NEW h, NEW S, IsFiniteSet(S),
           \A x \in S : f[x] \in Nat /\ g[x] \in Nat /\ h[x] = f[x] + g[x]
    PROVE  SumFunctionOnSet(h, S) = SumFunctionOnSet(f, S) + SumFunctionOnSet(g, S)
<1> DEFINE C == {s \in SUBSET S : SumFunctionOnSet(h, s) # SumFunctionOnSet(f, s) + SumFunctionOnSet(g, s)}
<1> SUFFICES ASSUME C # {} PROVE FALSE
  OBVIOUS
<1>1. PICK T \in C : \A u \in C : u \subseteq T => u = T
  <2>1. C \in SUBSET SUBSET S
    OBVIOUS
  <2> HIDE DEF C
  <2> QED
    BY <2>1, MinimalSubset
<1>2. PICK x \in T : TRUE
  <2>1. ~(SumFunctionOnSet(h, {}) # SumFunctionOnSet(f, {}) + SumFunctionOnSet(g, {}))
    BY SumEmpty
  <2> QED
    BY <2>1
<1>3. IsFiniteSet(T) /\ IsFiniteSet(T \ {x}) /\ T \in SUBSET S
  BY FS_Subset
<1>4. T \ {x} \notin C
  BY <1>1, <1>2
<1>5. SumFunctionOnSet(h, T \ {x}) = SumFunctionOnSet(f, T \ {x}) + SumFunctionOnSet(g, T \ {x})
  BY <1>3, <1>4
<1>6. /\ SumFunctionOnSet(f, T) = f[x] + SumFunctionOnSet(f, T \ {x})
      /\ SumFunctionOnSet(g, T) = g[x] + SumFunctionOnSet(g, T \ {x})
      /\ SumFunctionOnSet(h, T) = h[x] + SumFunctionOnSet(h, T \ {x})
  BY <1>3, SumTakeOut
<1>7. /\ SumFunctionOnSet(f, T \ {x}) \in Nat
      /\ SumFunctionOnSet(g, T \ {x}) \in Nat
  BY <1>3, SumType
<1>8. SumFunctionOnSet(h, T) # SumFunctionOnSet(f, T) + SumFunctionOnSet(g, T)
  OBVIOUS
<1>9. f[x] \in Nat /\ g[x] \in Nat /\ h[x] = f[x] + g[x]
  BY <1>3
<1> HIDE DEF C
<1> QED
  BY <1>5, <1>6, <1>7, <1>8, <1>9

(* Terms that are zero may be left out. *)
LEMMA SumWithoutZeros ==
    ASSUME NEW f, NEW S, IsFiniteSet(S), NEW T \in SUBSET S,
           \A x \in S : f[x] \in Nat, \A x \in S \ T : f[x] = 0
    PROVE  SumFunctionOnSet(f, S) = SumFunctionOnSet(f, T)
<1> DEFINE C == {s \in SUBSET S : T \subseteq s /\ SumFunctionOnSet(f, s) # SumFunctionOnSet(f, T)}
<1> SUFFICES ASSUME C # {} PROVE FALSE
  OBVIOUS
<1>1. PICK U \in C : \A u \in C : u \subseteq U => u = U
  <2>1. C \in SUBSET SUBSET S
    OBVIOUS
  <2> HIDE DEF C
  <2> QED
    BY <2>1, MinimalSubset
<1>2. PICK x \in U : x \notin T
  OBVIOUS
<1>3. IsFiniteSet(U) /\ IsFiniteSet(U \ {x}) /\ U \in SUBSET S /\ T \subseteq U \ {x}
  BY FS_Subset, <1>2
<1>4. U \ {x} \notin C
  BY <1>1, <1>2
<1>5. SumFunctionOnSet(f, U \ {x}) = SumFunctionOnSet(f, T)
  BY <1>3, <1>4
<1>6. SumFunctionOnSet(f, U) = f[x] + SumFunctionOnSet(f, U \ {x})
  BY <1>3, SumTakeOut
<1>7. SumFunctionOnSet(f, U \ {x}) \in Nat
  BY <1>3, SumType
<1>8. f[x] = 0
  BY <1>2, <1>3
<1>9. SumFunctionOnSet(f, U) # SumFunctionOnSet(f, T)
  OBVIOUS
<1> HIDE DEF C
<1> QED
  BY <1>5, <1>6, <1>7, <1>8, <1>9

(* The smaller and the larger of two numbers. *)
LEMMA MinMaxOfTwo ==
    ASSUME NEW a \in Int, NEW b \in Int
    PROVE  /\ Min({a, b}) = IF a <= b THEN a ELSE b
           /\ Max({a, b}) = IF a <= b THEN b ELSE a
<1>1. \E x \in {a, b} : \A y \in {a, b} : x <= y
  OBVIOUS
<1>2. \E x \in {a, b} : \A y \in {a, b} : x >= y
  OBVIOUS
<1> QED
  BY <1>1, <1>2 DEF Min, Max

HasMinimal(S) ==
    \A D \in SUBSET SUBSET S : D # {} => \E T \in D : \A u \in D : u \subseteq T => u = T

(* MinimalSubset for all collections at once. *)
LEMMA MinimalSubsets == \A S : IsFiniteSet(S) => HasMinimal(S)
  BY MinimalSubset DEF HasMinimal

(* A finite set of naturals has a largest member. *)
LEMMA MaxOfFinite ==
    ASSUME NEW S, S \subseteq Nat, IsFiniteSet(S), S # {}
    PROVE  Max(S) \in S /\ \A y \in S : y <= Max(S)
<1>0. HasMinimal(S)
  BY MinimalSubsets
<1> DEFINE C == {s \in SUBSET S : s # {} /\ ~ \E m \in s : \A y \in s : m >= y}
<1>1. C = {}
  <2> SUFFICES ASSUME C # {} PROVE FALSE
    OBVIOUS
  <2>1. PICK T \in C : \A u \in C : u \subseteq T => u = T
    <3>1. C \in SUBSET SUBSET S
      OBVIOUS
    <3> HIDE DEF C
    <3> QED
      BY <3>1, <1>0 DEF HasMinimal
  <2>2. PICK x \in T : TRUE
    OBVIOUS
  <2>3. T \ {x} \notin C
    BY <2>1, <2>2
  <2>4. CASE T \ {x} = {}
    <3>1. \A y \in T : x >= y
      BY <2>2, <2>4
    <3> QED
      BY <3>1
  <2>5. CASE T \ {x} # {}
    <3>1. PICK m \in T \ {x} : \A y \in T \ {x} : m >= y
      BY <2>3, <2>5
    <3>2. x \in Nat /\ m \in Nat /\ \A y \in T : y \in Nat
      OBVIOUS
    <3>3. CASE m >= x
      <4>1. \A y \in T : m >= y
        BY <3>1, <3>3
      <4>2. m \in T
        OBVIOUS
      <4> QED
        BY <4>1, <4>2
    <3>4. CASE x >= m
      <4>1. \A y \in T : x >= y
        BY <3>1, <3>2, <3>4
      <4> QED
        BY <4>1
    <3> QED
      BY <3>2, <3>3, <3>4
  <2> QED
    BY <2>4, <2>5
<1>2. \E m \in S : \A y \in S : m >= y
  BY <1>1
<1>3. Max(S) \in S /\ \A y \in S : Max(S) >= y
  BY <1>2, Zenon DEF Max
<1>4. Max(S) \in Nat /\ \A y \in S : y \in Nat
  BY <1>3
<1> HIDE DEF C
<1> QED
  BY <1>3, <1>4

-----------------------------------------------------------------------------
(* Balances: what the sums of a table of allocations do. *)

(* The tables are finite. *)
LEMMA FiniteTables == IsFiniteSet(Payment) /\ IsFiniteSet(Invoice)
  BY ReceivablesAssumption

(* The amounts of the payments are bounded. *)
LEMMA MaxAmountBounds ==
    ASSUME NEW p \in Payment
    PROVE  MaxAmount \in Nat /\ Amount[p] \in Nat \ {0} /\ Amount[p] <= MaxAmount
<1> DEFINE S == {Amount[r] : r \in Payment}
<1>1. S \subseteq Nat /\ Amount[p] \in S
  BY ReceivablesAssumption
<1>2. IsFiniteSet(S)
  <2>1. Amount \in Surjection(Payment, S)
    BY ReceivablesAssumption DEF Surjection
  <2> HIDE DEF S
  <2> QED
    BY <2>1, FS_Surjection, ReceivablesAssumption
<1>3. Max(S) \in S /\ \A y \in S : y <= Max(S)
  <2> HIDE DEF S
  <2> QED
    BY <1>1, <1>2, MaxOfFinite
<1>4. MaxAmount = Max(S)
  BY DEF MaxAmount
<1>5. Amount[p] \in Nat \ {0}
  BY ReceivablesAssumption
<1> HIDE DEF S
<1> QED
  BY <1>1, <1>3, <1>4, <1>5

(* So is what an edit makes of them. *)
LEMMA AmountBounds ==
    ASSUME TypeOK, NEW p \in Payment
    PROVE  amount[p] \in Nat /\ amount[p] <= MaxAmount
<1>1. amount[p] \in 0 .. MaxAmount /\ MaxAmount \in Nat
  BY MaxAmountBounds DEF TypeOK
<1> QED
  BY <1>1

(* Spent and Applied as sums over the invoices and over the payments. *)
LEMMA BalancesAreSums ==
    ASSUME NEW a \in Table
    PROVE  /\ \A p \in Payment : /\ Spent(a, p) = SumFunctionOnSet(a[p], Invoice)
                                 /\ \A i \in Invoice : a[p][i] \in Nat
           /\ \A i \in Invoice : Applied(a, i) = SumFunctionOnSet([p \in Payment |-> a[p][i]], Payment)
<1>1. ASSUME NEW p \in Payment
      PROVE  /\ Spent(a, p) = SumFunctionOnSet(a[p], Invoice)
             /\ \A i \in Invoice : a[p][i] \in Nat
  <2>1. a[p] \in [Invoice -> 0 .. MaxAmount] /\ MaxAmount \in Nat
    BY MaxAmountBounds DEF Table
  <2>2. DOMAIN a[p] = Invoice
    BY <2>1
  <2> QED
    BY <2>1, <2>2 DEF Spent, SumFunction
<1>2. ASSUME NEW i \in Invoice
      PROVE  Applied(a, i) = SumFunctionOnSet([p \in Payment |-> a[p][i]], Payment)
  BY DEF Applied, SumFunction
<1> QED
  BY <1>1, <1>2

(* Balances are naturals. *)
LEMMA BalanceType ==
    ASSUME NEW a \in Table
    PROVE  /\ \A p \in Payment : Spent(a, p) \in Nat
           /\ \A i \in Invoice : Applied(a, i) \in Nat
<1>1. ASSUME NEW p \in Payment PROVE Spent(a, p) \in Nat
  <2> DEFINE f == a[p]
  <2>1. /\ Spent(a, p) = SumFunctionOnSet(f, Invoice)
        /\ \A i \in Invoice : f[i] \in Nat
    BY BalancesAreSums
  <2> HIDE DEF f
  <2> QED
    BY <2>1, SumType, FiniteTables
<1>2. ASSUME NEW i \in Invoice PROVE Applied(a, i) \in Nat
  <2> DEFINE f == [p \in Payment |-> a[p][i]]
  <2>1. \A p \in Payment : f[p] \in Nat
    BY BalancesAreSums
  <2>2. Applied(a, i) = SumFunctionOnSet(f, Payment)
    BY BalancesAreSums
  <2> HIDE DEF f
  <2> QED
    BY <2>1, <2>2, SumType, FiniteTables
<1> QED
  BY <1>1, <1>2

(* A smaller row spends less. *)
LEMMA SpentLess ==
    ASSUME NEW a \in Table, NEW b \in Table, NEW p \in Payment,
           \A i \in Invoice : b[p][i] <= a[p][i]
    PROVE  Spent(b, p) <= Spent(a, p)
<1> DEFINE f == b[p]
           g == a[p]
<1>1. \A i \in Invoice : f[i] \in Nat /\ g[i] \in Nat /\ f[i] <= g[i]
  <2>1. \A i \in Invoice : b[p][i] \in Nat
    BY BalancesAreSums
  <2>2. \A i \in Invoice : a[p][i] \in Nat
    BY BalancesAreSums
  <2> QED
    BY <2>1, <2>2
<1>2. Spent(b, p) = SumFunctionOnSet(f, Invoice) /\ Spent(a, p) = SumFunctionOnSet(g, Invoice)
  BY BalancesAreSums
<1> HIDE DEF f, g
<1> QED
  BY <1>1, <1>2, SumMonotone, FiniteTables

(* A smaller column applies less. *)
LEMMA AppliedLess ==
    ASSUME NEW a \in Table, NEW b \in Table, NEW i \in Invoice,
           \A p \in Payment : b[p][i] <= a[p][i]
    PROVE  Applied(b, i) <= Applied(a, i)
<1> DEFINE f == [p \in Payment |-> b[p][i]]
           g == [p \in Payment |-> a[p][i]]
<1>1. \A p \in Payment : f[p] \in Nat /\ g[p] \in Nat /\ f[p] <= g[p]
  BY BalancesAreSums
<1>2. Applied(b, i) = SumFunctionOnSet(f, Payment) /\ Applied(a, i) = SumFunctionOnSet(g, Payment)
  BY BalancesAreSums
<1> HIDE DEF f, g
<1> QED
  BY <1>1, <1>2, SumMonotone, FiniteTables

(* A column that stays is applied as before. *)
LEMMA AppliedSame ==
    ASSUME NEW a, NEW b, NEW i, \A p \in Payment : b[p][i] = a[p][i]
    PROVE  Applied(b, i) = Applied(a, i)
<1>1. [p \in Payment |-> b[p][i]] = [p \in Payment |-> a[p][i]]
  OBVIOUS
<1> QED
  BY <1>1 DEF Applied

(* A change in one row changes what is applied by as much. *)
LEMMA AppliedOneRow ==
    ASSUME NEW a \in Table, NEW b \in Table, NEW i \in Invoice, NEW p \in Payment,
           \A r \in Payment \ {p} : b[r][i] = a[r][i]
    PROVE  Applied(b, i) + a[p][i] = Applied(a, i) + b[p][i]
<1> DEFINE f == [r \in Payment |-> a[r][i]]
           g == [r \in Payment |-> b[r][i]]
<1>1. \A r \in Payment : f[r] \in Nat /\ g[r] \in Nat
  BY BalancesAreSums
<1>2. \A r \in Payment \ {p} : g[r] = f[r]
  OBVIOUS
<1>3. Applied(a, i) = SumFunctionOnSet(f, Payment) /\ Applied(b, i) = SumFunctionOnSet(g, Payment)
  BY BalancesAreSums
<1>4. f[p] = a[p][i] /\ g[p] = b[p][i]
  OBVIOUS
<1> HIDE DEF f, g
<1> QED
  BY <1>1, <1>2, <1>3, <1>4, SumOneTerm, FiniteTables

(* What an invoice still lacks. *)
LEMMA DueType ==
    ASSUME NEW a \in Table, NEW i \in Invoice
    PROVE  /\ Due(a, i) \in Nat /\ Total[i] \in Nat \ {0}
           /\ Covered(a, i) => Due(a, i) = 0
           /\ ~Covered(a, i) => Applied(a, i) + Due(a, i) = Total[i]
<1>1. Applied(a, i) \in Nat /\ Total[i] \in Nat \ {0}
  BY BalanceType, ReceivablesAssumption
<1> QED
  BY <1>1 DEF Due, Covered

(* The waterfall gives out no more than the payment has left, no invoice  *)
(* gets more than it lacks, and the invoices that are not open get        *)
(* nothing.  Over the older invoices it gives what they lack or, when     *)
(* that is more than there is, everything.                                *)
LEMMA Waterfall ==
    ASSUME NEW a \in Table, NEW p \in Payment, NEW open \in SUBSET Invoice,
           amount[p] \in Nat, Spent(a, p) <= amount[p],
           NEW share, share = Share(a, p, open)
    PROVE  /\ share \in [Invoice -> Nat]
           /\ \A i \in open : share[i] <= Due(a, i) /\ share[i] <= amount[p]
           /\ \A i \in Invoice \ open : share[i] = 0
           /\ Spent(a, p) + SumFunctionOnSet(share, Invoice) <= amount[p]
<1> DEFINE R == amount[p] - Spent(a, p)
           due == [k \in open |-> Due(a, k)]
           Older(i) == {n \in open : n < i}
           D(i) == SumFunctionOnSet(due, Older(i))
<1>1. /\ R \in Nat /\ R <= amount[p] /\ amount[p] \in Nat
      /\ Spent(a, p) \in Nat /\ Spent(a, p) + R = amount[p]
  BY BalanceType
<1>2. \A i \in open : due[i] \in Nat /\ due[i] = Due(a, i)
  BY DueType
<1>3. IsFiniteSet(open) /\ \A s \in SUBSET open : IsFiniteSet(s)
  BY FS_Subset, FiniteTables
<1>4. ASSUME NEW i \in open PROVE D(i) \in Nat /\ OlderDue(a, open, i) = D(i)
  <2> DEFINE S == Older(i)
             g == [k \in {n \in open : n < i} |-> Due(a, k)]
  <2>1. S \in SUBSET open /\ IsFiniteSet(S)
    BY <1>3
  <2>2. /\ \A k \in S : due[k] \in Nat /\ g[k] = due[k]
        /\ DOMAIN g = S
    BY <1>2
  <2>3. OlderDue(a, open, i) = SumFunctionOnSet(g, S)
    BY <2>2 DEF OlderDue, SumFunction
  <2>4. D(i) = SumFunctionOnSet(due, S)
    OBVIOUS
  <2> HIDE DEF S, g, due, D
  <2> QED
    BY <2>1, <2>2, <2>3, <2>4, SumType, SumSame
<1>5. /\ \A i \in open : share[i] = Min({Max({0, R - D(i)}), due[i]})
      /\ \A i \in Invoice \ open : share[i] = 0
      /\ DOMAIN share = Invoice
      /\ share = [i \in Invoice |-> share[i]]
  <2>1. \A i \in open : OlderDue(a, open, i) = D(i)
    BY <1>4
  <2> HIDE DEF D
  <2> QED
    BY <2>1, <1>2 DEF Share
<1> HIDE DEF R, due, D
<1>6. ASSUME NEW i \in open
      PROVE  /\ share[i] \in Nat
             /\ share[i] = IF R <= D(i) THEN 0 ELSE IF R - D(i) <= due[i] THEN R - D(i) ELSE due[i]
  <2>1. R \in Nat /\ D(i) \in Nat /\ due[i] \in Nat
    BY <1>1, <1>2, <1>4
  <2> DEFINE x == R - D(i)
             y == Max({0, x})
             z == due[i]
  <2>2. x \in Int /\ z \in Int
    BY <2>1
  <2>3. share[i] = Min({y, z})
    BY <1>5
  <2>4. y = IF 0 <= x THEN x ELSE 0
    <3> HIDE DEF x
    <3> QED
      BY <2>2, MinMaxOfTwo
  <2>5. y \in Int
    <3> HIDE DEF x, y
    <3> QED
      BY <2>2, <2>4
  <2>6. Min({y, z}) = IF y <= z THEN y ELSE z
    <3> HIDE DEF y, z
    <3> QED
      BY <2>2, <2>5, MinMaxOfTwo
  <2> HIDE DEF y
  <2> QED
    BY <2>1, <2>3, <2>4, <2>6
<1> DEFINE Initial(T) == \A k \in T, n \in open : n < k => n \in T
           Given(T) == SumFunctionOnSet(share, T) =
                         IF R <= SumFunctionOnSet(due, T) THEN R ELSE SumFunctionOnSet(due, T)
           C == {T \in SUBSET open : Initial(T) /\ ~Given(T)}
<1>7. Given(open)
  <2> SUFFICES ASSUME C # {} PROVE FALSE
    OBVIOUS
  <2>1. PICK T \in C : \A u \in C : u \subseteq T => u = T
    <3>1. C \in SUBSET SUBSET open
      OBVIOUS
    <3>2. HasMinimal(open)
      BY <1>3, MinimalSubsets
    <3> HIDE DEF C
    <3> QED
      BY <3>1, <3>2 DEF HasMinimal
  <2>2. T \in SUBSET open /\ Initial(T) /\ ~Given(T)
    OBVIOUS
  <2>3. T # {}
    <3>1. SumFunctionOnSet(share, {}) = 0 /\ SumFunctionOnSet(due, {}) = 0
      BY SumEmpty
    <3> QED
      BY <2>2, <3>1, <1>1
  <2>4. T \subseteq Nat
    BY ReceivablesAssumption
  <2>f. IsFiniteSet(T)
    BY <1>3
  <2> DEFINE m == Max(T)
  <2>5. m \in T /\ \A y \in T : y <= m
    BY <2>3, <2>4, <2>f, MaxOfFinite
  <2> HIDE DEF m
  <2>6. T \ {m} = Older(m)
    <3>1. ASSUME NEW n \in T \ {m} PROVE n \in Older(m)
      BY <2>2, <2>4, <2>5, <3>1
    <3>2. ASSUME NEW n \in Older(m) PROVE n \in T \ {m}
      BY <2>2, <2>4, <2>5, <3>2
    <3> HIDE DEF C
    <3> QED
      BY <3>1, <3>2
  <2>7. Given(T \ {m})
    <3>1. T \ {m} \notin C
      BY <2>1, <2>5
    <3>2. Initial(T \ {m})
      BY <2>2, <2>4, <2>5
    <3> QED
      BY <3>1, <3>2, <2>2
  <2>8. /\ SumFunctionOnSet(share, T) = share[m] + SumFunctionOnSet(share, T \ {m})
        /\ SumFunctionOnSet(due, T) = due[m] + SumFunctionOnSet(due, T \ {m})
    <3>1. \A k \in T : share[k] \in Nat /\ due[k] \in Nat
      BY <1>2, <1>6, <2>2
    <3> HIDE DEF C
    <3> QED
      BY <3>1, <2>f, <2>5, SumTakeOut
  <2>9. SumFunctionOnSet(due, T \ {m}) = D(m)
    BY <2>6 DEF D
  <2>10. m \in open
    BY <2>2, <2>5
  <2>11. R \in Nat /\ D(m) \in Nat /\ due[m] \in Nat
    BY <2>10, <1>1, <1>2, <1>4
  <2> HIDE DEF C
  <2> QED
    BY <2>2, <2>7, <2>8, <2>9, <2>10, <2>11, <1>6
<1>8. share \in [Invoice -> Nat]
  BY <1>5, <1>6
<1>9. \A i \in open : share[i] <= Due(a, i) /\ share[i] <= amount[p]
  <2> SUFFICES ASSUME NEW i \in open PROVE share[i] <= Due(a, i) /\ share[i] <= amount[p]
    OBVIOUS
  <2>1. R \in Nat /\ D(i) \in Nat /\ due[i] \in Nat /\ due[i] = Due(a, i)
    BY <1>1, <1>2, <1>4
  <2> QED
    BY <2>1, <1>1, <1>6
<1>10. SumFunctionOnSet(share, Invoice) <= R
  <2>1. SumFunctionOnSet(share, Invoice) = SumFunctionOnSet(share, open)
    BY <1>8, <1>5, FiniteTables, SumWithoutZeros
  <2>2. SumFunctionOnSet(due, open) \in Nat
    BY <1>2, <1>3, SumType
  <2> QED
    BY <1>1, <1>7, <2>1, <2>2
<1>11. SumFunctionOnSet(share, Invoice) \in Nat
  BY <1>8, FiniteTables, SumType
<1> HIDE DEF C
<1> QED
  BY <1>1, <1>5, <1>8, <1>9, <1>10, <1>11

-----------------------------------------------------------------------------
(* The invariant. *)

\* Requests do not overlap: one begins when no process has work left.
OneAtATime == (\E q \in Proc : Request(q)) => AtRest

\* The table after the INSERT that job j is about to make.
Inserted(j) == [alloc EXCEPT ![j.pay][j.inv] = @ + j.amount]

\* The table after the INSERTs of POST /billing/allocate-payment.
Granted(p, want) == [alloc EXCEPT ![p] = [i \in Invoice |-> @[i] + want[i]]]
Wanted(want) == {i \in Invoice : want[i] > 0}

Gone(p) == {i \in Invoice : dead[p][i] # 0}

\* What the request q serves has read or written earlier still holds.
Sight(q) ==
    LET j == job[q] IN
    /\ j.pc = "insert" => WithinTotals(Inserted(j), j.pay, {j.inv})
    /\ j.pc = "auto" => j.seen = alloc /\ Spent(alloc, j.pay) <= amount[j.pay]
    /\ j.pc \in {"billing", "commit"} =>
         /\ \A i \in Wanted(j.want) : Insertable(j.pay, i)
         /\ Wanted(j.want) # {} => WithinTotals(Granted(j.pay, j.want), j.pay, Wanted(j.want))
         /\ j.paid = {i \in Wanted(j.want) : Covered(Granted(j.pay, j.want), i)}
    /\ j.pc = "finalize" /\ ~crashed /\ status[j.inv] = "paid" => Covered(alloc, j.inv)
    /\ j.pc = "finalizeWrite" => Covered(alloc, j.inv)
    /\ j.pc = "refreshWrite" => (j.covered <=> Covered(alloc, j.inv))
    /\ j.pc = "bury" => j.todo = Allocated(j.pay)
    /\ j.pc = "revive" => j.todo = Gone(j.pay)
    /\ j.pc = "reverse" /\ j.then = "bury" => payment[j.pay] = "deleted"
    /\ j.pc = "release" => status[j.inv] \in Terminal

\* The status of invoice i is yet to be written by q.
Owes(q, i) ==
    \/ job[q].pc \in {"finalize", "finalizeWrite"} /\ job[q].inv = i
    \/ job[q].pc = "refresh" /\ i \in job[q].todo
    \/ job[q].pc = "refreshWrite" /\ (job[q].inv = i \/ i \in job[q].todo)

Settled(i) == status[i] \in Terminal \/ (status[i] = "paid" <=> Covered(alloc, i))

\* The credit of payment p is yet to be written by q.
Credits(q, p) ==
    \/ job[q].pc \in {"credit", "again"} /\ job[q].pay = p
    \/ job[q].pc = "reverse" /\ job[q].then = "again" /\ job[q].pay = p

Alone == \A q, r \in Proc : ~Free(q) /\ ~Free(r) => q = r
SightInv == \A q \in Proc : Sight(q)
PaidInv == ~crashed => \A i \in Invoice : Settled(i) \/ \E q \in Proc : Owes(q, i)
CreditInv ==
    ~crashed => \A p \in Payment :
        payment[p] = "live" => credit[p] > 0 \/ \E q \in Proc : Credits(q, p)

Inv == TypeOK /\ Alone /\ NoOverAllocation /\ SightInv /\ PaidInv /\ CreditInv

\* Inv as process q sees it when it is the only one with work left.
Solo(q) == \A r \in Proc : r # q => Free(r)
PaidFor(q) == ~crashed => \A i \in Invoice : Settled(i) \/ Owes(q, i)
CreditFor(q) ==
    ~crashed => \A p \in Payment : payment[p] = "live" => credit[p] > 0 \/ Credits(q, p)
InvFor(q) == TypeOK /\ Solo(q) /\ NoOverAllocation /\ Sight(q) /\ PaidFor(q) /\ CreditFor(q)

(* A process with nothing left to do owes nothing. *)
LEMMA FreeOwesNothing ==
    ASSUME NEW q \in Proc, Free(q)
    PROVE  /\ Sight(q)
           /\ \A i : ~Owes(q, i)
           /\ \A p : ~Credits(q, p)
<1>1. job[q].pc = "idle"
  BY DEF Free, Idle
<1> QED
  BY <1>1 DEF Sight, Owes, Credits

(* The invariant, seen by the process that takes the step. *)
LEMMA InvToProcess ==
    ASSUME Inv, NEW q \in Proc, AtRest \/ ~Free(q)
    PROVE  InvFor(q)
<1>1. Solo(q)
  BY DEF Inv, Alone, AtRest, Solo
<1>2. \A r \in Proc : r # q => (\A i : ~Owes(r, i)) /\ (\A p : ~Credits(r, p))
  BY <1>1, FreeOwesNothing DEF Solo
<1>3. PaidFor(q)
  BY <1>2 DEF Inv, PaidInv, PaidFor
<1>4. CreditFor(q)
  BY <1>2 DEF Inv, CreditInv, CreditFor
<1> QED
  BY <1>1, <1>3, <1>4 DEF Inv, InvFor, SightInv

(* And back. *)
LEMMA InvFromProcess ==
    ASSUME NEW q \in Proc, InvFor(q)
    PROVE  Inv
<1>1. Alone
  BY DEF InvFor, Solo, Alone
<1>2. SightInv
  BY FreeOwesNothing DEF InvFor, Solo, SightInv
<1>3. PaidInv /\ CreditInv
  BY DEF InvFor, PaidFor, CreditFor, PaidInv, CreditInv
<1> QED
  BY <1>1, <1>2, <1>3 DEF InvFor, Inv

(* And back, in the state after a step. *)
LEMMA InvFromProcessNext ==
    ASSUME NEW q \in Proc, InvFor(q)'
    PROVE  Inv'
  BY InvFromProcess, PTL

-----------------------------------------------------------------------------
(* Jobs and the steps that leave the tables alone. *)

(* What a job carries, by its program counter. *)
LEMMA JobFields ==
    ASSUME NEW j \in Job
    PROVE  /\ j.pc \in {"credit", "again"} => j.pay \in Payment
           /\ j.pc \in {"billing", "commit"} =>
                /\ j.pay \in Payment /\ j.want \in [Invoice -> 0 .. MaxAmount]
                /\ j.paid \in SUBSET Invoice
           /\ j.pc \in {"check", "insert"} =>
                j.pay \in Payment /\ j.inv \in Invoice /\ j.amount \in 1 .. MaxAmount
           /\ j.pc \in {"finalize", "finalizeWrite", "release"} => j.inv \in Invoice
           /\ j.pc = "auto" => j.pay \in Payment /\ j.chosen \in SUBSET Invoice /\ j.seen \in Table
           /\ j.pc = "refresh" => j.todo \in SUBSET Invoice
           /\ j.pc = "refreshWrite" =>
                j.todo \in SUBSET Invoice /\ j.inv \in Invoice /\ j.covered \in BOOLEAN
           /\ j.pc = "reverse" => j.pay \in Payment /\ j.then \in {"bury", "again"}
           /\ j.pc = "list" => j.pay \in Payment /\ j.then \in {"bury", "revive"}
           /\ j.pc \in {"bury", "revive"} => j.pay \in Payment /\ j.todo \in SUBSET Invoice
           /\ j.pc \in {"settle", "settleWrite"} => j.inv \in Invoice /\ j.as \in Terminal
  BY DEF Job, Idle

(* The jobs that the handlers leave behind. *)
LEMMA JobsMade ==
    /\ Idle \in Job
    /\ \A p \in Payment :
        /\ [pc |-> "credit", pay |-> p] \in Job
        /\ [pc |-> "again", pay |-> p] \in Job
        /\ [pc |-> "reverse", pay |-> p, then |-> "bury"] \in Job
        /\ [pc |-> "reverse", pay |-> p, then |-> "again"] \in Job
        /\ [pc |-> "list", pay |-> p, then |-> "bury"] \in Job
        /\ [pc |-> "list", pay |-> p, then |-> "revive"] \in Job
        /\ \A want \in [Invoice -> 0 .. MaxAmount], is \in SUBSET Invoice :
            [pc |-> "billing", pay |-> p, want |-> want, paid |-> is] \in Job
        /\ \A is \in SUBSET Invoice :
            /\ [pc |-> "bury", pay |-> p, todo |-> is] \in Job
            /\ [pc |-> "revive", pay |-> p, todo |-> is] \in Job
            /\ \A a \in Table : [pc |-> "auto", pay |-> p, chosen |-> is, seen |-> a] \in Job
        /\ \A i \in Invoice, a \in 1 .. MaxAmount :
            [pc |-> "check", pay |-> p, inv |-> i, amount |-> a] \in Job
    /\ \A i \in Invoice :
        /\ [pc |-> "finalize", inv |-> i] \in Job
        /\ [pc |-> "release", inv |-> i] \in Job
        /\ \A t \in Terminal :
            /\ [pc |-> "settle", inv |-> i, as |-> t] \in Job
            /\ \A was \in Status : [pc |-> "settleWrite", inv |-> i, as |-> t, was |-> was] \in Job
        /\ \A is \in SUBSET Invoice, c \in BOOLEAN :
            [pc |-> "refreshWrite", todo |-> is, inv |-> i, covered |-> c] \in Job
    /\ \A is \in SUBSET Invoice : Refreshing(is) \in Job
  BY DEF Job, Refreshing

(* A job that only moves on to its next statement. *)
LEMMA JobsMoved ==
    ASSUME NEW j \in Job
    PROVE  /\ j.pc = "check" =>
                /\ [j EXCEPT !.pc = "insert"] \in Job
                /\ [j EXCEPT !.pc = "insert"].pc = "insert"
                /\ [j EXCEPT !.pc = "insert"].pay = j.pay
                /\ [j EXCEPT !.pc = "insert"].inv = j.inv
                /\ [j EXCEPT !.pc = "insert"].amount = j.amount
           /\ j.pc = "billing" =>
                /\ [j EXCEPT !.pc = "commit"] \in Job
                /\ [j EXCEPT !.pc = "commit"].pc = "commit"
                /\ [j EXCEPT !.pc = "commit"].pay = j.pay
                /\ [j EXCEPT !.pc = "commit"].want = j.want
                /\ [j EXCEPT !.pc = "commit"].paid = j.paid
           /\ j.pc = "finalize" =>
                /\ [j EXCEPT !.pc = "finalizeWrite"] \in Job
                /\ [j EXCEPT !.pc = "finalizeWrite"].pc = "finalizeWrite"
                /\ [j EXCEPT !.pc = "finalizeWrite"].inv = j.inv
<1>1. ASSUME j.pc = "check"
      PROVE  j = [pc |-> "check", pay |-> j.pay, inv |-> j.inv, amount |-> j.amount]
  BY <1>1 DEF Job, Idle
<1>2. ASSUME j.pc = "finalize" PROVE j = [pc |-> "finalize", inv |-> j.inv]
  BY <1>2 DEF Job, Idle
<1>3. ASSUME j.pc = "check"
      PROVE  [j EXCEPT !.pc = "insert"] =
               [pc |-> "insert", pay |-> j.pay, inv |-> j.inv, amount |-> j.amount]
  BY <1>1, <1>3
<1>4. ASSUME j.pc = "finalize"
      PROVE  [j EXCEPT !.pc = "finalizeWrite"] = [pc |-> "finalizeWrite", inv |-> j.inv]
  BY <1>2, <1>4
<1>5. ASSUME j.pc = "check"
      PROVE  [pc |-> "insert", pay |-> j.pay, inv |-> j.inv, amount |-> j.amount] \in Job
  BY <1>5, JobFields DEF Job
<1>6. ASSUME j.pc = "finalize" PROVE [pc |-> "finalizeWrite", inv |-> j.inv] \in Job
  BY <1>6, JobFields DEF Job
<1>7. ASSUME j.pc = "billing"
      PROVE  j = [pc |-> "billing", pay |-> j.pay, want |-> j.want, paid |-> j.paid]
  BY <1>7 DEF Job, Idle
<1>8. ASSUME j.pc = "billing"
      PROVE  [j EXCEPT !.pc = "commit"] =
               [pc |-> "commit", pay |-> j.pay, want |-> j.want, paid |-> j.paid]
  BY <1>7, <1>8
<1>9. ASSUME j.pc = "billing"
      PROVE  [pc |-> "commit", pay |-> j.pay, want |-> j.want, paid |-> j.paid] \in Job
  BY <1>9, JobFields DEF Job
<1> QED
  BY <1>3, <1>4, <1>5, <1>6, <1>8, <1>9

(* A step of q that assigns it a new job keeps the others free. *)
LEMMA OnlyItsJob ==
    ASSUME NEW q \in Proc, TypeOK, Solo(q), NEW j \in Job, Goto(q, j)
    PROVE  job' \in [Proc -> Job] /\ job'[q] = j /\ Solo(q)'
<1>1. job' \in [Proc -> Job] /\ job'[q] = j /\ \A r \in Proc : r # q => job'[r] = job[r]
  BY DEF TypeOK, Goto
<1> QED
  BY <1>1 DEF Solo, Free

(* A step of q that leaves balances, statuses and credits alone: it is     *)
(* enough that the new job sees the tables as they are and that the old    *)
(* one's duties are met or kept.                                           *)
LEMMA QuietStep ==
    ASSUME NEW q \in Proc, InvFor(q), NEW j \in Job, Goto(q, j),
           UNCHANGED <<alloc, dead, payment, credit, status, crashed, terms>>,
           holder' \in [Payment -> Proc \cup {Nobody}],
           Sight(q)',
           \A i \in Invoice : Owes(q, i) => Owes(q, i)' \/ Settled(i),
           \A p \in Payment : Credits(q, p) => Credits(q, p)' \/ payment[p] # "live"
    PROVE  InvFor(q)'
<1>1. job' \in [Proc -> Job] /\ Solo(q)'
  BY OnlyItsJob DEF InvFor
<1>2. TypeOK'
  BY <1>1 DEF InvFor, TypeOK, terms
<1>3. NoOverAllocation'
  BY DEF InvFor, NoOverAllocation, terms
<1>4. \A i \in Invoice : Settled(i) => Settled(i)'
  BY DEF Settled
<1>5. PaidFor(q)'
  BY <1>4 DEF InvFor, PaidFor
<1>6. CreditFor(q)'
  BY DEF InvFor, CreditFor
<1> QED
  BY <1>1, <1>2, <1>3, <1>5, <1>6 DEF InvFor

(* POST /payments/:id/allocate begins. *)
LEMMA AllocateStep ==
    ASSUME NEW q \in Proc, InvFor(q), NEW p \in Payment, NEW i \in Invoice, NEW a \in 1 .. MaxAmount,
           Allocate(q, p, i, a)
    PROVE  InvFor(q)'
<1> DEFINE j == [pc |-> "check", pay |-> p, inv |-> i, amount |-> a]
<1>1. j \in Job /\ j.pc = "check"
  BY JobsMade
<1> HIDE DEF j
<1>2. Goto(q, j) /\ UNCHANGED <<alloc, dead, payment, credit, status, holder, crashed, terms>> /\ Free(q)
  BY DEF Allocate, money, j
<1>3. job'[q] = j
  BY <1>1, <1>2, OnlyItsJob DEF InvFor
<1>4. Sight(q)'
  BY <1>1, <1>3 DEF Sight
<1>5. holder' \in [Payment -> Proc \cup {Nobody}]
  BY <1>2 DEF InvFor, TypeOK
<1> QED
  BY <1>1, <1>2, <1>4, <1>5, FreeOwesNothing, QuietStep

(* Its triggers read. *)
LEMMA AllocateCheckStep ==
    ASSUME NEW q \in Proc, InvFor(q), AllocateCheck(q)
    PROVE  InvFor(q)'
<1> DEFINE j == job[q]
           k == [j EXCEPT !.pc = "insert"]
<1>1. j \in Job /\ j.pc = "check"
  BY DEF AllocateCheck, InvFor, TypeOK
<1>2. UNCHANGED <<alloc, dead, payment, credit, status, holder, crashed, terms>>
  BY DEF AllocateCheck, money
<1>3. holder' \in [Payment -> Proc \cup {Nobody}]
  BY <1>2 DEF InvFor, TypeOK
<1>4. (\A i \in Invoice : ~Owes(q, i)) /\ \A p \in Payment : ~Credits(q, p)
  BY <1>1 DEF Owes, Credits
<1>5. CASE Done(q)
  <2>1. Idle \in Job /\ Goto(q, Idle)
    BY <1>5, JobsMade DEF Done
  <2>2. job'[q] = Idle
    BY <2>1, OnlyItsJob DEF InvFor
  <2>3. Sight(q)'
    BY <2>2 DEF Sight, Idle
  <2> QED
    BY <1>2, <1>3, <1>4, <2>1, <2>3, QuietStep
<1>6. CASE WithinTotals([alloc EXCEPT ![j.pay][j.inv] = @ + j.amount], j.pay, {j.inv}) /\ Goto(q, k)
  <2>1. k \in Job /\ k.pc = "insert" /\ k.pay = j.pay /\ k.inv = j.inv /\ k.amount = j.amount
    BY <1>1, JobsMoved
  <2> HIDE DEF k
  <2>2. job'[q] = k
    BY <1>6, <2>1, OnlyItsJob DEF InvFor
  <2>3. Sight(q)'
    BY <1>2, <1>6, <2>1, <2>2 DEF Sight, Inserted, WithinTotals, terms
  <2> QED
    BY <1>2, <1>3, <1>4, <1>6, <2>1, <2>3, QuietStep
<1> QED
  BY <1>5, <1>6 DEF AllocateCheck

(* finalizeIfFullyPaid reads the sum. *)
LEMMA FinalizeReadStep ==
    ASSUME NEW q \in Proc, InvFor(q), FinalizeRead(q)
    PROVE  InvFor(q)'
<1> DEFINE j == job[q]
           k == [j EXCEPT !.pc = "finalizeWrite"]
<1>1. j \in Job /\ j.pc = "finalize" /\ j.inv \in Invoice
  BY JobFields DEF FinalizeRead, InvFor, TypeOK
<1>2. UNCHANGED <<alloc, dead, payment, credit, status, holder, crashed, terms>>
  BY DEF FinalizeRead, money
<1>3. holder' \in [Payment -> Proc \cup {Nobody}]
  BY <1>2 DEF InvFor, TypeOK
<1>4. (\A i \in Invoice : Owes(q, i) => i = j.inv) /\ \A p \in Payment : ~Credits(q, p)
  BY <1>1 DEF Owes, Credits
<1>5. CASE ~Covered(alloc, j.inv) /\ Done(q)
  <2>1. Idle \in Job /\ Goto(q, Idle)
    BY <1>5, JobsMade DEF Done
  <2>2. job'[q] = Idle
    BY <2>1, OnlyItsJob DEF InvFor
  <2>3. Sight(q)'
    BY <2>2 DEF Sight, Idle
  <2>4. CASE crashed
    BY <1>2, <1>3, <1>4, <2>1, <2>3, <2>4, OnlyItsJob
       DEF InvFor, PaidFor, CreditFor, TypeOK, NoOverAllocation, terms
  <2>5. CASE ~crashed
    <3>1. Settled(j.inv)
      BY <1>1, <1>5, <2>5 DEF InvFor, Sight, Settled
    <3> QED
      BY <1>2, <1>3, <1>4, <2>1, <2>3, <3>1, QuietStep
  <2> QED
    BY <2>4, <2>5
<1>6. CASE Covered(alloc, j.inv) /\ Goto(q, k)
  <2>1. k \in Job /\ k.pc = "finalizeWrite" /\ k.inv = j.inv
    BY <1>1, JobsMoved
  <2> HIDE DEF k
  <2>2. job'[q] = k
    BY <1>6, <2>1, OnlyItsJob DEF InvFor
  <2>3. Sight(q)'
    BY <1>2, <1>6, <2>1, <2>2 DEF Sight
  <2>4. ASSUME NEW i \in Invoice, Owes(q, i) PROVE Owes(q, i)'
    BY <1>4, <2>1, <2>2, <2>4 DEF Owes
  <2> QED
    BY <1>2, <1>3, <1>4, <1>6, <2>1, <2>3, <2>4, QuietStep
<1> QED
  BY <1>5, <1>6 DEF FinalizeRead

(* POST /payments/:id/allocate-auto begins. *)
LEMMA AutoBeginStep ==
    ASSUME NEW q \in Proc, InvFor(q), NEW p \in Payment, NEW is \in SUBSET Invoice,
           AutoBegin(q, p, is)
    PROVE  InvFor(q)'
<1> DEFINE j == [pc |-> "auto", pay |-> p, chosen |-> is, seen |-> alloc]
<1>1. j \in Job /\ j.pc = "auto" /\ j.seen = alloc /\ j.pay = p
  BY JobsMade DEF InvFor, TypeOK
<1>2. Goto(q, j) /\ UNCHANGED <<alloc, dead, payment, credit, status, crashed, terms>> /\ Free(q)
  BY DEF AutoBegin, money
<1>3. holder' \in [Payment -> Proc \cup {Nobody}]
  BY DEF InvFor, TypeOK, AutoBegin
<1>4. PICK k \in Job : k = j
  BY <1>1
<1>5. Goto(q, k) /\ k.pc = "auto" /\ k.seen = alloc /\ k.pay = p
  BY <1>1, <1>2, <1>4
<1>6. job'[q] = k
  BY <1>5, OnlyItsJob DEF InvFor
<1>7. Sight(q)'
  <2>1. Spent(alloc, p) <= amount[p]
    BY BalanceType, AmountBounds DEF AutoBegin, InvFor, TypeOK
  <2> QED
    BY <1>2, <1>5, <1>6, <2>1 DEF Sight, terms
<1> QED
  BY <1>2, <1>3, <1>5, <1>7, FreeOwesNothing, QuietStep

(* refreshInvoicePaidStatus reads the sum of one invoice. *)
LEMMA RefreshReadStep ==
    ASSUME NEW q \in Proc, InvFor(q), NEW i \in Invoice, RefreshRead(q, i)
    PROVE  InvFor(q)'
<1>1. job[q] \in Job /\ job[q].pc = "refresh" /\ job[q].todo \in SUBSET Invoice
  BY JobFields DEF RefreshRead, InvFor, TypeOK
<1> DEFINE j == [pc |-> "refreshWrite", todo |-> job[q].todo \ {i}, inv |-> i, covered |-> Covered(alloc, i)]
<1>2. /\ j \in Job /\ j.pc = "refreshWrite" /\ j.inv = i /\ j.todo = job[q].todo \ {i}
      /\ j.covered <=> Covered(alloc, i)
  <2>1. Covered(alloc, i) \in BOOLEAN
    BY DEF Covered
  <2> QED
    BY <1>1, <2>1, JobsMade
<1>3. Goto(q, j) /\ UNCHANGED <<alloc, dead, payment, credit, status, holder, crashed, terms>>
  BY DEF RefreshRead, money
<1>4. PICK k \in Job : k = j
  BY <1>2
<1>5. /\ Goto(q, k) /\ k.pc = "refreshWrite" /\ k.inv = i /\ k.todo = job[q].todo \ {i}
      /\ k.covered <=> Covered(alloc, i)
  BY <1>2, <1>3, <1>4
<1>6. job'[q] = k
  BY <1>5, OnlyItsJob DEF InvFor
<1>7. Sight(q)'
  BY <1>3, <1>5, <1>6 DEF Sight
<1>8. holder' \in [Payment -> Proc \cup {Nobody}]
  BY <1>3 DEF InvFor, TypeOK
<1>9. ASSUME NEW n \in Invoice, Owes(q, n) PROVE Owes(q, n)'
  BY <1>1, <1>5, <1>6, <1>9 DEF Owes
<1>10. \A p \in Payment : ~Credits(q, p)
  BY <1>1 DEF Credits
<1> QED
  BY <1>3, <1>5, <1>7, <1>8, <1>9, <1>10, QuietStep

(* voidInvoiceById and cancelInvoiceForSat begin. *)
LEMMA SettleBeginStep ==
    ASSUME NEW q \in Proc, InvFor(q), NEW i \in Invoice, VoidInvoice(q, i) \/ CancelInvoiceForSat(q, i)
    PROVE  InvFor(q)'
<1>1. PICK t \in Terminal : Goto(q, [pc |-> "settle", inv |-> i, as |-> t])
  BY DEF VoidInvoice, CancelInvoiceForSat, Terminal
<1>2. PICK k \in Job : Goto(q, k) /\ k.pc = "settle"
  BY <1>1, JobsMade
<1>3. UNCHANGED <<alloc, dead, payment, credit, status, holder, crashed, terms>> /\ Free(q)
  BY DEF VoidInvoice, CancelInvoiceForSat, money
<1>4. job'[q] = k
  BY <1>2, OnlyItsJob DEF InvFor
<1>5. Sight(q)'
  BY <1>2, <1>4 DEF Sight
<1>6. holder' \in [Payment -> Proc \cup {Nobody}]
  BY <1>3 DEF InvFor, TypeOK
<1> QED
  BY <1>2, <1>3, <1>5, <1>6, FreeOwesNothing, QuietStep

(* settleInvoiceTerminal reads the invoice. *)
LEMMA SettleTerminalStep ==
    ASSUME NEW q \in Proc, InvFor(q), SettleTerminal(q)
    PROVE  InvFor(q)'
<1>1. job[q] \in Job /\ job[q].pc = "settle" /\ job[q].inv \in Invoice /\ job[q].as \in Terminal
  BY JobFields DEF SettleTerminal, InvFor, TypeOK
<1>2. PICK k \in Job : Goto(q, k) /\ k.pc \in {"idle", "settleWrite"}
  <2>1. status[job[q].inv] \in Status
    BY <1>1 DEF InvFor, TypeOK
  <2> QED
    BY <1>1, <2>1, JobsMade DEF SettleTerminal, Done, Idle
<1>3. UNCHANGED <<alloc, dead, payment, credit, status, holder, crashed, terms>>
  BY DEF SettleTerminal, money
<1>4. job'[q] = k
  BY <1>2, OnlyItsJob DEF InvFor
<1>5. Sight(q)'
  BY <1>2, <1>4 DEF Sight
<1>6. holder' \in [Payment -> Proc \cup {Nobody}]
  BY <1>3 DEF InvFor, TypeOK
<1>7. (\A i \in Invoice : ~Owes(q, i)) /\ \A p \in Payment : ~Credits(q, p)
  BY <1>1 DEF Owes, Credits
<1> QED
  BY <1>2, <1>3, <1>5, <1>6, <1>7, QuietStep

(* The hooks of delete and restore list the invoices they are about. *)
LEMMA ListTouchedJob ==
    ASSUME NEW q \in Proc, TypeOK, ListTouched(q)
    PROVE  \E k \in Job :
              /\ Goto(q, k)
              /\ \/ k.pc = "idle"
                 \/ k.pc = "bury" /\ k.todo = Allocated(k.pay)
                 \/ k.pc = "revive" /\ k.todo = Gone(k.pay)
<1>1. job[q] \in Job /\ job[q].pc = "list"
  BY DEF ListTouched, TypeOK
<1>2. PICK p \in Payment : p = job[q].pay
  BY <1>1, JobFields
<1>3. job[q].then = "bury" \/ job[q].then = "revive"
  BY <1>1, JobFields
<1>4. Allocated(p) \in SUBSET Invoice /\ Gone(p) \in SUBSET Invoice
  BY DEF Allocated, Gone
<1>5. CASE job[q].then = "bury"
  <2>1. Goto(q, IF Allocated(p) = {} THEN Idle ELSE [pc |-> "bury", pay |-> p, todo |-> Allocated(p)])
    BY <1>2, <1>5 DEF ListTouched
  <2> QED
    BY <1>4, <2>1, JobsMade DEF Idle
<1>6. CASE job[q].then = "revive"
  <2>1. Goto(q, IF Gone(p) = {} THEN Idle ELSE [pc |-> "revive", pay |-> p, todo |-> Gone(p)])
    BY <1>2, <1>6 DEF ListTouched, Gone
  <2> QED
    BY <1>4, <2>1, JobsMade DEF Idle
<1> QED
  BY <1>3, <1>5, <1>6

(* So the UPDATE that follows is about the invoices that were listed. *)
LEMMA ListTouchedStep ==
    ASSUME NEW q \in Proc, InvFor(q), ListTouched(q)
    PROVE  InvFor(q)'
<1>1. job[q].pc = "list"
  BY DEF ListTouched
<1>2. PICK k \in Job :
          /\ Goto(q, k)
          /\ \/ k.pc = "idle"
             \/ k.pc = "bury" /\ k.todo = Allocated(k.pay)
             \/ k.pc = "revive" /\ k.todo = Gone(k.pay)
  BY ListTouchedJob DEF InvFor
<1>3. UNCHANGED <<alloc, dead, payment, credit, status, holder, crashed, terms>>
  BY DEF ListTouched, money
<1>4. job'[q] = k
  BY <1>2, OnlyItsJob DEF InvFor
<1>5. Sight(q)'
  BY <1>2, <1>3, <1>4 DEF Sight, Allocated, Gone
<1>6. holder' \in [Payment -> Proc \cup {Nobody}]
  BY <1>3 DEF InvFor, TypeOK
<1>7. (\A i \in Invoice : ~Owes(q, i)) /\ \A p \in Payment : ~Credits(q, p)
  BY <1>1 DEF Owes, Credits
<1> QED
  BY <1>2, <1>3, <1>5, <1>6, <1>7, QuietStep

(* POST /billing/allocate-payment makes its INSERTs, not yet committed. *)
LEMMA BillingAllocateStep ==
    ASSUME NEW q \in Proc, InvFor(q), NEW p \in Payment, NEW want \in [Invoice -> 0 .. MaxAmount],
           BillingAllocate(q, p, want)
    PROVE  InvFor(q)'
<1>1. /\ Free(q) /\ UNCHANGED <<alloc, dead, payment, credit, status, holder, crashed, terms>>
      /\ \A i \in Wanted(want) : Insertable(p, i)
      /\ Wanted(want) # {} => WithinTotals(Granted(p, want), p, Wanted(want))
      /\ Goto(q, [pc |-> "billing", pay |-> p, want |-> want,
                  paid |-> {i \in Wanted(want) : Covered(Granted(p, want), i)}])
  BY DEF BillingAllocate, money, Wanted, Granted
<1>2. PICK is \in SUBSET Invoice : is = {i \in Wanted(want) : Covered(Granted(p, want), i)}
  BY DEF Wanted
<1>3. PICK k \in Job : Goto(q, k) /\ k.pc = "billing" /\ k.pay = p /\ k.want = want /\ k.paid = is
  BY <1>1, <1>2, JobsMade
<1>4. job'[q] = k
  BY <1>3, OnlyItsJob DEF InvFor
<1>5. Sight(q)'
  <2>1. /\ \A i \in Wanted(want) : Insertable(p, i)'
        /\ Wanted(want) # {} => WithinTotals(Granted(p, want), p, Wanted(want))'
        /\ is = {i \in Wanted(want) : Covered(Granted(p, want)', i)}
    BY <1>1, <1>2 DEF Insertable, WithinTotals, Granted, terms
  <2> QED
    BY <1>3, <1>4, <2>1 DEF Sight
<1>6. holder' \in [Payment -> Proc \cup {Nobody}]
  BY <1>1 DEF InvFor, TypeOK
<1> QED
  BY <1>1, <1>3, <1>5, <1>6, FreeOwesNothing, QuietStep

-----------------------------------------------------------------------------
(* The steps on credits and statuses. *)

(* A step of q that leaves the balances alone. *)
LEMMA SameBalances ==
    ASSUME NEW q \in Proc, InvFor(q), NEW j \in Job, Goto(q, j),
           UNCHANGED <<alloc, dead, holder, crashed, terms>>,
           payment' \in [Payment -> {"none", "live", "deleted"}],
           credit' \in [Payment -> 0 .. MaxCredit],
           status' \in [Invoice -> Status]
    PROVE  TypeOK' /\ Solo(q)' /\ NoOverAllocation' /\ job'[q] = j
<1>1. job' \in [Proc -> Job] /\ job'[q] = j /\ Solo(q)'
  BY OnlyItsJob DEF InvFor
<1>2. TypeOK'
  BY <1>1 DEF InvFor, TypeOK, terms
<1>3. NoOverAllocation'
  BY DEF InvFor, NoOverAllocation, terms
<1> QED
  BY <1>1, <1>2, <1>3

(* The ledger counts up to its bound. *)
LEMMA MoreType ==
    ASSUME NEW c \in 0 .. MaxCredit
    PROVE  More(c) \in 1 .. MaxCredit
<1>1. MaxCredit \in Nat \ {0} /\ c + 1 \in Int
  BY ReceivablesAssumption
<1>2. Min({c + 1, MaxCredit}) = IF c + 1 <= MaxCredit THEN c + 1 ELSE MaxCredit
  BY <1>1, MinMaxOfTwo
<1> QED
  BY <1>1, <1>2 DEF More

(* Statuses stay right while nobody owes one and they and the balances stay. *)
LEMMA PaidKept ==
    ASSUME NEW q \in Proc, InvFor(q), UNCHANGED <<alloc, status, crashed>>,
           \A i \in Invoice : ~Owes(q, i)
    PROVE  PaidFor(q)'
<1>1. \A i \in Invoice : Settled(i) => Settled(i)'
  BY DEF Settled
<1> QED
  BY <1>1 DEF InvFor, PaidFor

(* Credits stay while nobody owes one. *)
LEMMA CreditKept ==
    ASSUME NEW q \in Proc, InvFor(q), UNCHANGED <<payment, credit, crashed>>,
           \A p \in Payment : ~Credits(q, p)
    PROVE  CreditFor(q)'
  BY DEF InvFor, CreditFor

(* POST /payments. *)
LEMMA CreatePaymentStep ==
    ASSUME NEW q \in Proc, InvFor(q), NEW p \in Payment, CreatePayment(q, p)
    PROVE  InvFor(q)'
<1>1. PICK j \in Job : Goto(q, j) /\ j.pc = "credit" /\ j.pay = p
  BY JobsMade DEF CreatePayment
<1>2. /\ UNCHANGED <<alloc, dead, credit, status, holder, crashed, terms>> /\ Free(q)
      /\ payment' = [payment EXCEPT ![p] = "live"]
  BY DEF CreatePayment
<1>3. /\ payment' \in [Payment -> {"none", "live", "deleted"}]
      /\ credit' \in [Payment -> 0 .. MaxCredit] /\ status' \in [Invoice -> Status]
  BY <1>2 DEF InvFor, TypeOK
<1>4. TypeOK' /\ Solo(q)' /\ NoOverAllocation' /\ job'[q] = j
  BY <1>1, <1>2, <1>3, SameBalances
<1>5. Sight(q)'
  BY <1>1, <1>4 DEF Sight
<1>6. PaidFor(q)'
  BY <1>2, FreeOwesNothing, PaidKept
<1>7. \A r \in Payment : ~Credits(q, r)
  BY <1>2, FreeOwesNothing
<1>8. Credits(q, p)'
  BY <1>1, <1>4 DEF Credits
<1>9. CreditFor(q)'
  BY <1>2, <1>7, <1>8 DEF InvFor, TypeOK, CreditFor
<1> QED
  BY <1>4, <1>5, <1>6, <1>9 DEF InvFor

(* recordPaymentCredit after POST /payments. *)
LEMMA RecordCreditStep ==
    ASSUME NEW q \in Proc, InvFor(q), RecordCredit(q)
    PROVE  InvFor(q)'
<1> DEFINE p == job[q].pay
<1>1. job[q] \in Job /\ job[q].pc = "credit" /\ p \in Payment
  BY JobFields DEF RecordCredit, InvFor, TypeOK
<1>2. PICK j \in Job : Goto(q, j) /\ j.pc = "idle"
  BY JobsMade DEF RecordCredit, Done, Idle
<1>3. /\ UNCHANGED <<alloc, dead, payment, status, holder, crashed, terms>>
      /\ credit' = [credit EXCEPT ![p] = More(credit[p])]
  BY DEF RecordCredit
<1>4. credit \in [Payment -> 0 .. MaxCredit] /\ More(credit[p]) \in 1 .. MaxCredit
  BY <1>1, MoreType DEF InvFor, TypeOK
<1>5. /\ payment' \in [Payment -> {"none", "live", "deleted"}]
      /\ credit' \in [Payment -> 0 .. MaxCredit] /\ status' \in [Invoice -> Status]
  BY <1>1, <1>3, <1>4 DEF InvFor, TypeOK
<1>6. TypeOK' /\ Solo(q)' /\ NoOverAllocation' /\ job'[q] = j
  BY <1>2, <1>3, <1>5, SameBalances
<1>7. Sight(q)'
  BY <1>2, <1>6 DEF Sight
<1>8. \A i \in Invoice : ~Owes(q, i)
  BY <1>1 DEF Owes
<1>9. PaidFor(q)'
  BY <1>3, <1>8, PaidKept
<1>10. \A r \in Payment : Credits(q, r) => r = p
  BY <1>1 DEF Credits
<1>11. credit'[p] > 0 /\ \A r \in Payment : r # p => credit'[r] = credit[r]
  BY <1>1, <1>3, <1>4
<1>12. CreditFor(q)'
  <2> HIDE DEF p
  <2> QED
    BY <1>3, <1>10, <1>11 DEF InvFor, CreditFor
<1> QED
  BY <1>6, <1>7, <1>9, <1>12 DEF InvFor

(* recordPaymentCredit in afterRestore. *)
LEMMA RecordCreditAgainStep ==
    ASSUME NEW q \in Proc, InvFor(q), RecordCreditAgain(q)
    PROVE  InvFor(q)'
<1> DEFINE p == job[q].pay
<1>1. job[q] \in Job /\ job[q].pc = "again" /\ p \in Payment
  BY JobFields DEF RecordCreditAgain, InvFor, TypeOK
<1>2. PICK j \in Job : Goto(q, j) /\ j.pc = "list"
  BY <1>1, JobsMade DEF RecordCreditAgain
<1>3. /\ UNCHANGED <<alloc, dead, payment, status, holder, crashed, terms>>
      /\ credit' = [credit EXCEPT ![p] = More(credit[p])]
  BY DEF RecordCreditAgain
<1>4. credit \in [Payment -> 0 .. MaxCredit] /\ More(credit[p]) \in 1 .. MaxCredit
  BY <1>1, MoreType DEF InvFor, TypeOK
<1>5. /\ payment' \in [Payment -> {"none", "live", "deleted"}]
      /\ credit' \in [Payment -> 0 .. MaxCredit] /\ status' \in [Invoice -> Status]
  BY <1>1, <1>3, <1>4 DEF InvFor, TypeOK
<1>6. TypeOK' /\ Solo(q)' /\ NoOverAllocation' /\ job'[q] = j
  BY <1>2, <1>3, <1>5, SameBalances
<1>7. Sight(q)'
  BY <1>2, <1>6 DEF Sight
<1>8. \A i \in Invoice : ~Owes(q, i)
  BY <1>1 DEF Owes
<1>9. PaidFor(q)'
  BY <1>3, <1>8, PaidKept
<1>10. \A r \in Payment : Credits(q, r) => r = p
  BY <1>1 DEF Credits
<1>11. credit'[p] > 0 /\ \A r \in Payment : r # p => credit'[r] = credit[r]
  BY <1>1, <1>3, <1>4
<1>12. CreditFor(q)'
  <2> HIDE DEF p
  <2> QED
    BY <1>3, <1>10, <1>11 DEF InvFor, CreditFor
<1> QED
  BY <1>6, <1>7, <1>9, <1>12 DEF InvFor

(* DELETE /payments/:id. *)
LEMMA DeletePaymentStep ==
    ASSUME NEW q \in Proc, InvFor(q), NEW p \in Payment, DeletePayment(q, p)
    PROVE  InvFor(q)'
<1>1. PICK j \in Job : Goto(q, j) /\ j.pc = "reverse" /\ j.pay = p /\ j.then = "bury"
  BY JobsMade DEF DeletePayment
<1>2. /\ UNCHANGED <<alloc, dead, credit, status, holder, crashed, terms>> /\ Free(q)
      /\ payment' = [payment EXCEPT ![p] = "deleted"]
  BY DEF DeletePayment
<1>3. /\ payment' \in [Payment -> {"none", "live", "deleted"}]
      /\ credit' \in [Payment -> 0 .. MaxCredit] /\ status' \in [Invoice -> Status]
      /\ payment'[p] = "deleted" /\ \A r \in Payment : r # p => payment'[r] = payment[r]
  BY <1>2 DEF InvFor, TypeOK
<1>4. TypeOK' /\ Solo(q)' /\ NoOverAllocation' /\ job'[q] = j
  BY <1>1, <1>2, <1>3, SameBalances
<1>5. Sight(q)'
  BY <1>1, <1>3, <1>4 DEF Sight
<1>6. PaidFor(q)'
  BY <1>2, FreeOwesNothing, PaidKept
<1>7. \A r \in Payment : ~Credits(q, r)
  BY <1>2, FreeOwesNothing
<1>8. CreditFor(q)'
  BY <1>2, <1>3, <1>7 DEF InvFor, CreditFor
<1> QED
  BY <1>4, <1>5, <1>6, <1>8 DEF InvFor

(* POST /payments/:id/restore. *)
LEMMA RestorePaymentStep ==
    ASSUME NEW q \in Proc, InvFor(q), NEW p \in Payment, RestorePayment(q, p)
    PROVE  InvFor(q)'
<1>1. PICK j \in Job : Goto(q, j) /\ j.pc = "reverse" /\ j.pay = p /\ j.then = "again"
  BY JobsMade DEF RestorePayment
<1>2. /\ UNCHANGED <<alloc, dead, credit, status, holder, crashed, terms>> /\ Free(q)
      /\ payment' = [payment EXCEPT ![p] = "live"]
  BY DEF RestorePayment
<1>3. /\ payment' \in [Payment -> {"none", "live", "deleted"}]
      /\ credit' \in [Payment -> 0 .. MaxCredit] /\ status' \in [Invoice -> Status]
      /\ \A r \in Payment : r # p => payment'[r] = payment[r]
  BY <1>2 DEF InvFor, TypeOK
<1>4. TypeOK' /\ Solo(q)' /\ NoOverAllocation' /\ job'[q] = j
  BY <1>1, <1>2, <1>3, SameBalances
<1>5. Sight(q)'
  BY <1>1, <1>4 DEF Sight
<1>6. PaidFor(q)'
  BY <1>2, FreeOwesNothing, PaidKept
<1>7. \A r \in Payment : ~Credits(q, r)
  BY <1>2, FreeOwesNothing
<1>8. Credits(q, p)'
  BY <1>1, <1>4 DEF Credits
<1>9. CreditFor(q)'
  BY <1>2, <1>3, <1>7, <1>8 DEF InvFor, CreditFor
<1> QED
  BY <1>4, <1>5, <1>6, <1>9 DEF InvFor

(* reversePaymentCredit in both hooks. *)
LEMMA ReverseCreditStep ==
    ASSUME NEW q \in Proc, InvFor(q), ReverseCredit(q)
    PROVE  InvFor(q)'
<1> DEFINE p == job[q].pay
<1>1. job[q] \in Job /\ job[q].pc = "reverse" /\ p \in Payment /\ job[q].then \in {"bury", "again"}
  BY JobFields DEF ReverseCredit, InvFor, TypeOK
<1>2. /\ UNCHANGED <<alloc, dead, payment, status, holder, crashed, terms>>
      /\ credit' = [credit EXCEPT ![p] = 0]
  BY DEF ReverseCredit
<1>3. /\ payment' \in [Payment -> {"none", "live", "deleted"}]
      /\ credit' \in [Payment -> 0 .. MaxCredit] /\ status' \in [Invoice -> Status]
      /\ \A r \in Payment : r # p => credit'[r] = credit[r]
  BY <1>1, <1>2, ReceivablesAssumption DEF InvFor, TypeOK
<1>4. \A i \in Invoice : ~Owes(q, i)
  BY <1>1 DEF Owes
<1>5. PaidFor(q)'
  BY <1>2, <1>4, PaidKept
<1>6. CASE job[q].then = "bury"
  <2>1. PICK j \in Job : Goto(q, j) /\ j.pc = "list"
    BY <1>1, <1>6, JobsMade DEF ReverseCredit
  <2>2. TypeOK' /\ Solo(q)' /\ NoOverAllocation' /\ job'[q] = j
    BY <2>1, <1>2, <1>3, SameBalances
  <2>3. Sight(q)'
    BY <2>1, <2>2 DEF Sight
  <2>4. payment[p] = "deleted" /\ \A r \in Payment : ~Credits(q, r)
    BY <1>1, <1>6 DEF InvFor, Sight, Credits
  <2>5. CreditFor(q)'
    BY <1>2, <1>3, <2>4 DEF InvFor, CreditFor
  <2> QED
    BY <1>5, <2>2, <2>3, <2>5 DEF InvFor
<1>7. CASE job[q].then = "again"
  <2>1. PICK j \in Job : Goto(q, j) /\ j.pc = "again" /\ j.pay = p
    BY <1>1, <1>7, JobsMade DEF ReverseCredit
  <2>2. TypeOK' /\ Solo(q)' /\ NoOverAllocation' /\ job'[q] = j
    BY <2>1, <1>2, <1>3, SameBalances
  <2>3. Sight(q)'
    BY <2>1, <2>2 DEF Sight
  <2>4. \A r \in Payment : Credits(q, r) => r = p
    BY <1>1 DEF Credits
  <2>5. ASSUME NEW r \in Payment, r = p PROVE Credits(q, r)'
    BY <2>1, <2>2, <2>5 DEF Credits
  <2>6. CreditFor(q)'
    <3> HIDE DEF p
    <3> QED
      BY <1>2, <1>3, <2>4, <2>5 DEF InvFor, CreditFor
  <2> QED
    BY <1>5, <2>2, <2>3, <2>6 DEF InvFor
<1> QED
  BY <1>1, <1>6, <1>7

(* recordPaymentCredit in POST /billing/allocate-payment. *)
LEMMA BillingCreditStep ==
    ASSUME NEW q \in Proc, InvFor(q), BillingCredit(q)
    PROVE  InvFor(q)'
<1>1. job[q] \in Job /\ job[q].pc = "billing" /\ job[q].pay \in Payment
  BY JobFields DEF BillingCredit, InvFor, TypeOK
<1>2. PICK p \in Payment : p = job[q].pay
  BY <1>1
<1>3. PICK j \in Job : /\ Goto(q, j) /\ j.pc = "commit" /\ j.pay = p
                       /\ j.want = job[q].want /\ j.paid = job[q].paid
  BY <1>1, <1>2, JobsMoved DEF BillingCredit
<1>4. /\ UNCHANGED <<alloc, dead, payment, status, holder, crashed, terms>>
      /\ credit' = [credit EXCEPT ![p] = More(credit[p])]
  BY <1>2 DEF BillingCredit
<1>5. credit \in [Payment -> 0 .. MaxCredit] /\ More(credit[p]) \in 1 .. MaxCredit
  BY MoreType DEF InvFor, TypeOK
<1>6. /\ payment' \in [Payment -> {"none", "live", "deleted"}]
      /\ credit' \in [Payment -> 0 .. MaxCredit] /\ status' \in [Invoice -> Status]
  BY <1>4, <1>5 DEF InvFor, TypeOK
<1>7. TypeOK' /\ Solo(q)' /\ NoOverAllocation' /\ job'[q] = j
  BY <1>3, <1>4, <1>6, SameBalances
<1>8. Sight(q)'
  <2>1. PICK want : want = job[q].want
    OBVIOUS
  <2>2. /\ \A i \in Wanted(want) : Insertable(p, i)
        /\ Wanted(want) # {} => WithinTotals(Granted(p, want), p, Wanted(want))
        /\ j.paid = {i \in Wanted(want) : Covered(Granted(p, want), i)}
    BY <1>1, <1>2, <1>3, <2>1 DEF InvFor, Sight
  <2>3. /\ \A i \in Wanted(want) : Insertable(p, i)'
        /\ Wanted(want) # {} => WithinTotals(Granted(p, want), p, Wanted(want))'
        /\ j.paid = {i \in Wanted(want) : Covered(Granted(p, want)', i)}
    BY <1>4, <2>2 DEF Insertable, WithinTotals, Granted, terms
  <2> QED
    BY <1>3, <1>7, <2>1, <2>3 DEF Sight
<1>9. (\A i \in Invoice : ~Owes(q, i)) /\ \A r \in Payment : ~Credits(q, r)
  BY <1>1 DEF Owes, Credits
<1>10. PaidFor(q)'
  BY <1>4, <1>9, PaidKept
<1>11. CreditFor(q)'
  <2>1. \A r \in Payment : credit[r] \in Int /\ (credit'[r] = credit[r] \/ credit'[r] > 0)
    BY <1>4, <1>5
  <2> QED
    BY <1>4, <1>9, <2>1 DEF InvFor, CreditFor
<1> QED
  BY <1>7, <1>8, <1>10, <1>11 DEF InvFor

(* PUT and PATCH /payments/:id. *)
LEMMA EditPaymentStep ==
    ASSUME NEW q \in Proc, InvFor(q), NEW p \in Payment, NEW a \in 0 .. MaxAmount, EditPayment(q, p, a)
    PROVE  InvFor(q)'
<1>1. /\ UNCHANGED <<alloc, dead, payment, credit, status, holder, job, crashed>> /\ Free(q)
      /\ amount' = [amount EXCEPT ![p] = a]
      /\ lowered' = IF a < Spent(alloc, p) THEN lowered \cup {p} ELSE lowered \ {p}
      /\ edits < MaxEdits /\ edits' = edits + 1
  BY DEF EditPayment, money
<1>2. TypeOK'
  BY <1>1, ReceivablesAssumption DEF InvFor, TypeOK
<1>3. NoOverAllocation'
  <2>1. Spent(alloc, p) \in Nat /\ MaxAmount \in Nat
    BY BalanceType, MaxAmountBounds DEF InvFor, TypeOK
  <2>2. amount'[p] = a /\ \A r \in Payment : r # p => amount'[r] = amount[r]
    BY <1>1 DEF InvFor, TypeOK
  <2>3. ASSUME NEW r \in Payment PROVE r \in lowered' \/ Spent(alloc, r) <= amount'[r]
    <3>1. CASE r = p
      BY <1>1, <2>1, <2>2, <3>1
    <3>2. CASE r # p
      BY <1>1, <2>2, <3>2 DEF InvFor, NoOverAllocation
    <3> QED
      BY <3>1, <3>2
  <2> QED
    BY <1>1, <2>3 DEF InvFor, NoOverAllocation
<1>4. Solo(q)' /\ job'[q].pc = "idle"
  BY <1>1 DEF InvFor, Solo, Free, Idle
<1>5. Sight(q)'
  BY <1>4 DEF Sight
<1>6. PaidFor(q)' /\ CreditFor(q)'
  BY <1>1, FreeOwesNothing, PaidKept, CreditKept
<1> QED
  BY <1>2, <1>3, <1>4, <1>5, <1>6 DEF InvFor

(* POST /payments/:id/reassign. *)
LEMMA ReassignStep ==
    ASSUME NEW q \in Proc, InvFor(q), NEW p \in Payment, Reassign(q, p)
    PROVE  InvFor(q)'
<1>1. /\ UNCHANGED <<alloc, dead, payment, status, holder, job, crashed, terms>> /\ Free(q)
      /\ credit' = [credit EXCEPT ![p] = 1]
  BY DEF Reassign
<1>2. credit' \in [Payment -> 0 .. MaxCredit] /\ credit'[p] = 1
      /\ \A r \in Payment : r # p => credit'[r] = credit[r]
  BY <1>1, ReceivablesAssumption DEF InvFor, TypeOK
<1>3. TypeOK' /\ NoOverAllocation' /\ Solo(q)' /\ Free(q)'
  BY <1>1, <1>2 DEF InvFor, TypeOK, NoOverAllocation, Solo, Free, terms
<1>4. Sight(q)'
  <2>1. job'[q].pc = "idle"
    BY <1>1 DEF Free, Idle
  <2> QED
    BY <2>1 DEF Sight
<1>5. PaidFor(q)'
  BY <1>1, FreeOwesNothing, PaidKept
<1>6. CreditFor(q)'
  <2>1. \A r \in Payment : ~Credits(q, r)
    BY <1>1, FreeOwesNothing
  <2> QED
    BY <1>1, <1>2, <2>1 DEF InvFor, CreditFor
<1> QED
  BY <1>3, <1>4, <1>5, <1>6 DEF InvFor

(* finalizeIfFullyPaid writes. *)
LEMMA FinalizeWriteStep ==
    ASSUME NEW q \in Proc, InvFor(q), FinalizeWrite(q)
    PROVE  InvFor(q)'
<1> DEFINE n == job[q].inv
<1>1. job[q] \in Job /\ job[q].pc = "finalizeWrite" /\ n \in Invoice
  BY JobFields DEF FinalizeWrite, InvFor, TypeOK
<1>2. PICK j \in Job : Goto(q, j) /\ j.pc = "idle"
  BY JobsMade DEF FinalizeWrite, Done, Idle
<1>3. /\ UNCHANGED <<alloc, dead, payment, credit, holder, crashed, terms>>
      /\ status' = [status EXCEPT ![n] = "paid"]
  BY DEF FinalizeWrite, money
<1>4. /\ payment' \in [Payment -> {"none", "live", "deleted"}]
      /\ credit' \in [Payment -> 0 .. MaxCredit] /\ status' \in [Invoice -> Status]
      /\ status'[n] = "paid" /\ \A i \in Invoice : i # n => status'[i] = status[i]
  BY <1>1, <1>3 DEF InvFor, TypeOK, Status
<1>5. TypeOK' /\ Solo(q)' /\ NoOverAllocation' /\ job'[q] = j
  BY <1>2, <1>3, <1>4, SameBalances
<1>6. Sight(q)'
  BY <1>2, <1>5 DEF Sight
<1>7. Covered(alloc', n) /\ \A i \in Invoice : Owes(q, i) => i = n
  BY <1>1, <1>3 DEF InvFor, Sight, Owes
<1>8. PaidFor(q)'
  <2> HIDE DEF n
  <2>1. \A i \in Invoice : i # n => (Settled(i) => Settled(i)')
    BY <1>3, <1>4 DEF Settled
  <2>2. ASSUME NEW i \in Invoice, i = n PROVE Settled(i)'
    BY <1>4, <1>7, <2>2 DEF Settled
  <2> QED
    BY <1>3, <1>7, <2>1, <2>2 DEF InvFor, PaidFor
<1>9. CreditFor(q)'
  <2>1. \A p \in Payment : ~Credits(q, p)
    BY <1>1 DEF Credits
  <2> QED
    BY <1>3, <2>1, CreditKept
<1> QED
  BY <1>5, <1>6, <1>8, <1>9 DEF InvFor

(* A refresh owes exactly the invoices it lists, once a step has left it. *)
LEMMA RefreshingOwes ==
    ASSUME NEW q \in Proc, NEW is \in SUBSET Invoice, job'[q] = Refreshing(is)
    PROVE  /\ Sight(q)'
           /\ \A i \in Invoice : Owes(q, i)' <=> i \in is
           /\ \A p : ~Credits(q, p)'
<1>1. CASE is = {}
  <2>1. job'[q].pc = "idle"
    BY <1>1 DEF Refreshing, Idle
  <2> QED
    BY <1>1, <2>1 DEF Sight, Owes, Credits
<1>2. CASE is # {}
  <2>1. job'[q].pc = "refresh" /\ job'[q].todo = is
    BY <1>2 DEF Refreshing
  <2> QED
    BY <2>1 DEF Sight, Owes, Credits
<1> QED
  BY <1>1, <1>2

(* refreshInvoicePaidStatus writes. *)
LEMMA RefreshWriteStep ==
    ASSUME NEW q \in Proc, InvFor(q), RefreshWrite(q)
    PROVE  InvFor(q)'
<1> DEFINE n == job[q].inv
           is == job[q].todo
           new == IF job[q].covered THEN "paid" ELSE IF status[n] = "paid" THEN "issued" ELSE status[n]
<1>1. job[q] \in Job /\ job[q].pc = "refreshWrite" /\ n \in Invoice /\ is \in SUBSET Invoice
  BY JobFields DEF RefreshWrite, InvFor, TypeOK
<1>2. Refreshing(is) \in Job /\ Goto(q, Refreshing(is))
  BY <1>1, JobsMade DEF RefreshWrite
<1>3. /\ UNCHANGED <<alloc, dead, payment, credit, holder, crashed, terms>>
      /\ status' = [status EXCEPT ![n] = new]
  BY DEF RefreshWrite, money
<1>4. /\ payment' \in [Payment -> {"none", "live", "deleted"}]
      /\ credit' \in [Payment -> 0 .. MaxCredit] /\ status' \in [Invoice -> Status]
      /\ status'[n] = new /\ \A i \in Invoice : i # n => status'[i] = status[i]
  BY <1>1, <1>3 DEF InvFor, TypeOK, Status
<1>5. PICK js \in SUBSET Invoice : js = is
  BY <1>1
<1>6. PICK j \in Job : Goto(q, j) /\ j = Refreshing(js)
  BY <1>2, <1>5
<1>7. TypeOK' /\ Solo(q)' /\ NoOverAllocation' /\ job'[q] = Refreshing(js)
  BY <1>3, <1>4, <1>6, SameBalances
<1>8. /\ Sight(q)' /\ \A i \in Invoice : Owes(q, i)' <=> i \in js
  BY <1>7, RefreshingOwes
<1>9. /\ \A i \in Invoice : Owes(q, i) <=> i = n \/ i \in js
      /\ job[q].covered <=> Covered(alloc, n)
  BY <1>1, <1>5 DEF InvFor, Sight, Owes
<1>10. status[n] \in Status
  BY <1>1 DEF InvFor, TypeOK
<1>11. PaidFor(q)'
  <2>1. ASSUME NEW i \in Invoice, i = n PROVE Settled(i)'
    BY <1>3, <1>4, <1>9, <1>10, <2>1 DEF Settled, Status, Terminal
  <2> HIDE DEF n
  <2>2. \A i \in Invoice : i # n => (Settled(i) => Settled(i)')
    BY <1>3, <1>4 DEF Settled
  <2> QED
    BY <1>3, <1>8, <1>9, <2>1, <2>2 DEF InvFor, PaidFor
<1>12. CreditFor(q)'
  <2>1. \A p \in Payment : ~Credits(q, p)
    BY <1>1 DEF Credits
  <2> QED
    BY <1>3, <2>1, CreditKept
<1> QED
  BY <1>7, <1>8, <1>11, <1>12 DEF InvFor

(* settleInvoiceTerminal writes the status. *)
LEMMA SettleWriteStep ==
    ASSUME NEW q \in Proc, InvFor(q), SettleWrite(q)
    PROVE  InvFor(q)'
<1> DEFINE n == job[q].inv
<1>1. job[q] \in Job /\ job[q].pc = "settleWrite" /\ n \in Invoice /\ job[q].as \in Terminal
  BY JobFields DEF SettleWrite, InvFor, TypeOK
<1>2. /\ UNCHANGED <<alloc, dead, payment, credit, holder, crashed, terms>>
      /\ status' = [status EXCEPT ![n] = job[q].as]
  BY DEF SettleWrite, money
<1>3. (\A i \in Invoice : ~Owes(q, i)) /\ \A p \in Payment : ~Credits(q, p)
  BY <1>1 DEF Owes, Credits
<1>4. CreditFor(q)'
  BY <1>2, <1>3, CreditKept
<1>5. /\ payment' \in [Payment -> {"none", "live", "deleted"}]
      /\ credit' \in [Payment -> 0 .. MaxCredit]
  BY <1>2 DEF InvFor, TypeOK
<1>6. PICK j \in Job : Goto(q, j) /\ (j.pc = "idle" \/ (j.pc = "release" /\ j.inv = n))
  BY <1>1, JobsMade DEF SettleWrite, Done, Idle
<1>7. /\ status' \in [Invoice -> Status] /\ status'[n] \in Terminal
      /\ \A i \in Invoice : i # n => status'[i] = status[i]
  BY <1>1, <1>2 DEF InvFor, TypeOK, Status
<1>8. TypeOK' /\ Solo(q)' /\ NoOverAllocation' /\ job'[q] = j
  BY <1>2, <1>5, <1>6, <1>7, SameBalances
<1>9. Sight(q)'
  BY <1>6, <1>7, <1>8 DEF Sight
<1>10. PaidFor(q)'
  <2> HIDE DEF n
  <2>1. \A i \in Invoice : i # n => (Settled(i) => Settled(i)')
    BY <1>2, <1>7 DEF Settled
  <2>2. ASSUME NEW i \in Invoice, i = n PROVE Settled(i)'
    BY <1>7, <2>2 DEF Settled
  <2> QED
    BY <1>2, <1>3, <2>1, <2>2 DEF InvFor, PaidFor
<1> QED
  BY <1>4, <1>8, <1>9, <1>10 DEF InvFor

(* A process dies inside a request. *)
LEMMA CrashStep ==
    ASSUME NEW q \in Proc, InvFor(q), Crash(q)
    PROVE  InvFor(q)'
<1>1. PICK j \in Job : Goto(q, j) /\ j.pc = "idle"
  BY JobsMade DEF Crash, Done, Idle
<1>2. /\ UNCHANGED <<alloc, dead, payment, credit, status, terms>> /\ crashed' = TRUE
      /\ holder' = [p \in Payment |-> IF holder[p] = q THEN Nobody ELSE holder[p]]
  BY DEF Crash, money
<1>3. job' \in [Proc -> Job] /\ Solo(q)' /\ job'[q] = j
  BY <1>1, OnlyItsJob DEF InvFor
<1>4. TypeOK'
  <2>1. holder' \in [Payment -> Proc \cup {Nobody}]
    BY <1>2 DEF InvFor, TypeOK
  <2> QED
    BY <1>2, <1>3, <2>1 DEF InvFor, TypeOK, terms
<1>5. NoOverAllocation'
  BY <1>2 DEF InvFor, NoOverAllocation, terms
<1>6. Sight(q)'
  BY <1>1, <1>3 DEF Sight
<1>7. PaidFor(q)' /\ CreditFor(q)'
  BY <1>2 DEF PaidFor, CreditFor
<1> QED
  BY <1>3, <1>4, <1>5, <1>6, <1>7 DEF InvFor

-----------------------------------------------------------------------------
(* The steps on allocations. *)

(* What a step that moves money owes the invariant beside its balances. *)
LEMMA MoneyStep ==
    ASSUME NEW q \in Proc, InvFor(q), NEW j \in Job, Goto(q, j),
           UNCHANGED <<payment, credit, crashed, terms>>,
           alloc' \in Table, dead' \in [Payment -> [Invoice -> Many .. MaxAmount]],
           status' \in [Invoice -> Status], holder' \in [Payment -> Proc \cup {Nobody}],
           \A p \in Payment : ~Credits(q, p),
           NoOverAllocation', Sight(q)', PaidFor(q)'
    PROVE  InvFor(q)'
<1>1. job' \in [Proc -> Job] /\ Solo(q)'
  BY OnlyItsJob DEF InvFor
<1>2. TypeOK'
  BY <1>1 DEF InvFor, TypeOK, terms
<1>3. CreditFor(q)'
  BY CreditKept
<1> QED
  BY <1>1, <1>2, <1>3 DEF InvFor

(* Taking allocations away keeps the totals. *)
LEMMA LessStaysWithin ==
    ASSUME TypeOK, UNCHANGED terms, alloc' \in Table, NoOverAllocation,
           \A p \in Payment, i \in Invoice : alloc'[p][i] <= alloc[p][i]
    PROVE  NoOverAllocation'
<1>0. alloc \in Table
  BY DEF TypeOK
<1>1. ASSUME NEW p \in Payment, p \notin lowered PROVE Spent(alloc', p) <= amount[p]
  <2>1. Spent(alloc', p) <= Spent(alloc, p)
    BY <1>0, SpentLess
  <2>2. Spent(alloc', p) \in Nat /\ Spent(alloc, p) \in Nat /\ amount[p] \in Nat
    BY <1>0, BalanceType, AmountBounds
  <2> QED
    BY <1>1, <2>1, <2>2 DEF NoOverAllocation
<1>2. ASSUME NEW i \in Invoice PROVE Applied(alloc', i) <= Total[i]
  <2>1. Applied(alloc', i) <= Applied(alloc, i)
    BY <1>0, AppliedLess
  <2>2. Applied(alloc', i) \in Nat /\ Applied(alloc, i) \in Nat /\ Total[i] \in Nat
    BY <1>0, BalanceType, ReceivablesAssumption
  <2> QED
    BY <2>1, <2>2 DEF NoOverAllocation
<1> QED
  BY <1>1, <1>2 DEF NoOverAllocation, terms

(* An invoice none of whose allocations changed is settled as before. *)
LEMMA SettledSame ==
    ASSUME NEW i \in Invoice, \A p \in Payment : alloc'[p][i] = alloc[p][i],
           status'[i] = status[i], Settled(i)
    PROVE  Settled(i)'
<1>1. Applied(alloc', i) = Applied(alloc, i)
  BY AppliedSame
<1> QED
  BY <1>1 DEF Settled, Covered

(* The row without the allocations to some invoices, and what is buried. *)
LEMMA WithoutFacts ==
    ASSUME TypeOK, NEW p \in Payment, NEW is \in SUBSET Invoice
    PROVE  /\ Without(p, is) \in Table
           /\ \A i \in Invoice : Without(p, is)[p][i] = IF i \in is THEN 0 ELSE alloc[p][i]
           /\ \A r \in Payment \ {p}, i \in Invoice : Without(p, is)[r][i] = alloc[r][i]
           /\ \A r \in Payment, i \in Invoice : Without(p, is)[r][i] <= alloc[r][i]
           /\ Buried(p, is) \in [Payment -> [Invoice -> Many .. MaxAmount]]
<1>1. /\ alloc \in [Payment -> [Invoice -> 0 .. MaxAmount]] /\ MaxAmount \in Nat
      /\ dead \in [Payment -> [Invoice -> -1 .. MaxAmount]]
  BY MaxAmountBounds DEF TypeOK, Table, Many
<1> DEFINE row == [i \in Invoice |-> IF i \in is THEN 0 ELSE alloc[p][i]]
           grave == [i \in Invoice |-> IF i \notin is \/ alloc[p][i] = 0 THEN dead[p][i]
                                       ELSE IF dead[p][i] = 0 THEN alloc[p][i] ELSE -1]
<1>2. \A i \in Invoice : alloc[p][i] \in 0 .. MaxAmount /\ dead[p][i] \in -1 .. MaxAmount
  BY <1>1
<1>3. row \in [Invoice -> 0 .. MaxAmount] /\ grave \in [Invoice -> -1 .. MaxAmount]
  BY <1>1, <1>2
<1>4. Without(p, is) = [alloc EXCEPT ![p] = row] /\ Buried(p, is) = [dead EXCEPT ![p] = grave]
  BY DEF Without, Buried, Many
<1>5. \A i \in Invoice : row[i] = IF i \in is THEN 0 ELSE alloc[p][i]
  OBVIOUS
<1> HIDE DEF row, grave
<1>6. Without(p, is) \in Table /\ Buried(p, is) \in [Payment -> [Invoice -> Many .. MaxAmount]]
  BY <1>1, <1>3, <1>4 DEF Table, Many
<1>7. /\ \A i \in Invoice : Without(p, is)[p][i] = row[i]
      /\ \A r \in Payment \ {p}, i \in Invoice : Without(p, is)[r][i] = alloc[r][i]
  BY <1>1, <1>4
<1>8. \A r \in Payment, i \in Invoice : Without(p, is)[r][i] <= alloc[r][i]
  <2> SUFFICES ASSUME NEW r \in Payment, NEW i \in Invoice PROVE Without(p, is)[r][i] <= alloc[r][i]
    OBVIOUS
  <2>1. alloc[r][i] \in Nat
    BY <1>1
  <2> QED
    BY <1>5, <1>7, <2>1
<1> QED
  BY <1>5, <1>6, <1>7, <1>8

(* Changing allocations of some invoices, which are then refreshed. *)
LEMMA RefreshedStep ==
    ASSUME NEW q \in Proc, InvFor(q), NEW is \in SUBSET Invoice,
           alloc' \in Table, dead' \in [Payment -> [Invoice -> Many .. MaxAmount]],
           NoOverAllocation', Goto(q, Refreshing(is)),
           UNCHANGED <<payment, credit, status, holder, crashed, terms>>,
           \A i \in Invoice \ is, r \in Payment : alloc'[r][i] = alloc[r][i],
           \A i \in Invoice : ~Owes(q, i), \A r \in Payment : ~Credits(q, r)
    PROVE  InvFor(q)'
<1>1. status' \in [Invoice -> Status] /\ holder' \in [Payment -> Proc \cup {Nobody}]
  BY DEF InvFor, TypeOK
<1>2. Refreshing(is) \in Job
  BY JobsMade
<1>3. job'[q] = Refreshing(is)
  BY <1>2, OnlyItsJob DEF InvFor
<1>4. Sight(q)' /\ \A i \in Invoice : Owes(q, i)' <=> i \in is
  BY <1>3, RefreshingOwes
<1>5. PaidFor(q)'
  <2> SUFFICES ASSUME ~crashed, NEW i \in Invoice, i \notin is PROVE Settled(i)'
    BY <1>4 DEF PaidFor
  <2>1. Settled(i)
    BY DEF InvFor, PaidFor
  <2>2. \A r \in Payment : alloc'[r][i] = alloc[r][i]
    OBVIOUS
  <2> QED
    BY <2>1, <2>2, SettledSame
<1> QED
  BY <1>1, <1>2, <1>4, <1>5, MoneyStep

(* Soft-deleting the allocations of p to some invoices, to be refreshed. *)
LEMMA BuryingStep ==
    ASSUME NEW q \in Proc, InvFor(q), NEW p \in Payment, NEW is \in SUBSET Invoice,
           alloc' = Without(p, is), dead' = Buried(p, is), Goto(q, Refreshing(is)),
           UNCHANGED <<payment, credit, status, holder, crashed, terms>>,
           \A i \in Invoice : ~Owes(q, i), \A r \in Payment : ~Credits(q, r)
    PROVE  InvFor(q)'
<1>1. TypeOK /\ alloc \in Table /\ NoOverAllocation
  BY DEF InvFor, TypeOK
<1>2. alloc' \in Table /\ dead' \in [Payment -> [Invoice -> Many .. MaxAmount]]
  BY <1>1, WithoutFacts
<1>3. NoOverAllocation'
  BY <1>1, <1>2, WithoutFacts, LessStaysWithin
<1>4. \A i \in Invoice \ is, r \in Payment : alloc'[r][i] = alloc[r][i]
  BY <1>1, WithoutFacts
<1> QED
  BY <1>2, <1>3, <1>4, RefreshedStep

(* POST /payments/:id/unapply. *)
LEMMA UnapplyStep ==
    ASSUME NEW q \in Proc, InvFor(q), NEW p \in Payment, NEW i \in Invoice, Unapply(q, p, i)
    PROVE  InvFor(q)'
<1>1. /\ alloc' = Without(p, {i}) /\ dead' = Buried(p, {i}) /\ Goto(q, Refreshing({i})) /\ Free(q)
      /\ UNCHANGED <<payment, credit, status, holder, crashed, terms>>
  BY DEF Unapply
<1>2. {i} \in SUBSET Invoice
  OBVIOUS
<1> QED
  BY <1>1, <1>2, FreeOwesNothing, BuryingStep

(* A statement that fails or finds nothing to do ends the hook or the request. *)
LEMMA EndsEarly ==
    ASSUME NEW q \in Proc, InvFor(q), job[q].pc \in {"insert", "bury", "revive"}, Done(q),
           UNCHANGED <<alloc, dead, payment, credit, status, holder, crashed, terms>>
    PROVE  InvFor(q)'
<1>1. PICK j \in Job : Goto(q, j) /\ j.pc = "idle"
  BY JobsMade DEF Done, Idle
<1>2. job'[q] = j
  BY <1>1, OnlyItsJob DEF InvFor
<1>3. Sight(q)'
  BY <1>1, <1>2 DEF Sight
<1>4. (\A i \in Invoice : ~Owes(q, i)) /\ \A p \in Payment : ~Credits(q, p)
  BY DEF Owes, Credits
<1>5. holder' \in [Payment -> Proc \cup {Nobody}]
  BY DEF InvFor, TypeOK
<1> QED
  BY <1>1, <1>3, <1>4, <1>5, QuietStep

(* reversePaymentAllocations. *)
LEMMA BuryAllocationsStep ==
    ASSUME NEW q \in Proc, InvFor(q), BuryAllocations(q)
    PROVE  InvFor(q)'
<1>1. job[q] \in Job /\ job[q].pc = "bury" /\ job[q].pay \in Payment
  BY JobFields DEF BuryAllocations, InvFor, TypeOK
<1>2. job[q].todo = Allocated(job[q].pay)
  BY <1>1 DEF InvFor, Sight
<1>3. UNCHANGED <<payment, credit, status, holder, crashed, terms>>
  BY DEF BuryAllocations
<1>4. CASE Done(q) /\ UNCHANGED <<alloc, dead>>
  BY <1>1, <1>3, <1>4, EndsEarly
<1>5. CASE /\ alloc' = Without(job[q].pay, Allocated(job[q].pay))
           /\ dead' = Buried(job[q].pay, Allocated(job[q].pay))
           /\ Goto(q, Refreshing(job[q].todo))
  <2>1. PICK p \in Payment : p = job[q].pay
    BY <1>1
  <2>2. PICK is \in SUBSET Invoice : is = Allocated(p)
    BY DEF Allocated
  <2>3. (\A i \in Invoice : ~Owes(q, i)) /\ \A r \in Payment : ~Credits(q, r)
    BY <1>1 DEF Owes, Credits
  <2> QED
    BY <1>2, <1>3, <1>5, <2>1, <2>2, <2>3, BuryingStep
<1> QED
  BY <1>4, <1>5 DEF BuryAllocations

(* releaseInvoiceAllocations, for an invoice that is terminal by then. *)
LEMMA ReleaseStep ==
    ASSUME NEW q \in Proc, InvFor(q), ReleaseInvoiceAllocations(q)
    PROVE  InvFor(q)'
<1>1. job[q] \in Job /\ job[q].pc = "release" /\ job[q].inv \in Invoice
  BY JobFields DEF ReleaseInvoiceAllocations, InvFor, TypeOK
<1>2. PICK n \in Invoice : n = job[q].inv
  BY <1>1
<1>3. PICK j \in Job : Goto(q, j) /\ j.pc = "idle"
  BY JobsMade DEF ReleaseInvoiceAllocations, Done, Idle
<1>4. UNCHANGED <<payment, credit, status, holder, crashed, terms>>
  BY DEF ReleaseInvoiceAllocations
<1>5. job'[q] = j
  BY <1>3, OnlyItsJob DEF InvFor
<1>6. Sight(q)'
  BY <1>3, <1>5 DEF Sight
<1>7. (\A i \in Invoice : ~Owes(q, i)) /\ \A p \in Payment : ~Credits(q, p)
  BY <1>1 DEF Owes, Credits
<1>8. status' \in [Invoice -> Status] /\ holder' \in [Payment -> Proc \cup {Nobody}]
  BY <1>4 DEF InvFor, TypeOK
<1>9. status'[n] \in Terminal
  BY <1>1, <1>2, <1>4 DEF InvFor, Sight
<1>10. CASE UNCHANGED <<alloc, dead>>
  BY <1>3, <1>4, <1>6, <1>7, <1>8, <1>10, QuietStep
<1>11. CASE /\ alloc' = [p \in Payment |-> Without(p, {n})[p]]
            /\ dead' = [p \in Payment |-> Buried(p, {n})[p]]
  <2>1. TypeOK /\ alloc \in Table /\ NoOverAllocation /\ {n} \in SUBSET Invoice
    BY DEF InvFor, TypeOK
  <2>2. \A p \in Payment : /\ Without(p, {n})[p] \in [Invoice -> 0 .. MaxAmount]
                           /\ Buried(p, {n})[p] \in [Invoice -> Many .. MaxAmount]
    BY <2>1, WithoutFacts DEF Table
  <2>3. alloc' \in Table /\ dead' \in [Payment -> [Invoice -> Many .. MaxAmount]]
    BY <1>11, <2>2 DEF Table
  <2>4. \A p \in Payment, i \in Invoice :
            alloc'[p][i] <= alloc[p][i] /\ (i # n => alloc'[p][i] = alloc[p][i])
    <3> SUFFICES ASSUME NEW p \in Payment, NEW i \in Invoice
                 PROVE  alloc'[p][i] <= alloc[p][i] /\ (i # n => alloc'[p][i] = alloc[p][i])
      OBVIOUS
    <3>1. /\ Without(p, {n})[p][i] = IF i \in {n} THEN 0 ELSE alloc[p][i]
          /\ Without(p, {n})[p][i] <= alloc[p][i]
      BY <2>1, WithoutFacts
    <3>2. alloc'[p][i] = Without(p, {n})[p][i]
      BY <1>11
    <3> QED
      BY <3>1, <3>2
  <2>5. NoOverAllocation'
    BY <1>4, <2>1, <2>3, <2>4, LessStaysWithin
  <2>6. PaidFor(q)'
    <3> SUFFICES ASSUME ~crashed, NEW i \in Invoice PROVE Settled(i)'
      BY <1>4 DEF PaidFor
    <3>1. CASE i = n
      BY <1>9, <3>1 DEF Settled
    <3>2. CASE i # n
      <4>1. Settled(i)
        BY <1>7 DEF InvFor, PaidFor
      <4> QED
        BY <1>4, <2>4, <3>2, <4>1, SettledSame
    <3> QED
      BY <3>1, <3>2
  <2> QED
    BY <1>3, <1>4, <1>6, <1>7, <1>8, <2>3, <2>5, <2>6, MoneyStep
<1> QED
  BY <1>2, <1>10, <1>11 DEF ReleaseInvoiceAllocations

(* A change of one row that respects the payment, and the total of every   *)
(* invoice it adds to, keeps all totals.                                   *)
LEMMA RowStaysWithin ==
    ASSUME alloc \in Table, alloc' \in Table, UNCHANGED terms, NoOverAllocation,
           NEW p \in Payment, NEW is \in SUBSET Invoice,
           WithinTotals(alloc', p, is),
           \A i \in Invoice \ is : alloc'[p][i] <= alloc[p][i],
           \A r \in Payment \ {p} : alloc'[r] = alloc[r]
    PROVE  NoOverAllocation'
<1>1. ASSUME NEW r \in Payment, r \notin lowered PROVE Spent(alloc', r) <= amount[r]
  <2>1. CASE r = p
    BY <2>1 DEF WithinTotals
  <2>2. CASE r # p
    BY <1>1, <2>2 DEF Spent, NoOverAllocation
  <2> QED
    BY <2>1, <2>2
<1>2. ASSUME NEW i \in Invoice PROVE Applied(alloc', i) <= Total[i]
  <2>1. CASE i \in is
    BY <2>1 DEF WithinTotals
  <2>2. CASE i \notin is
    <3>1. \A r \in Payment : alloc'[r][i] <= alloc[r][i]
      <4> SUFFICES ASSUME NEW r \in Payment PROVE alloc'[r][i] <= alloc[r][i]
        OBVIOUS
      <4>1. alloc[r][i] \in Nat
        BY BalancesAreSums
      <4> QED
        BY <2>2, <4>1
    <3>2. Applied(alloc', i) <= Applied(alloc, i)
      BY <3>1, AppliedLess
    <3>3. Applied(alloc', i) \in Nat /\ Applied(alloc, i) \in Nat /\ Total[i] \in Nat
      BY BalanceType, ReceivablesAssumption
    <3> QED
      BY <3>2, <3>3 DEF NoOverAllocation
  <2> QED
    BY <2>1, <2>2
<1> QED
  BY <1>1, <1>2 DEF NoOverAllocation, terms

(* More allocations cover what was covered. *)
LEMMA CoveredGrows ==
    ASSUME alloc \in Table, alloc' \in Table, NEW i \in Invoice,
           \A p \in Payment : alloc[p][i] <= alloc'[p][i], Covered(alloc, i)
    PROVE  Covered(alloc', i)
<1>1. Applied(alloc, i) <= Applied(alloc', i)
  BY AppliedLess
<1>2. Applied(alloc', i) \in Nat /\ Applied(alloc, i) \in Nat /\ Total[i] \in Nat
  BY BalanceType, ReceivablesAssumption
<1> QED
  BY <1>1, <1>2 DEF Covered

\* The table with one new allocation.
With(p, i, a) == [alloc EXCEPT ![p][i] = @ + a]

(* One new allocation, of a pair that has none. *)
LEMMA InsertFacts ==
    ASSUME alloc \in Table, NEW p \in Payment, NEW i \in Invoice, NEW a \in 1 .. MaxAmount,
           Insertable(p, i)
    PROVE  /\ With(p, i, a) = [alloc EXCEPT ![p][i] = a]
           /\ With(p, i, a) \in Table
           /\ \A r \in Payment \ {p} : With(p, i, a)[r] = alloc[r]
           /\ \A n \in Invoice : n # i => With(p, i, a)[p][n] = alloc[p][n]
           /\ \A r \in Payment : alloc[r][i] <= With(p, i, a)[r][i]
<1> DEFINE t == With(p, i, a)
<1>1. alloc \in [Payment -> [Invoice -> 0 .. MaxAmount]] /\ MaxAmount \in Nat /\ alloc[p][i] = 0
  BY MaxAmountBounds DEF Table, Insertable
<1>2. 0 + a = a
  OBVIOUS
<1>3. t = [alloc EXCEPT ![p][i] = @ + a] /\ t = [alloc EXCEPT ![p][i] = a]
  BY <1>1, <1>2 DEF With
<1> HIDE DEF t
<1>4. t \in Table
  BY <1>1, <1>3 DEF Table
<1>5. /\ \A r \in Payment \ {p} : t[r] = alloc[r]
      /\ \A n \in Invoice : t[p][n] = IF n = i THEN a ELSE alloc[p][n]
  BY <1>1, <1>3
<1>6. \A r \in Payment : alloc[r][i] <= t[r][i]
  <2> SUFFICES ASSUME NEW r \in Payment PROVE alloc[r][i] <= t[r][i]
    OBVIOUS
  <2>1. alloc[r][i] \in Nat
    BY <1>1
  <2>2. CASE r = p
    BY <1>1, <1>5, <2>2
  <2>3. CASE r # p
    BY <1>5, <2>1, <2>3
  <2> QED
    BY <2>2, <2>3
<1>7. \A n \in Invoice : n # i => t[p][n] = alloc[p][n]
  BY <1>5
<1>8. t = [alloc EXCEPT ![p][i] = a]
  BY <1>3
<1> QED
  BY <1>4, <1>5, <1>6, <1>7, <1>8 DEF t

(* The INSERT of an allocation that its triggers let pass. *)
LEMMA AllocateInsertStep ==
    ASSUME NEW q \in Proc, InvFor(q), AllocateInsert(q)
    PROVE  InvFor(q)'
<1>1. /\ job[q] \in Job /\ job[q].pc = "insert"
      /\ job[q].pay \in Payment /\ job[q].inv \in Invoice /\ job[q].amount \in 1 .. MaxAmount
  BY JobFields DEF AllocateInsert, InvFor, TypeOK
<1>2. PICK p \in Payment, n \in Invoice, a \in 1 .. MaxAmount :
          p = job[q].pay /\ n = job[q].inv /\ a = job[q].amount
  BY <1>1
<1>3. UNCHANGED <<dead, payment, credit, status, holder, crashed, terms>>
  BY DEF AllocateInsert
<1>4. CASE Done(q) /\ UNCHANGED alloc
  BY <1>1, <1>3, <1>4, EndsEarly
<1>5. CASE /\ Insertable(p, n)
           /\ alloc' = [alloc EXCEPT ![p][n] = a]
           /\ Goto(q, [pc |-> "finalize", inv |-> n])
  <2>1. alloc \in Table /\ NoOverAllocation
    BY DEF InvFor, TypeOK
  <2>2. /\ alloc' = With(p, n, a) /\ alloc' \in Table
        /\ \A r \in Payment \ {p} : alloc'[r] = alloc[r]
        /\ \A i \in Invoice : i # n => alloc'[p][i] = alloc[p][i]
        /\ \A r \in Payment : alloc[r][n] <= alloc'[r][n]
    <3>1. Insertable(p, n)
      BY <1>5
    <3>2. alloc' = With(p, n, a)
      BY <1>5, <2>1, <3>1, InsertFacts
    <3> QED
      BY <2>1, <3>1, <3>2, InsertFacts
  <2>3. WithinTotals(alloc', p, {n})
    BY <1>1, <1>2, <2>2 DEF InvFor, Sight, Inserted, With
  <2>4. NoOverAllocation'
    <3>1. \A i \in Invoice \ {n} : alloc'[p][i] <= alloc[p][i]
      <4>1. \A i \in Invoice : alloc[p][i] \in Nat
        BY <2>1, BalancesAreSums
      <4> QED
        BY <2>2, <4>1
    <3> QED
      BY <1>3, <2>1, <2>2, <2>3, <3>1, RowStaysWithin
  <2>5. PICK j \in Job : Goto(q, j) /\ j.pc = "finalize" /\ j.inv = n
    BY <1>5, JobsMade
  <2>6. job'[q] = j
    BY <2>5, OnlyItsJob DEF InvFor
  <2>7. (\A i \in Invoice : ~Owes(q, i)) /\ \A r \in Payment : ~Credits(q, r)
    BY <1>1 DEF Owes, Credits
  <2>8. ASSUME ~crashed, status[n] = "paid" PROVE Covered(alloc', n)
    <3>1. Settled(n)
      BY <2>7, <2>8 DEF InvFor, PaidFor
    <3>2. Covered(alloc, n)
      BY <2>8, <3>1 DEF Settled, Terminal
    <3> QED
      BY <2>1, <2>2, <3>2, CoveredGrows
  <2>9. Sight(q)'
    BY <1>3, <2>5, <2>6, <2>8 DEF Sight
  <2>10. PaidFor(q)'
    <3> SUFFICES ASSUME ~crashed, NEW i \in Invoice PROVE Settled(i)' \/ Owes(q, i)'
      BY <1>3 DEF PaidFor
    <3>1. CASE i = n
      BY <2>5, <2>6, <3>1 DEF Owes
    <3>2. CASE i # n
      <4>1. Settled(i)
        BY <2>7 DEF InvFor, PaidFor
      <4>2. \A r \in Payment : alloc'[r][i] = alloc[r][i]
        BY <2>2, <3>2
      <4> QED
        BY <1>3, <4>1, <4>2, SettledSame
    <3> QED
      BY <3>1, <3>2
  <2>11. /\ dead' \in [Payment -> [Invoice -> Many .. MaxAmount]]
         /\ status' \in [Invoice -> Status] /\ holder' \in [Payment -> Proc \cup {Nobody}]
    BY <1>3 DEF InvFor, TypeOK
  <2> QED
    BY <1>3, <2>2, <2>4, <2>5, <2>7, <2>9, <2>10, <2>11, MoneyStep
<1> QED
  BY <1>2, <1>4, <1>5 DEF AllocateInsert

(* What POST /billing/allocate-payment adds to the row of the payment. *)
LEMMA GrantedFacts ==
    ASSUME alloc \in Table, NEW p \in Payment, NEW want \in [Invoice -> 0 .. MaxAmount],
           \A i \in Wanted(want) : Insertable(p, i)
    PROVE  /\ Granted(p, want) = [alloc EXCEPT ![p] =
                 [i \in Invoice |-> IF want[i] > 0 THEN want[i] ELSE @[i]]]
           /\ Granted(p, want) \in Table
           /\ \A r \in Payment \ {p} : Granted(p, want)[r] = alloc[r]
           /\ \A i \in Invoice \ Wanted(want) : Granted(p, want)[p][i] = alloc[p][i]
           /\ \A r \in Payment, i \in Invoice : alloc[r][i] <= Granted(p, want)[r][i]
<1> DEFINE row == [i \in Invoice |-> IF want[i] > 0 THEN want[i] ELSE alloc[p][i]]
           sum == [i \in Invoice |-> alloc[p][i] + want[i]]
<1>1. alloc \in [Payment -> [Invoice -> 0 .. MaxAmount]] /\ MaxAmount \in Nat
  BY MaxAmountBounds DEF Table
<1>2. ASSUME NEW i \in Invoice
      PROVE  /\ alloc[p][i] \in 0 .. MaxAmount /\ want[i] \in 0 .. MaxAmount
             /\ want[i] > 0 => alloc[p][i] = 0
             /\ alloc[p][i] + want[i] = IF want[i] > 0 THEN want[i] ELSE alloc[p][i]
  <2>1. alloc[p][i] \in 0 .. MaxAmount /\ want[i] \in 0 .. MaxAmount
    BY <1>1
  <2>2. want[i] > 0 => alloc[p][i] = 0
    BY DEF Wanted, Insertable
  <2> QED
    BY <1>1, <2>1, <2>2
<1>3. sum = row
  BY <1>2
<1>4. row \in [Invoice -> 0 .. MaxAmount]
  BY <1>2
<1>5. Granted(p, want) = [alloc EXCEPT ![p] = sum]
  BY DEF Granted
<1>6. /\ \A i \in Invoice \ Wanted(want) : row[i] = alloc[p][i]
      /\ \A i \in Invoice : alloc[p][i] <= row[i]
  BY <1>1, <1>2 DEF Wanted
<1>7. \A r \in Payment, i \in Invoice : alloc[r][i] <= alloc[r][i]
  BY <1>1
<1>8. [alloc EXCEPT ![p] = row] =
        [alloc EXCEPT ![p] = [i \in Invoice |-> IF want[i] > 0 THEN want[i] ELSE @[i]]]
  OBVIOUS
<1> DEFINE t == [alloc EXCEPT ![p] = row]
<1>9. t = Granted(p, want)
  BY <1>3, <1>5
<1> HIDE DEF row, sum
<1>10. t \in Table /\ t[p] = row /\ \A r \in Payment \ {p} : t[r] = alloc[r]
  BY <1>1, <1>4 DEF Table
<1>11. \A r \in Payment, i \in Invoice : alloc[r][i] <= t[r][i]
  <2> HIDE DEF t
  <2> QED
    BY <1>6, <1>7, <1>10
<1> QED
  BY <1>6, <1>8, <1>9, <1>10, <1>11

(* The transaction of POST /billing/allocate-payment commits. *)
LEMMA BillingCommitStep ==
    ASSUME NEW q \in Proc, InvFor(q), BillingCommit(q)
    PROVE  InvFor(q)'
<1>1. job[q] \in Job /\ job[q].pc = "commit"
  BY DEF BillingCommit, InvFor, TypeOK
<1>2. PICK p \in Payment, want \in [Invoice -> 0 .. MaxAmount] :
          p = job[q].pay /\ want = job[q].want
  BY <1>1, JobFields
<1>3. /\ \A i \in Wanted(want) : Insertable(p, i)
      /\ Wanted(want) # {} => WithinTotals(Granted(p, want), p, Wanted(want))
      /\ job[q].paid = {i \in Wanted(want) : Covered(Granted(p, want), i)}
  BY <1>1, <1>2 DEF InvFor, Sight
<1>4. TypeOK /\ alloc \in Table /\ NoOverAllocation
  BY DEF InvFor, TypeOK
<1>5. alloc' = Granted(p, want)
  <2>1. alloc' = [alloc EXCEPT ![p] = [i \in Invoice |-> IF want[i] > 0 THEN want[i] ELSE @[i]]]
    BY <1>2 DEF BillingCommit
  <2> QED
    BY <1>3, <1>4, <2>1, GrantedFacts
<1>6. /\ alloc' \in Table
      /\ \A r \in Payment \ {p} : alloc'[r] = alloc[r]
      /\ \A i \in Invoice \ Wanted(want) : alloc'[p][i] = alloc[p][i]
      /\ \A r \in Payment, i \in Invoice : alloc[r][i] <= alloc'[r][i]
  BY <1>3, <1>4, <1>5, GrantedFacts
<1>7. /\ UNCHANGED <<dead, payment, credit, holder, crashed, terms>>
      /\ status' = [i \in Invoice |-> IF i \in job[q].paid THEN "paid" ELSE status[i]]
  BY DEF BillingCommit
<1>8. \A i \in Invoice : status'[i] =
          IF i \in Wanted(want) /\ Covered(alloc', i) THEN "paid" ELSE status[i]
  BY <1>3, <1>5, <1>7
<1>9. NoOverAllocation'
  <2>1. CASE Wanted(want) = {}
    <3>1. alloc' = alloc
      <4>1. \A r \in Payment, i \in Invoice : alloc'[r][i] = alloc[r][i]
        BY <1>6, <2>1
      <4> QED
        BY <1>4, <1>6, <4>1 DEF Table
    <3> QED
      BY <1>4, <1>7, <3>1 DEF NoOverAllocation, terms
  <2>2. CASE Wanted(want) # {}
    <3>1. PICK is \in SUBSET Invoice : is = Wanted(want)
      BY DEF Wanted
    <3>2. \A i \in Invoice : alloc[p][i] \in Nat
      BY <1>4, BalancesAreSums
    <3>3. \A i \in Invoice \ is : alloc'[p][i] <= alloc[p][i]
      BY <1>6, <3>1, <3>2
    <3>4. WithinTotals(alloc', p, is)
      BY <1>3, <1>5, <2>2, <3>1
    <3> QED
      BY <1>4, <1>6, <1>7, <3>3, <3>4, RowStaysWithin
  <2> QED
    BY <2>1, <2>2
<1>10. PICK j \in Job : Goto(q, j) /\ j.pc = "idle"
  BY JobsMade DEF BillingCommit, Done, Idle
<1>11. job'[q] = j
  BY <1>10, OnlyItsJob DEF InvFor
<1>12. Sight(q)'
  BY <1>10, <1>11 DEF Sight
<1>13. (\A i \in Invoice : ~Owes(q, i)) /\ \A r \in Payment : ~Credits(q, r)
  BY <1>1 DEF Owes, Credits
<1>14. /\ dead' \in [Payment -> [Invoice -> Many .. MaxAmount]]
       /\ status' \in [Invoice -> Status] /\ holder' \in [Payment -> Proc \cup {Nobody}]
  BY <1>4, <1>7 DEF TypeOK, Status
<1>15. PaidFor(q)'
  <2> SUFFICES ASSUME ~crashed, NEW i \in Invoice PROVE Settled(i)'
    BY <1>7 DEF PaidFor
  <2>1. Settled(i)
    BY <1>13 DEF InvFor, PaidFor
  <2>2. CASE i \notin Wanted(want)
    <3>1. \A r \in Payment : alloc'[r][i] = alloc[r][i]
      BY <1>6, <2>2
    <3>2. status'[i] = status[i]
      BY <1>8, <2>2
    <3> QED
      BY <2>1, <3>1, <3>2, SettledSame
  <2>3. CASE i \in Wanted(want)
    <3>1. CASE Covered(alloc', i)
      BY <1>8, <2>3, <3>1 DEF Settled
    <3>2. CASE ~Covered(alloc', i)
      <4>1. ~Covered(alloc, i)
        BY <1>4, <1>6, <3>2, CoveredGrows
      <4>2. status'[i] = status[i]
        BY <1>8, <3>2
      <4> QED
        BY <2>1, <3>2, <4>1, <4>2 DEF Settled
    <3> QED
      BY <3>1, <3>2
  <2> QED
    BY <2>2, <2>3
<1> QED
  BY <1>6, <1>7, <1>9, <1>10, <1>12, <1>13, <1>14, <1>15, MoneyStep

(* POST /payments/:id/reallocate. *)
LEMMA ReallocateStep ==
    ASSUME NEW q \in Proc, InvFor(q), NEW p \in Payment, NEW from \in Invoice,
           NEW to \in Invoice, NEW a \in 1 .. MaxAmount, Reallocate(q, p, from, to, a)
    PROVE  InvFor(q)'
<1>1. /\ Free(q) /\ from # to /\ WithinTotals(alloc', p, {to})
      /\ alloc' = [alloc EXCEPT ![p][from] = 0, ![p][to] = a]
      /\ dead' = Buried(p, {from}) /\ Goto(q, Refreshing({from, to}))
      /\ UNCHANGED <<payment, credit, status, holder, crashed, terms>>
  BY DEF Reallocate
<1>2. TypeOK /\ alloc \in Table /\ NoOverAllocation
  BY DEF InvFor, TypeOK
<1>3. alloc \in [Payment -> [Invoice -> 0 .. MaxAmount]] /\ MaxAmount \in Nat
  BY <1>2, MaxAmountBounds DEF Table
<1>4. /\ alloc' \in [Payment -> [Invoice -> 0 .. MaxAmount]]
      /\ \A r \in Payment \ {p} : alloc'[r] = alloc[r]
      /\ alloc'[p][from] = 0
      /\ \A i \in Invoice \ {from, to} : alloc'[p][i] = alloc[p][i]
  BY <1>1, <1>3
<1>5. alloc' \in Table
  BY <1>4 DEF Table
<1>6. NoOverAllocation'
  <2>1. \A i \in Invoice : alloc[p][i] \in Nat
    BY <1>3
  <2>2. \A i \in Invoice \ {to} : alloc'[p][i] <= alloc[p][i]
    BY <1>4, <2>1
  <2>3. {to} \in SUBSET Invoice
    OBVIOUS
  <2> QED
    BY <1>1, <1>2, <1>4, <1>5, <2>2, <2>3, RowStaysWithin
<1>7. dead' \in [Payment -> [Invoice -> Many .. MaxAmount]]
  BY <1>1, <1>2, WithoutFacts
<1>8. PICK is \in SUBSET Invoice : is = {from, to}
  OBVIOUS
<1>9. Refreshing(is) \in Job /\ Goto(q, Refreshing(is))
  BY <1>1, <1>8, JobsMade
<1>10. (\A i \in Invoice : ~Owes(q, i)) /\ \A r \in Payment : ~Credits(q, r)
  BY <1>1, FreeOwesNothing
<1>11. \A i \in Invoice \ is, r \in Payment : alloc'[r][i] = alloc[r][i]
  BY <1>4, <1>8
<1> QED
  BY <1>1, <1>5, <1>6, <1>7, <1>9, <1>10, <1>11, RefreshedStep


\* The allocations of p and the soft-deleted ones after restorePaymentAllocations.
Revived(p) == [alloc EXCEPT ![p] = [i \in Invoice |-> IF i \in Gone(p) THEN dead[p][i] ELSE @[i]]]
Cleared(p) == [dead EXCEPT ![p] = [i \in Invoice |-> 0]]

(* What reviving changes, when no pair has several soft-deleted rows. *)
LEMMA RevivedFacts ==
    ASSUME TypeOK, NEW p \in Payment, \A i \in Gone(p) : dead[p][i] # Many
    PROVE  /\ Revived(p) \in Table /\ Cleared(p) \in [Payment -> [Invoice -> Many .. MaxAmount]]
           /\ \A r \in Payment \ {p} : Revived(p)[r] = alloc[r]
           /\ \A i \in Invoice \ Gone(p) : Revived(p)[p][i] = alloc[p][i]
<1> DEFINE row == [i \in Invoice |-> IF i \in Gone(p) THEN dead[p][i] ELSE alloc[p][i]]
           none == [i \in Invoice |-> 0]
<1>1. /\ alloc \in [Payment -> [Invoice -> 0 .. MaxAmount]] /\ MaxAmount \in Nat
      /\ dead \in [Payment -> [Invoice -> -1 .. MaxAmount]]
  BY MaxAmountBounds DEF TypeOK, Table, Many
<1>2. \A i \in Invoice : /\ i \in Gone(p) => dead[p][i] \in 0 .. MaxAmount
                         /\ alloc[p][i] \in 0 .. MaxAmount
  <2> SUFFICES ASSUME NEW i \in Invoice
               PROVE  /\ i \in Gone(p) => dead[p][i] \in 0 .. MaxAmount
                      /\ alloc[p][i] \in 0 .. MaxAmount
    OBVIOUS
  <2>1. dead[p][i] \in -1 .. MaxAmount /\ alloc[p][i] \in 0 .. MaxAmount
    BY <1>1
  <2>2. i \in Gone(p) => dead[p][i] # -1
    BY DEF Many
  <2> QED
    BY <1>1, <2>1, <2>2
<1>3. /\ row \in [Invoice -> 0 .. MaxAmount] /\ none \in [Invoice -> -1 .. MaxAmount]
      /\ \A i \in Invoice \ Gone(p) : row[i] = alloc[p][i]
  BY <1>1, <1>2
<1>4. Revived(p) = [alloc EXCEPT ![p] = row] /\ Cleared(p) = [dead EXCEPT ![p] = none]
  BY DEF Revived, Cleared
<1> HIDE DEF row, none
<1>5. Revived(p) \in Table /\ Cleared(p) \in [Payment -> [Invoice -> Many .. MaxAmount]]
  BY <1>1, <1>3, <1>4 DEF Table, Many
<1>6. Revived(p)[p] = row /\ \A r \in Payment \ {p} : Revived(p)[r] = alloc[r]
  BY <1>1, <1>4
<1> QED
  BY <1>3, <1>5, <1>6

(* What ReviveAllocations does, in those terms. *)
LEMMA ReviveCases ==
    ASSUME NEW q \in Proc, NEW p \in Payment, p = job[q].pay, ReviveAllocations(q)
    PROVE  /\ UNCHANGED <<payment, credit, status, holder, crashed, terms>>
           /\ \/ Done(q) /\ UNCHANGED <<alloc, dead>>
              \/ /\ \A i \in Gone(p) : dead[p][i] # Many
                 /\ alloc' = Revived(p) /\ WithinTotals(alloc', p, Gone(p))
                 /\ dead' = Cleared(p) /\ Goto(q, Refreshing(job[q].todo))
  BY DEF ReviveAllocations, Gone, Revived, Cleared

(* restorePaymentAllocations. *)
LEMMA ReviveAllocationsStep ==
    ASSUME NEW q \in Proc, InvFor(q), ReviveAllocations(q)
    PROVE  InvFor(q)'
<1>1. job[q] \in Job /\ job[q].pc = "revive" /\ job[q].pay \in Payment
  BY JobFields DEF ReviveAllocations, InvFor, TypeOK
<1>2. PICK p \in Payment : p = job[q].pay
  BY <1>1
<1>3. job[q].todo = Gone(p)
  BY <1>1, <1>2 DEF InvFor, Sight
<1>4. UNCHANGED <<payment, credit, status, holder, crashed, terms>>
  BY <1>2, ReviveCases
<1>5. CASE Done(q) /\ UNCHANGED <<alloc, dead>>
  BY <1>1, <1>4, <1>5, EndsEarly
<1>6. CASE /\ \A i \in Gone(p) : dead[p][i] # Many
           /\ alloc' = Revived(p) /\ WithinTotals(alloc', p, Gone(p))
           /\ dead' = Cleared(p) /\ Goto(q, Refreshing(Gone(p)))
  <2>1. PICK is \in SUBSET Invoice : is = Gone(p)
    BY DEF Gone
  <2>2. TypeOK /\ alloc \in Table /\ NoOverAllocation
    BY DEF InvFor, TypeOK
  <2>3. /\ alloc' \in Table /\ dead' \in [Payment -> [Invoice -> Many .. MaxAmount]]
        /\ \A r \in Payment \ {p} : alloc'[r] = alloc[r]
        /\ \A i \in Invoice \ is : alloc'[p][i] = alloc[p][i]
    BY <1>6, <2>1, <2>2, RevivedFacts
  <2>4. NoOverAllocation'
    <3>1. \A i \in Invoice : alloc[p][i] \in Nat
      BY <2>2, BalancesAreSums
    <3>2. \A i \in Invoice \ is : alloc'[p][i] <= alloc[p][i]
      BY <2>3, <3>1
    <3> QED
      BY <1>4, <1>6, <2>1, <2>2, <2>3, <3>2, RowStaysWithin
  <2>5. (\A i \in Invoice : ~Owes(q, i)) /\ \A r \in Payment : ~Credits(q, r)
    BY <1>1 DEF Owes, Credits
  <2>6. \A i \in Invoice \ is, r \in Payment : alloc'[r][i] = alloc[r][i]
    BY <2>3
  <2> QED
    BY <1>4, <1>6, <2>1, <2>3, <2>4, <2>5, <2>6, RefreshedStep
<1> QED
  BY <1>2, <1>3, <1>5, <1>6, ReviveCases

\* What AutoCommit reads and writes: the invoices it may pay, the table and the
\* statuses it leaves, for a snapshot s.
OpenFor(p, chosen) ==
    {i \in IF chosen = {} THEN {i \in Invoice : status[i] = "issued"} ELSE chosen : Insertable(p, i)}
Poured(a, s, p, open) == [a EXCEPT ![p] = [i \in Invoice |-> @[i] + Share(s, p, open)[i]]]
Marked(s, p, open) ==
    [i \in Invoice |->
        IF i \in {n \in open : Share(s, p, open)[n] > 0 /\ Covered(Poured(s, s, p, open), n)}
        THEN "paid" ELSE status[i]]

(* What the waterfall adds to the row of the payment keeps both totals. *)
LEMMA WaterfallFacts ==
    ASSUME TypeOK, NoOverAllocation, NEW p \in Payment, Spent(alloc, p) <= amount[p], NEW open \in SUBSET Invoice,
           \A i \in open : alloc[p][i] = 0
    PROVE  /\ Poured(alloc, alloc, p, open) \in Table
           /\ \A r \in Payment \ {p} : Poured(alloc, alloc, p, open)[r] = alloc[r]
           /\ \A i \in Invoice : i \notin open \/ ~(Share(alloc, p, open)[i] > 0) =>
                Poured(alloc, alloc, p, open)[p][i] = alloc[p][i]
           /\ WithinTotals(Poured(alloc, alloc, p, open), p, open)
<1> DEFINE share == Share(alloc, p, open)
           t == Poured(alloc, alloc, p, open)
<1>t. t = [alloc EXCEPT ![p] = [i \in Invoice |-> alloc[p][i] + share[i]]]
  BY DEF Poured
<1>s. share = Share(alloc, p, open)
  OBVIOUS
<1> HIDE DEF share, t
<1>0. alloc \in Table
  BY DEF TypeOK
<1>1. alloc \in [Payment -> [Invoice -> 0 .. MaxAmount]] /\ MaxAmount \in Nat
  BY <1>0, MaxAmountBounds DEF Table
<1>2. amount[p] \in Nat /\ amount[p] <= MaxAmount /\ Spent(alloc, p) <= amount[p]
  BY AmountBounds
<1>3. /\ share \in [Invoice -> Nat]
      /\ \A i \in open : share[i] <= Due(alloc, i) /\ share[i] <= amount[p]
      /\ \A i \in Invoice \ open : share[i] = 0
      /\ Spent(alloc, p) + SumFunctionOnSet(share, Invoice) <= amount[p]
  BY <1>0, <1>s, <1>2, Waterfall
<1> DEFINE row == [i \in Invoice |-> alloc[p][i] + share[i]]
<1>4. \A i \in Invoice : /\ alloc[p][i] \in 0 .. MaxAmount /\ share[i] \in Nat
                         /\ alloc[p][i] + share[i] \in 0 .. MaxAmount
  <2> SUFFICES ASSUME NEW i \in Invoice
               PROVE  /\ alloc[p][i] \in 0 .. MaxAmount /\ share[i] \in Nat
                      /\ alloc[p][i] + share[i] \in 0 .. MaxAmount
    OBVIOUS
  <2>1. alloc[p][i] \in 0 .. MaxAmount /\ share[i] \in Nat
    BY <1>1, <1>3
  <2>2. CASE i \in open
    <3>1. alloc[p][i] = 0 /\ share[i] <= amount[p]
      BY <1>3, <2>2
    <3> QED
      BY <1>1, <1>2, <2>1, <3>1
  <2>3. CASE i \notin open
    <3>1. share[i] = 0
      BY <1>3, <2>3
    <3> QED
      BY <1>1, <2>1, <3>1
  <2> QED
    BY <2>2, <2>3
<1>5. /\ row \in [Invoice -> 0 .. MaxAmount] /\ t = [alloc EXCEPT ![p] = row]
      /\ \A i \in Invoice : row[i] = alloc[p][i] + share[i]
  BY <1>t, <1>4
<1> HIDE DEF row
<1>6. t \in Table /\ t[p] = row /\ \A r \in Payment \ {p} : t[r] = alloc[r]
  BY <1>1, <1>5 DEF Table
<1>7. \A i \in Invoice : i \notin open \/ ~(share[i] > 0) => t[p][i] = alloc[p][i]
  <2> SUFFICES ASSUME NEW i \in Invoice, i \notin open \/ ~(share[i] > 0)
               PROVE  t[p][i] = alloc[p][i]
    OBVIOUS
  <2>1. share[i] = 0
    BY <1>3, <1>4
  <2> QED
    BY <1>4, <1>5, <1>6, <2>1
<1>8. Spent(t, p) <= amount[p]
  <2> DEFINE f == alloc[p]
             h == t[p]
  <2>1. Spent(t, p) = SumFunctionOnSet(h, Invoice)
    BY <1>6, BalancesAreSums
  <2>2. Spent(alloc, p) = SumFunctionOnSet(f, Invoice)
    BY <1>0, BalancesAreSums
  <2>3. \A i \in Invoice : f[i] \in Nat /\ share[i] \in Nat /\ h[i] = f[i] + share[i]
    <3>1. \A i \in Invoice : f[i] \in Nat
      BY <1>0, BalancesAreSums
    <3> QED
      BY <1>4, <1>5, <1>6, <3>1
  <2> HIDE DEF f, h
  <2>4. SumFunctionOnSet(h, Invoice) = SumFunctionOnSet(f, Invoice) + SumFunctionOnSet(share, Invoice)
    BY <2>3, FiniteTables, SumPlus
  <2> QED
    BY <1>3, <2>1, <2>2, <2>4
<1>9. ASSUME NEW i \in open PROVE Applied(t, i) <= Total[i]
  <2>1. /\ Due(alloc, i) \in Nat /\ Total[i] \in Nat
        /\ Covered(alloc, i) => Due(alloc, i) = 0
        /\ ~Covered(alloc, i) => Applied(alloc, i) + Due(alloc, i) = Total[i]
    BY <1>0, DueType
  <2>2. Applied(alloc, i) \in Nat /\ Applied(t, i) \in Nat /\ Applied(alloc, i) <= Total[i]
    BY <1>0, <1>6, BalanceType DEF NoOverAllocation
  <2>3. Applied(t, i) + alloc[p][i] = Applied(alloc, i) + t[p][i]
    <3>1. \A r \in Payment \ {p} : t[r][i] = alloc[r][i]
      BY <1>6
    <3> QED
      BY <1>0, <1>6, <3>1, AppliedOneRow
  <2>4. alloc[p][i] = 0 /\ t[p][i] = share[i]
    <3>1. t[p][i] = alloc[p][i] + share[i] /\ alloc[p][i] = 0 /\ share[i] \in Nat
      BY <1>3, <1>5, <1>6
    <3> QED
      BY <3>1
  <2>5. share[i] \in Nat /\ share[i] <= Due(alloc, i)
    BY <1>3
  <2> QED
    BY <2>1, <2>2, <2>3, <2>4, <2>5
<1> QED
  BY <1>6, <1>7, <1>8, <1>9 DEF WithinTotals, share, t

(* What AutoCommit does, in those terms. *)
LEMMA AutoCommitCases ==
    ASSUME NEW q \in Proc, AutoCommit(q)
    PROVE  \/ UNCHANGED <<alloc, status>>
           \/ /\ job[q].chosen \subseteq {i \in Invoice : status[i] = "issued"}
              /\ alloc' = Poured(alloc, job[q].seen, job[q].pay, OpenFor(job[q].pay, job[q].chosen))
              /\ status' = Marked(job[q].seen, job[q].pay, OpenFor(job[q].pay, job[q].chosen))
  BY DEF AutoCommit, OpenFor, Poured, Marked

(* The transaction of POST /payments/:id/allocate-auto commits. *)
LEMMA AutoCommitStep ==
    ASSUME NEW q \in Proc, InvFor(q), AutoCommit(q)
    PROVE  InvFor(q)'
<1>1. /\ job[q] \in Job /\ job[q].pc = "auto" /\ job[q].pay \in Payment
      /\ job[q].chosen \in SUBSET Invoice
  BY JobFields DEF AutoCommit, InvFor, TypeOK
<1>2. PICK p \in Payment : p = job[q].pay
  BY <1>1
<1>3. job[q].seen = alloc /\ Spent(alloc, p) <= amount[p]
  BY <1>1, <1>2 DEF InvFor, Sight
<1>4. TypeOK /\ alloc \in Table /\ NoOverAllocation
  BY DEF InvFor, TypeOK
<1>5. PICK j \in Job : Goto(q, j) /\ j.pc = "idle"
  BY JobsMade DEF AutoCommit, Done, Idle
<1>6. job'[q] = j
  BY <1>5, OnlyItsJob DEF InvFor
<1>7. Sight(q)'
  BY <1>5, <1>6 DEF Sight
<1>8. (\A i \in Invoice : ~Owes(q, i)) /\ \A r \in Payment : ~Credits(q, r)
  BY <1>1 DEF Owes, Credits
<1>9. UNCHANGED <<dead, payment, credit, crashed, terms>> /\ holder' = [holder EXCEPT ![p] = Nobody]
  BY <1>2 DEF AutoCommit
<1>10. /\ holder' \in [Payment -> Proc \cup {Nobody}]
       /\ dead' \in [Payment -> [Invoice -> Many .. MaxAmount]]
  BY <1>4, <1>9 DEF TypeOK
<1>11. CASE UNCHANGED <<alloc, status>>
  BY <1>5, <1>7, <1>8, <1>9, <1>10, <1>11, QuietStep
<1>12. CASE /\ job[q].chosen \subseteq {i \in Invoice : status[i] = "issued"}
            /\ alloc' = Poured(alloc, alloc, p, OpenFor(p, job[q].chosen))
            /\ status' = Marked(alloc, p, OpenFor(p, job[q].chosen))
  <2>1. PICK open \in SUBSET Invoice : open = OpenFor(p, job[q].chosen)
    BY <1>1 DEF OpenFor
  <2>2. \A i \in open : alloc[p][i] = 0 /\ status[i] = "issued"
    BY <1>12, <2>1 DEF OpenFor, Insertable
  <2>3. PICK share : share = Share(alloc, p, open)
    OBVIOUS
  <2>4. alloc' = Poured(alloc, alloc, p, open)
    BY <1>12, <2>1
  <2>5. status' = [i \in Invoice |->
            IF i \in open /\ share[i] > 0 /\ Covered(alloc', i) THEN "paid" ELSE status[i]]
    BY <1>12, <2>1, <2>3, <2>4 DEF Marked
  <2>6. \A i \in Invoice : status'[i] =
            IF i \in open /\ share[i] > 0 /\ Covered(alloc', i) THEN "paid" ELSE status[i]
    BY <2>5
  <2>7. /\ alloc' \in Table
        /\ \A r \in Payment \ {p} : alloc'[r] = alloc[r]
        /\ \A i \in Invoice : i \notin open \/ ~(share[i] > 0) => alloc'[p][i] = alloc[p][i]
        /\ WithinTotals(alloc', p, open)
    BY <1>3, <1>4, <2>2, <2>3, <2>4, WaterfallFacts
  <2>8. NoOverAllocation'
    <3>1. \A i \in Invoice : alloc[p][i] \in Nat
      BY <1>4, BalancesAreSums
    <3>2. \A i \in Invoice \ open : alloc'[p][i] <= alloc[p][i]
      BY <2>7, <3>1
    <3> QED
      BY <1>4, <1>9, <2>7, <3>2, RowStaysWithin
  <2>9. status' \in [Invoice -> Status]
    BY <1>4, <2>5 DEF TypeOK, Status
  <2>10. PaidFor(q)'
    <3> SUFFICES ASSUME ~crashed, NEW i \in Invoice PROVE Settled(i)'
      BY <1>9 DEF PaidFor
    <3>1. Settled(i)
      BY <1>8 DEF InvFor, PaidFor
    <3>2. CASE i \notin open \/ ~(share[i] > 0)
      <4>1. \A r \in Payment : alloc'[r][i] = alloc[r][i]
        BY <2>7, <3>2
      <4>2. status'[i] = status[i]
        BY <2>6, <3>2
      <4> QED
        BY <3>1, <4>1, <4>2, SettledSame
    <3>3. CASE i \in open /\ share[i] > 0
      <4>1. status'[i] = IF Covered(alloc', i) THEN "paid" ELSE "issued"
        BY <2>2, <2>6, <3>3
      <4> QED
        BY <4>1 DEF Settled
    <3> QED
      BY <3>2, <3>3
  <2> QED
    BY <1>5, <1>7, <1>8, <1>9, <1>10, <2>7, <2>8, <2>9, <2>10, MoneyStep
<1> QED
  BY <1>2, <1>3, <1>11, <1>12, AutoCommitCases

-----------------------------------------------------------------------------
(* Types, which no overlap of requests can break. *)

(* What is left of a number when it is not negative. *)
LEMMA PositivePart ==
    ASSUME NEW x \in Int
    PROVE  Max({0, x}) = IF 0 <= x THEN x ELSE 0
  BY MinMaxOfTwo

(* No share of the waterfall is more than the payment, whatever it has seen. *)
LEMMA ShareType ==
    ASSUME NEW a \in Table, NEW p \in Payment, amount[p] \in Nat, NEW open \in SUBSET Invoice
    PROVE  Share(a, p, open) \in [Invoice -> 0 .. amount[p]]
<1>1. amount[p] \in Nat /\ Spent(a, p) \in Nat
  BY BalanceType
<1>2. ASSUME NEW i \in open
      PROVE  Min({Max({0, amount[p] - Spent(a, p) - OlderDue(a, open, i)}), Due(a, i)}) \in 0 .. amount[p]
  <2> DEFINE S == {n \in open : n < i}
             g == [k \in S |-> Due(a, k)]
             x == amount[p] - Spent(a, p) - OlderDue(a, open, i)
             y == Max({0, x})
             z == Due(a, i)
  <2>1. OlderDue(a, open, i) \in Nat
    <3>1. OlderDue(a, open, i) = SumFunctionOnSet(g, S)
      BY DEF OlderDue, SumFunction
    <3>2. IsFiniteSet(S)
      BY FS_Subset, FiniteTables
    <3>3. \A k \in S : g[k] \in Nat
      BY DueType
    <3> HIDE DEF g, S
    <3> QED
      BY <3>1, <3>2, <3>3, SumType
  <2>2. x \in Int /\ x <= amount[p] /\ z \in Nat
    BY <1>1, <2>1, DueType
  <2>3. y = IF 0 <= x THEN x ELSE 0
    <3> HIDE DEF x
    <3> QED
      BY <2>2, PositivePart
  <2>4. y \in 0 .. amount[p]
    <3> HIDE DEF x, y
    <3> QED
      BY <1>1, <2>2, <2>3
  <2>5. Min({y, z}) = IF y <= z THEN y ELSE z
    <3> HIDE DEF y, z
    <3> QED
      BY <2>2, <2>4, MinMaxOfTwo
  <2> HIDE DEF y, z, x
  <2>6. Min({y, z}) \in 0 .. amount[p]
    BY <1>1, <2>2, <2>4, <2>5
  <2> QED
    BY <2>6 DEF x, y, z
<1>3. 0 \in 0 .. amount[p]
  BY <1>1
<1> QED
  BY <1>2, <1>3 DEF Share

(* The table AutoCommit leaves, whatever its snapshot was. *)
LEMMA PouredType ==
    ASSUME TypeOK, NEW s \in Table, NEW p \in Payment, NEW open \in SUBSET Invoice,
           \A i \in open : alloc[p][i] = 0
    PROVE  Poured(alloc, s, p, open) \in Table
<1> DEFINE share == Share(s, p, open)
           row == [i \in Invoice |-> alloc[p][i] + share[i]]
<1>1. alloc \in [Payment -> [Invoice -> 0 .. MaxAmount]] /\ MaxAmount \in Nat
  BY MaxAmountBounds DEF Table, TypeOK
<1>2. amount[p] \in Nat /\ amount[p] <= MaxAmount /\ share \in [Invoice -> 0 .. amount[p]]
  BY AmountBounds, ShareType
<1>3. \A i \in Invoice \ open : share[i] = 0
  BY DEF Share
<1> HIDE DEF share
<1>4. \A i \in Invoice : alloc[p][i] + share[i] \in 0 .. MaxAmount
  <2> SUFFICES ASSUME NEW i \in Invoice PROVE alloc[p][i] + share[i] \in 0 .. MaxAmount
    OBVIOUS
  <2>1. alloc[p][i] \in 0 .. MaxAmount /\ share[i] \in 0 .. amount[p]
    BY <1>1, <1>2
  <2>2. alloc[p][i] = 0 \/ share[i] = 0
    BY <1>3
  <2> QED
    BY <1>1, <1>2, <2>1, <2>2
<1>5. row \in [Invoice -> 0 .. MaxAmount]
  BY <1>4
<1>6. Poured(alloc, s, p, open) = [alloc EXCEPT ![p] = row]
  BY DEF Poured, share
<1> HIDE DEF row
<1> QED
  BY <1>1, <1>5, <1>6 DEF Table

(* The types of the tables after a step of q, put together. *)
LEMMA TypeParts ==
    ASSUME NEW q \in Proc, TypeOK, NEW j \in Job, Goto(q, j),
           alloc' \in Table, dead' \in [Payment -> [Invoice -> Many .. MaxAmount]],
           payment' \in [Payment -> {"none", "live", "deleted"}],
           credit' \in [Payment -> 0 .. MaxCredit], status' \in [Invoice -> Status],
           holder' \in [Payment -> Proc \cup {Nobody}], crashed' \in BOOLEAN, UNCHANGED terms
    PROVE  TypeOK'
  BY DEF TypeOK, Goto, terms

(* Types: the steps that write no money. *)
LEMMA QuietTypes ==
    ASSUME NEW q \in Proc, TypeOK, NEW j \in Job, Goto(q, j), UNCHANGED <<money, crashed, terms>>,
           status' \in [Invoice -> Status], holder' \in [Payment -> Proc \cup {Nobody}]
    PROVE  TypeOK'
  BY DEF TypeOK, Goto, money, terms

(* Types: the steps on balances. *)
LEMMA BalanceTypes ==
    ASSUME NEW q \in Proc, TypeOK, NEW j \in Job, Goto(q, j),
           UNCHANGED <<payment, credit, status, holder, crashed, terms>>,
           alloc' \in Table, dead' \in [Payment -> [Invoice -> Many .. MaxAmount]]
    PROVE  TypeOK'
  BY DEF TypeOK, Goto, terms

(* Types: the steps on payments and their credits. *)
LEMMA CreditTypes ==
    ASSUME NEW q \in Proc, TypeOK, NEW j \in Job, Goto(q, j),
           UNCHANGED <<alloc, dead, status, holder, crashed, terms>>,
           payment' \in [Payment -> {"none", "live", "deleted"}],
           credit' \in [Payment -> 0 .. MaxCredit]
    PROVE  TypeOK'
  BY DEF TypeOK, Goto, terms

(* Types: a request begins. *)
LEMMA RequestTypes ==
    ASSUME NEW q \in Proc, TypeOK, Request(q)
    PROVE  TypeOK'
<1>1. ASSUME NEW p \in Payment, CreatePayment(q, p) \/ DeletePayment(q, p) \/ RestorePayment(q, p)
      PROVE  TypeOK'
  <2>1. PICK j \in Job : Goto(q, j)
    BY <1>1, JobsMade DEF CreatePayment, DeletePayment, RestorePayment
  <2>2. /\ UNCHANGED <<alloc, dead, credit, status, holder, crashed, terms>>
        /\ payment' = [payment EXCEPT ![p] = "live"] \/ payment' = [payment EXCEPT ![p] = "deleted"]
    BY <1>1 DEF CreatePayment, DeletePayment, RestorePayment
  <2>3. payment' \in [Payment -> {"none", "live", "deleted"}] /\ credit' \in [Payment -> 0 .. MaxCredit]
    BY <2>2 DEF TypeOK
  <2> QED
    BY <2>1, <2>2, <2>3, CreditTypes
<1>2. ASSUME NEW p \in Payment, Reassign(q, p)
      PROVE  TypeOK'
  <2>1. credit' \in [Payment -> 0 .. MaxCredit]
    BY <1>2, ReceivablesAssumption DEF Reassign, TypeOK
  <2> QED
    BY <1>2, <2>1 DEF Reassign, TypeOK, terms
<1>3. ASSUME NEW p \in Payment, NEW is \in SUBSET Invoice, AutoBegin(q, p, is)
      PROVE  TypeOK'
  <2>1. PICK j \in Job : Goto(q, j)
    BY <1>3, JobsMade DEF AutoBegin, TypeOK
  <2>2. holder' \in [Payment -> Proc \cup {Nobody}] /\ status' \in [Invoice -> Status]
    BY <1>3 DEF AutoBegin, TypeOK
  <2> QED
    BY <1>3, <2>1, <2>2, QuietTypes DEF AutoBegin
<1>4. ASSUME NEW p \in Payment, NEW i \in Invoice, Unapply(q, p, i)
      PROVE  TypeOK'
  <2>1. PICK is \in SUBSET Invoice : is = {i}
    OBVIOUS
  <2>2. /\ alloc' = Without(p, is) /\ dead' = Buried(p, is) /\ Goto(q, Refreshing(is))
        /\ UNCHANGED <<payment, credit, status, holder, crashed, terms>>
    BY <1>4, <2>1 DEF Unapply
  <2>3. Refreshing(is) \in Job
    BY JobsMade
  <2> QED
    BY <2>2, <2>3, WithoutFacts, BalanceTypes
<1>5. ASSUME NEW p \in Payment, NEW i \in Invoice, NEW a \in 1 .. MaxAmount, Allocate(q, p, i, a)
      PROVE  TypeOK'
  <2>1. PICK j \in Job : Goto(q, j)
    BY <1>5, JobsMade DEF Allocate
  <2>2. holder' \in [Payment -> Proc \cup {Nobody}] /\ status' \in [Invoice -> Status]
    BY <1>5 DEF Allocate, TypeOK
  <2> QED
    BY <1>5, <2>1, <2>2, QuietTypes DEF Allocate
<1>6. ASSUME NEW p \in Payment, NEW want \in [Invoice -> 0 .. MaxAmount],
             BillingAllocate(q, p, want)
      PROVE  TypeOK'
  <2>1. PICK is \in SUBSET Invoice :
            Goto(q, [pc |-> "billing", pay |-> p, want |-> want, paid |-> is])
    BY <1>6 DEF BillingAllocate
  <2>2. PICK j \in Job : Goto(q, j)
    BY <2>1, JobsMade
  <2>3. /\ holder' \in [Payment -> Proc \cup {Nobody}] /\ status' \in [Invoice -> Status]
        /\ UNCHANGED <<money, crashed, terms>>
    BY <1>6 DEF BillingAllocate, TypeOK
  <2> QED
    BY <2>2, <2>3, QuietTypes
<1>7. ASSUME NEW p \in Payment, NEW i \in Invoice, NEW a \in 1 .. MaxAmount,
             NEW to \in Invoice, Reallocate(q, p, i, to, a)
      PROVE  TypeOK'
  <2>1. /\ alloc' = [alloc EXCEPT ![p][i] = 0, ![p][to] = a] /\ dead' = Buried(p, {i})
        /\ Goto(q, Refreshing({i, to})) /\ UNCHANGED <<payment, credit, status, holder, crashed, terms>>
    BY <1>7 DEF Reallocate
  <2>2. alloc \in [Payment -> [Invoice -> 0 .. MaxAmount]] /\ MaxAmount \in Nat
    BY MaxAmountBounds DEF TypeOK, Table
  <2>3. alloc' \in Table
    BY <2>1, <2>2 DEF Table
  <2>4. dead' \in [Payment -> [Invoice -> Many .. MaxAmount]]
    BY <2>1, WithoutFacts
  <2>5. Refreshing({i, to}) \in Job
    BY JobsMade
  <2> QED
    BY <2>1, <2>3, <2>4, <2>5, BalanceTypes
<1>8. ASSUME NEW i \in Invoice, VoidInvoice(q, i) \/ CancelInvoiceForSat(q, i)
      PROVE  TypeOK'
  <2>1. PICK t \in Terminal : Goto(q, [pc |-> "settle", inv |-> i, as |-> t])
    BY <1>8 DEF VoidInvoice, CancelInvoiceForSat, Terminal
  <2>2. PICK j \in Job : Goto(q, j)
    BY <2>1, JobsMade
  <2>3. /\ holder' \in [Payment -> Proc \cup {Nobody}] /\ status' \in [Invoice -> Status]
        /\ UNCHANGED <<money, crashed, terms>>
    BY <1>8 DEF VoidInvoice, CancelInvoiceForSat, TypeOK
  <2> QED
    BY <2>2, <2>3, QuietTypes
<1>9. ASSUME NEW p \in Payment, NEW a \in 0 .. MaxAmount, EditPayment(q, p, a)
      PROVE  TypeOK'
  BY <1>9, ReceivablesAssumption DEF EditPayment, TypeOK, money
<1> QED
  BY <1>1, <1>2, <1>3, <1>4, <1>5, <1>6, <1>7, <1>8, <1>9 DEF Request

(* Types: the further steps that write statuses or credits. *)
LEMMA StatusTypes ==
    ASSUME NEW q \in Proc, TypeOK,
           \/ AllocateCheck(q) \/ FinalizeRead(q) \/ FinalizeWrite(q) \/ RefreshWrite(q)
           \/ (\E i \in Invoice : RefreshRead(q, i))
           \/ SettleTerminal(q) \/ SettleWrite(q) \/ ListTouched(q)
           \/ RecordCredit(q) \/ ReverseCredit(q) \/ RecordCreditAgain(q) \/ BillingCredit(q)
    PROVE  TypeOK'
<1>1. job[q] \in Job /\ Idle \in Job
  BY JobsMade DEF TypeOK
<1>2. CASE AllocateCheck(q) \/ FinalizeRead(q)
  <2>1. PICK j \in Job : Goto(q, j)
    BY <1>1, <1>2, JobsMoved DEF AllocateCheck, FinalizeRead, Done
  <2>2. /\ holder' \in [Payment -> Proc \cup {Nobody}] /\ status' \in [Invoice -> Status]
        /\ UNCHANGED <<money, crashed, terms>>
    BY <1>2 DEF AllocateCheck, FinalizeRead, TypeOK
  <2> QED
    BY <2>1, <2>2, QuietTypes
<1>3. CASE FinalizeWrite(q)
  <2>1. Goto(q, Idle) /\ job[q].inv \in Invoice
    BY <1>1, <1>3, JobFields DEF FinalizeWrite, Done
  <2>2. /\ holder' \in [Payment -> Proc \cup {Nobody}] /\ status' \in [Invoice -> Status]
        /\ UNCHANGED <<money, crashed, terms>>
    BY <1>3, <2>1 DEF FinalizeWrite, TypeOK, Status
  <2> QED
    BY <1>1, <2>1, <2>2, QuietTypes
<1>4. CASE RefreshWrite(q)
  <2>1. job[q].todo \in SUBSET Invoice /\ job[q].inv \in Invoice
    BY <1>1, <1>4, JobFields DEF RefreshWrite
  <2>2. PICK j \in Job : Goto(q, j)
    BY <1>4, <2>1, JobsMade DEF RefreshWrite
  <2>3. /\ holder' \in [Payment -> Proc \cup {Nobody}] /\ status' \in [Invoice -> Status]
        /\ UNCHANGED <<money, crashed, terms>>
    BY <1>4, <2>1 DEF RefreshWrite, TypeOK, Status
  <2> QED
    BY <2>2, <2>3, QuietTypes
<1>5. ASSUME NEW i \in Invoice, RefreshRead(q, i) PROVE TypeOK'
  <2>1. job[q].todo \ {i} \in SUBSET Invoice
    BY <1>1, <1>5, JobFields DEF RefreshRead
  <2>2. PICK c \in BOOLEAN, is \in SUBSET Invoice :
            Goto(q, [pc |-> "refreshWrite", todo |-> is, inv |-> i, covered |-> c])
    <3>1. Covered(alloc, i) \in BOOLEAN
      BY DEF Covered
    <3> QED
      BY <1>5, <2>1, <3>1 DEF RefreshRead
  <2>3. PICK j \in Job : Goto(q, j)
    BY <2>2, JobsMade
  <2>4. /\ holder' \in [Payment -> Proc \cup {Nobody}] /\ status' \in [Invoice -> Status]
        /\ UNCHANGED <<money, crashed, terms>>
    BY <1>5 DEF RefreshRead, TypeOK
  <2> QED
    BY <2>3, <2>4, QuietTypes
<1>6. CASE SettleTerminal(q) \/ SettleWrite(q)
  <2>1. job[q].inv \in Invoice /\ job[q].as \in Terminal
    BY <1>1, <1>6, JobFields DEF SettleTerminal, SettleWrite
  <2>2. PICK j \in Job : Goto(q, j)
    <3>1. status[job[q].inv] \in Status
      BY <2>1 DEF TypeOK
    <3> QED
      BY <1>1, <1>6, <2>1, <3>1, JobsMade DEF SettleTerminal, SettleWrite, Done
  <2>3. /\ holder' \in [Payment -> Proc \cup {Nobody}] /\ status' \in [Invoice -> Status]
        /\ UNCHANGED <<money, crashed, terms>>
    BY <1>6, <2>1 DEF SettleTerminal, SettleWrite, TypeOK, Status
  <2> QED
    BY <2>2, <2>3, QuietTypes
<1>8. CASE ListTouched(q)
  <2>1. PICK j \in Job : Goto(q, j)
    BY <1>8, ListTouchedJob
  <2>2. /\ holder' \in [Payment -> Proc \cup {Nobody}] /\ status' \in [Invoice -> Status]
        /\ UNCHANGED <<money, crashed, terms>>
    BY <1>8 DEF ListTouched, TypeOK
  <2> QED
    BY <2>1, <2>2, QuietTypes
<1>7. CASE RecordCredit(q) \/ ReverseCredit(q) \/ RecordCreditAgain(q) \/ BillingCredit(q)
  <2>1. PICK p \in Payment : p = job[q].pay
    BY <1>1, <1>7, JobFields DEF RecordCredit, ReverseCredit, RecordCreditAgain, BillingCredit
  <2>2. PICK j \in Job : Goto(q, j)
    <3>1. CASE RecordCredit(q)
      BY <1>1, <3>1 DEF RecordCredit, Done
    <3>2. CASE ReverseCredit(q)
      BY <2>1, <3>2, JobsMade DEF ReverseCredit
    <3>3. CASE RecordCreditAgain(q)
      BY <2>1, <3>3, JobsMade DEF RecordCreditAgain
    <3>4. CASE BillingCredit(q)
      BY <1>1, <3>4, JobsMoved DEF BillingCredit
    <3> QED
      BY <1>7, <3>1, <3>2, <3>3, <3>4
  <2>3. /\ UNCHANGED <<alloc, dead, payment, status, holder, crashed, terms>>
        /\ credit' = [credit EXCEPT ![p] = 0] \/ credit' = [credit EXCEPT ![p] = More(credit[p])]
    BY <1>7, <2>1 DEF RecordCredit, ReverseCredit, RecordCreditAgain, BillingCredit
  <2>4. /\ credit \in [Payment -> 0 .. MaxCredit] /\ More(credit[p]) \in 1 .. MaxCredit
        /\ MaxCredit \in Nat
    BY MoreType, ReceivablesAssumption DEF TypeOK
  <2>5. credit' \in [Payment -> 0 .. MaxCredit]
    BY <2>3, <2>4
  <2>6. payment' \in [Payment -> {"none", "live", "deleted"}]
    BY <2>3 DEF TypeOK
  <2> QED
    BY <2>2, <2>3, <2>5, <2>6, CreditTypes
<1> QED
  BY <1>2, <1>3, <1>4, <1>5, <1>6, <1>7, <1>8

(* Types: the further steps on balances. *)
LEMMA MoneyTypes ==
    ASSUME NEW q \in Proc, TypeOK,
           \/ AllocateInsert(q) \/ AutoCommit(q) \/ BillingCommit(q) \/ BuryAllocations(q)
           \/ ReviveAllocations(q) \/ ReleaseInvoiceAllocations(q)
    PROVE  TypeOK'
<1>1. job[q] \in Job /\ Idle \in Job /\ alloc \in Table
  BY JobsMade DEF TypeOK
<1>2. dead \in [Payment -> [Invoice -> Many .. MaxAmount]]
  BY DEF TypeOK
<1>3. CASE AllocateInsert(q)
  <2>1. PICK p \in Payment, n \in Invoice, a \in 1 .. MaxAmount :
            p = job[q].pay /\ n = job[q].inv /\ a = job[q].amount
    BY <1>1, <1>3, JobFields DEF AllocateInsert
  <2>2. PICK j \in Job : Goto(q, j)
    BY <1>1, <1>3, <2>1, JobsMade DEF AllocateInsert, Done
  <2>3. /\ UNCHANGED <<dead, payment, credit, status, holder, crashed, terms>>
        /\ alloc' = alloc \/ (Insertable(p, n) /\ alloc' = [alloc EXCEPT ![p][n] = a])
    BY <1>3, <2>1 DEF AllocateInsert
  <2>4. alloc' \in Table
    BY <1>1, <2>3, InsertFacts
  <2> QED
    BY <1>2, <2>2, <2>3, <2>4, BalanceTypes
<1>4. CASE AutoCommit(q)
  <2>1. PICK p \in Payment, s \in Table, chosen \in SUBSET Invoice :
            p = job[q].pay /\ s = job[q].seen /\ chosen = job[q].chosen
    BY <1>1, <1>4, JobFields DEF AutoCommit
  <2>2. PICK open \in SUBSET Invoice : open = OpenFor(p, chosen)
    BY DEF OpenFor
  <2>3. \A i \in open : alloc[p][i] = 0
    BY <2>2 DEF OpenFor, Insertable
  <2>4. \/ UNCHANGED <<alloc, status>>
        \/ alloc' = Poured(alloc, s, p, open) /\ status' = Marked(s, p, open)
    BY <1>4, <2>1, <2>2, AutoCommitCases
  <2>5. alloc' \in Table
    BY <1>1, <2>3, <2>4, PouredType
  <2>6. status' \in [Invoice -> Status]
    BY <2>4 DEF Marked, TypeOK, Status
  <2>7. /\ UNCHANGED <<dead, payment, credit, crashed, terms>>
        /\ holder' = [holder EXCEPT ![p] = Nobody] /\ Goto(q, Idle)
    BY <1>4, <2>1 DEF AutoCommit, Done
  <2>8. /\ holder' \in [Payment -> Proc \cup {Nobody}] /\ crashed' \in BOOLEAN
        /\ payment' \in [Payment -> {"none", "live", "deleted"}]
        /\ credit' \in [Payment -> 0 .. MaxCredit]
    BY <2>7 DEF TypeOK
  <2> QED
    BY <1>1, <1>2, <2>5, <2>6, <2>7, <2>8, TypeParts
<1>5. CASE BuryAllocations(q)
  <2>1. PICK p \in Payment, is \in SUBSET Invoice : p = job[q].pay /\ is = job[q].todo
    BY <1>1, <1>5, JobFields DEF BuryAllocations
  <2>2. PICK live \in SUBSET Invoice : live = Allocated(p)
    BY DEF Allocated
  <2>3. /\ UNCHANGED <<payment, credit, status, holder, crashed, terms>>
        /\ \/ Goto(q, Idle) /\ UNCHANGED <<alloc, dead>>
           \/ alloc' = Without(p, live) /\ dead' = Buried(p, live) /\ Goto(q, Refreshing(is))
    BY <1>5, <2>1, <2>2 DEF BuryAllocations, Done
  <2>4. Refreshing(is) \in Job
    BY JobsMade
  <2>5. alloc' \in Table /\ dead' \in [Payment -> [Invoice -> Many .. MaxAmount]]
    BY <1>1, <1>2, <2>3, WithoutFacts
  <2> QED
    BY <1>1, <2>3, <2>4, <2>5, BalanceTypes
<1>6. CASE ReviveAllocations(q)
  <2>1. PICK p \in Payment, is \in SUBSET Invoice : p = job[q].pay /\ is = job[q].todo
    BY <1>1, <1>6, JobFields DEF ReviveAllocations
  <2>2. /\ UNCHANGED <<payment, credit, status, holder, crashed, terms>>
        /\ \/ Goto(q, Idle) /\ UNCHANGED <<alloc, dead>>
           \/ /\ \A i \in Gone(p) : dead[p][i] # Many
              /\ alloc' = Revived(p) /\ dead' = Cleared(p) /\ Goto(q, Refreshing(is))
    BY <1>6, <2>1, ReviveCases DEF Done
  <2>3. Refreshing(is) \in Job
    BY JobsMade
  <2>4. alloc' \in Table /\ dead' \in [Payment -> [Invoice -> Many .. MaxAmount]]
    BY <1>1, <1>2, <2>2, RevivedFacts
  <2> QED
    BY <1>1, <2>2, <2>3, <2>4, BalanceTypes
<1>7. CASE ReleaseInvoiceAllocations(q)
  <2>1. PICK n \in Invoice : n = job[q].inv
    BY <1>1, <1>7, JobFields DEF ReleaseInvoiceAllocations
  <2>2. /\ UNCHANGED <<payment, credit, status, holder, crashed, terms>> /\ Goto(q, Idle)
        /\ \/ UNCHANGED <<alloc, dead>>
           \/ /\ alloc' = [p \in Payment |-> Without(p, {n})[p]]
              /\ dead' = [p \in Payment |-> Buried(p, {n})[p]]
    BY <1>7, <2>1 DEF ReleaseInvoiceAllocations, Done
  <2>3. \A p \in Payment : /\ Without(p, {n})[p] \in [Invoice -> 0 .. MaxAmount]
                           /\ Buried(p, {n})[p] \in [Invoice -> Many .. MaxAmount]
    <3> SUFFICES ASSUME NEW p \in Payment
                 PROVE  /\ Without(p, {n})[p] \in [Invoice -> 0 .. MaxAmount]
                        /\ Buried(p, {n})[p] \in [Invoice -> Many .. MaxAmount]
      OBVIOUS
    <3>1. {n} \in SUBSET Invoice
      OBVIOUS
    <3>2. /\ Without(p, {n}) \in Table
          /\ Buried(p, {n}) \in [Payment -> [Invoice -> Many .. MaxAmount]]
      BY <3>1, WithoutFacts
    <3> QED
      BY <3>2 DEF Table
  <2>4. alloc' \in Table /\ dead' \in [Payment -> [Invoice -> Many .. MaxAmount]]
    BY <1>1, <1>2, <2>2, <2>3 DEF Table
  <2> QED
    BY <1>1, <2>2, <2>4, BalanceTypes
<1>8. CASE BillingCommit(q)
  <2>1. PICK p \in Payment, want \in [Invoice -> 0 .. MaxAmount] : p = job[q].pay /\ want = job[q].want
    BY <1>1, <1>8, JobFields DEF BillingCommit
  <2>2. /\ UNCHANGED <<dead, payment, credit, holder, crashed, terms>> /\ Goto(q, Idle)
        /\ alloc' = [alloc EXCEPT ![p] = [i \in Invoice |-> IF want[i] > 0 THEN want[i] ELSE @[i]]]
        /\ status' = [i \in Invoice |-> IF i \in job[q].paid THEN "paid" ELSE status[i]]
    BY <1>8, <2>1 DEF BillingCommit, Done
  <2>3. alloc' \in Table
    BY <1>1, <2>2 DEF Table
  <2>4. status' \in [Invoice -> Status]
    BY <2>2 DEF TypeOK, Status
  <2>5. /\ holder' \in [Payment -> Proc \cup {Nobody}] /\ crashed' \in BOOLEAN
        /\ payment' \in [Payment -> {"none", "live", "deleted"}]
        /\ credit' \in [Payment -> 0 .. MaxCredit]
    BY <2>2 DEF TypeOK
  <2> QED
    BY <1>1, <1>2, <2>2, <2>3, <2>4, <2>5, TypeParts
<1> QED
  BY <1>3, <1>4, <1>5, <1>6, <1>7, <1>8

-----------------------------------------------------------------------------
(* The induction. *)

(* The empty tables satisfy the invariant. *)
LEMMA InitInv ==
    ASSUME Init
    PROVE  Inv
<1>1. alloc \in Table /\ dead \in [Payment -> [Invoice -> Many .. MaxAmount]]
  <2>1. ASSUME NEW p \in Payment
        PROVE  [i \in Invoice |-> 0] \in [Invoice -> 0 .. MaxAmount]
    BY MaxAmountBounds
  <2>2. ASSUME NEW p \in Payment
        PROVE  [i \in Invoice |-> 0] \in [Invoice -> Many .. MaxAmount]
    BY MaxAmountBounds DEF Many
  <2> QED
    BY <2>1, <2>2 DEF Init, Table
<1>2. TypeOK
  <2>1. job \in [Proc -> Job]
    BY JobsMade DEF Init
  <2>2. credit \in [Payment -> 0 .. MaxCredit]
    BY ReceivablesAssumption DEF Init
  <2>3. status \in [Invoice -> Status] /\ holder \in [Payment -> Proc \cup {Nobody}]
    BY DEF Init, Status
  <2>4. payment \in [Payment -> {"none", "live", "deleted"}] /\ crashed \in BOOLEAN
    BY DEF Init
  <2>5. amount \in [Payment -> 0 .. MaxAmount] /\ lowered \subseteq Payment /\ edits \in 0 .. MaxEdits
    <3>1. \A p \in Payment : Amount[p] \in 0 .. MaxAmount
      BY MaxAmountBounds
    <3> QED
      BY <3>1, ReceivablesAssumption DEF Init
  <2> QED
    BY <1>1, <2>1, <2>2, <2>3, <2>4, <2>5 DEF TypeOK
<1>3. ASSUME NEW S, IsFiniteSet(S), NEW f, \A x \in S : f[x] = 0
      PROVE  SumFunctionOnSet(f, S) = 0
  <2>1. SumFunctionOnSet(f, S) = SumFunctionOnSet(f, {})
    BY <1>3, SumWithoutZeros
  <2> QED
    BY <2>1, SumEmpty
<1>4. ASSUME NEW p \in Payment PROVE Spent(alloc, p) = 0
  <2> DEFINE f == alloc[p]
  <2>1. Spent(alloc, p) = SumFunctionOnSet(f, Invoice) /\ \A i \in Invoice : f[i] = 0
    BY <1>1, BalancesAreSums DEF Init
  <2> HIDE DEF f
  <2> QED
    BY <1>3, <2>1, FiniteTables
<1>5. ASSUME NEW i \in Invoice PROVE Applied(alloc, i) = 0
  <2> DEFINE f == [p \in Payment |-> alloc[p][i]]
  <2>1. Applied(alloc, i) = SumFunctionOnSet(f, Payment)
    BY <1>1, BalancesAreSums
  <2>2. \A p \in Payment : f[p] = 0
    BY DEF Init
  <2> HIDE DEF f
  <2> QED
    BY <1>3, <2>1, <2>2, FiniteTables
<1>6. NoOverAllocation
  <2>1. ASSUME NEW p \in Payment PROVE Spent(alloc, p) <= amount[p]
    <3>1. amount[p] \in Nat
      BY ReceivablesAssumption DEF Init
    <3> QED
      BY <1>4, <3>1
  <2>2. ASSUME NEW i \in Invoice PROVE Applied(alloc, i) <= Total[i]
    <3>1. Total[i] \in Nat
      BY ReceivablesAssumption
    <3> QED
      BY <1>5, <3>1
  <2> QED
    BY <2>1, <2>2 DEF NoOverAllocation
<1>7. \A q \in Proc : Free(q)
  BY DEF Init, Free
<1>8. Alone /\ SightInv
  BY <1>7, FreeOwesNothing DEF Alone, SightInv
<1>9. PaidInv
  <2>1. \A i \in Invoice : ~Covered(alloc, i)
    BY <1>5, ReceivablesAssumption DEF Covered
  <2> QED
    BY <2>1 DEF PaidInv, Settled, Init
<1>10. CreditInv
  BY DEF CreditInv, Init
<1> QED
  BY <1>2, <1>6, <1>8, <1>9, <1>10 DEF Inv

(* A request that begins keeps what its process sees of the invariant. *)
LEMMA RequestStep ==
    ASSUME NEW q \in Proc, InvFor(q), Request(q)
    PROVE  InvFor(q)'
<1>1. ASSUME NEW p \in Payment,
             CreatePayment(q, p) \/ DeletePayment(q, p) \/ RestorePayment(q, p) \/ Reassign(q, p)
      PROVE  InvFor(q)'
  BY <1>1, CreatePaymentStep, DeletePaymentStep, RestorePaymentStep, ReassignStep
<1>2. ASSUME NEW p \in Payment, NEW is \in SUBSET Invoice, AutoBegin(q, p, is)
      PROVE  InvFor(q)'
  BY <1>2, AutoBeginStep
<1>3. ASSUME NEW p \in Payment, NEW i \in Invoice, Unapply(q, p, i)
      PROVE  InvFor(q)'
  BY <1>3, UnapplyStep
<1>4. ASSUME NEW p \in Payment, NEW i \in Invoice, NEW a \in 1 .. MaxAmount, Allocate(q, p, i, a)
      PROVE  InvFor(q)'
  BY <1>4, AllocateStep
<1>5. ASSUME NEW p \in Payment, NEW i \in Invoice, NEW a \in 1 .. MaxAmount,
             NEW to \in Invoice, Reallocate(q, p, i, to, a)
      PROVE  InvFor(q)'
  BY <1>5, ReallocateStep
<1>6. ASSUME NEW i \in Invoice, VoidInvoice(q, i) \/ CancelInvoiceForSat(q, i)
      PROVE  InvFor(q)'
  BY <1>6, SettleBeginStep
<1>7. ASSUME NEW p \in Payment, NEW want \in [Invoice -> 0 .. MaxAmount], BillingAllocate(q, p, want)
      PROVE  InvFor(q)'
  BY <1>7, BillingAllocateStep
<1>8. ASSUME NEW p \in Payment, NEW a \in 0 .. MaxAmount, EditPayment(q, p, a)
      PROVE  InvFor(q)'
  BY <1>8, EditPaymentStep
<1> QED
  BY <1>1, <1>2, <1>3, <1>4, <1>5, <1>6, <1>7, <1>8 DEF Request

(* So does every further step of the request. *)
LEMMA FurtherStep ==
    ASSUME NEW q \in Proc, InvFor(q), Step(q)
    PROVE  InvFor(q)'
<1>1. CASE RecordCredit(q) \/ ReverseCredit(q) \/ RecordCreditAgain(q)
  BY <1>1, RecordCreditStep, ReverseCreditStep, RecordCreditAgainStep
<1>2. CASE AllocateCheck(q) \/ AllocateInsert(q) \/ AutoCommit(q)
  BY <1>2, AllocateCheckStep, AllocateInsertStep, AutoCommitStep
<1>3. CASE FinalizeRead(q) \/ FinalizeWrite(q) \/ RefreshWrite(q)
  BY <1>3, FinalizeReadStep, FinalizeWriteStep, RefreshWriteStep
<1>4. ASSUME NEW i \in Invoice, RefreshRead(q, i) PROVE InvFor(q)'
  BY <1>4, RefreshReadStep
<1>5. CASE ListTouched(q) \/ BuryAllocations(q) \/ ReviveAllocations(q)
  BY <1>5, ListTouchedStep, BuryAllocationsStep, ReviveAllocationsStep
<1>6. CASE SettleTerminal(q) \/ SettleWrite(q) \/ ReleaseInvoiceAllocations(q)
  BY <1>6, SettleTerminalStep, SettleWriteStep, ReleaseStep
<1>7. CASE BillingCredit(q) \/ BillingCommit(q)
  BY <1>7, BillingCreditStep, BillingCommitStep
<1> QED
  BY <1>1, <1>2, <1>3, <1>4, <1>5, <1>6, <1>7 DEF Step

(* A process that takes a further step has a request to serve. *)
LEMMA StepIsBusy ==
    ASSUME NEW q, Step(q)
    PROVE  ~Free(q)
<1>1. job[q].pc # "idle"
  BY DEF Step, RecordCredit, ReverseCredit, RecordCreditAgain, AllocateCheck, AllocateInsert,
         AutoCommit, FinalizeRead, FinalizeWrite, RefreshWrite, RefreshRead, BuryAllocations,
         ReviveAllocations, SettleTerminal, SettleWrite, ReleaseInvoiceAllocations, ListTouched,
         BillingCredit, BillingCommit
<1> QED
  BY <1>1 DEF Free, Idle

(* The invariant is inductive, as long as requests do not overlap. *)
LEMMA NextInv ==
    ASSUME Inv, [Next]_vars, [OneAtATime]_vars
    PROVE  Inv'
<1>1. CASE UNCHANGED vars
  <2>1. \A q : (Free(q) <=> Free(q)') /\ (Sight(q) <=> Sight(q)')
    BY <1>1 DEF vars, Free, Sight, Allocated, Gone, Inserted, Granted, Insertable, WithinTotals
  <2>2. \A i : /\ Settled(i) <=> Settled(i)'
               /\ \A q : Owes(q, i) <=> Owes(q, i)'
    BY <1>1 DEF vars, Settled, Owes
  <2>3. \A p, q : Credits(q, p) <=> Credits(q, p)'
    BY <1>1 DEF vars, Credits
  <2> QED
    BY <1>1, <2>1, <2>2, <2>3
    DEF vars, Inv, TypeOK, Alone, NoOverAllocation, SightInv, PaidInv, CreditInv
<1>2. CASE Next /\ OneAtATime
  <2>1. ASSUME NEW q \in Proc, Request(q) PROVE Inv'
    <3>1. InvFor(q)
      BY <1>2, <2>1, InvToProcess DEF OneAtATime
    <3> QED
      BY <2>1, <3>1, RequestStep, InvFromProcessNext
  <2>2. ASSUME NEW q \in Proc, Step(q) PROVE Inv'
    <3>1. InvFor(q)
      BY <2>2, StepIsBusy, InvToProcess
    <3> QED
      BY <2>2, <3>1, FurtherStep, InvFromProcessNext
  <2>3. ASSUME NEW q \in Proc, Crash(q) PROVE Inv'
    <3>1. InvFor(q)
      BY <2>3, InvToProcess DEF Crash
    <3> QED
      BY <2>3, <3>1, CrashStep, InvFromProcessNext
  <2> QED
    BY <1>2, <2>1, <2>2, <2>3 DEF Next
<1> QED
  BY <1>1, <1>2

(* The types are inductive on their own. *)
LEMMA NextTypes ==
    ASSUME TypeOK, [Next]_vars
    PROVE  TypeOK'
<1>1. CASE UNCHANGED vars
  BY <1>1 DEF vars, TypeOK
<1>2. ASSUME NEW q \in Proc, Crash(q) PROVE TypeOK'
  <2>1. /\ UNCHANGED <<alloc, dead, payment, credit, status, terms>> /\ crashed' = TRUE /\ Goto(q, Idle)
        /\ holder' = [p \in Payment |-> IF holder[p] = q THEN Nobody ELSE holder[p]]
    BY <1>2 DEF Crash, money, Done
  <2>2. holder' \in [Payment -> Proc \cup {Nobody}]
    BY <2>1 DEF TypeOK
  <2>3. job' \in [Proc -> Job]
    BY <2>1, JobsMade DEF TypeOK, Goto
  <2> QED
    BY <2>1, <2>2, <2>3 DEF TypeOK, terms
<1> QED
  BY <1>1, <1>2, RequestTypes, StatusTypes, MoneyTypes DEF Next, Step

(* The inductive invariant holds while requests do not overlap, for any    *)
(* number of processes, payments and invoices, and with crashes anywhere.  *)
THEOREM ReceivablesInvariance == Spec /\ [][OneAtATime]_vars => []Inv
<1>1. Init => Inv
  BY InitInv
<1>2. Inv /\ [Next]_vars /\ [OneAtATime]_vars => Inv'
  BY NextInv
<1> QED
  BY <1>1, <1>2, PTL DEF Spec

(* Tables and jobs keep their types, whatever overlaps: a request that      *)
(* allocates by the waterfall gives no invoice more than its payment, even  *)
(* from a snapshot that is out of date.                                     *)
THEOREM ReceivablesTypeCorrect == Spec => []TypeOK
<1>1. Init => TypeOK
  BY InitInv DEF Inv
<1>2. TypeOK /\ [Next]_vars => TypeOK'
  BY NextTypes
<1> QED
  BY <1>1, <1>2, PTL DEF Spec

(* While requests do not overlap, and wherever one of them dies, the        *)
(* triggers and the waterfall let no invoice take more than its total, and  *)
(* no payment is spent beyond its amount but one whose amount PUT or PATCH  *)
(* lowered below what is allocated.                                         *)
THEOREM NeverOverAllocated == Spec /\ [][OneAtATime]_vars => []NoOverAllocation
  BY ReceivablesInvariance, PTL DEF Inv

(* While requests do not overlap, finalizeIfFullyPaid, the waterfall,       *)
(* /billing/allocate-payment and refreshInvoicePaidStatus leave every       *)
(* invoice that is not terminal 'paid' exactly when it is covered.          *)
THEOREM StatusFollowsMoney == Spec /\ [][OneAtATime]_vars => []PaidIffCovered
<1>1. Inv => PaidIffCovered
  BY FreeOwesNothing DEF Inv, PaidInv, Settled, PaidIffCovered, AtRest
<1> QED
  BY <1>1, ReceivablesInvariance, PTL

(* While requests do not overlap, the ledger credits every payment that     *)
(* exists, through any number of deletions and restorations.                *)
THEOREM PaymentsStayCredited == Spec /\ [][OneAtATime]_vars => []LiveIsCredited
<1>1. Inv => LiveIsCredited
  BY FreeOwesNothing DEF Inv, CreditInv, LiveIsCredited, AtRest
<1> QED
  BY <1>1, ReceivablesInvariance, PTL

(* With a single process, what run `receivables` checks, requests never     *)
(* overlap: the three theorems then hold of Spec as it stands.              *)
THEOREM SingleProcessIsSerial ==
    ASSUME \A q, r \in Proc : q = r
    PROVE  Spec => [][OneAtATime]_vars
<1>1. ASSUME NEW q \in Proc, Request(q) PROVE AtRest
  <2>1. \A p, i, n, a, is, want :
            /\ CreatePayment(q, p) \/ DeletePayment(q, p) \/ RestorePayment(q, p) \/ Reassign(q, p)
                    => Free(q)
            /\ AutoBegin(q, p, is) \/ Unapply(q, p, i) => Free(q)
            /\ Allocate(q, p, i, a) \/ BillingAllocate(q, p, want) \/ EditPayment(q, p, a) => Free(q)
            /\ Reallocate(q, p, i, n, a) => Free(q)
            /\ VoidInvoice(q, i) \/ CancelInvoiceForSat(q, i) => Free(q)
    BY DEF CreatePayment, DeletePayment, RestorePayment, Reassign, AutoBegin, Unapply,
           Allocate, BillingAllocate, EditPayment, Reallocate, VoidInvoice, CancelInvoiceForSat
  <2>2. Free(q)
    BY <1>1, <2>1 DEF Request
  <2> QED
    BY <2>2 DEF AtRest
<1>2. [Next]_vars => [OneAtATime]_vars
  BY <1>1 DEF OneAtATime
<1> QED
  BY <1>2, PTL DEF Spec
============================================================================
