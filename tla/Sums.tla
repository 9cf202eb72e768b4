-------------------------------- MODULE Sums --------------------------------
(***************************************************************************)
(* Facts about SumFunctionOnSet, the sum of a function over a finite set.   *)
(* Its recursive definition takes elements in the order CHOOSE gives them,  *)
(* so what it computes has to be found by induction over sets. The proof    *)
(* goes by a witness that needs no recursion: a positive integer is the     *)
(* number of its units, a sum the number of all units, less the units of    *)
(* what is negative. It satisfies the recursive equation, and no other      *)
(* function does, since a smallest set where two differ cannot exist.       *)
(***************************************************************************)
EXTENDS Integers, Functions, FiniteSetTheorems, WellFoundedInduction, TLAPS

\* The units of the positive terms of a sum.
Units(f, T) == UNION {{x} \X (1..f[x]) : x \in T}

(* The terms of a finite sum have finitely many units.                     *)
LEMMA UnitsFinite ==
  ASSUME NEW D, NEW f \in [D -> Int], NEW T \in SUBSET D, IsFiniteSet(T)
  PROVE  IsFiniteSet(Units(f, T))
<1> DEFINE g == [x \in T |-> {x} \X (1..f[x])]
           U == {{x} \X (1..f[x]) : x \in T}
<1>1. g \in Surjection(T, U)
  BY DEF Surjection
<1>2. IsFiniteSet(U)
  BY <1>1, FS_Surjection
<1>3. ASSUME NEW x \in T PROVE IsFiniteSet({x} \X (1..f[x]))
  <2>1. IsFiniteSet({x}) /\ IsFiniteSet(1..f[x])
    <3>1. f[x] \in Int OBVIOUS
    <3>2. IsFiniteSet({x}) BY FS_Singleton
    <3>3. IsFiniteSet(1..f[x]) BY <3>1, FS_Interval
    <3> QED BY <3>2, <3>3
  <2> QED BY <2>1, FS_Product
<1> QED BY <1>2, <1>3, FS_UNION DEF Units

(* An element has as many units as its term says, and shares none.         *)
LEMMA UnitsRemove ==
  ASSUME NEW D, NEW f \in [D -> Int], NEW T \in SUBSET D, IsFiniteSet(T), NEW x \in T
  PROVE  Cardinality(Units(f, T)) =
           Cardinality(Units(f, T \ {x})) + IF f[x] > 0 THEN f[x] ELSE 0
<1> DEFINE rest == Units(f, T \ {x})
           own  == {x} \X (1..f[x])
<1>1. Units(f, T) = rest \cup own /\ rest \cap own = {}
  BY DEF Units
<1>2. IsFiniteSet(rest)
  BY UnitsFinite, FS_RemoveElement
<1>3. IsFiniteSet({x}) /\ Cardinality({x}) = 1
  BY FS_Singleton
<1>4. IsFiniteSet(1..f[x]) /\ Cardinality(1..f[x]) = IF f[x] > 0 THEN f[x] ELSE 0
  <2>1. f[x] \in Int OBVIOUS
  <2> QED BY <2>1, FS_Interval
<1>5. IsFiniteSet(own) /\ Cardinality(own) = IF f[x] > 0 THEN f[x] ELSE 0
  <2>1. IsFiniteSet(own) /\ Cardinality(own) = Cardinality({x}) * Cardinality(1..f[x])
    BY <1>3, <1>4, FS_Product
  <2> QED BY <2>1, <1>3, <1>4
<1>6. Cardinality(rest \cup own) = Cardinality(rest) + Cardinality(own) - Cardinality(rest \cap own)
  BY <1>2, <1>5, FS_Union
<1>7. Cardinality({}) = 0 /\ Cardinality(rest) \in Nat
  BY <1>2, FS_EmptySet, FS_CardinalityType
<1>8. f[x] \in Int
  OBVIOUS
<1> DEFINE kept == Cardinality(rest)
           all == Cardinality(Units(f, T))
           mine == Cardinality(own)
<1>9. all = kept + mine - Cardinality({}) /\ kept = Cardinality(Units(f, T \ {x}))
  BY <1>1, <1>6
<1> HIDE DEF kept, all, mine
<1> QED BY <1>5, <1>7, <1>8, <1>9 DEF kept, all, mine

-----------------------------------------------------------------------------
Negated(f) == [x \in DOMAIN f |-> -f[x]]

\* The sum of f over T, by its units.
Count(f, T) == Cardinality(Units(f, T)) - Cardinality(Units(Negated(f), T))

(* Nothing adds up to zero.                                                *)
LEMMA CountEmpty ==
  ASSUME NEW f PROVE Count(f, {}) = 0
<1>1. Units(f, {}) = {} /\ Units(Negated(f), {}) = {}
  BY DEF Units
<1> QED BY <1>1, FS_EmptySet DEF Count

(* Counting units satisfies the equation of a sum, whichever element is    *)
(* taken out first.                                                        *)
LEMMA CountRemove ==
  ASSUME NEW D, NEW f \in [D -> Int], NEW T \in SUBSET D, IsFiniteSet(T), NEW x \in T
  PROVE  /\ Count(f, T) \in Int
         /\ Count(f, T) = f[x] + Count(f, T \ {x})
<1> DEFINE n == Negated(f)
<1>1. n \in [D -> Int] /\ n[x] = -f[x] /\ f[x] \in Int
  BY DEF Negated
<1> HIDE DEF n
<1>2. /\ IsFiniteSet(Units(f, T)) /\ IsFiniteSet(Units(n, T))
      /\ IsFiniteSet(Units(f, T \ {x})) /\ IsFiniteSet(Units(n, T \ {x}))
  BY <1>1, UnitsFinite, FS_RemoveElement
<1>3. /\ Cardinality(Units(f, T)) \in Nat /\ Cardinality(Units(n, T)) \in Nat
      /\ Cardinality(Units(f, T \ {x})) \in Nat /\ Cardinality(Units(n, T \ {x})) \in Nat
  BY <1>2, FS_CardinalityType
<1>4. Cardinality(Units(f, T)) =
           Cardinality(Units(f, T \ {x})) + IF f[x] > 0 THEN f[x] ELSE 0
  BY UnitsRemove
<1>5. Cardinality(Units(n, T)) =
           Cardinality(Units(n, T \ {x})) + IF n[x] > 0 THEN n[x] ELSE 0
  BY <1>1, UnitsRemove
<1> QED BY <1>1, <1>3, <1>4, <1>5 DEF Count, n

-----------------------------------------------------------------------------
\* The body of the recursion, for a function h from sets to their sums.
Unfolded(h, f, s) ==
  IF s = {} THEN 0 ELSE LET x == CHOOSE x \in s : TRUE IN f[x] + h[s \ {x}]

(* What the library's definition of a sum comes to.                        *)
LEMMA SumUnfold ==
  ASSUME NEW f, NEW T
  PROVE  SumFunctionOnSet(f, T) = (CHOOSE h : h = [s \in SUBSET T |-> Unfolded(h, f, s)])[T]
  BY DEF SumFunctionOnSet, FoldFunctionOnSet, MapThenFoldSet, Unfolded

(* The recursion has a solution, the count, and a smallest set on which a  *)
(* solution differs from it cannot exist.                                  *)
LEMMA SumIsCount ==
  ASSUME NEW D, NEW f \in [D -> Int], NEW T \in SUBSET D, IsFiniteSet(T)
  PROVE  SumFunctionOnSet(f, T) = Count(f, T)
<1> DEFINE counts == [s \in SUBSET T |-> Count(f, s)]
           iter == CHOOSE h : h = [s \in SUBSET T |-> Unfolded(h, f, s)]
<1>1. \A s \in SUBSET T : IsFiniteSet(s)
  BY FS_Subset
<1>2. ASSUME NEW s \in SUBSET T PROVE Count(f, s) = Unfolded(counts, f, s)
  <2>1. CASE s = {}
    BY <2>1, CountEmpty DEF Unfolded
  <2>2. CASE s # {}
    <3> DEFINE x == CHOOSE x \in s : TRUE
    <3>1. x \in s
      BY <2>2
    <3>2. Count(f, s) = f[x] + Count(f, s \ {x})
      <4> HIDE DEF x
      <4> QED BY <1>1, <3>1, CountRemove
    <3>3. counts[s \ {x}] = Count(f, s \ {x})
      OBVIOUS
    <3>4. Unfolded(counts, f, s) = f[x] + counts[s \ {x}]
      BY <2>2 DEF Unfolded
    <3> QED BY <3>2, <3>3, <3>4
  <2> QED BY <2>1, <2>2
<1>3. counts = [s \in SUBSET T |-> Unfolded(counts, f, s)]
  BY <1>2
<1>4. iter = [s \in SUBSET T |-> Unfolded(iter, f, s)]
  <2> HIDE DEF counts
  <2> QED BY <1>3
<1> HIDE DEF iter
<1>5. \A s \in SUBSET T : iter[s] = Count(f, s)
  <2> DEFINE bad == {s \in SUBSET T : iter[s] # Count(f, s)}
  <2> SUFFICES ASSUME bad # {} PROVE FALSE
    OBVIOUS
  <2>1. IsWellFoundedOn(StrictSubsetOrdering(T), FiniteSubsetsOf(T))
    BY FS_StrictSubsetOrderingWellFounded
  <2>2. bad \subseteq FiniteSubsetsOf(T)
    BY <1>1 DEF FiniteSubsetsOf
  <2>3. PICK s \in bad : \A t \in bad : <<t, s>> \notin StrictSubsetOrdering(T)
    <3> HIDE DEF bad
    <3> QED BY <2>1, <2>2, WFMin
  <2>4. s \in SUBSET T /\ iter[s] = Unfolded(iter, f, s) /\ iter[s] # Count(f, s)
    BY <1>4
  <2>5. CASE s = {}
    BY <2>4, <2>5, CountEmpty DEF Unfolded
  <2>6. CASE s # {}
    <3> DEFINE x == CHOOSE x \in s : TRUE
    <3>1. x \in s
      BY <2>6
    <3>2. Count(f, s) = f[x] + Count(f, s \ {x})
      <4> HIDE DEF x
      <4> QED BY <1>1, <2>4, <3>1, CountRemove
    <3>3. iter[s] = f[x] + iter[s \ {x}]
      BY <2>4, <2>6 DEF Unfolded
    <3>4. s \ {x} \in SUBSET T /\ <<s \ {x}, s>> \in StrictSubsetOrdering(T)
      BY <2>4, <3>1 DEF StrictSubsetOrdering
    <3>5. iter[s \ {x}] = Count(f, s \ {x})
      BY <2>3, <3>4
    <3> QED BY <2>4, <3>2, <3>3, <3>5
  <2> QED BY <2>5, <2>6
<1> QED BY <1>5, SumUnfold DEF iter

-----------------------------------------------------------------------------
(* An empty sum is zero.                                                   *)
LEMMA SumEmpty ==
  ASSUME NEW D, NEW f \in [D -> Int]
  PROVE  SumFunctionOnSet(f, {}) = 0
  BY FS_EmptySet, SumIsCount, CountEmpty

(* Any element may be taken out of a sum.                                  *)
LEMMA SumRemove ==
  ASSUME NEW D, NEW f \in [D -> Int], NEW T \in SUBSET D, IsFiniteSet(T), NEW x \in T
  PROVE  SumFunctionOnSet(f, T) = f[x] + SumFunctionOnSet(f, T \ {x})
<1>1. IsFiniteSet(T \ {x})
  BY FS_RemoveElement
<1> QED BY <1>1, SumIsCount, CountRemove

(* A finite sum of integers is an integer.                                 *)
LEMMA SumType ==
  ASSUME NEW D, NEW f \in [D -> Int], NEW T \in SUBSET D, IsFiniteSet(T)
  PROVE  SumFunctionOnSet(f, T) \in Int
<1>1. CASE T = {}
  BY <1>1, SumIsCount, CountEmpty
<1>2. CASE T # {}
  <2>1. PICK x \in T : TRUE
    BY <1>2
  <2>2. Count(f, T) \in Int
    BY CountRemove
  <2> QED BY <2>2, SumIsCount
<1> QED BY <1>1, <1>2

(* Only the terms of its elements enter a sum.                             *)
LEMMA SumAgree ==
  ASSUME NEW D, NEW f \in [D -> Int], NEW g \in [D -> Int],
         NEW T \in SUBSET D, IsFiniteSet(T), \A x \in T : f[x] = g[x]
  PROVE  SumFunctionOnSet(f, T) = SumFunctionOnSet(g, T)
<1>1. Units(f, T) = Units(g, T)
  BY DEF Units
<1>2. Units(Negated(f), T) = Units(Negated(g), T)
  BY DEF Units, Negated
<1> QED BY <1>1, <1>2, SumIsCount DEF Count

(* A sum of zeros is zero.                                                 *)
LEMMA SumZero ==
  ASSUME NEW D, NEW f \in [D -> Int], NEW T \in SUBSET D, IsFiniteSet(T),
         \A x \in T : f[x] = 0
  PROVE  SumFunctionOnSet(f, T) = 0
<1>1. \A x \in T : 1..f[x] = {} /\ Negated(f)[x] = 0
  BY DEF Negated
<1>2. \A x \in T : 1..Negated(f)[x] = {}
  BY <1>1
<1>3. Units(f, T) = {} /\ Units(Negated(f), T) = {}
  BY <1>1, <1>2 DEF Units
<1>4. Cardinality({}) = 0
  BY FS_EmptySet
<1> QED BY <1>3, <1>4, SumIsCount DEF Count

\* Sums of f over S and of g over T that differ in the element x only, which may
\* be in S, in T, in both or in none.
OneApart(D, f, g, S, T, x) ==
  /\ f \in [D -> Int] /\ g \in [D -> Int] /\ x \in D
  /\ S \in SUBSET D /\ T \in SUBSET D /\ IsFiniteSet(S) /\ IsFiniteSet(T)
  /\ S \ {x} = T \ {x}
  /\ \A y \in S \ {x} : f[y] = g[y]

(* Such sums differ by what x adds to them.                                *)
LEMMA SumStep ==
  ASSUME NEW D, NEW f, NEW g, NEW S, NEW T, NEW x, OneApart(D, f, g, S, T, x)
  PROVE  SumFunctionOnSet(g, T) =
           SumFunctionOnSet(f, S) - (IF x \in S THEN f[x] ELSE 0) + (IF x \in T THEN g[x] ELSE 0)
<1> USE DEF OneApart
<1> DEFINE R == S \ {x}
<1>1. IsFiniteSet(R) /\ R \in SUBSET D
  BY FS_RemoveElement
<1>2. SumFunctionOnSet(f, R) = SumFunctionOnSet(g, R) /\ SumFunctionOnSet(f, R) \in Int
  BY <1>1, SumAgree, SumType
<1>3. SumFunctionOnSet(f, S) = (IF x \in S THEN f[x] ELSE 0) + SumFunctionOnSet(f, R)
  <2>1. CASE x \in S
    BY <2>1, SumRemove
  <2>2. CASE x \notin S
    <3>1. R = S
      BY <2>2
    <3> HIDE DEF R
    <3> QED BY <1>2, <2>2, <3>1
  <2> QED BY <2>1, <2>2
<1>4. SumFunctionOnSet(g, T) = (IF x \in T THEN g[x] ELSE 0) + SumFunctionOnSet(g, R)
  <2>1. CASE x \in T
    BY <2>1, SumRemove
  <2>2. CASE x \notin T
    <3>1. R = T
      BY <2>2
    <3> HIDE DEF R
    <3> QED BY <1>2, <2>2, <3>1
  <2> QED BY <2>1, <2>2
<1>5. f[x] \in Int /\ g[x] \in Int
  OBVIOUS
<1> QED BY <1>2, <1>3, <1>4, <1>5

(* A sum of what is not negative is not negative, and is at least each of  *)
(* its terms.                                                              *)
LEMMA SumOfNaturals ==
  ASSUME NEW D, NEW f \in [D -> Int], NEW T \in SUBSET D, IsFiniteSet(T),
         \A x \in T : f[x] >= 0
  PROVE  /\ SumFunctionOnSet(f, T) \in Nat
         /\ \A x \in T : f[x] <= SumFunctionOnSet(f, T)
<1>1. ASSUME NEW S \in SUBSET T PROVE SumFunctionOnSet(f, S) \in Nat
  <2>1. IsFiniteSet(S) /\ S \in SUBSET D
    BY FS_Subset
  <2>2. Units(Negated(f), S) = {}
    <3>1. ASSUME NEW x \in S PROVE {x} \X (1..Negated(f)[x]) = {}
      <4>1. f[x] \in Int /\ f[x] >= 0 /\ Negated(f)[x] = -f[x]
        BY DEF Negated
      <4>2. 1..Negated(f)[x] = {}
        BY <4>1
      <4> QED BY <4>2
    <3> QED BY <3>1 DEF Units
  <2>3. Cardinality(Units(f, S)) \in Nat
    BY <2>1, UnitsFinite, FS_CardinalityType
  <2>4. SumFunctionOnSet(f, S) = Count(f, S)
    BY <2>1, SumIsCount
  <2>5. Cardinality({}) = 0
    BY FS_EmptySet
  <2> QED BY <2>2, <2>3, <2>4, <2>5 DEF Count
<1>2. ASSUME NEW x \in T PROVE f[x] <= SumFunctionOnSet(f, T)
  <2>1. SumFunctionOnSet(f, T) = f[x] + SumFunctionOnSet(f, T \ {x})
    BY SumRemove
  <2>2. f[x] \in Int /\ SumFunctionOnSet(f, T \ {x}) \in Nat
    BY <1>1
  <2> QED BY <2>1, <2>2
<1> QED BY <1>1, <1>2
\* g has the terms of f, but for n more at x.
Increased(f, g, T, x, n) ==
  /\ IsFiniteSet(T) /\ f \in [T -> Int] /\ g \in [T -> Int] /\ x \in T /\ n \in Int
  /\ \A y \in T : g[y] = f[y] + IF y = x THEN n ELSE 0

(* Its sum is n more.                                                      *)
LEMMA SumAdd ==
  ASSUME NEW f, NEW g, NEW T, NEW x, NEW n, Increased(f, g, T, x, n)
  PROVE  SumFunctionOnSet(g, T) = SumFunctionOnSet(f, T) + n
<1> USE DEF Increased
<1>1. g[x] = f[x] + n /\ f[x] \in Int
  OBVIOUS
<1>2. \A y \in T : f[y] \in Int
  OBVIOUS
<1>3. OneApart(T, f, g, T, T, x)
  BY <1>2 DEF OneApart
<1>4. SumFunctionOnSet(g, T) = SumFunctionOnSet(f, T) - f[x] + g[x]
  BY <1>3, SumStep
<1>5. SumFunctionOnSet(f, T) \in Int
  BY SumType
<1> QED BY <1>1, <1>4, <1>5

(* Smaller terms have a smaller sum: there is no smallest set where they   *)
(* have not.                                                               *)
LEMMA SumMonotone ==
  ASSUME NEW T, IsFiniteSet(T), NEW f \in [T -> Int], NEW g \in [T -> Int],
         \A x \in T : f[x] <= g[x]
  PROVE  SumFunctionOnSet(f, T) <= SumFunctionOnSet(g, T)
<1> DEFINE bad == {s \in SUBSET T : ~(SumFunctionOnSet(f, s) <= SumFunctionOnSet(g, s))}
<1> SUFFICES ASSUME bad # {} PROVE FALSE
  OBVIOUS
<1>1. IsWellFoundedOn(StrictSubsetOrdering(T), FiniteSubsetsOf(T))
  BY FS_StrictSubsetOrderingWellFounded
<1>2. bad \subseteq FiniteSubsetsOf(T)
  BY FS_Subset DEF FiniteSubsetsOf
<1>3. PICK s \in bad : \A t \in bad : <<t, s>> \notin StrictSubsetOrdering(T)
  <2> HIDE DEF bad
  <2> QED BY <1>1, <1>2, WFMin
<1>4. s \in SUBSET T /\ IsFiniteSet(s)
  BY FS_Subset
<1>5. s # {}
  BY SumEmpty
<1>6. PICK x \in s : TRUE
  BY <1>5
<1>7. /\ SumFunctionOnSet(f, s) = f[x] + SumFunctionOnSet(f, s \ {x})
      /\ SumFunctionOnSet(g, s) = g[x] + SumFunctionOnSet(g, s \ {x})
  BY <1>4, SumRemove
<1>8. s \ {x} \in SUBSET T /\ IsFiniteSet(s \ {x}) /\ <<s \ {x}, s>> \in StrictSubsetOrdering(T)
  BY <1>4, FS_RemoveElement DEF StrictSubsetOrdering
<1>9. SumFunctionOnSet(f, s \ {x}) <= SumFunctionOnSet(g, s \ {x})
  BY <1>3, <1>8
<1>10. /\ SumFunctionOnSet(f, s \ {x}) \in Int /\ SumFunctionOnSet(g, s \ {x}) \in Int
       /\ f[x] \in Int /\ g[x] \in Int /\ f[x] <= g[x]
  BY <1>4, <1>8, SumType
<1> QED BY <1>3, <1>7, <1>9, <1>10
=============================================================================
