---------------------------- MODULE SumTheorems -----------------------------
(***************************************************************************)
(* Facts about SumFunction and SumFunctionOnSet of the community modules,  *)
(* which add up the values of a function over a finite set in an order the *)
(* fold chooses: the sums of receipts, bills, marks and payslips in this   *)
(* project are of this kind.  The order does not matter, a sum is the      *)
(* value at any one element and the sum of the rest, and sums compare as   *)
(* their terms do.                                                         *)
(*                                                                         *)
(* The induction over finite sets is done without an operator parameter:   *)
(* the counterexamples to a statement form a set of subsets, which has a   *)
(* smallest element if it has one at all.                                  *)
(***************************************************************************)
EXTENDS Integers, FiniteSets, Functions, FiniteSetTheorems,
        WellFoundedInduction, TLAPS

\* The fold behind SumFunctionOnSet: the element it takes first, one turn of
\* it, and the table of partial sums it is defined by.
FirstOf(T) == CHOOSE x \in T : TRUE
Turn(g, f, T) == IF T = {} THEN 0 ELSE f[FirstOf(T)] + g[T \ {FirstOf(T)}]
Tally(g, f, S) == g = [T \in SUBSET S |-> Turn(g, f, T)]

-----------------------------------------------------------------------------
\* The community module's definition, with its fold spelled out.
LEMMA SumIsTally ==
    ASSUME NEW f, NEW S
    PROVE  SumFunctionOnSet(f, S) = (CHOOSE g : Tally(g, f, S))[S]
  BY Zenon DEF SumFunctionOnSet, FoldFunctionOnSet, MapThenFoldSet, Tally,
     Turn, FirstOf

\* What the fold takes first is in the set.
LEMMA FirstInside == ASSUME NEW T, T # {} PROVE FirstOf(T) \in T
  BY DEF FirstOf

\* A set of subsets of a finite set has a member with no other inside it.
LEMMA SmallestSubset ==
    ASSUME NEW S, IsFiniteSet(S), NEW W \in SUBSET (SUBSET S), W # {}
    PROVE  \E T \in W : \A U \in SUBSET T : U # T => U \notin W
<1>1. IsWellFoundedOn(StrictSubsetOrdering(S), SUBSET S)
  BY FS_StrictSubsetOrderingWellFounded, FS_FiniteSubsetsOfFinite
<1>2. PICK T \in W : \A U \in W : ~(<<U, T>> \in StrictSubsetOrdering(S))
  <2> HIDE DEF StrictSubsetOrdering
  <2>1. QED
    BY <1>1, WFMin
<1>3. QED
  <2>1. ASSUME NEW U \in SUBSET T, U # T, U \in W PROVE FALSE
    <3>1. <<U, T>> \in (SUBSET S) \X (SUBSET S)
      BY <2>1
    <3>2. <<U, T>> \in StrictSubsetOrdering(S)
      BY <2>1, <3>1 DEF StrictSubsetOrdering
    <3>3. QED
      BY <2>1, <3>2, <1>2
  <2>2. QED
    BY <2>1

\* There is one table of partial sums at most.
LEMMA TallyUnique ==
    ASSUME NEW f, NEW S, IsFiniteSet(S),
           NEW g, Tally(g, f, S), NEW h, Tally(h, f, S)
    PROVE  g = h
<1> DEFINE W == {T \in SUBSET S : g[T] # h[T]}
<1>1. SUFFICES ASSUME W # {} PROVE FALSE
  <2>1. \A T \in SUBSET S : g[T] = h[T]
    BY <1>1
  <2>2. g = [T \in SUBSET S |-> g[T]] /\ h = [T \in SUBSET S |-> h[T]]
    BY DEF Tally
  <2>3. [T \in SUBSET S |-> g[T]] = [T \in SUBSET S |-> h[T]]
    BY <2>1
  <2>4. QED
    BY <2>2, <2>3
<1>2. PICK T \in W : \A U \in SUBSET T : U # T => U \notin W
  <2>1. W \in SUBSET (SUBSET S)
    OBVIOUS
  <2> HIDE DEF W
  <2>2. QED
    BY <1>1, <2>1, SmallestSubset
<1>3. g[T] = Turn(g, f, T) /\ h[T] = Turn(h, f, T)
  BY DEF Tally
<1>4. T # {}
  BY <1>3 DEF Turn
<1>5. T \ {FirstOf(T)} \in SUBSET S /\ T \ {FirstOf(T)} \notin W
  BY <1>2, <1>4, FirstInside
<1>6. g[T \ {FirstOf(T)}] = h[T \ {FirstOf(T)}]
  BY <1>5
<1>7. QED
  BY <1>3, <1>4, <1>6 DEF Turn

\* The fold's own recurrence holds: the first element, then the rest.
LEMMA SumUnfold ==
    ASSUME NEW f, NEW S, IsFiniteSet(S), S # {}
    PROVE  SumFunctionOnSet(f, S) =
             f[FirstOf(S)] + SumFunctionOnSet(f, S \ {FirstOf(S)})
<1> DEFINE Tot(T) == SumFunctionOnSet(f, T)
           Table(T) == [U \in SUBSET T |-> Tot(U)]
           W == {T \in SUBSET S : ~Tally(Table(T), f, T)}
<1>1. ASSUME NEW T \in SUBSET S, \A U \in SUBSET T : U # T => U \notin W
      PROVE  Tally(Table(T), f, T)
  <2> DEFINE k == [U \in SUBSET T |->
                     IF U = T THEN Turn(Table(T), f, T) ELSE Tot(U)]
  <2>1. ASSUME NEW U \in SUBSET T, U # T
        PROVE  Tot(U) = Turn(Table(T), f, U)
    <3>1. Tally(Table(U), f, U)
      BY <1>1, <2>1
    <3>2. Table(U)[U] = Turn(Table(U), f, U)
      BY <3>1 DEF Tally
    <3>3. U # {} => U \ {FirstOf(U)} \in SUBSET U /\ U \ {FirstOf(U)} \in SUBSET T
      OBVIOUS
    <3>4. Turn(Table(U), f, U) = Turn(Table(T), f, U)
      BY <3>3 DEF Turn
    <3>5. QED
      BY <3>2, <3>4
  <2>2. Tally(k, f, T)
    <3>1. ASSUME NEW U \in SUBSET T PROVE k[U] = Turn(k, f, U)
      <4>1. k[U] = Turn(Table(T), f, U)
        BY <2>1
      <4>2. U # {} => /\ U \ {FirstOf(U)} \in SUBSET T
                      /\ U \ {FirstOf(U)} # T
        BY FirstInside
      <4>3. Turn(k, f, U) = Turn(Table(T), f, U)
        BY <4>2 DEF Turn
      <4>4. QED
        BY <4>1, <4>3
    <3> HIDE DEF Table
    <3>2. k = [U \in SUBSET T |-> k[U]]
      OBVIOUS
    <3> HIDE DEF k
    <3>3. [U \in SUBSET T |-> k[U]] = [U \in SUBSET T |-> Turn(k, f, U)]
      BY <3>1
    <3>4. QED
      BY <3>2, <3>3 DEF Tally
  <2>3. Tot(T) = k[T]
    <3>1. Tally(CHOOSE g : Tally(g, f, T), f, T)
      BY <2>2, Zenon
    <3>2. IsFiniteSet(T)
      BY FS_Subset
    <3>3. (CHOOSE g : Tally(g, f, T)) = k
      BY <2>2, <3>1, <3>2, TallyUnique, Zenon
    <3>4. QED
      BY <3>3, SumIsTally, Zenon
  <2>4. k = Table(T)
    <3> HIDE DEF Tot
    <3>1. ASSUME NEW U \in SUBSET T PROVE k[U] = Tot(U)
      BY <2>3
    <3>2. QED
      BY <3>1
  <2>5. QED
    BY <2>2, <2>4
<1>2. W = {}
  <2>1. W \in SUBSET (SUBSET S)
    OBVIOUS
  <2>2. ASSUME W # {} PROVE FALSE
    <3>1. PICK T \in W : \A U \in SUBSET T : U # T => U \notin W
      <4> HIDE DEF W
      <4>1. QED
        BY <2>1, <2>2, SmallestSubset
    <3>2. QED
      BY <1>1, <3>1
  <2>3. QED
    BY <2>2
<1>3. Tally(Table(S), f, S)
  BY <1>2
<1>4. Table(S)[S] = Turn(Table(S), f, S)
  BY <1>3 DEF Tally
<1>5. S \ {FirstOf(S)} \in SUBSET S
  OBVIOUS
<1>6. QED
  BY <1>4, <1>5 DEF Turn

\* An empty sum is zero.
LEMMA SumOverNone == ASSUME NEW f PROVE SumFunctionOnSet(f, {}) = 0
<1> DEFINE k == [T \in SUBSET {} |-> 0]
<1>1. Tally(k, f, {})
  <2>1. \A T \in SUBSET {} : Turn(k, f, T) = 0
    BY DEF Turn
  <2>2. QED
    BY <2>1 DEF Tally
<1>2. Tally(CHOOSE g : Tally(g, f, {}), f, {})
  BY <1>1, Zenon
<1>3. (CHOOSE g : Tally(g, f, {})) = k
  BY <1>1, <1>2, TallyUnique, FS_EmptySet, Zenon
<1>4. SumFunctionOnSet(f, {}) = k[{}]
  BY <1>3, SumIsTally, Zenon
<1>5. QED
  BY <1>4

\* A sum of integers is an integer.
LEMMA SumInt ==
    ASSUME NEW f, NEW S, IsFiniteSet(S), \A x \in S : f[x] \in Int
    PROVE  SumFunctionOnSet(f, S) \in Int
<1> DEFINE W == {T \in SUBSET S : SumFunctionOnSet(f, T) \notin Int}
<1>1. SUFFICES ASSUME W # {} PROVE FALSE
  BY <1>1
<1>2. PICK T \in W : \A U \in SUBSET T : U # T => U \notin W
  <2>1. W \in SUBSET (SUBSET S)
    OBVIOUS
  <2> HIDE DEF W
  <2>2. QED
    BY <1>1, <2>1, SmallestSubset
<1>3. T # {}
  BY SumOverNone
<1>4. SumFunctionOnSet(f, T \ {FirstOf(T)}) \in Int
  BY <1>2, <1>3, FirstInside
<1>5. IsFiniteSet(T)
  BY FS_Subset
<1>6. QED
  BY <1>3, <1>4, <1>5, SumUnfold, FirstInside

\* Any one element may be taken out of a sum first, not only the one the
\* fold chooses.
LEMMA SumSplit ==
    ASSUME NEW f, NEW S, IsFiniteSet(S), \A x \in S : f[x] \in Int,
           NEW a \in S
    PROVE  SumFunctionOnSet(f, S) = f[a] + SumFunctionOnSet(f, S \ {a})
<1> DEFINE Tot(T) == SumFunctionOnSet(f, T)
           W == {T \in SUBSET S : \E x \in T : Tot(T) # f[x] + Tot(T \ {x})}
<1>1. SUFFICES ASSUME W # {} PROVE FALSE
  BY <1>1
<1>2. PICK T \in W : \A U \in SUBSET T : U # T => U \notin W
  <2>1. W \in SUBSET (SUBSET S)
    OBVIOUS
  <2> HIDE DEF W
  <2>2. QED
    BY <1>1, <2>1, SmallestSubset
<1>3. PICK x \in T : Tot(T) # f[x] + Tot(T \ {x})
  OBVIOUS
<1> DEFINE y == FirstOf(T)
<1>4. y \in T
  BY FirstInside
<1>5. \A U \in SUBSET S : IsFiniteSet(U) /\ Tot(U) \in Int
  BY FS_Subset, SumInt
<1>6. Tot(T) = f[y] + Tot(T \ {y})
  BY <1>4, <1>5, SumUnfold
<1>7. x # y
  BY <1>3, <1>6
<1> HIDE DEF y
<1>8. (T \ {y}) \ {x} = (T \ {x}) \ {y}
  OBVIOUS
<1> DEFINE rest == Tot((T \ {x}) \ {y})
<1>9. /\ T \ {y} \in SUBSET T /\ T \ {y} # T /\ x \in T \ {y}
      /\ T \ {x} \in SUBSET T /\ T \ {x} # T /\ y \in T \ {x}
  BY <1>4, <1>7
<1>10. Tot(T \ {y}) = f[x] + Tot((T \ {y}) \ {x})
  BY <1>2, <1>9
<1>11. Tot(T \ {x}) = f[y] + Tot((T \ {x}) \ {y})
  BY <1>2, <1>9
<1>12. Tot(T \ {y}) = f[x] + rest
  BY <1>8, <1>10
<1>13. rest \in Int /\ f[x] \in Int /\ f[y] \in Int
  BY <1>4, <1>5
<1> HIDE DEF Tot, rest, W
<1>14. Tot(T) = f[y] + (f[x] + rest) /\ Tot(T) # f[x] + (f[y] + rest)
  BY <1>3, <1>6, <1>11, <1>12 DEF rest
<1>15. QED
  BY <1>13, <1>14

\* A sum depends on the values at the elements summed only.
LEMMA SumAgree ==
    ASSUME NEW f, NEW g, NEW S, IsFiniteSet(S), \A x \in S : f[x] = g[x]
    PROVE  SumFunctionOnSet(f, S) = SumFunctionOnSet(g, S)
<1> DEFINE W == {T \in SUBSET S :
                   SumFunctionOnSet(f, T) # SumFunctionOnSet(g, T)}
<1>1. SUFFICES ASSUME W # {} PROVE FALSE
  BY <1>1
<1>2. PICK T \in W : \A U \in SUBSET T : U # T => U \notin W
  <2>1. W \in SUBSET (SUBSET S)
    OBVIOUS
  <2> HIDE DEF W
  <2>2. QED
    BY <1>1, <2>1, SmallestSubset
<1>3. T # {}
  BY SumOverNone
<1>4. SumFunctionOnSet(f, T \ {FirstOf(T)}) = SumFunctionOnSet(g, T \ {FirstOf(T)})
  BY <1>2, <1>3, FirstInside
<1>5. IsFiniteSet(T)
  BY FS_Subset
<1>6. QED
  BY <1>3, <1>4, <1>5, SumUnfold, FirstInside

\* A sum of smaller terms is smaller.
LEMMA SumLeq ==
    ASSUME NEW f, NEW g, NEW S, IsFiniteSet(S),
           \A x \in S : f[x] \in Int /\ g[x] \in Int /\ f[x] <= g[x]
    PROVE  SumFunctionOnSet(f, S) <= SumFunctionOnSet(g, S)
<1> DEFINE W == {T \in SUBSET S :
                   ~(SumFunctionOnSet(f, T) <= SumFunctionOnSet(g, T))}
<1>1. SUFFICES ASSUME W # {} PROVE FALSE
  BY <1>1
<1>2. PICK T \in W : \A U \in SUBSET T : U # T => U \notin W
  <2>1. W \in SUBSET (SUBSET S)
    OBVIOUS
  <2> HIDE DEF W
  <2>2. QED
    BY <1>1, <2>1, SmallestSubset
<1>3. T # {}
  BY SumOverNone
<1>4. SumFunctionOnSet(f, T \ {FirstOf(T)}) <= SumFunctionOnSet(g, T \ {FirstOf(T)})
  BY <1>2, <1>3, FirstInside
<1>5. IsFiniteSet(T) /\ IsFiniteSet(T \ {FirstOf(T)})
  BY FS_Subset
<1>6. /\ SumFunctionOnSet(f, T \ {FirstOf(T)}) \in Int
      /\ SumFunctionOnSet(g, T \ {FirstOf(T)}) \in Int
  BY <1>5, SumInt
<1>7. /\ f[FirstOf(T)] \in Int /\ g[FirstOf(T)] \in Int /\ f[FirstOf(T)] <= g[FirstOf(T)]
      /\ SumFunctionOnSet(f, T) = f[FirstOf(T)] + SumFunctionOnSet(f, T \ {FirstOf(T)})
      /\ SumFunctionOnSet(g, T) = g[FirstOf(T)] + SumFunctionOnSet(g, T \ {FirstOf(T)})
  BY <1>3, <1>5, SumUnfold, FirstInside
<1>8. QED
  BY <1>4, <1>6, <1>7

\* Terms that are zero may be left out.
LEMMA SumWithoutZeros ==
    ASSUME NEW f, NEW S, IsFiniteSet(S), \A x \in S : f[x] \in Int,
           NEW R \in SUBSET S, \A x \in S \ R : f[x] = 0
    PROVE  SumFunctionOnSet(f, S) = SumFunctionOnSet(f, R)
<1> DEFINE Tot(T) == SumFunctionOnSet(f, T)
           W == {T \in SUBSET S : Tot(T) # Tot(T \cap R)}
<1>1. SUFFICES ASSUME W # {} PROVE FALSE
  <2>1. S \cap R = R
    OBVIOUS
  <2>2. Tot(S) = Tot(S \cap R)
    BY <1>1
  <2>3. QED
    BY <2>1, <2>2
<1>2. PICK T \in W : \A U \in SUBSET T : U # T => U \notin W
  <2>1. W \in SUBSET (SUBSET S)
    OBVIOUS
  <2> HIDE DEF W
  <2>2. QED
    BY <1>1, <2>1, SmallestSubset
<1>3. PICK a \in T : TRUE
  <2>1. {} \cap R = {}
    OBVIOUS
  <2>2. Tot({}) = Tot({} \cap R)
    BY <2>1
  <2> HIDE DEF Tot
  <2>3. QED
    BY <2>2
<1>4. Tot(T \ {a}) = Tot((T \ {a}) \cap R)
  BY <1>2, <1>3
<1>5. IsFiniteSet(T) /\ IsFiniteSet(T \cap R) /\ \A x \in T : f[x] \in Int
  BY FS_Subset
<1>6. Tot(T) = f[a] + Tot(T \ {a})
  BY <1>5, SumSplit
<1>7. CASE a \in R
  <2>1. Tot(T \cap R) = f[a] + Tot((T \cap R) \ {a})
    BY <1>5, <1>7, SumSplit
  <2>2. (T \cap R) \ {a} = (T \ {a}) \cap R
    OBVIOUS
  <2>3. QED
    BY <1>4, <1>6, <2>1, <2>2
<1>8. CASE a \notin R
  <2>1. (T \ {a}) \cap R = T \cap R /\ f[a] = 0
    BY <1>8
  <2>2. Tot(T \ {a}) \in Int
    BY <1>5, FS_RemoveElement, SumInt
  <2> DEFINE rest == Tot(T \ {a})
  <2>3. rest \in Int /\ Tot(T) = f[a] + rest /\ f[a] = 0
    BY <1>6, <2>1, <2>2
  <2> HIDE DEF rest
  <2>4. Tot(T) = rest
    BY <2>3
  <2>5. QED
    BY <1>4, <2>1, <2>4 DEF rest
<1>9. QED
  BY <1>7, <1>8

-----------------------------------------------------------------------------
(* The same for SumFunction, which sums over the whole domain.             *)

\* A sum of natural numbers is a natural number.
LEMMA SumNat ==
    ASSUME NEW S, IsFiniteSet(S), NEW f \in [S -> Nat]
    PROVE  SumFunction(f) \in Nat
<1> DEFINE zero == [x \in S |-> 0]
           W == {T \in SUBSET S : SumFunctionOnSet(f, T) \notin Nat}
<1>1. SUFFICES ASSUME W # {} PROVE FALSE
  <2>1. SumFunctionOnSet(f, S) \in Nat
    BY <1>1
  <2>2. QED
    BY <2>1 DEF SumFunction
<1>2. PICK T \in W : \A U \in SUBSET T : U # T => U \notin W
  <2>1. W \in SUBSET (SUBSET S)
    OBVIOUS
  <2> HIDE DEF W
  <2>2. QED
    BY <1>1, <2>1, SmallestSubset
<1>3. T # {}
  BY SumOverNone
<1>4. SumFunctionOnSet(f, T \ {FirstOf(T)}) \in Nat
  BY <1>2, <1>3, FirstInside
<1>5. IsFiniteSet(T)
  BY FS_Subset
<1>6. f[FirstOf(T)] \in Nat
  BY <1>3, FirstInside
<1>7. QED
  BY <1>3, <1>4, <1>5, <1>6, SumUnfold

\* The function over the rest of its domain gives the sum over the rest.
LEMMA SumOfRest ==
    ASSUME NEW S, IsFiniteSet(S), NEW T \in SUBSET S, NEW f
    PROVE  SumFunction([x \in T |-> f[x]]) = SumFunctionOnSet(f, T)
<1> DEFINE g == [x \in T |-> f[x]]
<1>1. IsFiniteSet(T)
  BY FS_Subset
<1>2. \A x \in T : g[x] = f[x]
  OBVIOUS
<1>3. DOMAIN g = T
  OBVIOUS
<1> HIDE DEF g
<1>4. SumFunctionOnSet(g, T) = SumFunctionOnSet(f, T)
  BY <1>1, <1>2, SumAgree
<1>5. QED
  BY <1>3, <1>4 DEF SumFunction, g

\* One more term adds its value to the sum.
LEMMA SumWithOneMore ==
    ASSUME NEW S, IsFiniteSet(S), NEW a, a \notin S,
           NEW f \in [S \cup {a} -> Int]
    PROVE  SumFunction(f) = f[a] + SumFunction([x \in S |-> f[x]])
<1> DEFINE R == S \cup {a}
<1>1. IsFiniteSet(R)
  BY FS_AddElement
<1>2. \A x \in R : f[x] \in Int
  OBVIOUS
<1>3. a \in R /\ R \ {a} = S /\ S \in SUBSET R /\ DOMAIN f = R
  OBVIOUS
<1> HIDE DEF R
<1>4. SumFunctionOnSet(f, R) = f[a] + SumFunctionOnSet(f, R \ {a})
  BY <1>1, <1>2, <1>3, SumSplit
<1>5. QED
  BY <1>1, <1>3, <1>4, SumOfRest DEF SumFunction

\* A sum in which one term changes, changes by as much.
LEMMA SumWithOneChanged ==
    ASSUME NEW S, IsFiniteSet(S), NEW a \in S,
           NEW f \in [S -> Int], NEW g \in [S -> Int],
           \A x \in S \ {a} : g[x] = f[x]
    PROVE  SumFunction(g) = SumFunction(f) - f[a] + g[a]
<1>1. SumFunctionOnSet(f, S) = f[a] + SumFunctionOnSet(f, S \ {a})
  BY SumSplit
<1>2. SumFunctionOnSet(g, S) = g[a] + SumFunctionOnSet(g, S \ {a})
  BY SumSplit
<1>3. IsFiniteSet(S \ {a})
  BY FS_RemoveElement
<1>4. SumFunctionOnSet(g, S \ {a}) = SumFunctionOnSet(f, S \ {a})
  BY <1>3, SumAgree
<1>5. SumFunctionOnSet(f, S \ {a}) \in Int
  BY <1>3, SumInt
<1>6. /\ SumFunction(f) = SumFunctionOnSet(f, S)
      /\ SumFunction(g) = SumFunctionOnSet(g, S)
  BY DEF SumFunction
<1>7. f[a] \in Int /\ g[a] \in Int
  OBVIOUS
<1>8. QED
  BY <1>1, <1>2, <1>4, <1>5, <1>6, <1>7

\* An empty sum is zero.
LEMMA SumOfNone == \A f : DOMAIN f = {} => SumFunction(f) = 0
  BY SumOverNone DEF SumFunction

\* The sum over one element.
LEMMA SumOfOne ==
    ASSUME NEW a, NEW f \in [{a} -> Int]
    PROVE  SumFunction(f) = f[a]
<1> DEFINE S == {}
<1>1. IsFiniteSet(S) /\ a \notin S /\ S \cup {a} = {a}
  BY FS_EmptySet
<1>2. DOMAIN [x \in S |-> f[x]] = {}
  OBVIOUS
<1>3. SumFunction([x \in S |-> f[x]]) = 0
  BY <1>2, SumOfNone
<1>4. f \in [S \cup {a} -> Int]
  BY <1>1
<1> HIDE DEF S
<1>5. SumFunction(f) = f[a] + SumFunction([x \in S |-> f[x]])
  BY <1>1, <1>4, SumWithOneMore
<1>6. QED
  BY <1>3, <1>5

-----------------------------------------------------------------------------
\* A sum in two parts.
LEMMA SumInTwo ==
    ASSUME NEW f, NEW S, IsFiniteSet(S), \A x \in S : f[x] \in Int,
           NEW R \in SUBSET S
    PROVE  SumFunctionOnSet(f, S) = SumFunctionOnSet(f, R) + SumFunctionOnSet(f, S \ R)
<1> DEFINE Tot(T) == SumFunctionOnSet(f, T)
           W == {T \in SUBSET S : Tot(T) # Tot(T \cap R) + Tot(T \ R)}
<1>1. SUFFICES ASSUME W # {} PROVE FALSE
  <2>1. S \cap R = R
    OBVIOUS
  <2>2. S \notin W => Tot(S) = Tot(S \cap R) + Tot(S \ R)
    OBVIOUS
  <2> HIDE DEF W, Tot
  <2>3. Tot(S) = Tot(R) + Tot(S \ R)
    BY <1>1, <2>1, <2>2
  <2>4. QED
    BY <2>3 DEF Tot
<1>2. PICK T \in W : \A U \in SUBSET T : U # T => U \notin W
  <2>1. W \in SUBSET (SUBSET S)
    OBVIOUS
  <2> HIDE DEF W
  <2>2. QED
    BY <1>1, <2>1, SmallestSubset
<1>3. \A U \in SUBSET S : IsFiniteSet(U) /\ Tot(U) \in Int
  BY FS_Subset, SumInt
<1>4. T # {}
  <2>1. {} \cap R = {} /\ {} \ R = {}
    OBVIOUS
  <2>2. Tot({}) = 0
    BY SumOverNone
  <2>3. T \in SUBSET S /\ Tot(T) # Tot(T \cap R) + Tot(T \ R)
    OBVIOUS
  <2> HIDE DEF Tot, W
  <2>4. T = {} => Tot(T \cap R) = 0 /\ Tot(T \ R) = 0 /\ Tot(T) = 0
    BY <2>1, <2>2
  <2>5. QED
    BY <2>3, <2>4
<1>5. PICK a \in T : TRUE
  BY <1>4
<1> DEFINE U == T \ {a}
           I == T \cap R
           O == T \ R
           Ui == U \cap R
           Uo == U \ R
<1>6. Tot(U) = Tot(Ui) + Tot(Uo)
  BY <1>2, <1>5
<1>7. Tot(T) = f[a] + Tot(U)
  BY <1>3, <1>5, SumSplit
<1>8. Tot(T) # Tot(I) + Tot(O)
  OBVIOUS
<1>9. /\ T \in SUBSET S /\ I \in SUBSET S /\ O \in SUBSET S
      /\ Ui \in SUBSET S /\ Uo \in SUBSET S /\ a \in S
  BY <1>5
<1>10. f[a] \in Int /\ Tot(Ui) \in Int /\ Tot(Uo) \in Int
  <2> HIDE DEF Tot, W, U, I, O, Ui, Uo
  <2>1. QED
    BY <1>3, <1>9
<1>11. \A V \in SUBSET S : \A y \in V : Tot(V) = f[y] + Tot(V \ {y})
  BY <1>3, SumSplit
<1>12. a \in R => a \in I /\ I \ {a} = Ui /\ O = Uo
  BY <1>5
<1>13. a \notin R => a \in O /\ O \ {a} = Uo /\ I = Ui
  BY <1>5
<1> HIDE DEF Tot, W, U, I, O, Ui, Uo
<1>14. CASE a \in R
  <2>1. Tot(I) = f[a] + Tot(Ui)
    BY <1>9, <1>11, <1>12, <1>14
  <2>2. QED
    BY <1>6, <1>7, <1>8, <1>10, <1>12, <1>14, <2>1
<1>15. CASE a \notin R
  <2>1. Tot(O) = f[a] + Tot(Uo)
    BY <1>9, <1>11, <1>13, <1>15
  <2>2. QED
    BY <1>6, <1>7, <1>8, <1>10, <1>13, <1>15, <2>1
<1>16. QED
  BY <1>14, <1>15

\* The sum of sums.
LEMMA SumPlus ==
    ASSUME NEW f, NEW g, NEW h, NEW S, IsFiniteSet(S),
           \A x \in S : f[x] \in Int /\ g[x] \in Int /\ h[x] = f[x] + g[x]
    PROVE  SumFunctionOnSet(h, S) = SumFunctionOnSet(f, S) + SumFunctionOnSet(g, S)
<1> DEFINE W == {T \in SUBSET S : SumFunctionOnSet(h, T)
                   # SumFunctionOnSet(f, T) + SumFunctionOnSet(g, T)}
<1>1. SUFFICES ASSUME W # {} PROVE FALSE
  BY <1>1
<1>2. PICK T \in W : \A U \in SUBSET T : U # T => U \notin W
  <2>1. W \in SUBSET (SUBSET S)
    OBVIOUS
  <2> HIDE DEF W
  <2>2. QED
    BY <1>1, <2>1, SmallestSubset
<1>3. T # {}
  <2>1. /\ SumFunctionOnSet(f, {}) = 0 /\ SumFunctionOnSet(g, {}) = 0
        /\ SumFunctionOnSet(h, {}) = 0
    BY SumOverNone
  <2>2. SumFunctionOnSet(h, T) # SumFunctionOnSet(f, T) + SumFunctionOnSet(g, T)
    OBVIOUS
  <2>3. ASSUME T = {} PROVE FALSE
    <3>1. /\ SumFunctionOnSet(f, T) = 0 /\ SumFunctionOnSet(g, T) = 0
          /\ SumFunctionOnSet(h, T) = 0
      BY <2>1, <2>3
    <3>2. QED
      BY <2>2, <3>1
  <2>4. QED
    BY <2>3
<1> DEFINE U == T \ {FirstOf(T)}
<1>4. SumFunctionOnSet(h, U) = SumFunctionOnSet(f, U) + SumFunctionOnSet(g, U)
  BY <1>2, <1>3, FirstInside
<1>5. IsFiniteSet(T) /\ IsFiniteSet(U) /\ FirstOf(T) \in T
  BY <1>3, FS_Subset, FirstInside
<1>6. SumFunctionOnSet(f, U) \in Int /\ SumFunctionOnSet(g, U) \in Int
  BY <1>5, SumInt
<1>7. /\ SumFunctionOnSet(h, T) = h[FirstOf(T)] + SumFunctionOnSet(h, U)
      /\ SumFunctionOnSet(f, T) = f[FirstOf(T)] + SumFunctionOnSet(f, U)
      /\ SumFunctionOnSet(g, T) = g[FirstOf(T)] + SumFunctionOnSet(g, U)
  BY <1>3, <1>5, SumUnfold
<1>8. SumFunctionOnSet(h, T) # SumFunctionOnSet(f, T) + SumFunctionOnSet(g, T)
  OBVIOUS
<1>9. /\ f[FirstOf(T)] \in Int /\ g[FirstOf(T)] \in Int
      /\ h[FirstOf(T)] = f[FirstOf(T)] + g[FirstOf(T)]
  BY <1>5
<1> HIDE DEF U, W
<1>10. QED
  BY <1>4, <1>6, <1>7, <1>8, <1>9

\* A sum over the images of a set, no two of them the same.
LEMMA SumOfImages ==
    ASSUME NEW S, IsFiniteSet(S), NEW h, NEW f,
           \A x, y \in S : h[x] = h[y] => x = y,
           \A x \in S : f[h[x]] \in Int
    PROVE  /\ IsFiniteSet({h[x] : x \in S})
           /\ SumFunctionOnSet(f, {h[x] : x \in S})
                = SumFunctionOnSet([x \in S |-> f[h[x]]], S)
<1> DEFINE g == [x \in S |-> f[h[x]]]
           Img(T) == {h[x] : x \in T}
           W == {T \in SUBSET S : SumFunctionOnSet(f, Img(T)) # SumFunctionOnSet(g, T)}
<1>1. \A T \in SUBSET S : IsFiniteSet(Img(T))
  <2>1. \A T \in SUBSET S : IsFiniteSet(T)
    BY FS_Subset
  <2>2. ASSUME NEW T \in SUBSET S PROVE IsFiniteSet(Img(T))
    <3> DEFINE k == [x \in T |-> h[x]]
    <3>1. k \in Surjection(T, Img(T))
      BY DEF Surjection
    <3>2. QED
      BY <2>1, <3>1, FS_Surjection
  <2>3. QED
    BY <2>2
<1>2. ASSUME W # {} PROVE FALSE
  <2>1. PICK T \in W : \A U \in SUBSET T : U # T => U \notin W
    <3>1. W \in SUBSET (SUBSET S)
      OBVIOUS
    <3> HIDE DEF W
    <3>2. QED
      BY <1>2, <3>1, SmallestSubset
  <2>2. T # {}
    <3>1. Img({}) = {}
      OBVIOUS
    <3>2. QED
      BY <3>1, SumOverNone
  <2>3. PICK a \in T : TRUE
    BY <2>2
  <2> DEFINE U == T \ {a}
  <2>4. SumFunctionOnSet(f, Img(U)) = SumFunctionOnSet(g, U)
    BY <2>1, <2>3
  <2>5. Img(T) \ {h[a]} = Img(U) /\ h[a] \in Img(T)
    BY <2>3
  <2>6. IsFiniteSet(T) /\ IsFiniteSet(Img(T))
    BY <1>1, FS_Subset
  <2>7. \A y \in Img(T) : f[y] \in Int
    OBVIOUS
  <2>8. \A x \in T : g[x] \in Int
    OBVIOUS
  <2>9. SumFunctionOnSet(f, Img(T)) # SumFunctionOnSet(g, T) /\ g[a] = f[h[a]]
    BY <2>3
  <2> HIDE DEF g, Img, U, W
  <2>10. SumFunctionOnSet(f, Img(T)) = f[h[a]] + SumFunctionOnSet(f, Img(T) \ {h[a]})
    BY <2>5, <2>6, <2>7, SumSplit
  <2>11. SumFunctionOnSet(g, T) = g[a] + SumFunctionOnSet(g, U)
    BY <2>3, <2>6, <2>8, SumSplit DEF U
  <2>12. QED
    BY <2>4, <2>5, <2>9, <2>10, <2>11
<1>3. S \notin W
  BY <1>2
<1>4. QED
  BY <1>1, <1>3

\* A set is added up group by group; key says whose group each element is in.
LEMMA SumByGroup ==
    ASSUME NEW f, NEW S, IsFiniteSet(S), \A x \in S : f[x] \in Int, NEW key,
           NEW K, IsFiniteSet(K), \A x \in S : key[x] \in K
    PROVE  SumFunctionOnSet(f, S) =
             SumFunctionOnSet([k \in K |->
                SumFunctionOnSet(f, {x \in S : key[x] = k})], K)
<1> DEFINE Grp(T, k) == {x \in T : key[x] = k}
           G(T) == [k \in K |-> SumFunctionOnSet(f, Grp(T, k))]
           W == {T \in SUBSET S : SumFunctionOnSet(f, T) # SumFunctionOnSet(G(T), K)}
<1>1. \A T \in SUBSET S : IsFiniteSet(T) /\ SumFunctionOnSet(f, T) \in Int
  BY FS_Subset, SumInt
<1>2. ASSUME NEW T \in SUBSET S, NEW k PROVE Grp(T, k) \in SUBSET S
  OBVIOUS
<1>3. ASSUME W # {} PROVE FALSE
  <2>1. PICK T \in W : \A U \in SUBSET T : U # T => U \notin W
    <3>1. W \in SUBSET (SUBSET S)
      OBVIOUS
    <3> HIDE DEF W
    <3>2. QED
      BY <1>3, <3>1, SmallestSubset
  <2>2. T # {}
    <3>1. \A k \in K : G({})[k] = 0
      <4>1. \A k : Grp({}, k) = {}
        OBVIOUS
      <4>2. QED
        BY <4>1, SumOverNone
    <3>2. {} \in SUBSET K /\ \A k \in K \ {} : G({})[k] = 0
      BY <3>1
    <3>3. \A k \in K : G({})[k] \in Int
      BY <3>1
    <3>4. SumFunctionOnSet(G({}), K) = SumFunctionOnSet(G({}), {})
      <4> HIDE DEF G
      <4>1. QED
        BY <3>2, <3>3, SumWithoutZeros
    <3>5. SumFunctionOnSet(G({}), {}) = 0 /\ SumFunctionOnSet(f, {}) = 0
      <4> HIDE DEF G
      <4>1. QED
        BY SumOverNone
    <3>6. {} \notin W
      BY <3>4, <3>5
    <3>7. QED
      BY <3>6
  <2>3. PICK a \in T : TRUE
    BY <2>2
  <2> DEFINE U == T \ {a}
             c == key[a]
  <2>4. SumFunctionOnSet(f, U) = SumFunctionOnSet(G(U), K)
    BY <2>1, <2>3
  <2>5. c \in K /\ T \in SUBSET S /\ U \in SUBSET S
    BY <2>3
  <2>6. SumFunctionOnSet(f, T) = f[a] + SumFunctionOnSet(f, U)
    BY <1>1, <2>3, SumSplit
  <2>7. \A k \in K \ {c} : G(T)[k] = G(U)[k]
    <3>1. \A k \in K \ {c} : Grp(T, k) = Grp(U, k)
      OBVIOUS
    <3>2. QED
      BY <3>1
  <2>8. G(T)[c] = f[a] + G(U)[c]
    <3>1. Grp(U, c) = Grp(T, c) \ {a} /\ a \in Grp(T, c)
      BY <2>3
    <3>2. Grp(T, c) \in SUBSET S
      BY <2>5
    <3>3. IsFiniteSet(Grp(T, c)) /\ \A x \in Grp(T, c) : f[x] \in Int
      BY <1>1, <3>2
    <3>4. SumFunctionOnSet(f, Grp(T, c)) = f[a] + SumFunctionOnSet(f, Grp(T, c) \ {a})
      <4> HIDE DEF Grp
      <4>1. QED
        BY <3>1, <3>3, SumSplit
    <3>5. QED
      BY <2>5, <3>1, <3>4
  <2>9. \A k \in K : G(T)[k] \in Int /\ G(U)[k] \in Int
    BY <1>1, <1>2, <2>5
  <2>10. f[a] \in Int /\ SumFunctionOnSet(f, T) # SumFunctionOnSet(G(T), K)
    BY <2>3
  <2> DEFINE gt == G(T)
             gu == G(U)
             rest == K \ {c}
  <2>11. IsFiniteSet(rest)
    BY FS_Subset
  <2> HIDE DEF G, Grp, U, W, c
  <2>12. /\ SumFunctionOnSet(gt, K) = gt[c] + SumFunctionOnSet(gt, rest)
         /\ SumFunctionOnSet(gu, K) = gu[c] + SumFunctionOnSet(gu, rest)
    BY <2>5, <2>9, SumSplit
  <2>13. SumFunctionOnSet(gt, rest) = SumFunctionOnSet(gu, rest)
    BY <2>7, <2>11, SumAgree
  <2>14. SumFunctionOnSet(gu, rest) \in Int /\ gu[c] \in Int
    BY <2>5, <2>9, <2>11, SumInt
  <2>15. QED
    BY <2>4, <2>6, <2>8, <2>10, <2>12, <2>13, <2>14
<1>4. S \notin W
  BY <1>3
<1>5. QED
  BY <1>4

\* So many times the same.
LEMMA SumOfSame ==
    ASSUME NEW f, NEW S, IsFiniteSet(S), NEW c \in Int, \A x \in S : f[x] = c
    PROVE  SumFunctionOnSet(f, S) = c * Cardinality(S)
<1> DEFINE W == {T \in SUBSET S : SumFunctionOnSet(f, T) # c * Cardinality(T)}
<1>1. SUFFICES ASSUME W # {} PROVE FALSE
  BY <1>1
<1>2. PICK T \in W : \A U \in SUBSET T : U # T => U \notin W
  <2>1. W \in SUBSET (SUBSET S)
    OBVIOUS
  <2> HIDE DEF W
  <2>2. QED
    BY <1>1, <2>1, SmallestSubset
<1>3. T # {}
  BY SumOverNone, FS_EmptySet
<1> DEFINE a == FirstOf(T)
           U == T \ {a}
<1>4. a \in T /\ IsFiniteSet(T) /\ IsFiniteSet(U)
  BY <1>3, FirstInside, FS_Subset
<1>5. SumFunctionOnSet(f, U) = c * Cardinality(U)
  BY <1>2, <1>4
<1>6. SumFunctionOnSet(f, T) = f[a] + SumFunctionOnSet(f, U) /\ f[a] = c
  BY <1>3, <1>4, SumUnfold
<1>7. Cardinality(U) = Cardinality(T) - 1 /\ Cardinality(T) \in Nat
  BY <1>4, FS_RemoveElement, FS_CardinalityType
<1>8. SumFunctionOnSet(f, T) # c * Cardinality(T)
  OBVIOUS
<1> HIDE DEF U, W, a
<1>9. \A n \in Nat : c * (n - 1) = c * n - c
  OBVIOUS
<1>10. QED
  BY <1>5, <1>6, <1>7, <1>8, <1>9

\* A sum over some is a sum over all, nothing counted for the others.
LEMMA SumLifted ==
    ASSUME NEW S, IsFiniteSet(S), NEW R \in SUBSET S, NEW g, DOMAIN g = R,
           NEW f, \A x \in R : f[x] = g[x] /\ g[x] \in Int,
           \A x \in S \ R : f[x] = 0
    PROVE  SumFunction(g) = SumFunctionOnSet(f, S)
<1>1. IsFiniteSet(R)
  BY FS_Subset
<1>2. \A x \in S : f[x] \in Int
  OBVIOUS
<1>3. SumFunctionOnSet(f, S) = SumFunctionOnSet(f, R)
  BY <1>2, SumWithoutZeros
<1>4. SumFunctionOnSet(g, R) = SumFunctionOnSet(f, R)
  BY <1>1, SumAgree
<1>5. QED
  BY <1>3, <1>4 DEF SumFunction

\* A sum over a finite set is an integer, a natural number if its terms are.
LEMMA SumIsInt ==
    ASSUME NEW f, IsFiniteSet(DOMAIN f), \A x \in DOMAIN f : f[x] \in Int
    PROVE  SumFunction(f) \in Int
  BY SumInt DEF SumFunction

LEMMA SumIsNat ==
    ASSUME NEW f, IsFiniteSet(DOMAIN f), \A x \in DOMAIN f : f[x] \in Nat
    PROVE  SumFunction(f) \in Nat
<1> DEFINE g == [x \in DOMAIN f |-> f[x]]
           D == DOMAIN f
<1>1. g \in [D -> Nat] /\ IsFiniteSet(D)
  OBVIOUS
<1>2. \A x \in D : g[x] = f[x]
  OBVIOUS
<1>3. DOMAIN g = D
  OBVIOUS
<1> HIDE DEF g, D
<1>4. SumFunction(g) \in Nat
  BY <1>1, SumNat
<1>5. SumFunctionOnSet(g, D) = SumFunctionOnSet(f, D)
  BY <1>1, <1>2, SumAgree
<1>6. QED
  BY <1>3, <1>4, <1>5 DEF SumFunction, D

\* The same terms, the same sum.
LEMMA SumSame ==
    ASSUME NEW f, NEW g, IsFiniteSet(DOMAIN f), DOMAIN f = DOMAIN g,
           \A x \in DOMAIN f : f[x] = g[x]
    PROVE  SumFunction(f) = SumFunction(g)
  BY SumAgree DEF SumFunction

\* The sum of a sum.
LEMMA SumAdds ==
    ASSUME NEW f, NEW g, NEW h, IsFiniteSet(DOMAIN h),
           DOMAIN f = DOMAIN h, DOMAIN g = DOMAIN h,
           \A x \in DOMAIN h : f[x] \in Int /\ g[x] \in Int /\ h[x] = f[x] + g[x]
    PROVE  SumFunction(h) = SumFunction(f) + SumFunction(g)
  BY SumPlus DEF SumFunction

\* Fewer of the same terms, none of them negative, are no more.
LEMMA SumFewer ==
    ASSUME NEW f, IsFiniteSet(DOMAIN f), \A x \in DOMAIN f : f[x] \in Nat,
           NEW g, DOMAIN g \subseteq DOMAIN f, \A x \in DOMAIN g : g[x] = f[x]
    PROVE  SumFunction(g) <= SumFunction(f)
<1> DEFINE S == DOMAIN f
           T == DOMAIN g
           h == [x \in S |-> IF x \in T THEN g[x] ELSE 0]
<1>1. /\ IsFiniteSet(S) /\ T \in SUBSET S
      /\ \A x \in T : h[x] = g[x] /\ g[x] \in Int
      /\ \A x \in S \ T : h[x] = 0
  OBVIOUS
<1>2. \A x \in S : h[x] \in Int /\ f[x] \in Int /\ h[x] <= f[x]
  OBVIOUS
<1>3. DOMAIN g = T
  OBVIOUS
<1> HIDE DEF h, S, T
<1>4. SumFunction(g) = SumFunctionOnSet(h, S)
  BY <1>1, <1>3, SumLifted
<1>5. SumFunctionOnSet(h, S) <= SumFunctionOnSet(f, S)
  BY <1>1, <1>2, SumLeq
<1>6. QED
  BY <1>4, <1>5 DEF SumFunction, S

\* Lines that stand for the members of K add up to what those do.
LEMMA SumOfLines ==
    ASSUME NEW f, NEW g, NEW h, IsFiniteSet(DOMAIN g),
           \A k \in DOMAIN g : /\ h[k] \in DOMAIN f
                               /\ f[h[k]] = g[k] /\ g[k] \in Int,
           \A l \in DOMAIN f : \E k \in DOMAIN g : h[k] = l,
           \A j, k \in DOMAIN g : h[j] = h[k] => j = k
    PROVE  SumFunction(f) = SumFunction(g)
<1> DEFINE K == DOMAIN g
           fh == [k \in K |-> f[h[k]]]
<1>1. /\ IsFiniteSet({h[k] : k \in K})
      /\ SumFunctionOnSet(f, {h[k] : k \in K}) = SumFunctionOnSet(fh, K)
  <2>1. \A k \in K : f[h[k]] \in Int
    OBVIOUS
  <2> HIDE DEF K
  <2>2. IsFiniteSet(K) /\ \A j, k \in K : h[j] = h[k] => j = k
    BY DEF K
  <2>3. QED
    BY <2>1, <2>2, SumOfImages
<1>2. SumFunctionOnSet(fh, K) = SumFunctionOnSet(g, K)
  <2>1. \A k \in K : fh[k] = g[k]
    OBVIOUS
  <2> HIDE DEF fh
  <2>2. QED
    BY <2>1, SumAgree
<1>3. DOMAIN f = {h[k] : k \in K}
  OBVIOUS
<1>4. QED
  BY <1>1, <1>2, <1>3 DEF SumFunction

\* Groups again, each with its own sum.
LEMMA SumGrouped ==
    ASSUME NEW S, IsFiniteSet(S), NEW v, DOMAIN v = S, \A x \in S : v[x] \in Int,
           NEW key, NEW K, IsFiniteSet(K), \A x \in S : key[x] \in K,
           NEW g, DOMAIN g = K,
           \A k \in K : g[k] = SumFunction([x \in {y \in S : key[y] = k} |-> v[x]])
    PROVE  SumFunction(v) = SumFunction(g) /\ \A k \in K : g[k] \in Int
<1> DEFINE Grp(k) == {y \in S : key[y] = k}
           t == [k \in K |-> SumFunctionOnSet(v, Grp(k))]
<1>1. ASSUME NEW k \in K PROVE g[k] = t[k] /\ t[k] \in Int
  <2>1. Grp(k) \in SUBSET S /\ g[k] = SumFunction([x \in Grp(k) |-> v[x]])
        /\ t[k] = SumFunctionOnSet(v, Grp(k))
    OBVIOUS
  <2> HIDE DEF Grp, t
  <2>2. SumFunction([x \in Grp(k) |-> v[x]]) = SumFunctionOnSet(v, Grp(k))
    BY <2>1, SumOfRest
  <2>3. IsFiniteSet(Grp(k)) /\ \A x \in Grp(k) : v[x] \in Int
    BY <2>1, FS_Subset
  <2>4. SumFunctionOnSet(v, Grp(k)) \in Int
    BY <2>3, SumInt
  <2>5. QED
    BY <2>1, <2>2, <2>4
<1>2. SumFunctionOnSet(v, S) = SumFunctionOnSet(t, K)
  BY SumByGroup
<1> HIDE DEF t
<1>3. SumFunctionOnSet(t, K) = SumFunctionOnSet(g, K)
  BY <1>1, SumAgree
<1>4. QED
  BY <1>1, <1>2, <1>3 DEF SumFunction

\* A set is as many as its groups together.
LEMMA CountByGroup ==
    ASSUME NEW S, IsFiniteSet(S), NEW key, NEW K, IsFiniteSet(K),
           \A x \in S : key[x] \in K, NEW g, DOMAIN g = K,
           \A k \in K : g[k] = Cardinality({y \in S : key[y] = k})
    PROVE  Cardinality(S) = SumFunction(g) /\ \A k \in K : g[k] \in Nat
<1> DEFINE Grp(k) == {y \in S : key[y] = k}
           one == [x \in S |-> 1]
           t == [k \in K |-> SumFunctionOnSet(one, Grp(k))]
<1>1. ASSUME NEW T \in SUBSET S
      PROVE  SumFunctionOnSet(one, T) = Cardinality(T) /\ Cardinality(T) \in Nat
  <2>1. IsFiniteSet(T) /\ Cardinality(T) \in Nat
    BY FS_Subset, FS_CardinalityType
  <2>2. \A x \in T : one[x] = 1
    OBVIOUS
  <2> HIDE DEF one
  <2>3. 1 \in Int => SumFunctionOnSet(one, T) = 1 * Cardinality(T)
    BY <2>1, <2>2, SumOfSame
  <2>4. QED
    BY <2>1, <2>3
<1>2. ASSUME NEW k \in K PROVE g[k] = t[k] /\ g[k] \in Nat
  <2>1. Grp(k) \in SUBSET S
    OBVIOUS
  <2>2. QED
    BY <1>1, <2>1
<1>3. SumFunctionOnSet(one, S) = SumFunctionOnSet(t, K)
  <2>1. \A x \in S : one[x] \in Int
    OBVIOUS
  <2> HIDE DEF one
  <2>2. QED
    BY <2>1, SumByGroup
<1>4. SumFunctionOnSet(one, S) = Cardinality(S)
  BY <1>1
<1> HIDE DEF one, t
<1>5. SumFunctionOnSet(t, K) = SumFunctionOnSet(g, K)
  BY <1>2, SumAgree
<1>6. QED
  BY <1>2, <1>3, <1>4, <1>5 DEF SumFunction

=============================================================================
