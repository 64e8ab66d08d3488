-------------------------------- MODULE Sums --------------------------------
(***************************************************************************)
(* Facts about sums over finite sets, for the proofs about the tables      *)
(* whose balances are the sum of their rows.  SumFunctionOnSet(f, S) of    *)
(* module Functions is a fold, whose meaning rests on a recursive          *)
(* function over the subsets of S.  Induction over the subsets of a finite *)
(* set is by a minimal counterexample (MinimalSubset): such a function     *)
(* exists (SomeFold), there is only one (OneFold), and the laws of sums    *)
(* follow.                                                                 *)
(***************************************************************************)
EXTENDS Integers, FiniteSets, Functions, FiniteSetTheorems, WellFoundedInduction, TLAPS

(* Induction over a finite set: of any of its subsets, some are minimal.   *)
LEMMA MinimalSubset ==
  ASSUME NEW S, IsFiniteSet(S), NEW Bad \in SUBSET (SUBSET S), Bad # {}
  PROVE  \E T \in Bad : \A U \in Bad : U \subseteq T => U = T
<1> DEFINE Sizes == {Cardinality(T) : T \in Bad}
<1>1. \A T \in SUBSET S : IsFiniteSet(T) /\ Cardinality(T) \in Nat
  BY FS_Subset, FS_CardinalityType
<1>2. Sizes \subseteq Nat /\ Sizes # {} BY <1>1
<1>3. PICK n \in Sizes : \A k \in Sizes : ~(<<k, n>> \in OpToRel(<, Nat))
  <2> HIDE DEF Sizes
  <2> QED BY <1>2, NatLessThanWellFounded, WFMin, Zenon
<1>4. \A k \in Sizes : ~(k < n) BY <1>2, <1>3 DEF OpToRel
<1>5. PICK T \in Bad : n = Cardinality(T) OBVIOUS
<1>6. ASSUME NEW U \in Bad, U \subseteq T PROVE U = T
  <2>1. IsFiniteSet(T) /\ Cardinality(U) \in Nat /\ Cardinality(T) \in Nat BY <1>1
  <2>2. ~(Cardinality(U) < Cardinality(T)) BY <1>4, <1>5
  <2>3. Cardinality(U) <= Cardinality(T) /\ (Cardinality(T) = Cardinality(U) => T = U)
    BY <1>6, <2>1, FS_Subset
  <2> QED BY <2>1, <2>2, <2>3
<1> QED BY <1>6

(* What the fold of a sum does with a set.                                 *)
Adds(f, S, g) ==
  g = [s \in SUBSET S |->
         IF s = {} THEN 0 ELSE LET x == CHOOSE x \in s : TRUE IN f[x] + g[s \ {x}]]

(* The sum of f over S is what such a fold gives for S.                    *)
LEMMA SumIsAFold ==
  ASSUME NEW S, NEW f
  PROVE  SumFunctionOnSet(f, S) = (CHOOSE g : Adds(f, S, g))[S]
BY DEF SumFunctionOnSet, FoldFunctionOnSet, MapThenFoldSet, Adds

(* The element a set gives first.                                          *)
First(s) == CHOOSE x \in s : TRUE

(* It is one of its elements.                                              *)
LEMMA FirstIsMember == ASSUME NEW s, s # {} PROVE First(s) \in s
BY DEF First

(* A fold, set by set.                                                     *)
AddsTo(f, S, g) ==
  /\ g = [s \in SUBSET S |-> g[s]]
  /\ g[{}] = 0
  /\ \A s \in SUBSET S : s # {} => g[s] = f[First(s)] + g[s \ {First(s)}]

(* Both ways to say what a fold is agree.                                  *)
LEMMA AddsStepwise ==
  ASSUME NEW S, NEW f, NEW g
  PROVE  Adds(f, S, g) <=> AddsTo(f, S, g)
<1>1. ASSUME Adds(f, S, g) PROVE AddsTo(f, S, g)
  <2>1. g = [s \in SUBSET S |-> IF s = {} THEN 0 ELSE f[First(s)] + g[s \ {First(s)}]]
    BY <1>1 DEF Adds, First
  <2>2. \A s \in SUBSET S : g[s] = IF s = {} THEN 0 ELSE f[First(s)] + g[s \ {First(s)}]
    BY <2>1
  <2>3. g = [s \in SUBSET S |-> g[s]] BY <2>1
  <2> QED BY <2>2, <2>3 DEF AddsTo
<1>2. ASSUME AddsTo(f, S, g) PROVE Adds(f, S, g)
  <2>1. \A s \in SUBSET S : g[s] = IF s = {} THEN 0 ELSE f[First(s)] + g[s \ {First(s)}]
    BY <1>2 DEF AddsTo
  <2>2. g = [s \in SUBSET S |-> IF s = {} THEN 0 ELSE f[First(s)] + g[s \ {First(s)}]]
    BY <1>2, <2>1 DEF AddsTo
  <2> QED BY <2>2 DEF Adds, First
<1> QED BY <1>1, <1>2

(* Two folds agree on the sets that both give.                             *)
LEMMA OneFold ==
  ASSUME NEW S, IsFiniteSet(S), NEW f, NEW T \in SUBSET S,
         NEW g, AddsTo(f, S, g), NEW h, AddsTo(f, T, h)
  PROVE  \A s \in SUBSET T : g[s] = h[s]
<1> DEFINE Bad == {s \in SUBSET T : g[s] # h[s]}
<1> SUFFICES ASSUME Bad # {} PROVE FALSE OBVIOUS
<1>1. IsFiniteSet(T) BY FS_Subset
<1>2. PICK s \in Bad : \A u \in Bad : u \subseteq s => u = s
  <2>1. Bad \in SUBSET (SUBSET T) OBVIOUS
  <2> HIDE DEF Bad
  <2> QED BY <1>1, <2>1, MinimalSubset
<1>3. s # {} BY DEF AddsTo
<1>4. First(s) \in s BY <1>3, FirstIsMember
<1>5. s \ {First(s)} \notin Bad BY <1>2, <1>4
<1>6. g[s \ {First(s)}] = h[s \ {First(s)}] BY <1>5
<1> QED BY <1>3, <1>6 DEF AddsTo

(* Every finite set has a fold.                                            *)
LEMMA SomeFold ==
  ASSUME NEW S, IsFiniteSet(S), NEW f
  PROVE  \E g : AddsTo(f, S, g)
<1> DEFINE Bad == {T \in SUBSET S : ~\E g : AddsTo(f, T, g)}
<1> SUFFICES ASSUME S \in Bad PROVE FALSE OBVIOUS
<1>1. PICK T \in Bad : \A U \in Bad : U \subseteq T => U = T
  <2>1. Bad \in SUBSET (SUBSET S) /\ Bad # {} OBVIOUS
  <2> HIDE DEF Bad
  <2> QED BY <2>1, MinimalSubset
<1>2. T # {}
  <2>1. AddsTo(f, {}, [s \in SUBSET {} |-> 0]) BY DEF AddsTo
  <2> QED BY <2>1
<1>3. \A x \in T : \E g : AddsTo(f, T \ {x}, g) BY <1>1
<1> DEFINE G(x) == CHOOSE g : AddsTo(f, T \ {x}, g)
<1>4. \A x \in T : AddsTo(f, T \ {x}, G(x)) BY <1>3
<1>a. \A x \in T : IsFiniteSet(T \ {x}) /\ IsFiniteSet(T) BY FS_Subset
<1> DEFINE out(s) == First(T \ s)
           part(s) == G(out(s))[s]
           g == [s \in SUBSET T |->
                   IF s = T THEN f[First(T)] + G(First(T))[T \ {First(T)}] ELSE part(s)]
<1> HIDE DEF Bad, G
<1>5. \A s \in SUBSET T : s # T => out(s) \in T /\ out(s) \notin s
  BY FirstIsMember
<1>6. \A s \in SUBSET T, x \in T, y \in T : x \notin s /\ y \notin s => G(x)[s] = G(y)[s]
  <2> SUFFICES ASSUME NEW s \in SUBSET T, NEW x \in T, NEW y \in T, x \notin s, y \notin s
               PROVE  G(x)[s] = G(y)[s]
    OBVIOUS
  <2> DEFINE U == (T \ {x}) \ {y}
  <2>1. PICK h : h = [u \in SUBSET U |-> G(x)[u]] OBVIOUS
  <2>2. AddsTo(f, U, h) BY <1>4, <2>1, FirstIsMember DEF AddsTo
  <2>3. G(x)[s] = h[s] BY <2>1
  <2>4. U \in SUBSET (T \ {y}) /\ AddsTo(f, T \ {y}, G(y)) /\ IsFiniteSet(T \ {y}) BY <1>4, <1>a
  <2>5. G(y)[s] = h[s] BY <2>2, <2>4, OneFold
  <2> QED BY <2>3, <2>5
<1>7. g = [s \in SUBSET T |-> g[s]] OBVIOUS
<1>8. g[{}] = 0
  <2>1. {} # T /\ out({}) \in T BY <1>2, <1>5
  <2> QED BY <1>4, <2>1 DEF AddsTo
<1>9. ASSUME NEW s \in SUBSET T, s # {} PROVE g[s] = f[First(s)] + g[s \ {First(s)}]
  <2>1. First(s) \in s BY <1>9, FirstIsMember
  <2> DEFINE rest == s \ {First(s)}
  <2>2. rest # T /\ rest \in SUBSET T /\ g[rest] = G(out(rest))[rest] BY <2>1
  <2>3. out(rest) \in T /\ out(rest) \notin rest BY <1>5, <2>2
  <2>4. CASE s = T
    <3>1. g[rest] = G(First(T))[rest] BY <1>6, <2>1, <2>2, <2>3, <2>4
    <3> QED BY <2>4, <3>1
  <2>5. CASE s # T
    <3>1. out(s) \in T /\ out(s) \notin s /\ s \in SUBSET (T \ {out(s)}) BY <1>5, <2>5
    <3>2. g[s] = G(out(s))[s] BY <2>5
    <3>3. G(out(s))[s] = f[First(s)] + G(out(s))[rest] BY <1>4, <1>9, <3>1 DEF AddsTo
    <3>4. G(out(s))[rest] = G(out(rest))[rest] BY <1>6, <2>2, <2>3, <3>1
    <3> QED BY <2>2, <3>2, <3>3, <3>4
  <2> QED BY <2>4, <2>5
<1>10. AddsTo(f, T, g)
  <2> HIDE DEF g
  <2> QED BY <1>7, <1>8, <1>9 DEF AddsTo
<1> QED BY <1>10 DEF Bad

(* The sum over a set is what its fold gives for it.                       *)
LEMMA SumOfAFold ==
  ASSUME NEW S, IsFiniteSet(S), NEW f, NEW T \in SUBSET S, NEW g, AddsTo(f, S, g)
  PROVE  SumFunctionOnSet(f, T) = g[T]
<1>1. IsFiniteSet(T) BY FS_Subset
<1>2. \E h : Adds(f, T, h) BY <1>1, SomeFold, AddsStepwise
<1>3. PICK h : h = CHOOSE k : Adds(f, T, k) OBVIOUS
<1>4. Adds(f, T, h) BY <1>2, <1>3
<1>5. AddsTo(f, T, h) BY <1>4, AddsStepwise
<1>6. SumFunctionOnSet(f, T) = h[T] BY <1>3, SumIsAFold
<1> QED BY <1>5, <1>6, OneFold

(* The sum over no element is zero.                                        *)
LEMMA SumOfNone == ASSUME NEW f PROVE SumFunctionOnSet(f, {}) = 0
<1>1. AddsTo(f, {}, [s \in SUBSET {} |-> 0]) BY DEF AddsTo
<1>2. IsFiniteSet({}) BY FS_EmptySet
<1> QED BY <1>1, <1>2, SumOfAFold

(* A sum takes one element after another.                                  *)
LEMMA SumTakesFirst ==
  ASSUME NEW S, IsFiniteSet(S), NEW f, NEW T \in SUBSET S, T # {}
  PROVE  SumFunctionOnSet(f, T) = f[First(T)] + SumFunctionOnSet(f, T \ {First(T)})
<1>1. PICK g : AddsTo(f, S, g) BY SomeFold
<1>2. SumFunctionOnSet(f, T) = g[T] BY <1>1, SumOfAFold
<1>3. T \ {First(T)} \in SUBSET S OBVIOUS
<1>4. SumFunctionOnSet(f, T \ {First(T)}) = g[T \ {First(T)}] BY <1>1, <1>3, SumOfAFold
<1> QED BY <1>1, <1>2, <1>4 DEF AddsTo

(* A sum of integers is an integer, of naturals a natural.                 *)
LEMMA SumIsNumber ==
  ASSUME NEW S, IsFiniteSet(S), NEW f
  PROVE  /\ (\A x \in S : f[x] \in Int) => SumFunctionOnSet(f, S) \in Int
         /\ (\A x \in S : f[x] \in Nat) => SumFunctionOnSet(f, S) \in Nat
<1> SUFFICES ASSUME NEW N \in {Int, Nat}, \A x \in S : f[x] \in N
             PROVE  SumFunctionOnSet(f, S) \in N
  OBVIOUS
<1> DEFINE Bad == {T \in SUBSET S : SumFunctionOnSet(f, T) \notin N}
<1> SUFFICES ASSUME Bad # {} PROVE FALSE OBVIOUS
<1>1. PICK T \in Bad : \A U \in Bad : U \subseteq T => U = T
  <2>1. Bad \in SUBSET (SUBSET S) OBVIOUS
  <2> HIDE DEF Bad
  <2> QED BY <2>1, MinimalSubset
<1>2. T # {} BY SumOfNone
<1>3. First(T) \in T BY <1>2, FirstIsMember
<1>4. T \ {First(T)} \notin Bad BY <1>1, <1>3
<1>5. SumFunctionOnSet(f, T \ {First(T)}) \in N BY <1>4
<1>6. f[First(T)] \in N BY <1>3
<1>7. SumFunctionOnSet(f, T) = f[First(T)] + SumFunctionOnSet(f, T \ {First(T)}) BY <1>2, SumTakesFirst
<1>8. \A a, b \in N : a + b \in N OBVIOUS
<1> QED BY <1>5, <1>6, <1>7, <1>8

(* Functions that agree on a set have one sum over it.                     *)
LEMMA SumOfEquals ==
  ASSUME NEW S, IsFiniteSet(S), NEW f, NEW g, \A x \in S : f[x] = g[x]
  PROVE  SumFunctionOnSet(f, S) = SumFunctionOnSet(g, S)
<1> DEFINE Bad == {T \in SUBSET S : SumFunctionOnSet(f, T) # SumFunctionOnSet(g, T)}
<1> SUFFICES ASSUME Bad # {} PROVE FALSE OBVIOUS
<1>1. PICK T \in Bad : \A U \in Bad : U \subseteq T => U = T
  <2>1. Bad \in SUBSET (SUBSET S) OBVIOUS
  <2> HIDE DEF Bad
  <2> QED BY <2>1, MinimalSubset
<1>2. T # {} BY SumOfNone
<1>3. First(T) \in T BY <1>2, FirstIsMember
<1>4. T \ {First(T)} \notin Bad BY <1>1, <1>3
<1>5. SumFunctionOnSet(f, T \ {First(T)}) = SumFunctionOnSet(g, T \ {First(T)}) BY <1>4
<1>6. /\ SumFunctionOnSet(f, T) = f[First(T)] + SumFunctionOnSet(f, T \ {First(T)})
      /\ SumFunctionOnSet(g, T) = g[First(T)] + SumFunctionOnSet(g, T \ {First(T)})
  BY <1>2, SumTakesFirst
<1> QED BY <1>3, <1>5, <1>6

(* The order in which a sum takes its elements does not matter.            *)
LEMMA SumTakesAny ==
  ASSUME NEW S, IsFiniteSet(S), NEW f, \A x \in S : f[x] \in Int, NEW x \in S
  PROVE  SumFunctionOnSet(f, S) = f[x] + SumFunctionOnSet(f, S \ {x})
<1> DEFINE Bad == {T \in SUBSET S :
                     \E y \in T : SumFunctionOnSet(f, T) # f[y] + SumFunctionOnSet(f, T \ {y})}
<1> SUFFICES ASSUME Bad # {} PROVE FALSE OBVIOUS
<1>1. PICK T \in Bad : \A U \in Bad : U \subseteq T => U = T
  <2>1. Bad \in SUBSET (SUBSET S) OBVIOUS
  <2> HIDE DEF Bad
  <2> QED BY <2>1, MinimalSubset
<1>2. PICK y \in T : SumFunctionOnSet(f, T) # f[y] + SumFunctionOnSet(f, T \ {y}) OBVIOUS
<1> DEFINE z == First(T)
           both == (T \ {z}) \ {y}
<1>3. z \in T BY FirstIsMember
<1>4. SumFunctionOnSet(f, T) = f[z] + SumFunctionOnSet(f, T \ {z}) BY SumTakesFirst
<1>5. y # z BY <1>2, <1>4
<1>6. T \ {z} \notin Bad /\ T \ {y} \notin Bad BY <1>1, <1>3
<1>7. SumFunctionOnSet(f, T \ {z}) = f[y] + SumFunctionOnSet(f, both) BY <1>5, <1>6
<1>8. (T \ {y}) \ {z} = both OBVIOUS
<1>9. SumFunctionOnSet(f, T \ {y}) = f[z] + SumFunctionOnSet(f, both) BY <1>3, <1>5, <1>6, <1>8
<1>10. IsFiniteSet(both) /\ \A w \in both : f[w] \in Int BY FS_Subset
<1>11. SumFunctionOnSet(f, both) \in Int /\ f[y] \in Int /\ f[z] \in Int BY <1>3, <1>10, SumIsNumber
<1> QED BY <1>2, <1>4, <1>7, <1>9, <1>11

(* A new element adds its value.                                           *)
LEMMA SumWithOne ==
  ASSUME NEW S, IsFiniteSet(S), NEW x, x \notin S, NEW f, \A y \in S \cup {x} : f[y] \in Int
  PROVE  SumFunctionOnSet(f, S \cup {x}) = f[x] + SumFunctionOnSet(f, S)
<1>1. IsFiniteSet(S \cup {x}) BY FS_AddElement
<1>2. (S \cup {x}) \ {x} = S OBVIOUS
<1> QED BY <1>1, <1>2, SumTakesAny

(* Elements of value zero change nothing.                                  *)
LEMMA SumOfSupport ==
  ASSUME NEW S, IsFiniteSet(S), NEW f, \A x \in S : f[x] \in Int,
         NEW T \in SUBSET S, \A x \in S \ T : f[x] = 0
  PROVE  SumFunctionOnSet(f, S) = SumFunctionOnSet(f, T)
<1> DEFINE Bad == {U \in SUBSET S : SumFunctionOnSet(f, U) # SumFunctionOnSet(f, U \cap T)}
<1> SUFFICES ASSUME Bad # {} PROVE FALSE
  <2>1. S \notin Bad OBVIOUS
  <2>2. S \cap T = T OBVIOUS
  <2> QED BY <2>1, <2>2
<1>1. PICK U \in Bad : \A V \in Bad : V \subseteq U => V = U
  <2>1. Bad \in SUBSET (SUBSET S) OBVIOUS
  <2> HIDE DEF Bad
  <2> QED BY <2>1, MinimalSubset
<1>2. ~(U \subseteq T)
  <2>1. SUFFICES ASSUME U \subseteq T PROVE FALSE OBVIOUS
  <2>2. U \cap T = U BY <2>1
  <2> QED BY <2>2
<1>3. PICK x \in U : x \notin T BY <1>2
<1>4. U \ {x} \notin Bad BY <1>1, <1>3
<1>5. (U \ {x}) \cap T = U \cap T BY <1>3
<1>6. SumFunctionOnSet(f, U \ {x}) = SumFunctionOnSet(f, U \cap T) BY <1>4, <1>5
<1>7. IsFiniteSet(U) /\ IsFiniteSet(U \ {x}) BY FS_Subset
<1>8. SumFunctionOnSet(f, U) = f[x] + SumFunctionOnSet(f, U \ {x}) BY <1>3, <1>7, SumTakesAny
<1>9. f[x] = 0 /\ SumFunctionOnSet(f, U \ {x}) \in Int BY <1>3, <1>7, SumIsNumber
<1> QED BY <1>6, <1>8, <1>9

(* The sum of a function that is changed for one element.                  *)
LEMMA SumChanged ==
  ASSUME NEW S, IsFiniteSet(S), NEW x \in S, NEW f, NEW g,
         \A y \in S : f[y] \in Int /\ g[y] \in Int, \A y \in S \ {x} : f[y] = g[y]
  PROVE  SumFunctionOnSet(g, S) = SumFunctionOnSet(f, S) + g[x] - f[x]
<1>1. IsFiniteSet(S \ {x}) BY FS_Subset
<1>2. SumFunctionOnSet(f, S \ {x}) = SumFunctionOnSet(g, S \ {x}) BY <1>1, SumOfEquals
<1>3. SumFunctionOnSet(f, S \ {x}) \in Int BY <1>1, SumIsNumber
<1> QED BY <1>2, <1>3, SumTakesAny

(* The sum of sums.                                                        *)
LEMMA SumOfSums ==
  ASSUME NEW S, IsFiniteSet(S), NEW f, NEW g, NEW h,
         \A x \in S : f[x] \in Int /\ g[x] \in Int /\ h[x] = f[x] + g[x]
  PROVE  SumFunctionOnSet(h, S) = SumFunctionOnSet(f, S) + SumFunctionOnSet(g, S)
<1> DEFINE Bad == {T \in SUBSET S :
                     SumFunctionOnSet(h, T) # SumFunctionOnSet(f, T) + SumFunctionOnSet(g, T)}
<1> SUFFICES ASSUME Bad # {} PROVE FALSE OBVIOUS
<1>1. PICK T \in Bad : \A U \in Bad : U \subseteq T => U = T
  <2>1. Bad \in SUBSET (SUBSET S) OBVIOUS
  <2> HIDE DEF Bad
  <2> QED BY <2>1, MinimalSubset
<1>2. T # {}
  <2>1. /\ SumFunctionOnSet(f, {}) = 0 /\ SumFunctionOnSet(g, {}) = 0
        /\ SumFunctionOnSet(h, {}) = 0
    BY SumOfNone
  <2>2. SumFunctionOnSet(h, {}) = SumFunctionOnSet(f, {}) + SumFunctionOnSet(g, {}) BY <2>1
  <2>3. {} \notin Bad BY <2>2
  <2> HIDE DEF Bad
  <2> QED BY <2>3
<1> DEFINE x == First(T)
           rest == T \ {x}
<1>3. x \in T BY <1>2, FirstIsMember
<1>4. rest \notin Bad /\ rest \in SUBSET S BY <1>1, <1>3
<1>5. SumFunctionOnSet(h, rest) = SumFunctionOnSet(f, rest) + SumFunctionOnSet(g, rest) BY <1>4
<1>6. /\ SumFunctionOnSet(f, T) = f[x] + SumFunctionOnSet(f, rest)
      /\ SumFunctionOnSet(g, T) = g[x] + SumFunctionOnSet(g, rest)
      /\ SumFunctionOnSet(h, T) = h[x] + SumFunctionOnSet(h, rest)
  BY <1>2, SumTakesFirst
<1>7. IsFiniteSet(rest) BY <1>4, FS_Subset
<1>8. SumFunctionOnSet(f, rest) \in Int /\ SumFunctionOnSet(g, rest) \in Int
  BY <1>4, <1>7, SumIsNumber
<1>9. f[x] \in Int /\ g[x] \in Int /\ h[x] = f[x] + g[x] BY <1>3
<1> QED BY <1>5, <1>6, <1>8, <1>9

(* The sum over two sets that have no element in common.                   *)
LEMMA SumOfUnion ==
  ASSUME NEW S, IsFiniteSet(S), NEW T, IsFiniteSet(T), S \cap T = {},
         NEW f, \A x \in S \cup T : f[x] \in Int
  PROVE  SumFunctionOnSet(f, S \cup T) = SumFunctionOnSet(f, S) + SumFunctionOnSet(f, T)
<1> DEFINE Bad == {U \in SUBSET T :
                     SumFunctionOnSet(f, S \cup U) # SumFunctionOnSet(f, S) + SumFunctionOnSet(f, U)}
<1> SUFFICES ASSUME Bad # {} PROVE FALSE OBVIOUS
<1>1. PICK U \in Bad : \A V \in Bad : V \subseteq U => V = U
  <2>1. Bad \in SUBSET (SUBSET T) OBVIOUS
  <2> HIDE DEF Bad
  <2> QED BY <2>1, MinimalSubset
<1>2. SumFunctionOnSet(f, S) \in Int BY SumIsNumber
<1>3. U # {}
  <2>1. SumFunctionOnSet(f, {}) = 0 BY SumOfNone
  <2>2. S \cup {} = S OBVIOUS
  <2>3. SumFunctionOnSet(f, S \cup {}) = SumFunctionOnSet(f, S) + SumFunctionOnSet(f, {}) BY <1>2, <2>1, <2>2
  <2>4. {} \notin Bad BY <2>3
  <2> HIDE DEF Bad
  <2> QED BY <2>4
<1>4. PICK x \in U : TRUE BY <1>3
<1> DEFINE rest == U \ {x}
<1>5. rest \notin Bad /\ rest \in SUBSET T BY <1>1, <1>4
<1>6. SumFunctionOnSet(f, S \cup rest) = SumFunctionOnSet(f, S) + SumFunctionOnSet(f, rest) BY <1>5
<1>7. IsFiniteSet(rest) /\ IsFiniteSet(S \cup rest) /\ IsFiniteSet(U)
  BY <1>5, FS_Subset, FS_Union
<1>8. x \notin rest /\ x \notin S \cup rest /\ U = rest \cup {x} /\ S \cup U = (S \cup rest) \cup {x}
  BY <1>4
<1>9. /\ SumFunctionOnSet(f, U) = f[x] + SumFunctionOnSet(f, rest)
      /\ SumFunctionOnSet(f, S \cup U) = f[x] + SumFunctionOnSet(f, S \cup rest)
  <2>1. \A y \in rest \cup {x} : f[y] \in Int BY <1>4, <1>5
  <2>2. \A y \in (S \cup rest) \cup {x} : f[y] \in Int BY <1>4, <1>5
  <2> HIDE DEF rest, Bad
  <2> QED BY <1>7, <1>8, <2>1, <2>2, SumWithOne
<1>10. SumFunctionOnSet(f, rest) \in Int /\ f[x] \in Int BY <1>4, <1>5, <1>7, SumIsNumber
<1>11. SumFunctionOnSet(f, S \cup U) = SumFunctionOnSet(f, S) + SumFunctionOnSet(f, U)
  BY <1>2, <1>6, <1>9, <1>10
<1> QED BY <1>11

(* Every set of numbers has a least one.                                   *)
LEMMA LeastNumber ==
  ASSUME NEW S \in SUBSET Nat, S # {}
  PROVE  \E n \in S : \A k \in S : n <= k
<1>1. PICK n \in S : \A k \in S : ~(<<k, n>> \in OpToRel(<, Nat))
  BY NatLessThanWellFounded, WFMin, Zenon
<1>2. \A k \in S : ~(k < n)
  <2>1. \A k \in S : <<k, n>> \in Nat \X Nat OBVIOUS
  <2> QED BY <1>1, <2>1 DEF OpToRel
<1> QED BY <1>2

(* The sum over a single element.                                          *)
LEMMA SumOfOne ==
  ASSUME NEW x, NEW f, f[x] \in Int
  PROVE  SumFunctionOnSet(f, {x}) = f[x]
<1>1. SumFunctionOnSet(f, {} \cup {x}) = f[x] + SumFunctionOnSet(f, {})
  <2>1. IsFiniteSet({}) BY FS_EmptySet
  <2>2. x \notin {} /\ \A y \in {} \cup {x} : f[y] \in Int OBVIOUS
  <2> HIDE DEF SumFunctionOnSet
  <2> QED BY <2>1, <2>2, SumWithOne
<1>2. {} \cup {x} = {x} OBVIOUS
<1> QED BY <1>1, <1>2, SumOfNone

(* The sum over two elements.                                              *)
LEMMA SumOfTwo ==
  ASSUME NEW x, NEW y, x # y, NEW f, f[x] \in Int, f[y] \in Int
  PROVE  SumFunctionOnSet(f, {x, y}) = f[x] + f[y]
<1>1. SumFunctionOnSet(f, {x} \cup {y}) = f[y] + SumFunctionOnSet(f, {x})
  <2>1. IsFiniteSet({x}) BY FS_Singleton
  <2>2. y \notin {x} /\ \A z \in {x} \cup {y} : f[z] \in Int OBVIOUS
  <2> QED BY <2>1, <2>2, SumWithOne
<1>2. {x} \cup {y} = {x, y} OBVIOUS
<1>3. SumFunctionOnSet(f, {x}) = f[x] BY SumOfOne
<1>4. SumFunctionOnSet(f, {x, y}) = f[y] + f[x] BY <1>1, <1>2, <1>3
<1>5. f[y] + f[x] = f[x] + f[y] OBVIOUS
<1> QED BY <1>4, <1>5

(* A sum of larger numbers is larger.                                      *)
LEMMA SumAtMost ==
  ASSUME NEW S, IsFiniteSet(S), NEW f, NEW g, \A x \in S : f[x] \in Int /\ g[x] \in Int /\ f[x] <= g[x]
  PROVE  SumFunctionOnSet(f, S) <= SumFunctionOnSet(g, S)
<1>1. PICK h : h = [x \in S |-> g[x] - f[x]] OBVIOUS
<1>2. \A x \in S : f[x] \in Int /\ h[x] \in Int /\ h[x] \in Nat /\ g[x] = f[x] + h[x] BY <1>1
<1>3. SumFunctionOnSet(g, S) = SumFunctionOnSet(f, S) + SumFunctionOnSet(h, S) BY <1>2, SumOfSums
<1>4. SumFunctionOnSet(h, S) \in Nat /\ SumFunctionOnSet(f, S) \in Int BY <1>2, SumIsNumber
<1> QED BY <1>3, <1>4

(* Adding up key by key adds up everything.                               *)
LEMMA SumByKey ==
  ASSUME NEW S, IsFiniteSet(S), NEW T, IsFiniteSet(T), NEW f, \A x \in T : f[x] \in Int, NEW key \in [T -> S]
  PROVE  SumFunctionOnSet([k \in S |-> SumFunctionOnSet(f, {x \in T : key[x] = k})], S) = SumFunctionOnSet(f, T)
<1> DEFINE Of(U, k) == {x \in U : key[x] = k}
           By(U) == [k \in S |-> SumFunctionOnSet(f, Of(U, k))]
           Bad == {U \in SUBSET T : SumFunctionOnSet(By(U), S) # SumFunctionOnSet(f, U)}
<1> SUFFICES ASSUME Bad # {} PROVE FALSE OBVIOUS
<1>1. PICK U \in Bad : \A V \in Bad : V \subseteq U => V = U
  <2>1. Bad \in SUBSET (SUBSET T) OBVIOUS
  <2> HIDE DEF Bad
  <2> QED BY <2>1, MinimalSubset
<1>2. \A V \in SUBSET T : IsFiniteSet(V) BY FS_Subset
<1>3. ASSUME NEW V \in SUBSET T, NEW k \in S PROVE By(V)[k] = SumFunctionOnSet(f, Of(V, k)) /\ By(V)[k] \in Int
  <2>1. Of(V, k) \in SUBSET T /\ IsFiniteSet(Of(V, k)) BY <1>2
  <2>2. SumFunctionOnSet(f, Of(V, k)) \in Int BY <2>1, SumIsNumber
  <2> QED BY <2>2
<1>4. U # {}
  <2> SUFFICES ASSUME U = {} PROVE FALSE OBVIOUS
  <2>1. SumFunctionOnSet(f, U) = 0 BY SumOfNone
  <2>2. ASSUME NEW k \in S PROVE By(U)[k] = 0
    <3>1. Of(U, k) = {} OBVIOUS
    <3> HIDE DEF Of
    <3> QED BY <3>1, SumOfNone
  <2>3. SumFunctionOnSet(By(U), S) = SumFunctionOnSet(By(U), {})
    <3> HIDE DEF By
    <3> QED BY <2>2, SumOfSupport
  <2>4. SumFunctionOnSet(By(U), {}) = 0 BY SumOfNone
  <2> QED BY <1>1, <2>1, <2>3, <2>4
<1>5. PICK x \in U : TRUE BY <1>4
<1> DEFINE V == U \ {x}
           k == key[x]
<1>6. V \in SUBSET T /\ V # U /\ V \subseteq U /\ x \in T /\ k \in S BY <1>5
<1>7. SumFunctionOnSet(By(V), S) = SumFunctionOnSet(f, V)
  <2>1. V \notin Bad BY <1>1, <1>6
  <2> QED BY <1>6, <2>1
<1>8. ASSUME NEW j \in S \ {k} PROVE By(U)[j] = By(V)[j]
  <2>1. Of(U, j) = Of(V, j) OBVIOUS
  <2> QED BY <2>1
<1>9. By(U)[k] = f[x] + By(V)[k]
  <2>1. x \in Of(U, k) /\ Of(V, k) = Of(U, k) \ {x} BY <1>5
  <2>2. Of(U, k) \in SUBSET T /\ IsFiniteSet(Of(U, k)) BY <1>2
  <2>3. \A y \in Of(U, k) : f[y] \in Int BY <2>2
  <2> HIDE DEF Of
  <2>4. SumFunctionOnSet(f, Of(U, k)) = f[x] + SumFunctionOnSet(f, Of(U, k) \ {x}) BY <2>1, <2>2, <2>3, SumTakesAny
  <2> QED BY <1>6, <2>1, <2>4
<1>10. SumFunctionOnSet(By(U), S) = SumFunctionOnSet(By(V), S) + By(U)[k] - By(V)[k]
  <2>1. U \in SUBSET T /\ V \in SUBSET T /\ k \in S BY <1>6
  <2>2. \A j \in S : By(V)[j] \in Int /\ By(U)[j] \in Int BY <1>3, <2>1
  <2> HIDE DEF By, V, k
  <2> QED BY <1>8, <2>1, <2>2, SumChanged
<1>11. SumFunctionOnSet(f, U) = f[x] + SumFunctionOnSet(f, V)
  <2>1. IsFiniteSet(U) /\ \A y \in U : f[y] \in Int BY <1>2
  <2> QED BY <1>5, <2>1, SumTakesAny
<1>12. SumFunctionOnSet(f, V) \in Int /\ f[x] \in Int /\ By(V)[k] \in Int
  <2>1. IsFiniteSet(V) /\ \A y \in V : f[y] \in Int BY <1>2, <1>6
  <2>2. SumFunctionOnSet(f, V) \in Int BY <2>1, SumIsNumber
  <2> QED BY <1>3, <1>6, <2>2
<1>13. SumFunctionOnSet(By(U), S) # SumFunctionOnSet(f, U) BY <1>1
<1> HIDE DEF By, V, k
<1> QED BY <1>7, <1>9, <1>10, <1>11, <1>12, <1>13

(* Ones add up to how many there are.                                      *)
LEMMA SumOfOnes ==
  ASSUME NEW S, IsFiniteSet(S), NEW f, \A x \in S : f[x] = 1
  PROVE  SumFunctionOnSet(f, S) = Cardinality(S)
<1> DEFINE Bad == {U \in SUBSET S : SumFunctionOnSet(f, U) # Cardinality(U)}
<1> SUFFICES ASSUME Bad # {} PROVE FALSE OBVIOUS
<1>1. PICK U \in Bad : \A V \in Bad : V \subseteq U => V = U
  <2>1. Bad \in SUBSET (SUBSET S) OBVIOUS
  <2> HIDE DEF Bad
  <2> QED BY <2>1, MinimalSubset
<1>2. U # {} BY <1>1, SumOfNone, FS_EmptySet
<1>3. PICK x \in U : TRUE BY <1>2
<1>4. IsFiniteSet(U) /\ \A y \in U : f[y] \in Int BY FS_Subset
<1>5. SumFunctionOnSet(f, U) = f[x] + SumFunctionOnSet(f, U \ {x}) BY <1>3, <1>4, SumTakesAny
<1>6. Cardinality(U \ {x}) = Cardinality(U) - 1 /\ Cardinality(U) \in Nat BY <1>3, <1>4, FS_RemoveElement, FS_CardinalityType
<1>7. SumFunctionOnSet(f, U \ {x}) = Cardinality(U \ {x}) BY <1>1, <1>3
<1>8. f[x] = 1 BY <1>3
<1> QED BY <1>1, <1>5, <1>6, <1>7, <1>8

(* Counting key by key counts everything.                                  *)
LEMMA CountByKey ==
  ASSUME NEW S, IsFiniteSet(S), NEW T, IsFiniteSet(T), NEW key \in [T -> S]
  PROVE  SumFunctionOnSet([k \in S |-> Cardinality({x \in T : key[x] = k})], S) = Cardinality(T)
<1>1. PICK one : one = [x \in T |-> 1] OBVIOUS
<1>2. \A x \in T : one[x] \in Int /\ one[x] = 1 BY <1>1
<1>3. \A k \in S : SumFunctionOnSet(one, {x \in T : key[x] = k}) = Cardinality({x \in T : key[x] = k})
  <2> SUFFICES ASSUME NEW k \in S PROVE SumFunctionOnSet(one, {x \in T : key[x] = k}) = Cardinality({x \in T : key[x] = k}) OBVIOUS
  <2>1. PICK U : U = {x \in T : key[x] = k} OBVIOUS
  <2>2. IsFiniteSet(U) /\ \A x \in U : one[x] = 1 BY <1>2, <2>1, FS_Subset
  <2>3. SumFunctionOnSet(one, U) = Cardinality(U) BY <2>2, SumOfOnes
  <2> QED BY <2>1, <2>3
<1>4. [k \in S |-> SumFunctionOnSet(one, {x \in T : key[x] = k})] = [k \in S |-> Cardinality({x \in T : key[x] = k})]
  BY <1>3
<1>5. SumFunctionOnSet(one, T) = Cardinality(T) BY <1>2, SumOfOnes
<1>6. SumFunctionOnSet([k \in S |-> SumFunctionOnSet(one, {x \in T : key[x] = k})], S) = SumFunctionOnSet(one, T)
  BY <1>2, SumByKey
<1> QED BY <1>4, <1>5, <1>6
=============================================================================
