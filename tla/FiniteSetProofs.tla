-------------------------- MODULE FiniteSetProofs --------------------------
(***************************************************************************)
(* Induction over a finite set, and what follows from it: a finite set of   *)
(* numbers has a largest and a smallest, which the choice of a stack rests  *)
(* on, and what the proofs about costs need to know of SumFunctionOnSet,    *)
(* the sum of the values a function has on a finite set: the reports, the   *)
(* parsers and Infracost's totals all add costs up with it.                 *)
(*                                                                          *)
(* The fold takes the elements in an order of its own.  SumsBelow is its    *)
(* recursion, which has one solution on the subsets of a finite set; that   *)
(* the order does not matter follows, and then a sum is known element by    *)
(* element.  Induction is over the subsets of a finite set, stated for sets *)
(* of subsets, so that no lemma has an operator as a parameter.             *)
(***************************************************************************)
EXTENDS Integers, FiniteSets, Functions, FiniteSetTheorems, TLAPS

\* The element a fold takes next.
Pick(s) == CHOOSE x \in s : TRUE

\* One step of the recursion the fold is defined by.
SumsBelow(f, S, g) ==
    [s \in SUBSET S |-> IF s = {} THEN 0 ELSE f[Pick(s)] + g[s \ {Pick(s)}]]

\* Of subsets of a finite set there is always one without a smaller one among them.
LEMMA SmallestSubset ==
    ASSUME NEW S, IsFiniteSet(S), NEW C \in SUBSET SUBSET S, C # {}
    PROVE  \E T \in C : \A U \in C : U \subseteq T => U = T
<1>1. IsWellFoundedOn(StrictSubsetOrdering(S), SUBSET S)
    BY FS_StrictSubsetOrderingWellFounded, FS_FiniteSubsetsOfFinite
<1>2. \E T \in C : \A U \in C : <<U, T>> \notin StrictSubsetOrdering(S)
    BY <1>1, WFMin
<1> QED
    BY <1>2 DEF StrictSubsetOrdering

\* Induction over a finite set, one element at a time.
LEMMA ByElement ==
    ASSUME NEW S, IsFiniteSet(S), NEW G, {} \in G,
           \A T \in SUBSET S : \A x \in T : T \ {x} \in G => T \in G
    PROVE  \A T \in SUBSET S : T \in G
<1> DEFINE C == {T \in SUBSET S : T \notin G}
<1>1. SUFFICES ASSUME C # {} PROVE FALSE
    OBVIOUS
<1>2. PICK T \in C : \A U \in C : U \subseteq T => U = T
    <2>1. C \in SUBSET SUBSET S
        OBVIOUS
    <2> HIDE DEF C
    <2> QED
        BY <1>1, <2>1, SmallestSubset
<1>3. PICK x \in T : TRUE
    BY <1>2
<1>4. T \ {x} \in SUBSET S /\ T \ {x} # T
    BY <1>2, <1>3
<1>5. T \ {x} \in G
    BY <1>2, <1>4
<1> QED
    BY <1>2, <1>3, <1>5

\* Finitely many numbers have a largest and a smallest.
LEMMA FiniteExtremes ==
    ASSUME NEW S, IsFiniteSet(S), S \subseteq Int, S # {}
    PROVE  /\ \E m \in S : \A n \in S : m >= n
           /\ \E m \in S : \A n \in S : m <= n
<1> DEFINE largest(T) == \E m \in T : \A n \in T : m >= n
           smallest(T) == \E m \in T : \A n \in T : m <= n
           G == {T \in SUBSET S : T # {} => largest(T) /\ smallest(T)}
<1>1. {} \in G
    OBVIOUS
<1>2. ASSUME NEW T \in SUBSET S, NEW x \in T, T \ {x} \in G
      PROVE  T \in G
    <2>1. CASE T \ {x} = {}
        BY <2>1
    <2>2. CASE T \ {x} # {}
        <3>1. PICK m \in T \ {x} : \A n \in T \ {x} : m >= n
            BY <1>2, <2>2
        <3>2. PICK k \in T \ {x} : \A n \in T \ {x} : k <= n
            BY <1>2, <2>2
        <3>3. largest(T)
            BY <3>1
        <3>4. smallest(T)
            BY <3>2
        <3> QED
            BY <3>3, <3>4
    <2> QED
        BY <2>1, <2>2
<1> HIDE DEF G
<1>3. S \in G
    BY <1>1, <1>2, ByElement
<1> QED
    BY <1>3 DEF G

\* The recursion has at most one solution, the same on every set.
LEMMA SumsAgree ==
    ASSUME NEW f, NEW S, IsFiniteSet(S), NEW T \in SUBSET S, NEW g, NEW h,
           g = SumsBelow(f, S, g), h = SumsBelow(f, T, h)
    PROVE  \A s \in SUBSET T : g[s] = h[s]
<1> DEFINE C == {s \in SUBSET T : g[s] # h[s]}
<1>1. IsFiniteSet(T)
    BY FS_Subset
<1>2. {} \notin C
    BY DEF SumsBelow
<1>3. SUFFICES ASSUME C # {} PROVE FALSE
    OBVIOUS
<1>4. PICK s \in C : \A u \in C : u \subseteq s => u = s
    <2>1. C \in SUBSET SUBSET T
        OBVIOUS
    <2> HIDE DEF C
    <2> QED
        BY <1>1, <1>3, <2>1, SmallestSubset
<1>5. s \in SUBSET T /\ s # {}
    BY <1>2, <1>4
<1>6. Pick(s) \in s
    BY <1>5 DEF Pick
<1>7. g[s \ {Pick(s)}] = h[s \ {Pick(s)}]
    BY <1>4, <1>5, <1>6
<1>8. /\ g[s] = f[Pick(s)] + g[s \ {Pick(s)}]
      /\ h[s] = f[Pick(s)] + h[s \ {Pick(s)}]
    BY <1>5 DEF SumsBelow
<1> QED
    BY <1>4, <1>7, <1>8

\* It has one.
LEMMA SumsExist ==
    ASSUME NEW f, NEW S, IsFiniteSet(S)
    PROVE  \E g : g = SumsBelow(f, S, g)
<1> DEFINE Solved(T) == \E g : g = SumsBelow(f, T, g)
           solution(T) == CHOOSE g : g = SumsBelow(f, T, g)
           sum(T) == solution(T)[T]
           C == {T \in SUBSET S : ~Solved(T)}
<1>1. SUFFICES ASSUME C # {} PROVE FALSE
    OBVIOUS
<1>2. PICK T \in C : \A U \in C : U \subseteq T => U = T
    <2>1. C \in SUBSET SUBSET S
        OBVIOUS
    <2> HIDE DEF C
    <2> QED
        BY <1>1, <2>1, SmallestSubset
<1>3. \A U \in SUBSET T : U # T => U \in SUBSET S /\ solution(U) = SumsBelow(f, U, solution(U))
    BY <1>2
<1> DEFINE g == SumsBelow(f, T, [s \in SUBSET T |-> sum(s)])
<1>4. ASSUME NEW s \in SUBSET T, s # {}
      PROVE  g[s \ {Pick(s)}] = sum(s \ {Pick(s)})
    <2> DEFINE u == s \ {Pick(s)}
    <2>1. Pick(s) \in s
        BY <1>4 DEF Pick
    <2>2. u \in SUBSET T /\ u # T
        BY <2>1
    <2>3. IsFiniteSet(u) /\ solution(u) = SumsBelow(f, u, solution(u))
        BY <1>2, <1>3, <2>2, FS_Subset
    <2>4. CASE u = {}
        BY <2>2, <2>3, <2>4 DEF SumsBelow
    <2>5. CASE u # {}
        <3> DEFINE v == u \ {Pick(u)}
        <3>1. Pick(u) \in u
            BY <2>5 DEF Pick
        <3>2. v \in SUBSET u /\ v \in SUBSET T /\ v # T
            BY <2>2, <3>1
        <3>3. solution(v) = SumsBelow(f, v, solution(v))
            BY <1>3, <3>2
        <3> HIDE DEF solution
        <3>4. solution(u)[v] = solution(v)[v]
            BY <2>3, <3>2, <3>3, SumsAgree
        <3>5. solution(u)[u] = f[Pick(u)] + solution(u)[v]
            BY <2>3, <2>5 DEF SumsBelow
        <3>6. g[u] = f[Pick(u)] + sum(v)
            BY <2>2, <2>5, <3>2 DEF SumsBelow
        <3> QED
            BY <3>4, <3>5, <3>6
    <2> QED
        BY <2>4, <2>5
<1>5. ASSUME NEW s \in SUBSET T
      PROVE  g[s] = SumsBelow(f, T, g)[s]
    <2>1. CASE s = {}
        BY <2>1 DEF SumsBelow
    <2>2. CASE s # {}
        <3>1. s \ {Pick(s)} \in SUBSET T
            OBVIOUS
        <3>2. g[s] = f[Pick(s)] + sum(s \ {Pick(s)})
            BY <2>2, <3>1 DEF SumsBelow
        <3>3. SumsBelow(f, T, g)[s] = f[Pick(s)] + g[s \ {Pick(s)}]
            BY <2>2 DEF SumsBelow
        <3> HIDE DEF g, sum
        <3> QED
            BY <1>4, <2>2, <3>2, <3>3
    <2> QED
        BY <2>1, <2>2
<1>6. g = SumsBelow(f, T, g)
    <2> DEFINE k == SumsBelow(f, T, g)
    <2>1. g = [s \in SUBSET T |-> g[s]]
        BY DEF SumsBelow
    <2>2. k = [s \in SUBSET T |-> k[s]]
        BY DEF SumsBelow
    <2>3. \A s \in SUBSET T : g[s] = k[s]
        BY <1>5
    <2> HIDE DEF g, k
    <2>4. g = k
        BY <2>1, <2>2, <2>3
    <2> QED
        BY <2>4 DEF k
<1>7. Solved(T)
    <2> HIDE DEF g
    <2> QED
        BY <1>6
<1> QED
    BY <1>2, <1>7

\* A sum, unfolded once.
LEMMA SumUnfolds ==
    ASSUME NEW f, NEW S, IsFiniteSet(S)
    PROVE  SumFunctionOnSet(f, S) =
              IF S = {} THEN 0 ELSE f[Pick(S)] + SumFunctionOnSet(f, S \ {Pick(S)})
<1> DEFINE solution(T) == CHOOSE g : g = SumsBelow(f, T, g)
<1>1. ASSUME NEW T
      PROVE  SumFunctionOnSet(f, T) = solution(T)[T]
    BY DEF SumFunctionOnSet, FoldFunctionOnSet, MapThenFoldSet, SumsBelow, Pick
<1>2. ASSUME NEW T \in SUBSET S
      PROVE  solution(T) = SumsBelow(f, T, solution(T))
    <2>1. \E g : g = SumsBelow(f, T, g)
        BY FS_Subset, SumsExist
    <2> QED
        BY <2>1
<1> DEFINE R == S \ {Pick(S)}
<1>3. solution(S) = SumsBelow(f, S, solution(S))
    BY <1>2
<1>4. solution(R) = SumsBelow(f, R, solution(R))
    BY <1>2
<1> HIDE DEF solution
<1>5. solution(S)[R] = solution(R)[R]
    BY <1>3, <1>4, SumsAgree
<1>6. solution(S)[S] = IF S = {} THEN 0 ELSE f[Pick(S)] + solution(S)[R]
    BY <1>3 DEF SumsBelow
<1> QED
    BY <1>1, <1>5, <1>6

\* Nothing costs nothing.
LEMMA SumOfNothing ==
    ASSUME NEW f
    PROVE  SumFunctionOnSet(f, {}) = 0
BY SumUnfolds, FS_EmptySet

\* The sum of integers is one.
LEMMA SumIsInteger ==
    ASSUME NEW S, IsFiniteSet(S), NEW f, \A x \in S : f[x] \in Int
    PROVE  SumFunctionOnSet(f, S) \in Int
<1> DEFINE C == {T \in SUBSET S : SumFunctionOnSet(f, T) \notin Int}
<1>1. SUFFICES ASSUME C # {} PROVE FALSE
    OBVIOUS
<1>2. PICK T \in C : \A U \in C : U \subseteq T => U = T
    <2>1. C \in SUBSET SUBSET S
        OBVIOUS
    <2> HIDE DEF C
    <2> QED
        BY <1>1, <2>1, SmallestSubset
<1>3. SumFunctionOnSet(f, T) =
          IF T = {} THEN 0 ELSE f[Pick(T)] + SumFunctionOnSet(f, T \ {Pick(T)})
    BY <1>2, FS_Subset, SumUnfolds
<1>4. T # {}
    BY <1>2, <1>3
<1>5. Pick(T) \in T
    BY <1>4 DEF Pick
<1>6. SumFunctionOnSet(f, T \ {Pick(T)}) \in Int
    BY <1>2, <1>5
<1> QED
    BY <1>2, <1>3, <1>4, <1>5, <1>6

\* In whatever order the elements are taken.
LEMMA SumTakesOut ==
    ASSUME NEW S, IsFiniteSet(S), NEW f, \A x \in S : f[x] \in Int, NEW e \in S
    PROVE  SumFunctionOnSet(f, S) = f[e] + SumFunctionOnSet(f, S \ {e})
<1> DEFINE sum(T) == SumFunctionOnSet(f, T)
           C == {T \in SUBSET S : \E x \in T : sum(T) # f[x] + sum(T \ {x})}
<1>1. SUFFICES ASSUME C # {} PROVE FALSE
    OBVIOUS
<1>2. PICK T \in C : \A U \in C : U \subseteq T => U = T
    <2>1. C \in SUBSET SUBSET S
        OBVIOUS
    <2> HIDE DEF C
    <2> QED
        BY <1>1, <2>1, SmallestSubset
<1>3. PICK x \in T : sum(T) # f[x] + sum(T \ {x})
    BY <1>2
<1> DEFINE p == Pick(T)
<1>4. p \in T /\ T \in SUBSET S
    BY <1>2, <1>3 DEF Pick
<1>5. \A U \in SUBSET S : IsFiniteSet(U) /\ sum(U) \in Int
    BY FS_Subset, SumIsInteger
<1>6. sum(T) = f[p] + sum(T \ {p})
    BY <1>3, <1>4, <1>5, SumUnfolds
<1>7. x # p
    BY <1>3, <1>6
<1>8. \A U \in SUBSET S : U \subseteq T /\ U # T => \A y \in U : sum(U) = f[y] + sum(U \ {y})
    BY <1>2
<1> DEFINE U == T \ {p}
           V == T \ {x}
<1>9. sum(U) = f[x] + sum(U \ {x}) /\ sum(V) = f[p] + sum(V \ {p})
    BY <1>3, <1>4, <1>7, <1>8
<1>10. U \ {x} = V \ {p} /\ U \ {x} \in SUBSET S
    BY <1>4
<1>11. f[x] \in Int /\ f[p] \in Int /\ sum(U \ {x}) \in Int
    BY <1>3, <1>4, <1>5, <1>10
<1>12. sum(V) = f[p] + sum(U \ {x})
    BY <1>9, <1>10
<1>13. sum(T) = f[p] + (f[x] + sum(U \ {x}))
    BY <1>6, <1>9
<1>14. f[x] + sum(V) = f[p] + (f[x] + sum(U \ {x}))
    BY <1>11, <1>12
<1> QED
    BY <1>3, <1>13, <1>14

\* Term by term: equal, at most, and differences.
LEMMA SumsOfEqualTerms ==
    ASSUME NEW S, IsFiniteSet(S), NEW f, NEW g,
           \A x \in S : f[x] \in Int /\ f[x] = g[x]
    PROVE  SumFunctionOnSet(f, S) = SumFunctionOnSet(g, S)
<1> DEFINE G == {T \in SUBSET S : SumFunctionOnSet(f, T) = SumFunctionOnSet(g, T)}
<1>1. {} \in G
    BY SumOfNothing
<1>2. ASSUME NEW T \in SUBSET S, NEW x \in T, T \ {x} \in G
      PROVE  T \in G
    <2>1. IsFiniteSet(T)
        BY FS_Subset
    <2>2. /\ SumFunctionOnSet(f, T) = f[x] + SumFunctionOnSet(f, T \ {x})
          /\ SumFunctionOnSet(g, T) = g[x] + SumFunctionOnSet(g, T \ {x})
        BY <2>1, SumTakesOut
    <2> QED
        BY <1>2, <2>2
<1> HIDE DEF G
<1>3. S \in G
    BY <1>1, <1>2, ByElement
<1> QED
    BY <1>3 DEF G

\* At most term by term, at most in all.
LEMMA SumIsMonotonic ==
    ASSUME NEW S, IsFiniteSet(S), NEW f, NEW g,
           \A x \in S : f[x] \in Int /\ g[x] \in Int /\ f[x] <= g[x]
    PROVE  SumFunctionOnSet(f, S) <= SumFunctionOnSet(g, S)
<1> DEFINE G == {T \in SUBSET S : SumFunctionOnSet(f, T) <= SumFunctionOnSet(g, T)}
<1>1. {} \in G
    BY SumOfNothing
<1>2. ASSUME NEW T \in SUBSET S, NEW x \in T, T \ {x} \in G
      PROVE  T \in G
    <2>1. IsFiniteSet(T) /\ IsFiniteSet(T \ {x})
        BY FS_Subset
    <2>2. /\ SumFunctionOnSet(f, T) = f[x] + SumFunctionOnSet(f, T \ {x})
          /\ SumFunctionOnSet(g, T) = g[x] + SumFunctionOnSet(g, T \ {x})
        BY <2>1, SumTakesOut
    <2>3. SumFunctionOnSet(f, T \ {x}) \in Int /\ SumFunctionOnSet(g, T \ {x}) \in Int
        BY <2>1, SumIsInteger
    <2>4. SumFunctionOnSet(f, T \ {x}) <= SumFunctionOnSet(g, T \ {x})
        BY <1>2
    <2>5. f[x] \in Int /\ g[x] \in Int /\ f[x] <= g[x]
        BY <1>2
    <2> QED
        BY <2>2, <2>3, <2>4, <2>5
<1> HIDE DEF G
<1>3. S \in G
    BY <1>1, <1>2, ByElement
<1> QED
    BY <1>3 DEF G

\* A sum of differences is the difference of the sums.
LEMMA SumOfDifferences ==
    ASSUME NEW S, IsFiniteSet(S), NEW f, NEW g, NEW h,
           \A x \in S : f[x] \in Int /\ g[x] \in Int /\ h[x] = f[x] - g[x]
    PROVE  SumFunctionOnSet(h, S) = SumFunctionOnSet(f, S) - SumFunctionOnSet(g, S)
<1> DEFINE G == {T \in SUBSET S :
                    SumFunctionOnSet(h, T) = SumFunctionOnSet(f, T) - SumFunctionOnSet(g, T)}
<1>1. {} \in G
    BY SumOfNothing
<1>2. ASSUME NEW T \in SUBSET S, NEW x \in T, T \ {x} \in G
      PROVE  T \in G
    <2>1. IsFiniteSet(T) /\ IsFiniteSet(T \ {x})
        BY FS_Subset
    <2>2. /\ SumFunctionOnSet(f, T) = f[x] + SumFunctionOnSet(f, T \ {x})
          /\ SumFunctionOnSet(g, T) = g[x] + SumFunctionOnSet(g, T \ {x})
          /\ SumFunctionOnSet(h, T) = h[x] + SumFunctionOnSet(h, T \ {x})
        BY <2>1, SumTakesOut
    <2>3. SumFunctionOnSet(f, T \ {x}) \in Int /\ SumFunctionOnSet(g, T \ {x}) \in Int
        BY <2>1, SumIsInteger
    <2>4. SumFunctionOnSet(h, T \ {x}) =
              SumFunctionOnSet(f, T \ {x}) - SumFunctionOnSet(g, T \ {x})
        BY <1>2
    <2>5. f[x] \in Int /\ g[x] \in Int /\ h[x] = f[x] - g[x]
        BY <1>2
    <2> QED
        BY <2>2, <2>3, <2>4, <2>5
<1> HIDE DEF G
<1>3. S \in G
    BY <1>1, <1>2, ByElement
<1> QED
    BY <1>3 DEF G

\* What is left out adds nothing.
LEMMA SumWithoutZeros ==
    ASSUME NEW S, IsFiniteSet(S), NEW f, \A x \in S : f[x] \in Int,
           NEW T \in SUBSET S, \A x \in S \ T : f[x] = 0
    PROVE  SumFunctionOnSet(f, T) = SumFunctionOnSet(f, S)
<1> DEFINE G == {U \in SUBSET S : SumFunctionOnSet(f, U \cap T) = SumFunctionOnSet(f, U)}
<1>1. {} \in G
    <2>1. {} \cap T = {}
        OBVIOUS
    <2> QED
        BY <2>1
<1>2. ASSUME NEW U \in SUBSET S, NEW x \in U, U \ {x} \in G
      PROVE  U \in G
    <2> DEFINE W == U \cap T
               R == U \ {x}
    <2>1. IsFiniteSet(U) /\ IsFiniteSet(W) /\ IsFiniteSet(R)
        BY FS_Subset
    <2>2. SumFunctionOnSet(f, U) = f[x] + SumFunctionOnSet(f, R)
        BY <2>1, SumTakesOut
    <2>3. SumFunctionOnSet(f, R \cap T) = SumFunctionOnSet(f, R)
        BY <1>2
    <2>4. CASE x \in T
        <3>1. W \ {x} = R \cap T
            OBVIOUS
        <3>2. SumFunctionOnSet(f, W) = f[x] + SumFunctionOnSet(f, R \cap T)
            BY <2>1, <2>4, <3>1, SumTakesOut
        <3> QED
            BY <2>2, <2>3, <3>2
    <2>5. CASE x \notin T
        <3>1. W = R \cap T /\ f[x] = 0
            BY <2>5
        <3>2. SumFunctionOnSet(f, R) \in Int
            BY <2>1, SumIsInteger
        <3> HIDE DEF R, W
        <3>3. SumFunctionOnSet(f, U) = SumFunctionOnSet(f, R)
            BY <2>2, <3>1, <3>2
        <3> QED
            BY <2>3, <3>1, <3>3 DEF W
    <2> QED
        BY <2>4, <2>5
<1>3. S \in G
    <2> HIDE DEF G
    <2>1. \A U \in SUBSET S : \A x \in U : U \ {x} \in G => U \in G
        BY <1>2
    <2>2. \A U \in SUBSET S : U \in G
        BY <1>1, <2>1, ByElement
    <2> QED
        BY <2>2
<1>4. S \cap T = T
    OBVIOUS
<1> QED
    BY <1>3, <1>4

\* A sum of what is not negative is not, and grows with the set.
LEMMA SumIsNatural ==
    ASSUME NEW S, IsFiniteSet(S), NEW f, \A x \in S : f[x] \in Nat
    PROVE  SumFunctionOnSet(f, S) \in Nat
<1> DEFINE zero == [x \in S |-> 0]
<1>1. SumFunctionOnSet(zero, {}) = SumFunctionOnSet(zero, S)
    BY SumWithoutZeros
<1>2. SumFunctionOnSet(zero, S) = 0
    BY <1>1, SumOfNothing
<1>3. SumFunctionOnSet(zero, S) <= SumFunctionOnSet(f, S)
    BY SumIsMonotonic
<1>4. SumFunctionOnSet(f, S) \in Int
    BY SumIsInteger
<1> HIDE DEF zero
<1> QED
    BY <1>2, <1>3, <1>4

=============================================================================
