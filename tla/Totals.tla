------------------------------- MODULE Totals -------------------------------
(***************************************************************************)
(* What MapThenSumSet of FiniteSetsExt computes, for every finite set.     *)
(*                                                                         *)
(* The sum is a recursive function, and the induction theorems of the      *)
(* library take the claim as an operator.  The induction is done on sets   *)
(* instead: among the subsets that refute a claim there is a smallest one  *)
(* (strict inclusion of finite sets is well-founded).                      *)
(***************************************************************************)
EXTENDS FiniteSetsExt, FiniteSetTheorems, TLAPS

Pick(s) == CHOOSE x \in s : TRUE

Rest(s) == s \ {Pick(s)}

(* h adds up the values of g on every subset of S, in the order of Pick. *)
Adds(g, S, h) ==
  h = [s \in SUBSET S |-> IF s = {} THEN 0 ELSE g[Pick(s)] + h[Rest(s)]]

Total(g, S) == MapThenSumSet(LAMBDA x : g[x], S)

-----------------------------------------------------------------------------
(* The recursion has one solution *)

LEMMA PickIsOne ==
  ASSUME NEW s, s # {}
  PROVE  Pick(s) \in s /\ Rest(s) \subseteq s /\ Rest(s) # s
  BY DEF Pick, Rest

LEMMA SmallestSubset ==
  ASSUME NEW S, IsFiniteSet(S), NEW T, T \subseteq SUBSET S, T # {}
  PROVE  \E U \in T : \A V \in T : V \subseteq U => V = U
<1>1. IsWellFoundedOn(StrictSubsetOrdering(S), SUBSET S)
  BY FS_StrictSubsetOrderingWellFounded, FS_FiniteSubsetsOfFinite
<1>2. PICK U \in T : \A V \in T : <<V, U>> \notin StrictSubsetOrdering(S)
  BY <1>1, WFMin
<1>3. \A V \in T : V \subseteq U => V = U
  BY <1>2 DEF StrictSubsetOrdering
<1> QED
  BY <1>3

LEMMA AddsOnce ==
  ASSUME NEW g, NEW S, NEW h, NEW k, IsFiniteSet(S), Adds(g, S, h), Adds(g, S, k)
  PROVE  h = k
<1> DEFINE T == {U \in SUBSET S : h[U] # k[U]}
<1>1. T = {}
  <2> SUFFICES ASSUME T # {} PROVE FALSE
    OBVIOUS
  <2>0. T \subseteq SUBSET S
    OBVIOUS
  <2> HIDE DEF T
  <2>1. PICK U \in T : \A V \in T : V \subseteq U => V = U
    BY <2>0, SmallestSubset
  <2> USE DEF T
  <2>2. U # {}
    BY DEF Adds
  <2>3. Rest(U) \subseteq U /\ Rest(U) # U
    BY <2>2, PickIsOne
  <2>4. h[Rest(U)] = k[Rest(U)]
    BY <2>1, <2>3
  <2>5. h[U] = g[Pick(U)] + h[Rest(U)] /\ k[U] = g[Pick(U)] + k[Rest(U)]
    BY <2>2 DEF Adds
  <2> QED
    BY <2>4, <2>5
<1>2. \A U \in SUBSET S : h[U] = k[U]
  BY <1>1
<1>3. h = [s \in SUBSET S |-> h[s]] /\ k = [s \in SUBSET S |-> k[s]]
  BY DEF Adds
<1> QED
  BY <1>2, <1>3

LEMMA AddsWithin ==
  ASSUME NEW g, NEW S, NEW h, NEW U \in SUBSET S, Adds(g, S, h)
  PROVE  Adds(g, U, [s \in SUBSET U |-> h[s]])
<1> DEFINE k == [s \in SUBSET U |-> h[s]]
<1>1. \A s \in SUBSET U : k[s] = IF s = {} THEN 0 ELSE g[Pick(s)] + h[Rest(s)]
  BY DEF Adds
<1>2. \A s \in SUBSET U : s # {} => k[Rest(s)] = h[Rest(s)]
  BY PickIsOne
<1>3. \A s \in SUBSET U : k[s] = IF s = {} THEN 0 ELSE g[Pick(s)] + k[Rest(s)]
  BY <1>1, <1>2
<1>4. k = [s \in SUBSET U |-> k[s]]
  OBVIOUS
<1> HIDE DEF k
<1>5. k = [s \in SUBSET U |-> IF s = {} THEN 0 ELSE g[Pick(s)] + k[Rest(s)]]
  BY <1>3, <1>4
<1> QED
  BY <1>5 DEF Adds, k

LEMMA AddsSomehow ==
  ASSUME NEW g, NEW S, IsFiniteSet(S)
  PROVE  \E h : Adds(g, S, h)
<1> DEFINE Solved(s) == \E h : Adds(g, s, h)
           T == {U \in SUBSET S : ~Solved(U)}
<1>1. ASSUME T # {} PROVE FALSE
  <2>0. T \subseteq SUBSET S
    OBVIOUS
  <2> HIDE DEF T
  <2>1. PICK U \in T : \A V \in T : V \subseteq U => V = U
    BY <1>1, <2>0, SmallestSubset
  <2> USE DEF T
  <2>2. U \in SUBSET S /\ IsFiniteSet(U) /\ \A s \in SUBSET U : IsFiniteSet(s)
    BY <2>1, FS_Subset
  <2> DEFINE sol == [s \in SUBSET U |-> CHOOSE h : Adds(g, s, h)]
  <2>3. \A s \in SUBSET U : s # U => Adds(g, s, sol[s])
    BY <2>1
  <2> DEFINE k == [s \in SUBSET U |->
                     IF s = {} THEN 0 ELSE g[Pick(s)] + sol[Rest(s)][Rest(s)]]
  <2>4. \A s \in SUBSET U : s # U => k[s] = sol[s][s]
    <3> SUFFICES ASSUME NEW s \in SUBSET U, s # U PROVE k[s] = sol[s][s]
      OBVIOUS
    <3>1. Adds(g, s, sol[s])
      BY <2>3
    <3>2. CASE s = {}
      <4>1. sol[s][s] = 0
        BY <3>1, <3>2 DEF Adds
      <4>2. k[s] = 0
        BY <3>2
      <4> QED
        BY <4>1, <4>2
    <3>3. CASE s # {}
      <4>1. Rest(s) \subseteq s /\ Rest(s) \in SUBSET U /\ Rest(s) # U
        BY <3>3, PickIsOne
      <4>2. Adds(g, Rest(s), [r \in SUBSET Rest(s) |-> sol[s][r]])
        BY <3>1, <4>1, AddsWithin
      <4>3. Adds(g, Rest(s), sol[Rest(s)])
        BY <2>3, <4>1
      <4>4. sol[Rest(s)] = [r \in SUBSET Rest(s) |-> sol[s][r]]
        BY <2>2, <4>1, <4>2, <4>3, AddsOnce
      <4>5. sol[Rest(s)][Rest(s)] = sol[s][Rest(s)]
        BY <4>4
      <4>6. sol[s][s] = g[Pick(s)] + sol[s][Rest(s)]
        BY <3>1, <3>3 DEF Adds
      <4>7. k[s] = g[Pick(s)] + sol[Rest(s)][Rest(s)]
        BY <3>3
      <4> QED
        BY <4>5, <4>6, <4>7
    <3> QED
      BY <3>2, <3>3
  <2>5. \A s \in SUBSET U : s # {} => sol[Rest(s)][Rest(s)] = k[Rest(s)]
    <3> SUFFICES ASSUME NEW s \in SUBSET U, s # {}
                 PROVE  sol[Rest(s)][Rest(s)] = k[Rest(s)]
      OBVIOUS
    <3>1. Rest(s) \in SUBSET U /\ Rest(s) # U
      BY PickIsOne
    <3> QED
      BY <2>4, <3>1
  <2>6. k = [s \in SUBSET U |-> IF s = {} THEN 0 ELSE g[Pick(s)] + k[Rest(s)]]
    <3>1. \A s \in SUBSET U : k[s] = IF s = {} THEN 0 ELSE g[Pick(s)] + k[Rest(s)]
      <4> HIDE DEF sol
      <4>1. \A s \in SUBSET U :
              k[s] = IF s = {} THEN 0 ELSE g[Pick(s)] + sol[Rest(s)][Rest(s)]
        OBVIOUS
      <4> HIDE DEF k
      <4> QED
        BY <2>5, <4>1
    <3>2. k = [s \in SUBSET U |-> k[s]]
      OBVIOUS
    <3> HIDE DEF k
    <3> QED
      BY <3>1, <3>2
  <2> HIDE DEF k
  <2>7. Adds(g, U, k)
    BY <2>6 DEF Adds
  <2> QED
    BY <2>1, <2>7
<1> QED
  BY <1>1

LEMMA TotalAdds ==
  ASSUME NEW g, NEW S, NEW h, IsFiniteSet(S), Adds(g, S, h)
  PROVE  Total(g, S) = h[S]
<1>1. \E k : Adds(g, S, k) /\ Total(g, S) = k[S]
  BY DEF Adds, Total, MapThenSumSet, MapThenFoldSet, Pick, Rest
<1> QED
  BY <1>1, AddsOnce

LEMMA TotalOfNone == ASSUME NEW g PROVE Total(g, {}) = 0
<1>1. PICK h : Adds(g, {}, h)
  BY AddsSomehow, FS_EmptySet
<1>2. h[{}] = 0
  BY <1>1 DEF Adds
<1> QED
  BY <1>1, <1>2, TotalAdds, FS_EmptySet

LEMMA TotalStep ==
  ASSUME NEW g, NEW S, IsFiniteSet(S), S # {}
  PROVE  Total(g, S) = g[Pick(S)] + Total(g, Rest(S))
<1>1. PICK h : Adds(g, S, h)
  BY AddsSomehow
<1>2. Rest(S) \in SUBSET S /\ IsFiniteSet(Rest(S))
  BY PickIsOne, FS_Subset
<1>3. Total(g, S) = h[S] /\ h[S] = g[Pick(S)] + h[Rest(S)]
  <2>1. h[S] = g[Pick(S)] + h[Rest(S)]
    BY <1>1 DEF Adds
  <2> QED
    BY <1>1, <2>1, TotalAdds
<1> DEFINE k == [s \in SUBSET Rest(S) |-> h[s]]
<1>4. Adds(g, Rest(S), k) /\ k[Rest(S)] = h[Rest(S)]
  BY <1>1, <1>2, AddsWithin
<1> HIDE DEF k
<1>5. Total(g, Rest(S)) = k[Rest(S)]
  BY <1>2, <1>4, TotalAdds
<1> QED
  BY <1>3, <1>4, <1>5

-----------------------------------------------------------------------------
(* A smallest counterexample is not empty, and without its pick it is none *)

LEMMA Smallest ==
  ASSUME NEW S, IsFiniteSet(S), NEW T, T \subseteq SUBSET S, T # {}, {} \notin T
  PROVE  \E U \in T : /\ U # {} /\ U \subseteq S /\ IsFiniteSet(U)
                     /\ Pick(U) \in U /\ Rest(U) \notin T
                     /\ Rest(U) \subseteq U /\ IsFiniteSet(Rest(U))
<1>1. PICK U \in T : \A V \in T : V \subseteq U => V = U
  BY SmallestSubset
<1>2. U # {} /\ U \subseteq S /\ IsFiniteSet(U)
  BY FS_Subset
<1>3. Pick(U) \in U /\ Rest(U) \subseteq U /\ Rest(U) # U
  BY <1>2, PickIsOne
<1>4. Rest(U) \notin T /\ IsFiniteSet(Rest(U))
  BY <1>1, <1>2, <1>3, FS_Subset
<1> QED
  BY <1>2, <1>3, <1>4

(* Only the values of g on S count. *)
LEMMA TotalSame ==
  ASSUME NEW f, NEW g, NEW S, IsFiniteSet(S), \A x \in S : f[x] = g[x]
  PROVE  Total(f, S) = Total(g, S)
<1> DEFINE T == {U \in SUBSET S : Total(f, U) # Total(g, U)}
<1>1. T \subseteq SUBSET S /\ {} \notin T
  BY TotalOfNone
<1>2. ASSUME T # {} PROVE FALSE
  <2> HIDE DEF T
  <2>1. PICK U \in T : /\ U # {} /\ U \subseteq S /\ IsFiniteSet(U)
                      /\ Pick(U) \in U /\ Rest(U) \notin T
                      /\ Rest(U) \subseteq U /\ IsFiniteSet(Rest(U))
    BY <1>1, <1>2, Smallest
  <2>2. Total(f, U) # Total(g, U) /\ Total(f, Rest(U)) = Total(g, Rest(U))
    BY <2>1 DEF T
  <2> QED
    BY <2>1, <2>2, TotalStep
<1> QED
  BY <1>2

LEMMA TotalIsNumber ==
  ASSUME NEW g, NEW S, IsFiniteSet(S), \A x \in S : g[x] \in Int
  PROVE  /\ Total(g, S) \in Int
         /\ (\A x \in S : g[x] >= 0) => Total(g, S) >= 0
<1> DEFINE Claim(U) == /\ Total(g, U) \in Int
                       /\ (\A x \in S : g[x] >= 0) => Total(g, U) >= 0
           T == {U \in SUBSET S : ~Claim(U)}
<1>1. T \subseteq SUBSET S /\ {} \notin T
  BY TotalOfNone
<1>2. ASSUME T # {} PROVE FALSE
  <2> HIDE DEF T
  <2>1. PICK U \in T : /\ U # {} /\ U \subseteq S /\ IsFiniteSet(U)
                      /\ Pick(U) \in U /\ Rest(U) \notin T
                      /\ Rest(U) \subseteq U /\ IsFiniteSet(Rest(U))
    BY <1>1, <1>2, Smallest
  <2>2. ~Claim(U) /\ Claim(Rest(U))
    BY <2>1 DEF T
  <2>3. g[Pick(U)] \in Int
    BY <2>1
  <2>4. (\A x \in S : g[x] >= 0) => g[Pick(U)] >= 0
    BY <2>1
  <2>5. Total(g, U) = g[Pick(U)] + Total(g, Rest(U))
    BY <2>1, TotalStep
  <2> QED
    BY <2>2, <2>3, <2>4, <2>5
<1> QED
  BY <1>2

(* Whichever element is taken out first, the sum is the same. *)
LEMMA TotalWithout ==
  ASSUME NEW g, NEW S, IsFiniteSet(S), \A x \in S : g[x] \in Int, NEW a \in S
  PROVE  Total(g, S) = g[a] + Total(g, S \ {a})
<1> DEFINE Claim(U) == \A x \in U : Total(g, U) = g[x] + Total(g, U \ {x})
           T == {U \in SUBSET S : ~Claim(U)}
<1>1. T \subseteq SUBSET S
  OBVIOUS
<1>2. ASSUME T # {} PROVE FALSE
  <2> HIDE DEF T
  <2>1. PICK U \in T : \A V \in T : V \subseteq U => V = U
    BY <1>1, <1>2, SmallestSubset
  <2>2. /\ U \subseteq S /\ ~Claim(U)
        /\ \A V \in SUBSET U : V # U => Claim(V)
    BY <2>1 DEF T
  <2>3. PICK b \in U : Total(g, U) # g[b] + Total(g, U \ {b})
    BY <2>2
  <2> DEFINE p == Pick(U)
             W == U \ {p, b}
  <2>4. IsFiniteSet(U) /\ U # {} /\ p \in U
    BY <2>2, <2>3, FS_Subset, PickIsOne
  <2>5. Total(g, U) = g[p] + Total(g, U \ {p})
    BY <2>4, TotalStep DEF Rest
  <2>6. p # b
    BY <2>3, <2>5
  <2>7. Total(g, U \ {p}) = g[b] + Total(g, W)
    <3>1. U \ {p} \in SUBSET U /\ U \ {p} # U /\ b \in U \ {p}
      BY <2>4, <2>6
    <3>2. Claim(U \ {p})
      BY <2>2, <3>1
    <3>3. (U \ {p}) \ {b} = W
      OBVIOUS
    <3> QED
      BY <3>1, <3>2, <3>3
  <2>8. Total(g, U \ {b}) = g[p] + Total(g, W)
    <3>1. U \ {b} \in SUBSET U /\ U \ {b} # U /\ p \in U \ {b}
      BY <2>4, <2>6
    <3>2. Claim(U \ {b})
      BY <2>2, <3>1
    <3>3. (U \ {b}) \ {p} = W
      OBVIOUS
    <3> QED
      BY <3>1, <3>2, <3>3
  <2>9. g[p] \in Int /\ g[b] \in Int /\ Total(g, W) \in Int
    <3>1. W \in SUBSET U /\ \A x \in W : g[x] \in Int
      BY <2>2
    <3>2. IsFiniteSet(W)
      BY <2>4, <3>1, FS_Subset
    <3>3. Total(g, W) \in Int
      BY <3>1, <3>2, TotalIsNumber
    <3> QED
      BY <2>2, <2>4, <3>3
  <2> HIDE DEF p, W
  <2> QED
    BY <2>3, <2>5, <2>7, <2>8, <2>9
<1>3. Claim(S)
  BY <1>2
<1> QED
  BY <1>3

LEMMA TotalWith ==
  ASSUME NEW g, NEW S, IsFiniteSet(S), NEW a, a \notin S,
         \A x \in S \cup {a} : g[x] \in Int
  PROVE  Total(g, S \cup {a}) = g[a] + Total(g, S)
<1>1. IsFiniteSet(S \cup {a})
  BY FS_AddElement
<1>2. (S \cup {a}) \ {a} = S
  OBVIOUS
<1> QED
  BY <1>1, <1>2, TotalWithout

LEMMA TotalOfUnion ==
  ASSUME NEW g, NEW A, NEW B, IsFiniteSet(A), IsFiniteSet(B), A \cap B = {},
         \A x \in A \cup B : g[x] \in Int
  PROVE  Total(g, A \cup B) = Total(g, A) + Total(g, B)
<1> DEFINE Claim(U) == Total(g, A \cup U) = Total(g, A) + Total(g, U)
           T == {U \in SUBSET B : ~Claim(U)}
<1>0. Total(g, A) \in Int
  BY TotalIsNumber
<1>1. T \subseteq SUBSET B /\ {} \notin T
  <2>1. Total(g, {}) = 0 /\ A \cup {} = A
    BY TotalOfNone
  <2> QED
    BY <1>0, <2>1
<1>2. ASSUME T # {} PROVE FALSE
  <2> HIDE DEF T
  <2>1. PICK U \in T : /\ U # {} /\ U \subseteq B /\ IsFiniteSet(U)
                      /\ Pick(U) \in U /\ Rest(U) \notin T
                      /\ Rest(U) \subseteq U /\ IsFiniteSet(Rest(U))
    BY <1>1, <1>2, Smallest
  <2> DEFINE p == Pick(U)
             V == Rest(U)
  <2>2. ~Claim(U) /\ Claim(V)
    BY <2>1 DEF T
  <2>3. /\ V \subseteq B /\ p \in B /\ p \notin V /\ p \notin A \cup V
        /\ U = V \cup {p} /\ A \cup U = (A \cup V) \cup {p}
    BY <2>1 DEF Rest
  <2>4. IsFiniteSet(A \cup V) /\ IsFiniteSet(V)
    BY <2>1, FS_Union
  <2> HIDE DEF p, V
  <2>5. \A x \in (A \cup V) \cup {p} : g[x] \in Int
    BY <2>3
  <2>6. Total(g, A \cup U) = g[p] + Total(g, A \cup V)
    BY <2>3, <2>4, <2>5, TotalWith
  <2>7. Total(g, U) = g[p] + Total(g, V)
    BY <2>3, <2>4, <2>5, TotalWith
  <2>8. g[p] \in Int /\ Total(g, V) \in Int
    BY <2>4, <2>5, TotalIsNumber
  <2> QED
    BY <1>0, <2>2, <2>6, <2>7, <2>8
<1>3. Claim(B)
  BY <1>2
<1> QED
  BY <1>3

LEMMA TotalOfSums ==
  ASSUME NEW f, NEW g, NEW h, NEW S, IsFiniteSet(S),
         \A x \in S : f[x] \in Int /\ g[x] \in Int /\ h[x] = f[x] + g[x]
  PROVE  Total(h, S) = Total(f, S) + Total(g, S)
<1> DEFINE Claim(U) == Total(h, U) = Total(f, U) + Total(g, U)
           T == {U \in SUBSET S : ~Claim(U)}
<1>1. T \subseteq SUBSET S /\ {} \notin T
  BY TotalOfNone
<1>2. ASSUME T # {} PROVE FALSE
  <2> HIDE DEF T
  <2>1. PICK U \in T : /\ U # {} /\ U \subseteq S /\ IsFiniteSet(U)
                      /\ Pick(U) \in U /\ Rest(U) \notin T
                      /\ Rest(U) \subseteq U /\ IsFiniteSet(Rest(U))
    BY <1>1, <1>2, Smallest
  <2> DEFINE p == Pick(U)
             V == Rest(U)
  <2>2. ~Claim(U) /\ Claim(V)
    BY <2>1 DEF T
  <2>3. f[p] \in Int /\ g[p] \in Int /\ h[p] = f[p] + g[p]
    BY <2>1
  <2>4. Total(f, V) \in Int /\ Total(g, V) \in Int
    BY <2>1, TotalIsNumber
  <2>5. /\ Total(f, U) = f[p] + Total(f, V)
        /\ Total(g, U) = g[p] + Total(g, V)
        /\ Total(h, U) = h[p] + Total(h, V)
    BY <2>1, TotalStep
  <2> HIDE DEF p, V
  <2> QED
    BY <2>2, <2>3, <2>4, <2>5
<1> QED
  BY <1>2

(* The totals of disjoint groups add up to the total of all their members.   *)
All(group, U) == UNION {group[x] : x \in U}

LEMMA TotalOfGroups ==
  ASSUME NEW g, NEW S, NEW group, NEW of, IsFiniteSet(S),
         \A x \in S : IsFiniteSet(group[x]) /\ of[x] = Total(g, group[x]),
         \A x, y \in S : x # y => group[x] \cap group[y] = {},
         \A i \in All(group, S) : g[i] \in Int
  PROVE  /\ IsFiniteSet(All(group, S))
         /\ Total(of, S) = Total(g, All(group, S))
<1> DEFINE Claim(U) == /\ IsFiniteSet(All(group, U))
                       /\ Total(of, U) = Total(g, All(group, U))
           T == {U \in SUBSET S : ~Claim(U)}
<1>1. T \subseteq SUBSET S /\ {} \notin T
  <2>1. All(group, {}) = {}
    BY DEF All
  <2> QED
    BY <2>1, TotalOfNone, FS_EmptySet
<1>2. ASSUME T # {} PROVE FALSE
  <2> HIDE DEF T
  <2>1. PICK U \in T : /\ U # {} /\ U \subseteq S /\ IsFiniteSet(U)
                      /\ Pick(U) \in U /\ Rest(U) \notin T
                      /\ Rest(U) \subseteq U /\ IsFiniteSet(Rest(U))
    BY <1>1, <1>2, Smallest
  <2> DEFINE p == Pick(U)
             V == Rest(U)
  <2>2. ~Claim(U) /\ Claim(V)
    BY <2>1 DEF T
  <2>3. p \in S /\ p \notin V /\ V \subseteq S /\ U = V \cup {p}
    BY <2>1 DEF Rest
  <2>4. Total(of, U) = of[p] + Total(of, V)
    BY <2>1, TotalStep
  <2> HIDE DEF p, V
  <2>5. All(group, U) = All(group, V) \cup group[p]
    BY <2>3 DEF All
  <2>6. All(group, V) \cap group[p] = {}
    BY <2>3 DEF All
  <2>7. IsFiniteSet(group[p]) /\ of[p] = Total(g, group[p])
    BY <2>3
  <2>8. \A i \in All(group, V) \cup group[p] : g[i] \in Int
    BY <2>3 DEF All
  <2>9. Total(g, All(group, U)) = Total(g, All(group, V)) + Total(g, group[p])
    BY <2>2, <2>5, <2>6, <2>7, <2>8, TotalOfUnion
  <2>10. IsFiniteSet(All(group, U))
    <3>1. IsFiniteSet(All(group, V))
      BY <2>2
    <3>2. IsFiniteSet(All(group, V) \cup group[p])
      BY <2>7, <3>1, FS_Union
    <3> QED
      BY <2>5, <3>2
  <2>11. Total(g, All(group, V)) \in Int /\ Total(g, group[p]) \in Int
    BY <2>2, <2>7, <2>8, TotalIsNumber
  <2> QED
    BY <2>2, <2>4, <2>7, <2>9, <2>10, <2>11
<1> QED
  BY <1>2
=============================================================================
