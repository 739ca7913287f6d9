---------------------------- MODULE FoldLemmas -----------------------------
(***************************************************************************)
(* What the models' folds over finite sets obey.  SumFunctionOnSet of the  *)
(* community modules, which adds up the values of a function on a set in   *)
(* an order of its own, depends on the set and the values alone; a chain   *)
(* of states, one for every element of a set, exists.                      *)
(***************************************************************************)
EXTENDS FiniteSetTheorems, TLAPS

\* A set of finite sets has a member that contains no other.
LEMMA SmallestSet ==
    ASSUME NEW S, IsFiniteSet(S), NEW P \in SUBSET SUBSET S, P # {}
    PROVE  \E T \in P : \A U \in P : U \subseteq T => U = T
<1>1. P \subseteq FiniteSubsetsOf(S)
  BY FS_Subset DEF FiniteSubsetsOf
<1>2. PICK T \in P : \A U \in P : ~ (<<U, T>> \in StrictSubsetOrdering(S))
  BY <1>1, FS_StrictSubsetOrderingWellFounded, WFMin
<1>3. ASSUME NEW U \in P, U \subseteq T
      PROVE  U = T
  BY <1>2, <1>3 DEF StrictSubsetOrdering
<1> QED BY <1>3

\* The element the fold takes out of a set first.
FirstOf(s) == CHOOSE x \in s : TRUE

\* The equation of the fold of f over the subsets of S.
FoldEquation(f, S, g) ==
    g = [s \in SUBSET S |-> IF s = {} THEN 0 ELSE f[FirstOf(s)] + g[s \ {FirstOf(s)}]]

\* What is left of a nonempty set without its first element.
LEMMA FirstTakenOut ==
    ASSUME NEW S, NEW s \in SUBSET S, s # {}
    PROVE  /\ FirstOf(s) \in s
           /\ s \ {FirstOf(s)} \in SUBSET S
           /\ s \ {FirstOf(s)} # s
BY DEF FirstOf

LEMMA SumIsFold ==
    ASSUME NEW f, NEW S
    PROVE  SumFunctionOnSet(f, S) = (CHOOSE g : FoldEquation(f, S, g))[S]
BY DEF SumFunctionOnSet, FoldFunctionOnSet, MapThenFoldSet, FoldEquation, FirstOf

\* Two solutions of the equation agree where both are defined.
LEMMA FoldUnique ==
    ASSUME NEW f, NEW S, NEW T \in SUBSET S, IsFiniteSet(S), NEW g, NEW h,
           FoldEquation(f, S, g), FoldEquation(f, T, h)
    PROVE  \A s \in SUBSET T : g[s] = h[s]
<1> DEFINE bad == {s \in SUBSET T : g[s] # h[s]}
<1> SUFFICES ASSUME bad # {} PROVE FALSE
  OBVIOUS
<1>1. PICK s \in bad : \A u \in bad : u \subseteq s => u = s
  <2>1. bad \in SUBSET SUBSET S
    OBVIOUS
  <2> HIDE DEF bad
  <2> QED BY <2>1, SmallestSet
<1>2. s # {}
  BY DEF FoldEquation
<1>3. s \ {FirstOf(s)} \in SUBSET T /\ s \ {FirstOf(s)} # s
  BY <1>2, FirstTakenOut
<1>4. g[s \ {FirstOf(s)}] = h[s \ {FirstOf(s)}]
  BY <1>1, <1>3
<1>5. /\ g[s] = f[FirstOf(s)] + g[s \ {FirstOf(s)}]
      /\ h[s] = f[FirstOf(s)] + h[s \ {FirstOf(s)}]
  BY <1>2 DEF FoldEquation
<1> QED BY <1>4, <1>5

\* The equation has a solution, built from those of smaller sets.
LEMMA FoldExists ==
    ASSUME NEW f, NEW S, IsFiniteSet(S)
    PROVE  \E g : FoldEquation(f, S, g)
<1> DEFINE bad == {T \in SUBSET S : ~ \E g : FoldEquation(f, T, g)}
<1> SUFFICES ASSUME bad # {} PROVE FALSE
  OBVIOUS
<1>1. PICK T \in bad : \A u \in bad : u \subseteq T => u = T
  <2>1. bad \in SUBSET SUBSET S
    OBVIOUS
  <2> HIDE DEF bad
  <2> QED BY <2>1, SmallestSet
<1> DEFINE part(r) == CHOOSE g : FoldEquation(f, r, g)
           h == [s \in SUBSET T |->
                    IF s = {} THEN 0
                    ELSE f[FirstOf(s)] + part(s \ {FirstOf(s)})[s \ {FirstOf(s)}]]
<1>2. \A r \in SUBSET T : r # T => FoldEquation(f, r, part(r))
  BY <1>1
<1>3. ASSUME NEW r \in SUBSET T, r # T
      PROVE  part(r)[r] = h[r]
  <2>1. FoldEquation(f, r, part(r)) /\ IsFiniteSet(r)
    BY <1>2, <1>3, FS_Subset
  <2>2. CASE r = {}
    <3>1. part(r)[r] = 0
      BY <2>1, <2>2 DEF FoldEquation
    <3> QED BY <3>1, <2>2
  <2>3. CASE r # {}
    <3> DEFINE q == r \ {FirstOf(r)}
    <3>1. q \in SUBSET r /\ q \in SUBSET T /\ q # T
      BY <1>3, <2>3, FirstTakenOut
    <3>2. FoldEquation(f, q, part(q))
      BY <3>1, <1>2
    <3>3. part(r)[q] = part(q)[q]
      BY <3>1, <3>2, <2>1, FoldUnique
    <3>4. part(r)[r] = f[FirstOf(r)] + part(r)[q]
      BY <2>1, <2>3 DEF FoldEquation
    <3>5. h[r] = f[FirstOf(r)] + part(q)[q]
      BY <2>3
    <3> QED BY <3>3, <3>4, <3>5
  <2> QED BY <2>2, <2>3
<1>4. FoldEquation(f, T, h)
  <2>1. ASSUME NEW s \in SUBSET T, s # {}
        PROVE  h[s] = f[FirstOf(s)] + h[s \ {FirstOf(s)}]
    <3>1. s \ {FirstOf(s)} \in SUBSET T /\ s \ {FirstOf(s)} # T
      BY <2>1, FirstTakenOut
    <3>2. part(s \ {FirstOf(s)})[s \ {FirstOf(s)}] = h[s \ {FirstOf(s)}]
      BY <3>1, <1>3
    <3>3. h[s] = f[FirstOf(s)] + part(s \ {FirstOf(s)})[s \ {FirstOf(s)}]
      BY <2>1
    <3> QED BY <3>2, <3>3
  <2>2. h[{}] = 0
    OBVIOUS
  <2>3. h = [s \in SUBSET T |-> h[s]]
    OBVIOUS
  <2> HIDE DEF h
  <2> QED BY <2>1, <2>2, <2>3 DEF FoldEquation
<1> QED BY <1>1, <1>4

-----------------------------------------------------------------------------
(* Sums.                                                                   *)

\* The sum of nothing, and of a set with its first element taken out.
LEMMA SumEquation ==
    ASSUME NEW f, NEW S, IsFiniteSet(S)
    PROVE  /\ S = {} => SumFunctionOnSet(f, S) = 0
           /\ S # {} => SumFunctionOnSet(f, S)
                          = f[FirstOf(S)] + SumFunctionOnSet(f, S \ {FirstOf(S)})
<1> DEFINE part(r) == CHOOSE g : FoldEquation(f, r, g)
<1>1. \A r \in SUBSET S : FoldEquation(f, r, part(r))
  BY FoldExists, FS_Subset
<1>2. S = {} => part(S)[S] = 0
  BY <1>1 DEF FoldEquation
<1>3. ASSUME S # {}
      PROVE  part(S)[S] = f[FirstOf(S)] + part(S \ {FirstOf(S)})[S \ {FirstOf(S)}]
  <2> DEFINE q == S \ {FirstOf(S)}
  <2>1. q \in SUBSET S /\ q \in SUBSET q
    OBVIOUS
  <2>2. part(S)[q] = part(q)[q]
    BY <2>1, <1>1, FoldUnique
  <2>3. part(S)[S] = f[FirstOf(S)] + part(S)[q]
    <3>1. FoldEquation(f, S, part(S))
      BY <1>1
    <3> HIDE DEF part
    <3> QED BY <3>1, <1>3 DEF FoldEquation
  <2> QED BY <2>2, <2>3
<1> HIDE DEF part
<1>4. \A r : SumFunctionOnSet(f, r) = part(r)[r]
  BY SumIsFold DEF part
<1> QED BY <1>2, <1>3, <1>4

\* A sum of integers is one, of naturals too.
LEMMA SumType ==
    ASSUME NEW f, NEW S, IsFiniteSet(S)
    PROVE  /\ (\A x \in S : f[x] \in Int) => SumFunctionOnSet(f, S) \in Int
           /\ (\A x \in S : f[x] \in Nat) => SumFunctionOnSet(f, S) \in Nat
<1>1. ASSUME NEW N, N \in {Int, Nat}, \A x \in S : f[x] \in N, SumFunctionOnSet(f, S) \notin N
      PROVE  FALSE
  <2> DEFINE bad == {T \in SUBSET S : SumFunctionOnSet(f, T) \notin N}
  <2>1. PICK T \in bad : \A u \in bad : u \subseteq T => u = T
    <3>1. bad \in SUBSET SUBSET S /\ bad # {}
      BY <1>1
    <3> HIDE DEF bad
    <3> QED BY <3>1, SmallestSet
  <2>2. IsFiniteSet(T)
    BY FS_Subset
  <2>3. T # {}
    BY <2>2, <1>1, SumEquation
  <2>4. FirstOf(T) \in T /\ T \ {FirstOf(T)} \in SUBSET S /\ T \ {FirstOf(T)} # T
    BY <2>3, FirstTakenOut
  <2>5. SumFunctionOnSet(f, T \ {FirstOf(T)}) \in N
    BY <2>1, <2>4
  <2>6. SumFunctionOnSet(f, T) = f[FirstOf(T)] + SumFunctionOnSet(f, T \ {FirstOf(T)})
    BY <2>2, <2>3, SumEquation
  <2>7. f[FirstOf(T)] \in N
    BY <2>4, <1>1
  <2> QED BY <2>5, <2>6, <2>7, <1>1
<1> QED BY <1>1

\* Any element may be taken out first.
LEMMA SumRemove ==
    ASSUME NEW f, NEW S, IsFiniteSet(S), \A x \in S : f[x] \in Int, NEW y \in S
    PROVE  SumFunctionOnSet(f, S) = f[y] + SumFunctionOnSet(f, S \ {y})
<1> DEFINE Fits(T) == \A z \in T : SumFunctionOnSet(f, T) = f[z] + SumFunctionOnSet(f, T \ {z})
           bad == {T \in SUBSET S : ~ Fits(T)}
<1> SUFFICES ASSUME bad # {} PROVE FALSE
  OBVIOUS
<1>1. PICK T \in bad : \A u \in bad : u \subseteq T => u = T
  <2>1. bad \in SUBSET SUBSET S
    OBVIOUS
  <2> HIDE DEF bad
  <2> QED BY <2>1, SmallestSet
<1>2. PICK z \in T : SumFunctionOnSet(f, T) # f[z] + SumFunctionOnSet(f, T \ {z})
  OBVIOUS
<1> DEFINE a == FirstOf(T)
<1>3. \A U \in SUBSET S : IsFiniteSet(U) /\ SumFunctionOnSet(f, U) \in Int
  BY FS_Subset, SumType
<1>4. a \in T /\ SumFunctionOnSet(f, T) = f[a] + SumFunctionOnSet(f, T \ {a})
  BY <1>3, FirstTakenOut, SumEquation
<1>5. a # z
  BY <1>2, <1>4
<1>6. Fits(T \ {a}) /\ Fits(T \ {z})
  BY <1>1, <1>4
<1>7. /\ SumFunctionOnSet(f, T \ {a}) = f[z] + SumFunctionOnSet(f, (T \ {a}) \ {z})
      /\ SumFunctionOnSet(f, T \ {z}) = f[a] + SumFunctionOnSet(f, (T \ {z}) \ {a})
  BY <1>4, <1>5, <1>6
<1>8. (T \ {a}) \ {z} = (T \ {z}) \ {a}
  OBVIOUS
<1>9. f[a] \in Int /\ f[z] \in Int /\ SumFunctionOnSet(f, (T \ {z}) \ {a}) \in Int
  BY <1>3, <1>4
<1>10. f[a] + (f[z] + SumFunctionOnSet(f, (T \ {z}) \ {a}))
          = f[z] + (f[a] + SumFunctionOnSet(f, (T \ {z}) \ {a}))
  BY <1>9
<1>11. SumFunctionOnSet(f, T) = f[z] + SumFunctionOnSet(f, T \ {z})
  BY <1>4, <1>7, <1>8, <1>10
<1> QED BY <1>2, <1>11

\* A new element adds its value.
LEMMA SumAdd ==
    ASSUME NEW f, NEW S, IsFiniteSet(S), NEW y, y \notin S, \A x \in S \cup {y} : f[x] \in Int
    PROVE  SumFunctionOnSet(f, S \cup {y}) = f[y] + SumFunctionOnSet(f, S)
<1>1. IsFiniteSet(S \cup {y}) /\ (S \cup {y}) \ {y} = S
  BY FS_AddElement
<1> QED BY <1>1, SumRemove

\* A larger set of naturals has a larger sum.
LEMMA SumMonotone ==
    ASSUME NEW f, NEW S, IsFiniteSet(S), \A x \in S : f[x] \in Nat, NEW T \in SUBSET S
    PROVE  SumFunctionOnSet(f, T) <= SumFunctionOnSet(f, S)
<1> DEFINE Fits(U) == SumFunctionOnSet(f, T) <= SumFunctionOnSet(f, U)
           bad == {U \in SUBSET S : T \subseteq U /\ ~ Fits(U)}
<1> SUFFICES ASSUME bad # {} PROVE FALSE
  OBVIOUS
<1>1. PICK U \in bad : \A v \in bad : v \subseteq U => v = U
  <2>1. bad \in SUBSET SUBSET S
    OBVIOUS
  <2> HIDE DEF bad
  <2> QED BY <2>1, SmallestSet
<1>2. \A V \in SUBSET S : IsFiniteSet(V) /\ SumFunctionOnSet(f, V) \in Nat
  BY FS_Subset, SumType
<1>3. U # T
  BY <1>2
<1>4. PICK y \in U : y \notin T
  BY <1>3
<1>5. Fits(U \ {y})
  BY <1>1, <1>4
<1>6. SumFunctionOnSet(f, U) = f[y] + SumFunctionOnSet(f, U \ {y})
  BY <1>2, SumRemove
<1>7. f[y] \in Nat /\ SumFunctionOnSet(f, U \ {y}) \in Nat /\ SumFunctionOnSet(f, T) \in Nat
  BY <1>2
<1> QED BY <1>5, <1>6, <1>7

-----------------------------------------------------------------------------
(* Chains: from base, op is applied for every element of a set.            *)

Chain(op, base, V, S, g) ==
    /\ g \in [SUBSET S -> V]
    /\ g[{}] = base
    /\ \A s \in SUBSET S : s # {} => g[s] = op[<<FirstOf(s), g[s \ {FirstOf(s)}]>>]

\* Two chains agree where both are defined.
LEMMA ChainUnique ==
    ASSUME NEW op, NEW base, NEW V, NEW S, NEW T \in SUBSET S, IsFiniteSet(S), NEW g, NEW h,
           Chain(op, base, V, S, g), Chain(op, base, V, T, h)
    PROVE  \A s \in SUBSET T : g[s] = h[s]
<1> DEFINE bad == {s \in SUBSET T : g[s] # h[s]}
<1> SUFFICES ASSUME bad # {} PROVE FALSE
  OBVIOUS
<1>1. PICK s \in bad : \A u \in bad : u \subseteq s => u = s
  <2>1. bad \in SUBSET SUBSET S
    OBVIOUS
  <2> HIDE DEF bad
  <2> QED BY <2>1, SmallestSet
<1>2. s # {}
  BY DEF Chain
<1>3. s \ {FirstOf(s)} \in SUBSET T /\ s \ {FirstOf(s)} # s
  BY <1>2, FirstTakenOut
<1>4. g[s \ {FirstOf(s)}] = h[s \ {FirstOf(s)}]
  BY <1>1, <1>3
<1>5. /\ g[s] = op[<<FirstOf(s), g[s \ {FirstOf(s)}]>>]
      /\ h[s] = op[<<FirstOf(s), h[s \ {FirstOf(s)}]>>]
  BY <1>2 DEF Chain
<1> QED BY <1>4, <1>5

\* There is a chain, built from those of smaller sets.
LEMMA ChainExists ==
    ASSUME NEW V, NEW base \in V, NEW S, IsFiniteSet(S), NEW op \in [S \X V -> V]
    PROVE  \E g : Chain(op, base, V, S, g)
<1> DEFINE bad == {T \in SUBSET S : ~ \E g : Chain(op, base, V, T, g)}
<1> SUFFICES ASSUME bad # {} PROVE FALSE
  OBVIOUS
<1>1. PICK T \in bad : \A u \in bad : u \subseteq T => u = T
  <2>1. bad \in SUBSET SUBSET S
    OBVIOUS
  <2> HIDE DEF bad
  <2> QED BY <2>1, SmallestSet
<1> DEFINE part(r) == CHOOSE g : Chain(op, base, V, r, g)
           value(s) == IF s = {} THEN base
                       ELSE op[<<FirstOf(s), part(s \ {FirstOf(s)})[s \ {FirstOf(s)}]>>]
           h == [s \in SUBSET T |-> value(s)]
<1>2. \A r \in SUBSET T : r # T => Chain(op, base, V, r, part(r))
  BY <1>1
<1>3. \A s \in SUBSET T : s # {} =>
         /\ FirstOf(s) \in S /\ s \ {FirstOf(s)} \in SUBSET T /\ s \ {FirstOf(s)} # T
         /\ part(s \ {FirstOf(s)})[s \ {FirstOf(s)}] \in V
  <2> SUFFICES ASSUME NEW s \in SUBSET T, s # {}
               PROVE  /\ FirstOf(s) \in S /\ s \ {FirstOf(s)} \in SUBSET T
                      /\ s \ {FirstOf(s)} # T
                      /\ part(s \ {FirstOf(s)})[s \ {FirstOf(s)}] \in V
    OBVIOUS
  <2> DEFINE q == s \ {FirstOf(s)}
  <2>1. FirstOf(s) \in s /\ q \in SUBSET T /\ q # T
    BY FirstTakenOut
  <2>2. Chain(op, base, V, q, part(q))
    BY <1>2, <2>1
  <2> HIDE DEF part
  <2>3. part(q)[q] \in V
    BY <2>2 DEF Chain
  <2> QED BY <2>1, <2>3
<1>4. ASSUME NEW r \in SUBSET T, r # T
      PROVE  part(r)[r] = h[r]
  <2>1. Chain(op, base, V, r, part(r)) /\ IsFiniteSet(r)
    BY <1>2, <1>4, FS_Subset
  <2>2. CASE r = {}
    <3>1. part(r)[r] = base
      BY <2>1, <2>2 DEF Chain
    <3> QED BY <3>1, <2>2
  <2>3. CASE r # {}
    <3> DEFINE q == r \ {FirstOf(r)}
    <3>1. q \in SUBSET r /\ q \in SUBSET T /\ q # T
      BY <1>4, <2>3, FirstTakenOut
    <3>2. Chain(op, base, V, q, part(q))
      BY <3>1, <1>2
    <3>3. part(r)[q] = part(q)[q]
      BY <3>1, <3>2, <2>1, ChainUnique
    <3>4. part(r)[r] = op[<<FirstOf(r), part(r)[q]>>]
      BY <2>1, <2>3 DEF Chain
    <3>5. h[r] = op[<<FirstOf(r), part(q)[q]>>]
      BY <2>3
    <3> QED BY <3>3, <3>4, <3>5
  <2> QED BY <2>2, <2>3
<1>5. Chain(op, base, V, T, h)
  <2>1. ASSUME NEW s \in SUBSET T, s # {}
        PROVE  h[s] = op[<<FirstOf(s), h[s \ {FirstOf(s)}]>>]
    <3>1. part(s \ {FirstOf(s)})[s \ {FirstOf(s)}] = h[s \ {FirstOf(s)}]
      BY <1>3, <1>4, <2>1
    <3>2. h[s] = op[<<FirstOf(s), part(s \ {FirstOf(s)})[s \ {FirstOf(s)}]>>]
      BY <2>1
    <3> QED BY <3>1, <3>2
  <2>2. h[{}] = base
    OBVIOUS
  <2>3. ASSUME NEW s \in SUBSET T PROVE value(s) \in V
    <3>1. CASE s = {}
      BY <3>1
    <3>2. CASE s # {}
      <4>1. FirstOf(s) \in S /\ part(s \ {FirstOf(s)})[s \ {FirstOf(s)}] \in V
        BY <1>3, <3>2
      <4> HIDE DEF part
      <4> QED BY <3>2, <4>1
    <3> QED BY <3>1, <3>2
  <2>4. h \in [SUBSET T -> V]
    <3> HIDE DEF value
    <3> QED BY <2>3
  <2> HIDE DEF h
  <2> QED BY <2>1, <2>2, <2>4 DEF Chain
<1> QED BY <1>1, <1>5
=============================================================================
