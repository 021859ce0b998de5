----------------------------- MODULE SumTheorems ------------------------------
(***************************************************************************)
(* Facts about SumFunctionOnSet and about the largest and smallest element *)
(* of a finite set of integers.  A fold over a set is a recursive function *)
(* behind a CHOOSE: its facts are proved by looking at a smallest set for  *)
(* which they fail.                                                        *)
(***************************************************************************)
EXTENDS FiniteSetsExt, FiniteSetTheorems, TLAPS

\* The element that the fold takes from a set next.
Pick(s) == CHOOSE x \in s : TRUE

\* g adds up f over every subset of T, one element after the other.
Adds(f, g, T) ==
    g = [s \in SUBSET T |-> IF s = {} THEN 0 ELSE f[Pick(s)] + g[s \ {Pick(s)}]]

Adder(f, T) == CHOOSE g : Adds(f, g, T)

\* The definition of the sum, in these terms.
LEMMA SumIsAdder ==
  ASSUME NEW f, NEW S
  PROVE  SumFunctionOnSet(f, S) = Adder(f, S)[S]
BY DEF SumFunctionOnSet, FoldFunctionOnSet, MapThenFoldSet, Adder, Adds, Pick

\* The finite induction that the proofs below use: among the sets of a
\* non-empty collection of subsets of S, one contains no other.
LEMMA MinSubset ==
  ASSUME NEW S, IsFiniteSet(S), NEW B \in SUBSET SUBSET S, B # {}
  PROVE  \E T \in B : \A U \in B : ~(U \subseteq T /\ U # T)
<1>1. IsWellFoundedOn(StrictSubsetOrdering(S), SUBSET S)
  BY FS_FiniteSubsetsOfFinite, FS_StrictSubsetOrderingWellFounded
<1>2. \E T \in B : \A U \in B : ~(<<U, T>> \in StrictSubsetOrdering(S))
  BY <1>1, WFMin
<1> QED BY <1>2 DEF StrictSubsetOrdering

\* The fold takes its elements from the set.
LEMMA PickIn == ASSUME NEW s, s # {} PROVE Pick(s) \in s
BY DEF Pick

\* Two folds of the same function agree on the sets that both know.
LEMMA AddsAgree ==
  ASSUME NEW U, IsFiniteSet(U), NEW T \in SUBSET U, NEW f,
         NEW g, NEW h, Adds(f, g, T), Adds(f, h, U), NEW v \in SUBSET T
  PROVE  g[v] = h[v]
<1> DEFINE B == {s \in SUBSET T : g[s] # h[s]}
<1> SUFFICES ASSUME B # {} PROVE FALSE
  OBVIOUS
<1>1. PICK s \in B : \A u \in B : ~(u \subseteq s /\ u # s)
  <2>1. IsFiniteSet(T) /\ B \in SUBSET SUBSET T
    BY FS_Subset
  <2> HIDE DEF B
  <2> QED BY <2>1, MinSubset
<1>2. CASE s = {}
  BY <1>2 DEF Adds
<1>3. CASE s # {}
  <2>1. Pick(s) \in s /\ s \ {Pick(s)} \in SUBSET T /\ s \in SUBSET T /\ s \in SUBSET U
    BY <1>3, PickIn
  <2>2. g[s \ {Pick(s)}] = h[s \ {Pick(s)}]
    BY <1>1, <2>1
  <2>3. g[s] = f[Pick(s)] + g[s \ {Pick(s)}]
    BY <1>3, <2>1 DEF Adds
  <2>4. h[s] = f[Pick(s)] + h[s \ {Pick(s)}]
    BY <1>3, <2>1 DEF Adds
  <2> QED BY <2>2, <2>3, <2>4
<1> QED BY <1>2, <1>3

\* The recursion that defines the fold has a solution.
LEMMA AdderExists ==
  ASSUME NEW S, IsFiniteSet(S), NEW f
  PROVE  Adds(f, Adder(f, S), S)
<1> DEFINE B == {s \in SUBSET S : ~Adds(f, Adder(f, s), s)}
<1> SUFFICES ASSUME B # {} PROVE FALSE
  OBVIOUS
<1>1. PICK T \in B : \A u \in B : ~(u \subseteq T /\ u # T)
  <2>1. B \in SUBSET SUBSET S
    OBVIOUS
  <2> HIDE DEF B
  <2> QED BY <2>1, MinSubset
<1>2. \A u \in SUBSET T : u # T => Adds(f, Adder(f, u), u)
  BY <1>1
<1> DEFINE h == [s \in SUBSET T |-> IF s = {} THEN 0
                    ELSE f[Pick(s)] + Adder(f, s \ {Pick(s)})[s \ {Pick(s)}]]
<1>3. ASSUME NEW u \in SUBSET T, u # T PROVE h[u] = Adder(f, u)[u]
  <2>1. Adds(f, Adder(f, u), u)
    BY <1>2, <1>3
  <2>2. CASE u = {}
    BY <2>1, <2>2 DEF Adds
  <2>3. CASE u # {}
    <3> DEFINE w == u \ {Pick(u)}
    <3>1. Pick(u) \in u /\ w \in SUBSET u /\ w \in SUBSET T /\ w # T
      BY <2>3, PickIn
    <3>2. Adds(f, Adder(f, w), w)
      BY <1>2, <3>1
    <3>3. Adder(f, w)[w] = Adder(f, u)[w]
      <4>1. IsFiniteSet(u)
        BY FS_Subset
      <4> QED BY <2>1, <3>1, <3>2, <4>1, AddsAgree
    <3>4. Adder(f, u)[u] = f[Pick(u)] + Adder(f, u)[w]
      BY <2>1, <2>3 DEF Adds
    <3> QED BY <2>3, <3>3, <3>4
  <2> QED BY <2>2, <2>3
<1>4. Adds(f, h, T)
  <2>1. ASSUME NEW s \in SUBSET T, s # {}
        PROVE  h[s] = f[Pick(s)] + h[s \ {Pick(s)}]
    <3>1. Pick(s) \in s /\ s \ {Pick(s)} \in SUBSET T /\ s \ {Pick(s)} # T
      BY <2>1, PickIn
    <3>2. h[s \ {Pick(s)}] = Adder(f, s \ {Pick(s)})[s \ {Pick(s)}]
      BY <1>3, <3>1
    <3> QED BY <2>1, <3>2
  <2>2. h[{}] = 0
    OBVIOUS
  <2> HIDE DEF h
  <2>3. h = [s \in SUBSET T |-> h[s]]
    BY DEF h
  <2> QED BY <2>1, <2>2, <2>3 DEF Adds
<1>5. Adds(f, Adder(f, T), T)
  BY <1>4 DEF Adder
<1> QED BY <1>1, <1>5

\* The sum of no values.
LEMMA SumEmpty == ASSUME NEW f PROVE SumFunctionOnSet(f, {}) = 0
<1>1. Adds(f, Adder(f, {}), {})
  BY AdderExists, FS_EmptySet
<1> QED BY <1>1, SumIsAdder DEF Adds

\* The sum unfolds once.
LEMMA SumUnfolds ==
  ASSUME NEW S, IsFiniteSet(S), S # {}, NEW f
  PROVE  /\ Pick(S) \in S
         /\ SumFunctionOnSet(f, S) = f[Pick(S)] + SumFunctionOnSet(f, S \ {Pick(S)})
<1> DEFINE w == S \ {Pick(S)}
<1>1. Pick(S) \in S /\ w \in SUBSET S /\ IsFiniteSet(w)
  BY PickIn, FS_Subset
<1>2. Adds(f, Adder(f, S), S) /\ Adds(f, Adder(f, w), w)
  BY <1>1, AdderExists
<1>3. Adder(f, w)[w] = Adder(f, S)[w]
  BY <1>1, <1>2, AddsAgree
<1>4. Adder(f, S)[S] = f[Pick(S)] + Adder(f, S)[w]
  BY <1>2 DEF Adds
<1> QED BY <1>1, <1>3, <1>4, SumIsAdder

\* A sum of integers is an integer, one of natural numbers a natural number.
LEMMA SumType ==
  ASSUME NEW S, IsFiniteSet(S), NEW f
  PROVE  /\ (\A x \in S : f[x] \in Int) => SumFunctionOnSet(f, S) \in Int
         /\ (\A x \in S : f[x] \in Nat) => SumFunctionOnSet(f, S) \in Nat
<1>1. ASSUME NEW N \in {Int, Nat}, \A x \in S : f[x] \in N
      PROVE  SumFunctionOnSet(f, S) \in N
  <2> DEFINE B == {s \in SUBSET S : SumFunctionOnSet(f, s) \notin N}
  <2> SUFFICES ASSUME B # {} PROVE FALSE
    OBVIOUS
  <2>1. PICK s \in B : \A u \in B : ~(u \subseteq s /\ u # s)
    <3>1. B \in SUBSET SUBSET S
      OBVIOUS
    <3> HIDE DEF B
    <3> QED BY <3>1, MinSubset
  <2>2. IsFiniteSet(s) /\ s \subseteq S
    BY FS_Subset
  <2>3. s # {}
    BY SumEmpty
  <2> DEFINE w == s \ {Pick(s)}
  <2>4. /\ Pick(s) \in s
        /\ SumFunctionOnSet(f, s) = f[Pick(s)] + SumFunctionOnSet(f, w)
    BY <2>2, <2>3, SumUnfolds
  <2>5. SumFunctionOnSet(f, w) \in N
    BY <2>1, <2>2, <2>4
  <2>6. f[Pick(s)] \in N
    BY <1>1, <2>2, <2>4
  <2> QED BY <2>1, <2>4, <2>5, <2>6
<1> QED BY <1>1

\* A function that is 0 everywhere adds up to 0.
LEMMA SumZero ==
  ASSUME NEW S, IsFiniteSet(S), NEW f, \A x \in S : f[x] = 0
  PROVE  SumFunctionOnSet(f, S) = 0
<1> DEFINE B == {s \in SUBSET S : SumFunctionOnSet(f, s) # 0}
<1> SUFFICES ASSUME B # {} PROVE FALSE
  OBVIOUS
<1>1. PICK s \in B : \A u \in B : ~(u \subseteq s /\ u # s)
  <2>1. B \in SUBSET SUBSET S
    OBVIOUS
  <2> HIDE DEF B
  <2> QED BY <2>1, MinSubset
<1>2. IsFiniteSet(s) /\ s \subseteq S
  BY FS_Subset
<1>3. s # {}
  BY SumEmpty
<1> DEFINE w == s \ {Pick(s)}
<1>4. /\ Pick(s) \in s
      /\ SumFunctionOnSet(f, s) = f[Pick(s)] + SumFunctionOnSet(f, w)
  BY <1>2, <1>3, SumUnfolds
<1>5. SumFunctionOnSet(f, w) = 0
  BY <1>1, <1>2, <1>4
<1> QED BY <1>1, <1>2, <1>4, <1>5

\* Functions that agree on the set have the same sum.
LEMMA SumSame ==
  ASSUME NEW S, IsFiniteSet(S), NEW f, NEW g, \A x \in S : f[x] = g[x]
  PROVE  SumFunctionOnSet(f, S) = SumFunctionOnSet(g, S)
<1> DEFINE B == {s \in SUBSET S : SumFunctionOnSet(f, s) # SumFunctionOnSet(g, s)}
<1> SUFFICES ASSUME B # {} PROVE FALSE
  OBVIOUS
<1>1. PICK s \in B : \A u \in B : ~(u \subseteq s /\ u # s)
  <2>1. B \in SUBSET SUBSET S
    OBVIOUS
  <2> HIDE DEF B
  <2> QED BY <2>1, MinSubset
<1>2. IsFiniteSet(s) /\ s \subseteq S
  BY FS_Subset
<1>3. s # {}
  BY SumEmpty
<1> DEFINE w == s \ {Pick(s)}
<1>4. /\ Pick(s) \in s
      /\ SumFunctionOnSet(f, s) = f[Pick(s)] + SumFunctionOnSet(f, w)
      /\ SumFunctionOnSet(g, s) = g[Pick(s)] + SumFunctionOnSet(g, w)
  BY <1>2, <1>3, SumUnfolds
<1>5. SumFunctionOnSet(f, w) = SumFunctionOnSet(g, w)
  BY <1>1, <1>2, <1>4
<1> QED BY <1>1, <1>2, <1>4, <1>5

\* The order does not matter: any element may be taken out first.
LEMMA SumAny ==
  ASSUME NEW S, IsFiniteSet(S), NEW f, \A x \in S : f[x] \in Int, NEW y \in S
  PROVE  SumFunctionOnSet(f, S) = f[y] + SumFunctionOnSet(f, S \ {y})
<1> DEFINE Fails(s) == \E z \in s :
             SumFunctionOnSet(f, s) # f[z] + SumFunctionOnSet(f, s \ {z})
           B == {s \in SUBSET S : Fails(s)}
<1> SUFFICES ASSUME B # {} PROVE FALSE
  OBVIOUS
<1>1. PICK s \in B : \A u \in B : ~(u \subseteq s /\ u # s)
  <2>1. B \in SUBSET SUBSET S
    OBVIOUS
  <2> HIDE DEF B
  <2> QED BY <2>1, MinSubset
<1>2. PICK z \in s : SumFunctionOnSet(f, s) # f[z] + SumFunctionOnSet(f, s \ {z})
  OBVIOUS
<1> DEFINE p == Pick(s)
<1>3. /\ IsFiniteSet(s) /\ s \subseteq S
      /\ IsFiniteSet(s \ {z})
      /\ IsFiniteSet((s \ {z}) \ {p})
  BY FS_Subset
<1>4. p \in s /\ SumFunctionOnSet(f, s) = f[p] + SumFunctionOnSet(f, s \ {p})
  BY <1>2, <1>3, SumUnfolds
<1>5. p # z
  BY <1>2, <1>4
<1>6. SumFunctionOnSet(f, s \ {p}) = f[z] + SumFunctionOnSet(f, (s \ {p}) \ {z})
  BY <1>1, <1>3, <1>4, <1>5
<1>7. SumFunctionOnSet(f, s \ {z}) = f[p] + SumFunctionOnSet(f, (s \ {z}) \ {p})
  BY <1>1, <1>3, <1>4, <1>5
<1>8. (s \ {p}) \ {z} = (s \ {z}) \ {p}
  OBVIOUS
<1>9. f[p] \in Int /\ f[z] \in Int /\ SumFunctionOnSet(f, (s \ {z}) \ {p}) \in Int
  BY <1>3, <1>4, SumType
<1> HIDE DEF p
<1>10. f[p] + (f[z] + SumFunctionOnSet(f, (s \ {z}) \ {p}))
       = f[z] + (f[p] + SumFunctionOnSet(f, (s \ {z}) \ {p}))
  BY <1>9
<1> QED BY <1>2, <1>4, <1>6, <1>7, <1>8, <1>10

\* Changing the function at one point changes the sum by the difference.
LEMMA SumChange ==
  ASSUME NEW S, IsFiniteSet(S), NEW f, NEW g, NEW y \in S,
         \A x \in S : f[x] \in Int /\ g[x] \in Int,
         \A x \in S \ {y} : g[x] = f[x]
  PROVE  SumFunctionOnSet(g, S) = SumFunctionOnSet(f, S) - f[y] + g[y]
<1>1. IsFiniteSet(S \ {y})
  BY FS_Subset
<1>2. SumFunctionOnSet(f, S \ {y}) = SumFunctionOnSet(g, S \ {y})
  BY <1>1, SumSame
<1>3. SumFunctionOnSet(f, S \ {y}) \in Int
  BY <1>1, SumType
<1>4. /\ SumFunctionOnSet(f, S) = f[y] + SumFunctionOnSet(f, S \ {y})
      /\ SumFunctionOnSet(g, S) = g[y] + SumFunctionOnSet(g, S \ {y})
  BY SumAny
<1> QED BY <1>2, <1>3, <1>4

\* A sum grows with the function.
LEMMA SumMonotone ==
  ASSUME NEW S, IsFiniteSet(S), NEW f, NEW g,
         \A x \in S : f[x] \in Int /\ g[x] \in Int /\ f[x] <= g[x]
  PROVE  SumFunctionOnSet(f, S) <= SumFunctionOnSet(g, S)
<1> DEFINE B == {s \in SUBSET S : ~(SumFunctionOnSet(f, s) <= SumFunctionOnSet(g, s))}
<1> SUFFICES ASSUME B # {} PROVE FALSE
  OBVIOUS
<1>1. PICK s \in B : \A u \in B : ~(u \subseteq s /\ u # s)
  <2>1. B \in SUBSET SUBSET S
    OBVIOUS
  <2> HIDE DEF B
  <2> QED BY <2>1, MinSubset
<1>2. IsFiniteSet(s) /\ s \subseteq S
  BY FS_Subset
<1>3. s # {}
  BY SumEmpty
<1> DEFINE p == Pick(s)
           w == s \ {p}
<1>4. /\ p \in s
      /\ SumFunctionOnSet(f, s) = f[p] + SumFunctionOnSet(f, w)
      /\ SumFunctionOnSet(g, s) = g[p] + SumFunctionOnSet(g, w)
  BY <1>2, <1>3, SumUnfolds
<1>5. SumFunctionOnSet(f, w) <= SumFunctionOnSet(g, w)
  BY <1>1, <1>2, <1>4
<1>6. /\ f[p] \in Int /\ g[p] \in Int /\ f[p] <= g[p]
      /\ SumFunctionOnSet(f, w) \in Int /\ SumFunctionOnSet(g, w) \in Int
  <2>1. IsFiniteSet(w) /\ w \subseteq S
    BY <1>2, FS_Subset
  <2> QED BY <1>2, <1>4, <2>1, SumType
<1> HIDE DEF p, w
<1> QED BY <1>1, <1>4, <1>5, <1>6

\* The image of a finite set is finite.
LEMMA FiniteImage ==
  ASSUME NEW S, IsFiniteSet(S), NEW f
  PROVE  IsFiniteSet({f[x] : x \in S})
<1> DEFINE T == {f[x] : x \in S}
           g == [x \in S |-> f[x]]
<1>1. g \in Surjection(S, T)
  BY DEF Surjection
<1> HIDE DEF g, T
<1>2. IsFiniteSet(T)
  BY <1>1, FS_Surjection
<1> QED BY <1>2 DEF T

\* Sets that the elements of a finite set are mapped to: one of them contains
\* no other.
LEMMA LeastImage ==
  ASSUME NEW S, IsFiniteSet(S), S # {}, NEW g \in [S -> SUBSET S]
  PROVE  \E m \in S : \A x \in S : ~(g[x] \subseteq g[m] /\ g[x] # g[m])
<1> DEFINE B == {g[x] : x \in S}
<1>1. B \in SUBSET SUBSET S
  OBVIOUS
<1>2. B # {}
  OBVIOUS
<1>3. \E T \in B : \A U \in B : ~(U \subseteq T /\ U # T)
  <2> HIDE DEF B
  <2> QED BY <1>1, <1>2, MinSubset
<1> QED BY <1>3

\* A finite, non-empty set of integers has a largest and a smallest element,
\* and Max and Min return them.
LEMMA MaxMinFacts ==
  ASSUME NEW S, IsFiniteSet(S), S # {}, \A x \in S : x \in Int
  PROVE  /\ Max(S) \in S /\ \A x \in S : x <= Max(S)
         /\ Min(S) \in S /\ \A x \in S : Min(S) <= x
<1>1. \E m \in S : \A x \in S : m >= x
  <2> DEFINE g == [x \in S |-> {y \in S : y >= x}]
  <2>1. g \in [S -> SUBSET S]
    OBVIOUS
  <2>2. \E m \in S : \A x \in S : ~(g[x] \subseteq g[m] /\ g[x] # g[m])
    <3> HIDE DEF g
    <3> QED BY <2>1, LeastImage
  <2>3. PICK m \in S : \A x \in S : ~(g[x] \subseteq g[m] /\ g[x] # g[m])
    BY <2>2
  <2>4. ASSUME NEW x \in S, ~(m >= x) PROVE FALSE
    <3>1. ASSUME NEW y \in S, y >= x PROVE y >= m
      <4>1. x \in Int /\ y \in Int /\ m \in Int
        OBVIOUS
      <4> QED BY <2>4, <3>1, <4>1
    <3>2. m >= m /\ ~(m >= x)
      <4>1. x \in Int /\ m \in Int
        OBVIOUS
      <4> QED BY <2>4, <4>1
    <3> QED BY <2>3, <3>1, <3>2
  <2> QED BY <2>4
<1>2. \E m \in S : \A x \in S : m <= x
  <2> DEFINE g == [x \in S |-> {y \in S : y <= x}]
  <2>1. g \in [S -> SUBSET S]
    OBVIOUS
  <2>2. \E m \in S : \A x \in S : ~(g[x] \subseteq g[m] /\ g[x] # g[m])
    <3> HIDE DEF g
    <3> QED BY <2>1, LeastImage
  <2>3. PICK m \in S : \A x \in S : ~(g[x] \subseteq g[m] /\ g[x] # g[m])
    BY <2>2
  <2>4. ASSUME NEW x \in S, ~(m <= x) PROVE FALSE
    <3>1. ASSUME NEW y \in S, y <= x PROVE y <= m
      <4>1. x \in Int /\ y \in Int /\ m \in Int
        OBVIOUS
      <4> QED BY <2>4, <3>1, <4>1
    <3>2. m <= m /\ ~(m <= x)
      <4>1. x \in Int /\ m \in Int
        OBVIOUS
      <4> QED BY <2>4, <4>1
    <3> QED BY <2>3, <3>1, <3>2
  <2> QED BY <2>4
<1>3. Max(S) \in S /\ \A x \in S : Max(S) >= x
  BY <1>1 DEF Max
<1>4. Min(S) \in S /\ \A x \in S : Min(S) <= x
  BY <1>2 DEF Min
<1>5. \A x \in S : x <= Max(S)
  BY <1>3
<1> QED BY <1>3, <1>4, <1>5

\* The largest and the smallest element after one more is added.
LEMMA MaxMinAdd ==
  ASSUME NEW S, IsFiniteSet(S), S # {}, \A x \in S : x \in Int, NEW r \in Int
  PROVE  /\ Max(S \cup {r}) = IF Max(S) < r THEN r ELSE Max(S)
         /\ Min(S \cup {r}) = IF r < Min(S) THEN r ELSE Min(S)
<1> DEFINE T == S \cup {r}
<1>1. IsFiniteSet(T) /\ T # {} /\ r \in T /\ (\A x \in S : x \in T)
      /\ (\A x \in T : x \in S \/ x = r)
  BY FS_AddElement
<1>2. \A x \in T : x \in Int
  OBVIOUS
<1> HIDE DEF T
<1>3. /\ Max(T) \in T /\ \A x \in T : x <= Max(T)
      /\ Min(T) \in T /\ \A x \in T : Min(T) <= x
  BY <1>1, <1>2, MaxMinFacts
<1>4. /\ Max(S) \in S /\ \A x \in S : x <= Max(S)
      /\ Min(S) \in S /\ \A x \in S : Min(S) <= x
  BY MaxMinFacts
<1>5. Max(T) \in Int /\ Min(T) \in Int /\ Max(S) \in Int /\ Min(S) \in Int
  BY <1>2, <1>3, <1>4
<1>6. Max(T) = IF Max(S) < r THEN r ELSE Max(S)
  <2>1. Max(T) = r \/ Max(T) <= Max(S)
    BY <1>1, <1>3, <1>4
  <2>2. r <= Max(T) /\ Max(S) <= Max(T)
    BY <1>1, <1>3, <1>4
  <2> QED BY <1>5, <2>1, <2>2
<1>7. Min(T) = IF r < Min(S) THEN r ELSE Min(S)
  <2>1. Min(T) = r \/ Min(S) <= Min(T)
    BY <1>1, <1>3, <1>4
  <2>2. Min(T) <= r /\ Min(T) <= Min(S)
    BY <1>1, <1>3, <1>4
  <2> QED BY <1>5, <2>1, <2>2
<1> QED BY <1>6, <1>7 DEF T

\* The only element of a set is its largest and its smallest.
LEMMA MaxMinSingle ==
  ASSUME NEW r \in Int
  PROVE  Max({r}) = r /\ Min({r}) = r
<1>1. IsFiniteSet({r}) /\ {r} # {} /\ \A x \in {r} : x \in Int
  BY FS_Singleton
<1>2. Max({r}) \in {r} /\ Min({r}) \in {r}
  BY <1>1, MaxMinFacts
<1> QED BY <1>2

\* The function g continues f, given on S, to one more element.
Grows(f, g, S, y) ==
    y \notin S /\ g[y] \in Int /\ \A x \in S : f[x] \in Int /\ g[x] = f[x]

\* The sum of a function over a set that grows by one element.
LEMMA SumAdd ==
  ASSUME NEW S, IsFiniteSet(S), NEW y, NEW f, NEW g, Grows(f, g, S, y)
  PROVE  SumFunctionOnSet(g, S \cup {y}) = SumFunctionOnSet(f, S) + g[y]
<1> USE DEF Grows
<1> DEFINE T == S \cup {y}
<1>1. IsFiniteSet(T) /\ y \in T /\ T \ {y} = S
  BY FS_AddElement
<1>2. \A x \in T : g[x] \in Int
  OBVIOUS
<1> HIDE DEF T
<1>3. SumFunctionOnSet(g, T) = g[y] + SumFunctionOnSet(g, S)
  BY <1>1, <1>2, SumAny
<1>4. SumFunctionOnSet(g, S) = SumFunctionOnSet(f, S)
  BY SumSame
<1>5. SumFunctionOnSet(f, S) \in Int
  BY SumType
<1> QED BY <1>3, <1>4, <1>5 DEF T

\* What division rounds down to is no less than a factor of less.
LEMMA DivBound ==
  ASSUME NEW s \in Int, NEW c \in Nat \ {0}, NEW m \in Int, c * m <= s
  PROVE  s \div c \in Int /\ s \div c >= m
<1> DEFINE q == s \div c
<1>1. q \in Int /\ s < c * (q + 1)
  OBVIOUS
<1> HIDE DEF q
<1>2. c * m < c * (q + 1) /\ c * m \in Int /\ c * (q + 1) \in Int
  BY <1>1
<1>3. m < q + 1
  BY <1>1, <1>2
<1> QED BY <1>1, <1>3 DEF q
=============================================================================
