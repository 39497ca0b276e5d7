------------------------------ MODULE SumProofs ------------------------------
(***************************************************************************)
(* Sums of a function over a finite set, as MapThenSumSet computes them:   *)
(* the weights of the voters, the amounts of a journal and the balances of *)
(* the accounts are such sums.                                             *)
(***************************************************************************)
EXTENDS Integers, FiniteSetsExt, FiniteSetTheorems, WellFoundedInduction, TLAPS

Total(f, S) == MapThenSumSet(LAMBDA x : f[x], S)

-----------------------------------------------------------------------------
(* Total is defined by recursion over a set, from which CHOOSE takes one    *)
(* element after the other.  Induction is by minimal counterexample: of     *)
(* the subsets of a finite set that are bad, one has no bad proper subset.  *)

LEMMA SmallestBad ==
    ASSUME NEW S, IsFiniteSet(S), NEW Bad, Bad \subseteq SUBSET S, Bad # {}
    PROVE  \E T \in Bad : \A U \in Bad : U \subseteq T => U = T
<1> DEFINE R == StrictSubsetOrdering(S)
<1>1. IsWellFoundedOn(R, SUBSET S)
  BY FS_StrictSubsetOrderingWellFounded, FS_FiniteSubsetsOfFinite
<1> HIDE DEF R
<1>2. PICK T \in Bad : \A U \in Bad : ~ (<<U, T>> \in R)
  BY <1>1, WFMin
<1>3. ASSUME NEW U \in Bad, U \subseteq T
      PROVE  U = T
  <2>1. U \in SUBSET S /\ T \in SUBSET S /\ <<U, T>> \notin R
    BY <1>2
  <2> QED  BY <1>3, <2>1 DEF R, StrictSubsetOrdering
<1> QED  BY <1>2, <1>3

\* The element the sum over s takes first.
First(s) == CHOOSE x \in s : TRUE

\* g gives every subset of S its sum.
Sums(g, f, S) ==
    g = [s \in SUBSET S |-> IF s = {} THEN 0
                            ELSE f[First(s)] + g[s \ {First(s)}]]

SumOf(f, S) == CHOOSE g : Sums(g, f, S)

LEMMA TotalIsSum ==
    ASSUME NEW f, NEW S
    PROVE  Total(f, S) = SumOf(f, S)[S]
BY DEF Total, MapThenSumSet, MapThenFoldSet, SumOf, Sums, First

LEMMA FirstIsMember ==
    ASSUME NEW s, s # {}
    PROVE  First(s) \in s
BY DEF First

\* The equation of the sums, at one set.
LEMMA SumsAt ==
    ASSUME NEW f, NEW S, NEW g, Sums(g, f, S), NEW s \in SUBSET S
    PROVE  g[s] = IF s = {} THEN 0 ELSE f[First(s)] + g[s \ {First(s)}]
BY DEF Sums

\* Two such functions, over one set or over two, agree where both are defined.
LEMMA SumsUnique ==
    ASSUME NEW f, NEW S, NEW T, NEW g, NEW h, Sums(g, f, S), Sums(h, f, T),
           NEW U, IsFiniteSet(U), U \subseteq S, U \subseteq T
    PROVE  g[U] = h[U]
<1> DEFINE Bad == {s \in SUBSET U : g[s] # h[s]}
<1> SUFFICES ASSUME U \in Bad PROVE FALSE
  OBVIOUS
<1>1. PICK s \in Bad : \A t \in Bad : t \subseteq s => t = s
  <2>1. Bad # {} /\ Bad \subseteq SUBSET U
    OBVIOUS
  <2> HIDE DEF Bad
  <2> QED  BY <2>1, SmallestBad
<1>2. s \in SUBSET S /\ s \in SUBSET T /\ g[s] # h[s]
  OBVIOUS
<1>3. s # {}
  BY <1>2, SumsAt
<1> DEFINE x == First(s)
           t == s \ {x}
<1>4. x \in s
  BY <1>3, FirstIsMember
<1>5. /\ g[s] = f[x] + g[t]
      /\ h[s] = f[x] + h[t]
  <2>1. g[s] = IF s = {} THEN 0 ELSE f[First(s)] + g[s \ {First(s)}]
    BY <1>2, SumsAt
  <2>2. h[s] = IF s = {} THEN 0 ELSE f[First(s)] + h[s \ {First(s)}]
    BY <1>2, SumsAt
  <2> QED  BY <1>3, <2>1, <2>2
<1>6. t \subseteq s /\ t # s /\ t \in SUBSET U
  BY <1>4
<1>7. t \notin Bad
  BY <1>1, <1>6
<1>8. g[t] = h[t]
  BY <1>6, <1>7
<1> QED  BY <1>2, <1>5, <1>8

\* A function that satisfies the equation everywhere is one of them.
LEMMA SumsBuilt ==
    ASSUME NEW f, NEW S, NEW g,
           g = [s \in SUBSET S |-> g[s]],
           \A s \in SUBSET S :
               g[s] = IF s = {} THEN 0 ELSE f[First(s)] + g[s \ {First(s)}]
    PROVE  Sums(g, f, S)
BY DEF Sums

LEMMA SumsExist ==
    ASSUME NEW f, NEW S, IsFiniteSet(S)
    PROVE  \E g : Sums(g, f, S)
<1> DEFINE Bad == {s \in SUBSET S : ~ \E g : Sums(g, f, s)}
<1> SUFFICES ASSUME S \in Bad PROVE FALSE
  OBVIOUS
<1>1. PICK T \in Bad : \A t \in Bad : t \subseteq T => t = T
  <2>1. Bad # {} /\ Bad \subseteq SUBSET S
    OBVIOUS
  <2> HIDE DEF Bad
  <2> QED  BY <2>1, SmallestBad
<1>2. T \in SUBSET S /\ ~ \E g : Sums(g, f, T)
  OBVIOUS
<1>3. \A t \in SUBSET T : t # T => Sums(SumOf(f, t), f, t)
  <2> SUFFICES ASSUME NEW t \in SUBSET T, t # T
               PROVE  \E g : Sums(g, f, t)
    BY DEF SumOf
  <2> QED  BY <1>1, <1>2
<1> HIDE DEF Bad
\* The value at a proper subset is its own sum, at T what the equation asks.
<1> DEFINE Below(t) == SumOf(f, t)[t]
           x == First(T)
           top == IF T = {} THEN 0 ELSE f[x] + Below(T \ {x})
           g == [t \in SUBSET T |-> IF t = T THEN top ELSE Below(t)]
<1>4. \A t \in SUBSET T : g[t] = IF t = T THEN top ELSE Below(t)
  OBVIOUS
<1>5. ASSUME NEW t \in SUBSET T
      PROVE  g[t] = IF t = {} THEN 0 ELSE f[First(t)] + g[t \ {First(t)}]
  <2> DEFINE y == First(t)
             u == t \ {y}
  <2>1. t # {} => y \in t
    BY FirstIsMember
  <2>2. t # {} => u \in SUBSET T /\ u # T
    BY <2>1
  <2>3. t # {} => g[u] = Below(u)
    BY <1>4, <2>2
  <2>4. CASE t = T
    <3>1. g[t] = top
      BY <1>4, <2>4
    <3> QED  BY <2>3, <2>4, <3>1
  <2>5. CASE t # T
    <3>1. Sums(SumOf(f, t), f, t)
      BY <1>3, <2>5
    <3>2. g[t] = Below(t)
      BY <1>4, <2>5
    <3>3. Below(t) = IF t = {} THEN 0 ELSE f[y] + SumOf(f, t)[u]
      BY <3>1, SumsAt
    <3>4. t # {} => SumOf(f, t)[u] = Below(u)
      <4> SUFFICES ASSUME t # {} PROVE SumOf(f, t)[u] = Below(u)
        OBVIOUS
      <4>1. u \subseteq t /\ IsFiniteSet(u) /\ Sums(SumOf(f, u), f, u)
        BY <1>2, <1>3, <2>2, FS_Subset
      <4> HIDE DEF u
      <4> QED  BY <3>1, <4>1, SumsUnique
    <3> HIDE DEF g, u, y, Below
    <3> QED  BY <2>3, <3>2, <3>3, <3>4 DEF y, u
  <2> QED  BY <2>4, <2>5
<1>6. g = [t \in SUBSET T |-> g[t]]
  OBVIOUS
<1> HIDE DEF g
<1>7. Sums(g, f, T)
  BY <1>5, <1>6, SumsBuilt
<1> QED  BY <1>2, <1>7

\* The weight of a set is that of its first element and that of the rest.
LEMMA TotalFirst ==
    ASSUME NEW f, NEW S, IsFiniteSet(S)
    PROVE  Total(f, S) = IF S = {} THEN 0 ELSE f[First(S)] + Total(f, S \ {First(S)})
<1> DEFINE rest == S \ {First(S)}
<1>1. Sums(SumOf(f, S), f, S)
  BY SumsExist DEF SumOf
<1>2. IsFiniteSet(rest) /\ rest \subseteq S
  BY FS_Subset
<1>3. Sums(SumOf(f, rest), f, rest)
  BY <1>2, SumsExist DEF SumOf
<1>4. SumOf(f, S)[S] = IF S = {} THEN 0 ELSE f[First(S)] + SumOf(f, S)[rest]
  BY <1>1, SumsAt
<1>5. SumOf(f, S)[rest] = SumOf(f, rest)[rest]
  <2> HIDE DEF rest
  <2> QED  BY <1>1, <1>2, <1>3, SumsUnique
<1> QED  BY <1>4, <1>5, TotalIsSum

LEMMA TotalOfNone ==
    ASSUME NEW f
    PROVE  Total(f, {}) = 0
BY TotalFirst, FS_EmptySet

\* Totals of agents with natural reputations are natural.
LEMMA TotalIsNat ==
    ASSUME NEW f, NEW S, IsFiniteSet(S), \A a \in S : f[a] \in Nat
    PROVE  Total(f, S) \in Nat
<1> DEFINE Bad == {T \in SUBSET S : Total(f, T) \notin Nat}
<1> SUFFICES ASSUME S \in Bad PROVE FALSE
  OBVIOUS
<1>1. PICK T \in Bad : \A t \in Bad : t \subseteq T => t = T
  <2>1. Bad # {} /\ Bad \subseteq SUBSET S
    OBVIOUS
  <2> HIDE DEF Bad
  <2> QED  BY <2>1, SmallestBad
<1>2. T \in SUBSET S /\ IsFiniteSet(T) /\ Total(f, T) \notin Nat
  BY FS_Subset
<1>3. T # {}
  BY <1>2, TotalOfNone
<1> DEFINE x == First(T)
           rest == T \ {x}
<1>4. x \in T /\ f[x] \in Nat
  BY <1>2, <1>3, FirstIsMember
<1>5. Total(f, rest) \in Nat
  BY <1>1, <1>2, <1>4
<1>6. Total(f, T) = f[x] + Total(f, rest)
  BY <1>2, <1>3, TotalFirst
<1> QED  BY <1>2, <1>4, <1>5, <1>6

\* The sum does not depend on the order in which elements are taken.
LEMMA TotalOfOneMore ==
    ASSUME NEW f, NEW S, IsFiniteSet(S), \A a \in S : f[a] \in Nat, NEW y \in S
    PROVE  Total(f, S) = f[y] + Total(f, S \ {y})
<1> DEFINE Bad == {T \in SUBSET S :
                      \E z \in T : Total(f, T) # f[z] + Total(f, T \ {z})}
<1> SUFFICES ASSUME S \in Bad PROVE FALSE
  OBVIOUS
<1>1. PICK T \in Bad : \A t \in Bad : t \subseteq T => t = T
  <2>1. Bad # {} /\ Bad \subseteq SUBSET S
    OBVIOUS
  <2> HIDE DEF Bad
  <2> QED  BY <2>1, SmallestBad
<1>2. PICK z \in T : Total(f, T) # f[z] + Total(f, T \ {z})
  OBVIOUS
<1>3. T \in SUBSET S /\ IsFiniteSet(T) /\ T # {}
  BY FS_Subset
<1> DEFINE x == First(T)
<1>4. x \in T
  BY <1>3, FirstIsMember
<1>5. Total(f, T) = f[x] + Total(f, T \ {x})
  BY <1>3, TotalFirst
<1>6. x # z
  BY <1>2, <1>5
<1> HIDE DEF x
<1>7. \A u \in {x, z} :
         /\ T \ {u} \in SUBSET S /\ T \ {u} \notin Bad
         /\ \A v \in T \ {u} : Total(f, T \ {u}) = f[v] + Total(f, (T \ {u}) \ {v})
  <2> TAKE u \in {x, z}
  <2>1. T \ {u} \in SUBSET S /\ T \ {u} # T
    BY <1>3, <1>4
  <2>2. T \ {u} \notin Bad
    BY <1>1, <2>1
  <2> QED  BY <2>1, <2>2
<1>8. z \in T \ {x} /\ x \in T \ {z} /\ (T \ {x}) \ {z} = (T \ {z}) \ {x}
  BY <1>4, <1>6
<1> DEFINE both == (T \ {x}) \ {z}
<1>9. /\ Total(f, T \ {x}) = f[z] + Total(f, both)
      /\ Total(f, T \ {z}) = f[x] + Total(f, both)
  BY <1>7, <1>8
<1>10. f[x] \in Nat /\ f[z] \in Nat /\ Total(f, both) \in Nat
  <2>1. both \in SUBSET S /\ IsFiniteSet(both)
    BY <1>3, FS_Subset
  <2> HIDE DEF both
  <2> QED  BY <1>3, <1>4, <2>1, TotalIsNat
<1> HIDE DEF both
<1> QED  BY <1>2, <1>5, <1>9, <1>10

\* Disjoint sets of agents add up.
LEMMA TotalSplit ==
    ASSUME NEW f, NEW A, NEW B, IsFiniteSet(A), IsFiniteSet(B), A \cap B = {},
           \A a \in A \cup B : f[a] \in Nat
    PROVE  /\ Total(f, A \cup B) = Total(f, A) + Total(f, B)
           /\ Total(f, A) \in Nat /\ Total(f, B) \in Nat
<1>0. Total(f, A) \in Nat /\ Total(f, B) \in Nat
  BY TotalIsNat
<1> DEFINE Bad == {T \in SUBSET A : Total(f, T \cup B) # Total(f, T) + Total(f, B)}
<1> SUFFICES ASSUME A \in Bad PROVE FALSE
  BY <1>0
<1>1. PICK T \in Bad : \A t \in Bad : t \subseteq T => t = T
  <2>1. Bad # {} /\ Bad \subseteq SUBSET A
    OBVIOUS
  <2> HIDE DEF Bad
  <2> QED  BY <2>1, SmallestBad
<1>2. /\ T \in SUBSET A /\ IsFiniteSet(T) /\ IsFiniteSet(T \cup B)
      /\ Total(f, T \cup B) # Total(f, T) + Total(f, B)
  BY FS_Subset, FS_Union
<1>3. T # {}
  <2> SUFFICES ASSUME T = {} PROVE FALSE
    OBVIOUS
  <2>1. T \cup B = B
    OBVIOUS
  <2>2. Total(f, T \cup B) = Total(f, B) /\ Total(f, T) = 0
    BY <2>1, TotalOfNone
  <2> QED  BY <1>0, <1>2, <2>2
<1>4. PICK x \in T : TRUE
  BY <1>3
<1> DEFINE rest == T \ {x}
<1>5. rest \in SUBSET A /\ rest \notin Bad /\ IsFiniteSet(rest)
  BY <1>1, <1>2, FS_Subset
<1>6. Total(f, rest \cup B) = Total(f, rest) + Total(f, B)
  BY <1>5
<1>7. (T \cup B) \ {x} = rest \cup B
  BY <1>2
<1>8. Total(f, T \cup B) = f[x] + Total(f, rest \cup B)
  <2> DEFINE all == T \cup B
  <2>1. x \in all /\ IsFiniteSet(all) /\ \A a \in all : f[a] \in Nat
    BY <1>2
  <2> HIDE DEF all
  <2>2. Total(f, all) = f[x] + Total(f, all \ {x})
    BY <2>1, TotalOfOneMore
  <2> QED  BY <1>7, <2>2 DEF all
<1>9. /\ Total(f, T) = f[x] + Total(f, rest)
      /\ f[x] \in Nat /\ Total(f, rest) \in Nat
  BY <1>2, <1>5, TotalOfOneMore, TotalIsNat
<1> QED  BY <1>0, <1>2, <1>6, <1>8, <1>9

LEMMA TotalGrows ==
    ASSUME NEW f, NEW A, NEW B, IsFiniteSet(B), A \subseteq B,
           \A a \in B : f[a] \in Nat
    PROVE  Total(f, A) \in Nat /\ Total(f, B) \in Nat /\ Total(f, A) <= Total(f, B)
<1> DEFINE C == B \ A
<1>1. /\ IsFiniteSet(A) /\ IsFiniteSet(C) /\ A \cap C = {} /\ A \cup C = B
  BY FS_Subset
<1> HIDE DEF C
<1>2. \A a \in A \cup C : f[a] \in Nat
  BY <1>1
<1>3. /\ Total(f, A \cup C) = Total(f, A) + Total(f, C)
      /\ Total(f, A) \in Nat /\ Total(f, C) \in Nat
  BY <1>1, <1>2, TotalSplit
<1>4. Total(f, A \cup C) = Total(f, B)
  BY <1>1
<1> QED  BY <1>3, <1>4

\* What weighs something has a member that does.
LEMMA TotalHasMember ==
    ASSUME NEW f, NEW S, IsFiniteSet(S), \A a \in S : f[a] \in Nat
    PROVE  Total(f, S) > 0 <=> \E a \in S : f[a] > 0
<1>1. ASSUME NEW a \in S, f[a] > 0
      PROVE  Total(f, S) > 0
  <2>1. Total(f, S) = f[a] + Total(f, S \ {a})
    BY TotalOfOneMore
  <2>2. Total(f, S \ {a}) \in Nat /\ f[a] \in Nat
    BY FS_Subset, TotalIsNat
  <2> QED  BY <1>1, <2>1, <2>2
<1>2. ASSUME Total(f, S) > 0, \A a \in S : f[a] = 0
      PROVE  FALSE
  <2> DEFINE Bad == {T \in SUBSET S : Total(f, T) # 0}
  <2>1. PICK T \in Bad : \A t \in Bad : t \subseteq T => t = T
    <3>1. Bad # {} /\ Bad \subseteq SUBSET S
      <4>1. Total(f, S) \in Nat /\ S \in SUBSET S
        BY TotalIsNat
      <4> QED  BY <1>2, <4>1
    <3> HIDE DEF Bad
    <3> QED  BY <3>1, SmallestBad
  <2>2. T \in SUBSET S /\ IsFiniteSet(T) /\ Total(f, T) # 0
    BY FS_Subset
  <2>3. T # {}
    BY <2>2, TotalOfNone
  <2>4. PICK x \in T : TRUE
    BY <2>3
  <2> DEFINE rest == T \ {x}
  <2>5. Total(f, T) = f[x] + Total(f, rest)
    BY <2>2, TotalOfOneMore
  <2>6. Total(f, rest) = 0
    BY <2>1, <2>2
  <2> QED  BY <1>2, <2>2, <2>5, <2>6
<1> QED  BY <1>1, <1>2

\* The sum looks at the elements of the set only.
LEMMA TotalSame ==
    ASSUME NEW f, NEW g, NEW S, IsFiniteSet(S),
           \A x \in S : f[x] \in Nat /\ g[x] = f[x]
    PROVE  Total(g, S) = Total(f, S)
<1> DEFINE Bad == {T \in SUBSET S : Total(g, T) # Total(f, T)}
<1> SUFFICES ASSUME S \in Bad PROVE FALSE
  OBVIOUS
<1>1. PICK T \in Bad : \A t \in Bad : t \subseteq T => t = T
  <2>1. Bad # {} /\ Bad \subseteq SUBSET S
    OBVIOUS
  <2> HIDE DEF Bad
  <2> QED  BY <2>1, SmallestBad
<1>2. T \in SUBSET S /\ IsFiniteSet(T) /\ Total(g, T) # Total(f, T)
  BY FS_Subset
<1>3. T # {}
  BY <1>2, TotalOfNone
<1> DEFINE x == First(T)
           rest == T \ {x}
<1>4. x \in T /\ g[x] = f[x]
  BY <1>2, <1>3, FirstIsMember
<1>5. Total(g, rest) = Total(f, rest)
  BY <1>1, <1>2, <1>4
<1>6. Total(f, T) = f[x] + Total(f, rest)
  BY <1>2, <1>3, TotalFirst
<1>7. Total(g, T) = g[x] + Total(g, rest)
  BY <1>2, <1>3, TotalFirst
<1> QED  BY <1>2, <1>4, <1>5, <1>6, <1>7

LEMMA TotalOfNothing ==
    ASSUME NEW f, NEW S, IsFiniteSet(S), \A x \in S : f[x] = 0
    PROVE  Total(f, S) = 0
<1>1. \A x \in S : f[x] \in Nat /\ ~(f[x] > 0)
  OBVIOUS
<1>2. Total(f, S) \in Nat /\ ~(Total(f, S) > 0)
  BY <1>1, TotalIsNat, TotalHasMember
<1> QED  BY <1>2

LEMMA TotalOfOne ==
    ASSUME NEW f, NEW x, f[x] \in Nat
    PROVE  Total(f, {x}) = f[x]
<1>1. IsFiniteSet({x}) /\ {x} \ {x} = {}
  BY FS_Singleton
<1>2. Total(f, {x}) = f[x] + Total(f, {x} \ {x})
  <2> DEFINE S == {x}
  <2>1. IsFiniteSet(S) /\ (\A a \in S : f[a] \in Nat) /\ x \in S
    BY <1>1
  <2> HIDE DEF S
  <2>2. Total(f, S) = f[x] + Total(f, S \ {x})
    BY <2>1, TotalOfOneMore
  <2> QED  BY <2>2 DEF S
<1>3. Total(f, {x} \ {x}) = 0
  BY <1>1, TotalOfNone
<1> QED  BY <1>2, <1>3

\* Two functions that differ at x differ as much in their sums.
LEMMA TotalOneChanged ==
    ASSUME NEW f, NEW g, NEW S, IsFiniteSet(S), NEW x \in S,
           \A y \in S : f[y] \in Nat /\ g[y] \in Nat,
           \A y \in S \ {x} : g[y] = f[y]
    PROVE  /\ Total(g, S) = Total(f, S) - f[x] + g[x]
           /\ Total(f, S) \in Nat /\ Total(g, S) \in Nat
<1> DEFINE rest == S \ {x}
<1>1. IsFiniteSet(rest) /\ \A y \in rest : f[y] \in Nat /\ g[y] = f[y]
  BY FS_Subset
<1>2. Total(f, S) = f[x] + Total(f, rest)
  BY TotalOfOneMore
<1>3. Total(g, S) = g[x] + Total(g, rest)
  BY TotalOfOneMore
<1> HIDE DEF rest
<1>4. Total(g, rest) = Total(f, rest)
  BY <1>1, TotalSame
<1>5. Total(f, rest) \in Nat
  BY <1>1, TotalIsNat
<1>6. f[x] \in Nat /\ g[x] \in Nat
  OBVIOUS
<1> QED  BY <1>2, <1>3, <1>4, <1>5, <1>6

\* A function that is larger by c everywhere has a sum that is larger by c for each
\* element.
LEMMA TotalShifted ==
    ASSUME NEW f, NEW g, NEW S, IsFiniteSet(S), NEW c \in Nat,
           \A x \in S : f[x] \in Nat /\ g[x] = f[x] + c
    PROVE  Total(g, S) = Total(f, S) + Cardinality(S) * c
<1> DEFINE Bad == {T \in SUBSET S : Total(g, T) # Total(f, T) + Cardinality(T) * c}
<1> SUFFICES ASSUME S \in Bad PROVE FALSE
  OBVIOUS
<1>1. PICK T \in Bad : \A t \in Bad : t \subseteq T => t = T
  <2>1. Bad # {} /\ Bad \subseteq SUBSET S
    OBVIOUS
  <2> HIDE DEF Bad
  <2> QED  BY <2>1, SmallestBad
<1>2. /\ T \in SUBSET S /\ IsFiniteSet(T)
      /\ Total(g, T) # Total(f, T) + Cardinality(T) * c
  BY FS_Subset
<1>3. T # {}
  <2> SUFFICES ASSUME T = {} PROVE FALSE
    OBVIOUS
  <2>1. Cardinality(T) = 0
    BY FS_EmptySet
  <2>2. Total(g, T) = 0 /\ Total(f, T) = 0
    BY TotalOfNone
  <2> QED  BY <1>2, <2>1, <2>2
<1> DEFINE x == First(T)
           rest == T \ {x}
<1>4. x \in T /\ f[x] \in Nat /\ g[x] = f[x] + c
  BY <1>2, <1>3, FirstIsMember
<1>5. IsFiniteSet(rest) /\ \A y \in rest : f[y] \in Nat
  BY <1>2, FS_Subset
<1>6. Total(g, rest) = Total(f, rest) + Cardinality(rest) * c
  BY <1>1, <1>2, <1>4
<1>7. Total(f, T) = f[x] + Total(f, rest)
  BY <1>2, <1>3, TotalFirst
<1>8. Total(g, T) = g[x] + Total(g, rest)
  BY <1>2, <1>3, TotalFirst
<1>9. Cardinality(rest) = Cardinality(T) - 1 /\ Cardinality(T) \in Nat
      /\ Cardinality(rest) \in Nat
  BY <1>2, <1>4, <1>5, FS_RemoveElement, FS_CardinalityType
<1>10. Total(f, rest) \in Nat
  BY <1>5, TotalIsNat
<1>11. Cardinality(T) * c = Cardinality(rest) * c + c
  <2>1. \A n, m \in Nat : (n + 1) * m = n * m + m
    OBVIOUS
  <2>2. Cardinality(T) = Cardinality(rest) + 1
    BY <1>9
  <2> QED  BY <1>9, <2>1, <2>2
<1>12. Cardinality(rest) * c \in Nat
  <2>1. \A n, m \in Nat : n * m \in Nat
    OBVIOUS
  <2> QED  BY <1>9, <2>1
<1> DEFINE d == Cardinality(rest) * c
<1> HIDE DEF d, rest, x
<1> QED  BY <1>2, <1>4, <1>6, <1>7, <1>8, <1>10, <1>11, <1>12 DEF d

HasLargest(S) == \E m \in S : \A n \in S : n <= m

\* A finite set of numbers has a largest one.
LEMMA LargestExists ==
    ASSUME NEW S, IsFiniteSet(S), S # {}, S \subseteq Nat
    PROVE  HasLargest(S)
<1> DEFINE Bad == {T \in SUBSET S : T # {} /\ ~HasLargest(T)}
<1> SUFFICES ASSUME S \in Bad PROVE FALSE
  OBVIOUS
<1>1. PICK T \in Bad : \A t \in Bad : t \subseteq T => t = T
  <2>1. Bad # {} /\ Bad \subseteq SUBSET S
    OBVIOUS
  <2> HIDE DEF Bad
  <2> QED  BY ONLY IsFiniteSet(S), <2>1, SmallestBad
<1>2. T \in SUBSET S /\ T # {} /\ ~ \E m \in T : \A n \in T : n <= m
  BY DEF HasLargest
<1>3. PICK x \in T : TRUE
  BY <1>2
<1> DEFINE rest == T \ {x}
<1>4. x \in Nat /\ rest \subseteq Nat /\ rest \in SUBSET S
  BY <1>2
<1>5. rest # {}
  BY <1>2, <1>4
<1>6. PICK m \in rest : \A n \in rest : n <= m
  <2>1. HasLargest(rest)
    BY <1>1, <1>4, <1>5
  <2> QED  BY <2>1 DEF HasLargest
<1>7. CASE x <= m
  BY <1>2, <1>6, <1>7
<1>8. CASE ~(x <= m)
  <2>1. \A n \in T : n <= x
    BY <1>2, <1>4, <1>6, <1>8
  <2> QED  BY <1>2, <2>1
<1> QED  BY <1>7, <1>8
==============================================================================
