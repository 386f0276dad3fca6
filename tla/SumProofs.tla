------------------------------- MODULE SumProofs -------------------------------
(***************************************************************************)
(* Sums over a finite set, as FiniteSetsExt defines them: the sum of an    *)
(* empty set, of amounts, of an account that gained or lost one, and of    *)
(* two columns.  The fold takes the members of a set in an order of its    *)
(* own, which is the same for every function that is summed, so that the   *)
(* order never has to be argued about.                                     *)
(***************************************************************************)
EXTENDS FiniteSetsExt, FiniteSetTheorems, WellFoundedInduction, TLAPS

\* The sum of f[x] over the members of S.
sumOver(f, S) == MapThenSumSet(LAMBDA x : f[x], S)

\* The member of a set that the fold takes first, and what it leaves.
first(s) == CHOOSE x \in s : TRUE
rest(s) == s \ {first(s)}

\* G has the sum of f over each of the sets in X.
SumsUp(G, f, X) == G = [s \in X |-> IF s = {} THEN 0 ELSE f[first(s)] + G[rest(s)]]

\* The fold of the library is the recursive function that SumsUp describes.
LEMMA SumOverDef ==
  ASSUME NEW f, NEW S
  PROVE  sumOver(f, S) = (CHOOSE G : SumsUp(G, f, SUBSET S))[S]
BY DEF sumOver, MapThenSumSet, MapThenFoldSet, SumsUp, first, rest

\* A set of naturals that is not empty has a least member.
LEMMA LeastMember ==
  ASSUME NEW T \in SUBSET Nat, T # {}
  PROVE  \E x \in T : \A y \in T : x <= y
<1> DEFINE R == OpToRel(<, Nat)
<1>1. IsWellFoundedOn(R, Nat)
  BY NatLessThanWellFounded
<1>2. \A x, y \in Nat : y < x => <<y, x>> \in R
  BY DEF OpToRel
<1> HIDE DEF R
<1>3. PICK x \in T : \A y \in T : ~(<<y, x>> \in R)
  BY <1>1, WFMin
<1>4. ASSUME NEW y \in T PROVE x <= y
  <2>1. x \in Nat /\ y \in Nat /\ ~(y < x)
    BY <1>2, <1>3
  <2> QED BY <2>1
<1> QED BY <1>4

\* Induction over the naturals, for a property given as the set that has it.
LEMMA NatSetInduction ==
  ASSUME NEW T, 0 \in T, \A n \in Nat : n \in T => n + 1 \in T
  PROVE  Nat \subseteq T
<1> SUFFICES ASSUME Nat \ T # {} PROVE FALSE
  OBVIOUS
<1>1. PICK m \in Nat \ T : \A n \in Nat \ T : m <= n
  BY LeastMember
<1>2. m # 0 /\ m - 1 \in Nat /\ m - 1 \in T
  BY <1>1
<1> QED BY <1>1, <1>2

\* Taking the first member of a set leaves a smaller one.
LEMMA RestIsSmaller ==
  ASSUME NEW s, IsFiniteSet(s), s # {}
  PROVE  /\ first(s) \in s /\ rest(s) \subseteq s
         /\ IsFiniteSet(rest(s))
         /\ Cardinality(rest(s)) \in Nat
         /\ Cardinality(s) = Cardinality(rest(s)) + 1
<1>1. first(s) \in s
  BY DEF first
<1>2. IsFiniteSet(rest(s)) /\ Cardinality(rest(s)) = Cardinality(s) - 1
  BY <1>1, FS_RemoveElement DEF rest
<1>3. Cardinality(s) \in Nat /\ Cardinality(rest(s)) \in Nat
  BY <1>2, FS_CardinalityType
<1> QED BY <1>1, <1>2, <1>3 DEF rest

\* Induction over the subsets of a finite set in the order of the fold.
LEMMA SubsetInduction ==
  ASSUME NEW S, IsFiniteSet(S), NEW Good,
         {} \in Good,
         \A s \in SUBSET S : s # {} /\ rest(s) \in Good => s \in Good
  PROVE  SUBSET S \subseteq Good
<1> DEFINE T == {n \in Nat : \A s \in SUBSET S : Cardinality(s) = n => s \in Good}
<1>1. \A s \in SUBSET S : IsFiniteSet(s) /\ Cardinality(s) \in Nat
  BY FS_Subset, FS_CardinalityType
<1>2. 0 \in T
  BY <1>1, FS_EmptySet
<1>3. ASSUME NEW n \in Nat, n \in T PROVE n + 1 \in T
  <2> SUFFICES ASSUME NEW s \in SUBSET S, Cardinality(s) = n + 1 PROVE s \in Good
    OBVIOUS
  <2>1. IsFiniteSet(s) /\ s # {}
    BY <1>1, FS_EmptySet
  <2>2. rest(s) \in SUBSET S /\ Cardinality(rest(s)) = n
    BY <2>1, RestIsSmaller
  <2> QED BY <1>3, <2>1, <2>2
<1> HIDE DEF T
<1>4. Nat \subseteq T
  BY <1>2, <1>3, NatSetInduction
<1> QED BY <1>1, <1>4 DEF T

\* The recursive function exists.
LEMMA SumsUpExists ==
  ASSUME NEW f, NEW S, IsFiniteSet(S)
  PROVE  \E G : SumsUp(G, f, SUBSET S)
<1> DEFINE Level(n) == {s \in SUBSET S : Cardinality(s) <= n}
           T == {n \in Nat : \E G : SumsUp(G, f, Level(n))}
<1>1. \A s \in SUBSET S : IsFiniteSet(s) /\ Cardinality(s) \in Nat
  BY FS_Subset, FS_CardinalityType
<1>2. 0 \in T
  <2> DEFINE G == [s \in Level(0) |-> 0]
  <2>1. \A s \in Level(0) : s = {}
    BY <1>1, FS_EmptySet
  <2>2. G = [s \in Level(0) |-> IF s = {} THEN 0 ELSE f[first(s)] + G[rest(s)]]
    BY <2>1
  <2> HIDE DEF G, Level
  <2> QED BY <2>2 DEF SumsUp
<1>3. ASSUME NEW n \in Nat, n \in T PROVE n + 1 \in T
  <2>1. PICK G : SumsUp(G, f, Level(n))
    BY <1>3
  <2> DEFINE H == [s \in Level(n + 1) |-> IF s = {} THEN 0 ELSE f[first(s)] + G[rest(s)]]
  <2>2. ASSUME NEW s \in Level(n + 1), s # {} PROVE H[rest(s)] = G[rest(s)]
    <3>1. rest(s) \in Level(n) /\ rest(s) \in Level(n + 1)
      BY <1>1, <2>2, RestIsSmaller
    <3> HIDE DEF Level
    <3>2. G[rest(s)] = IF rest(s) = {} THEN 0 ELSE f[first(rest(s))] + G[rest(rest(s))]
      BY <2>1, <3>1 DEF SumsUp
    <3> QED BY <3>1, <3>2
  <2>3. H = [s \in Level(n + 1) |-> IF s = {} THEN 0 ELSE f[first(s)] + H[rest(s)]]
    <3> HIDE DEF Level
    <3>1. \A s \in Level(n + 1) : s # {} => H[rest(s)] = G[rest(s)]
      BY <2>2
    <3> DEFINE K == [s \in Level(n + 1) |-> IF s = {} THEN 0 ELSE f[first(s)] + H[rest(s)]]
    <3>2. \A s \in Level(n + 1) : H[s] = K[s]
      BY <3>1
    <3> QED BY <3>2
  <2> HIDE DEF H, Level
  <2> QED BY <2>3 DEF SumsUp
<1> HIDE DEF T
<1>4. Nat \subseteq T
  BY <1>2, <1>3, NatSetInduction
<1>5. Cardinality(S) \in Nat
  BY <1>1
<1>6. Level(Cardinality(S)) = SUBSET S
  BY <1>1, FS_Subset
<1> QED BY <1>4, <1>5, <1>6 DEF T
------------------------------------------------------------------------------
\* What the proofs below use of a sum: a function G that has the sums of all
\* subsets, each of them from that of the subset without its first member.
Totals(G, f, S) ==
  /\ G[{}] = 0
  /\ \A s \in SUBSET S : s # {} => G[s] = f[first(s)] + G[rest(s)]

LEMMA SumsOfSubsets ==
  ASSUME NEW f, NEW S, IsFiniteSet(S)
  PROVE  \E G : sumOver(f, S) = G[S] /\ Totals(G, f, S)
<1> DEFINE G == CHOOSE G : SumsUp(G, f, SUBSET S)
<1>1. SumsUp(G, f, SUBSET S)
  BY SumsUpExists
<1>2. sumOver(f, S) = G[S]
  BY SumOverDef
<1> HIDE DEF G
<1>3. \A s \in SUBSET S : G[s] = IF s = {} THEN 0 ELSE f[first(s)] + G[rest(s)]
  BY <1>1 DEF SumsUp
<1>4. {} \in SUBSET S
  OBVIOUS
<1> QED BY <1>2, <1>3, <1>4 DEF Totals

\* The sum of nothing.
THEOREM SumEmpty == ASSUME NEW f PROVE sumOver(f, {}) = 0
<1>1. IsFiniteSet({})
  BY FS_EmptySet
<1> QED BY <1>1, SumsOfSubsets DEF Totals

\* A sum of amounts is an amount.
THEOREM SumNat ==
  ASSUME NEW f, NEW S, IsFiniteSet(S), \A x \in S : f[x] \in Nat
  PROVE  sumOver(f, S) \in Nat
<1>1. PICK G : sumOver(f, S) = G[S] /\ Totals(G, f, S)
  BY SumsOfSubsets
<1> DEFINE Good == {s \in SUBSET S : G[s] \in Nat}
<1>2. {} \in Good
  BY <1>1 DEF Totals
<1>3. ASSUME NEW s \in SUBSET S, s # {}, rest(s) \in Good PROVE s \in Good
  <2>1. first(s) \in S /\ f[first(s)] \in Nat
    BY <1>3 DEF first
  <2>2. G[s] = f[first(s)] + G[rest(s)] /\ G[rest(s)] \in Nat
    BY <1>1, <1>3 DEF Totals
  <2> QED BY <2>1, <2>2
<1> HIDE DEF Good
<1>4. SUBSET S \subseteq Good
  BY <1>2, <1>3, SubsetInduction
<1> QED BY <1>1, <1>4 DEF Good

\* A table whose entries all are the sums of those of two others.
THEOREM SumOfTwo ==
  ASSUME NEW f, NEW g, NEW h, NEW S, IsFiniteSet(S),
         \A x \in S : f[x] \in Int /\ g[x] \in Int /\ h[x] = f[x] + g[x]
  PROVE  /\ sumOver(f, S) \in Int /\ sumOver(g, S) \in Int
         /\ sumOver(h, S) = sumOver(f, S) + sumOver(g, S)
<1>1. PICK F : sumOver(f, S) = F[S] /\ Totals(F, f, S)
  BY SumsOfSubsets
<1>2. PICK G : sumOver(g, S) = G[S] /\ Totals(G, g, S)
  BY SumsOfSubsets
<1>3. PICK H : sumOver(h, S) = H[S] /\ Totals(H, h, S)
  BY SumsOfSubsets
<1> DEFINE Good == {s \in SUBSET S : F[s] \in Int /\ G[s] \in Int /\ H[s] = F[s] + G[s]}
<1>4. {} \in Good
  BY <1>1, <1>2, <1>3 DEF Totals
<1>5. ASSUME NEW s \in SUBSET S, s # {}, rest(s) \in Good PROVE s \in Good
  <2> DEFINE x == first(s)
  <2>1. x \in S
    BY <1>5 DEF first
  <2>2. f[x] \in Int /\ g[x] \in Int /\ h[x] = f[x] + g[x]
    BY <2>1
  <2>3. /\ F[s] = f[x] + F[rest(s)]
        /\ G[s] = g[x] + G[rest(s)]
        /\ H[s] = h[x] + H[rest(s)]
    BY <1>1, <1>2, <1>3, <1>5 DEF Totals
  <2>4. F[rest(s)] \in Int /\ G[rest(s)] \in Int /\ H[rest(s)] = F[rest(s)] + G[rest(s)]
    BY <1>5
  <2> HIDE DEF x
  <2> QED BY <2>2, <2>3, <2>4
<1> HIDE DEF Good
<1>6. SUBSET S \subseteq Good
  BY <1>4, <1>5, SubsetInduction
<1> QED BY <1>1, <1>2, <1>3, <1>6 DEF Good

\* A table that has an entry in one place only.
LEMMA SumOfOne ==
  ASSUME NEW f, NEW S, IsFiniteSet(S), NEW a \in S, f[a] \in Int,
         \A x \in S : x # a => f[x] = 0
  PROVE  sumOver(f, S) = f[a]
<1>1. PICK G : sumOver(f, S) = G[S] /\ Totals(G, f, S)
  BY SumsOfSubsets
<1> DEFINE Good == {s \in SUBSET S : G[s] = IF a \in s THEN f[a] ELSE 0}
<1>2. {} \in Good
  BY <1>1 DEF Totals
<1>3. ASSUME NEW s \in SUBSET S, s # {}, rest(s) \in Good PROVE s \in Good
  <2> DEFINE x == first(s)
  <2>1. x \in s /\ x \in S
    BY <1>3 DEF first
  <2>2. G[s] = f[x] + G[rest(s)]
    BY <1>1, <1>3 DEF Totals
  <2>3. G[rest(s)] = IF a \in rest(s) THEN f[a] ELSE 0
    BY <1>3
  <2>4. a \in rest(s) <=> a \in s /\ a # x
    BY DEF rest
  <2>5. x # a => f[x] = 0
    BY <2>1
  <2> HIDE DEF x
  <2>6. G[s] = IF a \in s THEN f[a] ELSE 0
    BY <2>1, <2>2, <2>3, <2>4, <2>5
  <2> QED BY <2>6
<1> HIDE DEF Good
<1>4. SUBSET S \subseteq Good
  BY <1>2, <1>3, SubsetInduction
<1> QED BY <1>1, <1>4 DEF Good

\* A table of ones counts its entries.
LEMMA SumOfOnes ==
  ASSUME NEW f, NEW S, IsFiniteSet(S), \A x \in S : f[x] = 1
  PROVE  sumOver(f, S) = Cardinality(S)
<1>1. PICK G : sumOver(f, S) = G[S] /\ Totals(G, f, S)
  BY SumsOfSubsets
<1> DEFINE Good == {s \in SUBSET S : G[s] = Cardinality(s)}
<1>2. {} \in Good
  BY <1>1, FS_EmptySet DEF Totals
<1>3. ASSUME NEW s \in SUBSET S, s # {}, rest(s) \in Good PROVE s \in Good
  <2>1. IsFiniteSet(s)
    BY FS_Subset
  <2>2. /\ first(s) \in S /\ Cardinality(rest(s)) \in Nat
        /\ Cardinality(s) = Cardinality(rest(s)) + 1
    BY <1>3, <2>1, RestIsSmaller
  <2>3. G[s] = f[first(s)] + G[rest(s)] /\ G[rest(s)] = Cardinality(rest(s))
    BY <1>1, <1>3 DEF Totals
  <2> QED BY <2>2, <2>3
<1> HIDE DEF Good
<1>4. SUBSET S \subseteq Good
  BY <1>2, <1>3, SubsetInduction
<1> QED BY <1>1, <1>4 DEF Good

(* A table in which one entry changed: its sum changes by as much.  This is
   what a mint, a burn and either side of a transfer do to the balances.      *)
THEOREM SumOfChanged ==
  ASSUME NEW f, NEW g, NEW S, IsFiniteSet(S), NEW a \in S,
         \A x \in S : f[x] \in Int,
         g[a] \in Int,
         \A x \in S : x # a => g[x] = f[x]
  PROVE  /\ sumOver(f, S) \in Int
         /\ sumOver(g, S) = sumOver(f, S) + (g[a] - f[a])
<1> DEFINE d == [x \in S |-> IF x = a THEN g[a] - f[a] ELSE 0]
<1>1. \A x \in S : f[x] \in Int /\ d[x] \in Int /\ g[x] = f[x] + d[x]
  OBVIOUS
<1>2. d[a] = g[a] - f[a] /\ d[a] \in Int /\ \A x \in S : x # a => d[x] = 0
  OBVIOUS
<1> HIDE DEF d
<1>3. sumOver(d, S) = d[a]
  BY <1>2, SumOfOne
<1> QED BY <1>1, <1>2, <1>3, SumOfTwo

\* An entry of a table of amounts is at most their sum.
THEOREM EntryAtMostSum ==
  ASSUME NEW f, NEW S, IsFiniteSet(S), NEW a \in S, \A x \in S : f[x] \in Nat
  PROVE  f[a] <= sumOver(f, S)
<1> DEFINE g == [x \in S |-> IF x = a THEN 0 ELSE f[x]]
<1>1. \A x \in S : f[x] \in Int /\ g[x] \in Nat /\ (x # a => g[x] = f[x])
  OBVIOUS
<1>2. g[a] = 0 /\ g[a] \in Int /\ f[a] \in Nat
  OBVIOUS
<1> HIDE DEF g
<1>3. sumOver(g, S) \in Nat
  BY <1>1, SumNat
<1>4. sumOver(g, S) = sumOver(f, S) + (g[a] - f[a]) /\ sumOver(f, S) \in Int
  BY <1>1, <1>2, SumOfChanged
<1> QED BY <1>2, <1>3, <1>4

\* A sum of larger amounts is larger.
THEOREM SumMonotone ==
  ASSUME NEW f, NEW g, NEW S, IsFiniteSet(S),
         \A x \in S : f[x] \in Int /\ g[x] \in Int /\ f[x] <= g[x]
  PROVE  /\ sumOver(f, S) \in Int /\ sumOver(g, S) \in Int
         /\ sumOver(f, S) <= sumOver(g, S)
<1> DEFINE d == [x \in S |-> g[x] - f[x]]
<1>1. \A x \in S : f[x] \in Int /\ d[x] \in Nat /\ g[x] = f[x] + d[x]
  OBVIOUS
<1> HIDE DEF d
<1>2. sumOver(d, S) \in Nat
  BY <1>1, SumNat
<1>3. sumOver(g, S) = sumOver(f, S) + sumOver(d, S) /\ sumOver(f, S) \in Int
  BY <1>1, SumOfTwo
<1> QED BY <1>2, <1>3

\* Equal tables have equal sums.
LEMMA SumOfEqual ==
  ASSUME NEW f, NEW g, NEW S, IsFiniteSet(S),
         \A x \in S : f[x] \in Int /\ g[x] = f[x]
  PROVE  sumOver(g, S) = sumOver(f, S)
<1>1. /\ sumOver(f, S) \in Int /\ sumOver(g, S) \in Int
      /\ sumOver(f, S) <= sumOver(g, S)
  BY SumMonotone
<1>2. sumOver(g, S) <= sumOver(f, S)
  BY SumMonotone
<1> QED BY <1>1, <1>2

\* Any member of a set may be taken first.
LEMMA AnyFirst ==
  ASSUME NEW f, NEW S, IsFiniteSet(S), \A x \in S : f[x] \in Int,
         NEW G, Totals(G, f, S)
  PROVE  \A s \in SUBSET S : G[s] \in Int /\ \A y \in s : G[s] = f[y] + G[s \ {y}]
<1>1. \A s \in SUBSET S : G[s] \in Int
  <2> DEFINE Good == {s \in SUBSET S : G[s] \in Int}
  <2>1. {} \in Good
    BY DEF Totals
  <2>2. ASSUME NEW s \in SUBSET S, s # {}, rest(s) \in Good PROVE s \in Good
    <3>1. first(s) \in S
      BY <2>2 DEF first
    <3> QED BY <2>2, <3>1 DEF Totals
  <2> HIDE DEF Good
  <2>3. SUBSET S \subseteq Good
    BY <2>1, <2>2, SubsetInduction
  <2> QED BY <2>3 DEF Good
<1> DEFINE Right(s) == \A y \in s : G[s] = f[y] + G[s \ {y}]
           T == {n \in Nat : \A s \in SUBSET S : Cardinality(s) = n => Right(s)}
<1>2. \A s \in SUBSET S : IsFiniteSet(s) /\ Cardinality(s) \in Nat
  BY FS_Subset, FS_CardinalityType
<1>3. 0 \in T
  BY <1>2, FS_EmptySet
<1>4. ASSUME NEW n \in Nat, n \in T PROVE n + 1 \in T
  <2> SUFFICES ASSUME NEW s \in SUBSET S, Cardinality(s) = n + 1, NEW y \in s
               PROVE  G[s] = f[y] + G[s \ {y}]
    OBVIOUS
  <2> DEFINE x == first(s)
  <2>1. IsFiniteSet(s) /\ s # {}
    BY <1>2, FS_EmptySet
  <2>2. x \in s /\ rest(s) = s \ {x} /\ G[s] = f[x] + G[s \ {x}]
    BY <2>1, RestIsSmaller DEF rest, Totals
  <2>3. \A z \in s : s \ {z} \in SUBSET S /\ Right(s \ {z})
    <3> SUFFICES ASSUME NEW z \in s PROVE Right(s \ {z})
      OBVIOUS
    <3>1. Cardinality(s \ {z}) = n
      <4>1. Cardinality(s \ {z}) = Cardinality(s) - 1
        BY <2>1, FS_RemoveElement
      <4> QED BY <4>1
    <3>2. s \ {z} \in SUBSET S
      OBVIOUS
    <3> QED BY <1>4, <3>1, <3>2
  <2> HIDE DEF x
  <2>4. CASE y = x
    BY <2>2, <2>4
  <2>5. CASE y # x
    <3> DEFINE u == (s \ {x}) \ {y}
    <3>1. u = (s \ {y}) \ {x} /\ y \in s \ {x} /\ x \in s \ {y} /\ u \in SUBSET S
      BY <2>2, <2>5
    <3>2. G[s \ {x}] = f[y] + G[u]
      BY <2>2, <2>3, <3>1
    <3>3. G[s \ {y}] = f[x] + G[u]
      BY <2>3, <3>1
    <3>4. G[u] \in Int /\ f[x] \in Int /\ f[y] \in Int
      BY <1>1, <2>2, <3>1
    <3> HIDE DEF u
    <3> QED BY <2>2, <3>2, <3>3, <3>4
  <2> QED BY <2>4, <2>5
<1> HIDE DEF T
<1>5. Nat \subseteq T
  BY <1>3, <1>4, NatSetInduction
<1> QED BY <1>1, <1>2, <1>5 DEF T

\* The sum with one member more.  The set without the member has the sum that
\* the larger one comes to without it, because both are sums of the same table.
THEOREM SumWithMember ==
  ASSUME NEW f, NEW S, IsFiniteSet(S), NEW a, a \notin S,
         \A x \in S \cup {a} : f[x] \in Int
  PROVE  sumOver(f, S \cup {a}) = sumOver(f, S) + f[a]
<1> DEFINE U == S \cup {a}
<1>1. IsFiniteSet(U) /\ U \ {a} = S
  BY FS_AddElement
<1> HIDE DEF U
<1>2. PICK G : sumOver(f, U) = G[U] /\ Totals(G, f, U)
  BY <1>1, SumsOfSubsets
<1>3. PICK H : sumOver(f, S) = H[S] /\ Totals(H, f, S)
  BY SumsOfSubsets
<1>4. G[U] = f[a] + G[S]
  <2>1. U \in SUBSET U /\ a \in U /\ \A x \in U : f[x] \in Int
    BY DEF U
  <2>2. \A s \in SUBSET U : G[s] \in Int /\ \A y \in s : G[s] = f[y] + G[s \ {y}]
    BY <1>1, <1>2, <2>1, AnyFirst
  <2> QED BY <1>1, <2>1, <2>2
<1>5. G[S] = H[S] /\ H[S] \in Int
  <2> DEFINE Good == {s \in SUBSET S : G[s] = H[s] /\ H[s] \in Int}
  <2>1. {} \in Good
    BY <1>2, <1>3 DEF Totals
  <2>2. ASSUME NEW s \in SUBSET S, s # {}, rest(s) \in Good PROVE s \in Good
    <3>1. first(s) \in S /\ f[first(s)] \in Int /\ s \in SUBSET U
      BY <2>2 DEF first, U
    <3> QED BY <1>2, <1>3, <2>2, <3>1 DEF Totals
  <2> HIDE DEF Good
  <2>3. SUBSET S \subseteq Good
    BY <2>1, <2>2, SubsetInduction
  <2> QED BY <2>3 DEF Good
<1>6. f[a] \in Int
  OBVIOUS
<1> QED BY <1>2, <1>3, <1>4, <1>5, <1>6 DEF U
------------------------------------------------------------------------------
(* Greatest and least members. *)

\* A member that exceeds no other is the minimum.
LEMMA LeastIsMin ==
  ASSUME NEW T \in SUBSET Int, NEW m \in T, \A y \in T : m <= y
  PROVE  Min(T) = m
<1>1. Min(T) \in T /\ \A y \in T : Min(T) <= y
  BY DEF Min
<1>2. Min(T) <= m /\ m <= Min(T) /\ Min(T) \in Int /\ m \in Int
  BY <1>1
<1> QED BY <1>2

\* A member that no other exceeds is the maximum.
LEMMA GreatestIsMax ==
  ASSUME NEW T \in SUBSET Int, NEW m \in T, \A y \in T : m >= y
  PROVE  Max(T) = m
<1>1. Max(T) \in T /\ \A y \in T : Max(T) >= y
  BY DEF Max
<1>2. Max(T) <= m /\ m <= Max(T) /\ Max(T) \in Int /\ m \in Int
  BY <1>1
<1> QED BY <1>2

\* The greater and the lesser of two.
LEMMA MaxMinOfTwo ==
  ASSUME NEW x \in Int, NEW y \in Int
  PROVE  /\ Max({x, y}) = IF x >= y THEN x ELSE y
         /\ Min({x, y}) = IF x >= y THEN y ELSE x
<1>1. CASE x >= y
  <2>1. Max({x, y}) = x
    BY <1>1, GreatestIsMax
  <2>2. Min({x, y}) = y
    BY <1>1, LeastIsMin
  <2> QED BY <1>1, <2>1, <2>2
<1>2. CASE ~(x >= y)
  <2>1. Max({x, y}) = y
    BY <1>2, GreatestIsMax
  <2>2. Min({x, y}) = x
    BY <1>2, LeastIsMin
  <2> QED BY <1>2, <2>1, <2>2
<1> QED BY <1>1, <1>2

\* A set of naturals with a bound has a greatest member.
LEMMA BoundedHasMax ==
  ASSUME NEW n \in Nat, NEW T \in SUBSET (0 .. n), T # {}
  PROVE  Max(T) \in T /\ \A x \in T : Max(T) >= x
<1> DEFINE D == {d \in Nat : n - d \in T}
<1>1. D \in SUBSET Nat
  OBVIOUS
<1>2. ASSUME NEW x \in T PROVE n - x \in D
  <2>1. x \in 0 .. n /\ n - x \in Nat /\ n - (n - x) = x
    OBVIOUS
  <2> QED BY <2>1
<1>3. D # {}
  BY <1>2
<1>4. PICK d \in D : \A y \in D : d <= y
  <2> HIDE DEF D
  <2> QED BY <1>1, <1>3, LeastMember
<1>5. n - d \in T /\ d \in Nat
  BY <1>4
<1>6. ASSUME NEW x \in T PROVE n - d >= x
  <2>1. d <= n - x /\ x \in Nat
    BY <1>2, <1>4
  <2> QED BY <1>5, <2>1
<1>7. T \in SUBSET Int
  OBVIOUS
<1> QED BY <1>5, <1>6, <1>7, GreatestIsMax

\* A sequence of amounts has a greatest one.
LEMMA GreatestOfSequence ==
  ASSUME NEW n \in Nat, NEW f, \A i \in 1 .. n : f[i] \in Nat
  PROVE  LET all == {f[i] : i \in 1 .. n} \cup {0}
         IN Max(all) \in Nat /\ \A x \in all : Max(all) >= x
<1> DEFINE Values(k) == {f[i] : i \in 1 .. k} \cup {0}
           T == {k \in Nat : k <= n => \E b \in Values(k) : \A x \in Values(k) : b >= x}
<1>1. 0 \in T
  OBVIOUS
<1>2. ASSUME NEW k \in Nat, k \in T PROVE k + 1 \in T
  <2> SUFFICES ASSUME k + 1 <= n
               PROVE  \E b \in Values(k + 1) : \A x \in Values(k + 1) : b >= x
    OBVIOUS
  <2>1. PICK b \in Values(k) : \A x \in Values(k) : b >= x
    BY <1>2
  <2>2. Values(k + 1) = Values(k) \cup {f[k + 1]}
    <3>1. 1 .. k + 1 = (1 .. k) \cup {k + 1}
      OBVIOUS
    <3> QED BY <3>1
  <2>3. \A x \in Values(k + 1) : x \in Nat
    OBVIOUS
  <2> HIDE DEF Values
  <2>4. CASE b >= f[k + 1]
    BY <2>1, <2>2, <2>4
  <2>5. CASE ~(b >= f[k + 1])
    BY <2>1, <2>2, <2>3, <2>5
  <2> QED BY <2>4, <2>5
<1> HIDE DEF T
<1>3. n \in T
  BY <1>1, <1>2, NatSetInduction
<1>4. PICK b \in Values(n) : \A x \in Values(n) : b >= x
  BY <1>3 DEF T
<1>5. Values(n) \in SUBSET Int /\ b \in Nat
  OBVIOUS
<1> HIDE DEF Values
<1>6. Max(Values(n)) = b
  BY <1>4, <1>5, GreatestIsMax
<1> QED BY <1>4, <1>5, <1>6 DEF Values
================================================================================
