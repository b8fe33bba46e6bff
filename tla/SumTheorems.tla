---------------------------- MODULE SumTheorems ----------------------------
(***************************************************************************)
(* Facts about SumFunctionOnSet, the sum of a function's values over a     *)
(* finite set.  The library defines it by a fold over an arbitrary order   *)
(* of the elements; these lemmas free it of that order.  The inductions    *)
(* are by a smallest counterexample among the subsets.                     *)
(***************************************************************************)
EXTENDS Integers, FiniteSets, Functions, FiniteSetTheorems, WellFoundedInduction, TLAPS

\* The element that the fold takes next.
Pick(s) == CHOOSE x \in s : TRUE

\* One step of the fold, with h for the sums of the smaller sets.
SumStep(h, f, s) == IF s = {} THEN 0 ELSE f[Pick(s)] + h[s \ {Pick(s)}]

\* h is the sum of f on every subset of U.
IsSum(h, f, U) == h = [s \in SUBSET U |-> SumStep(h, f, s)]

(* The element taken from a set that is not empty is one of its elements. *)
LEMMA PickIn == ASSUME NEW s, s # {} PROVE Pick(s) \in s
BY DEF Pick

(* The library's fold is the recursive function that IsSum describes. *)
LEMMA SumUnfold ==
  ASSUME NEW f, NEW S
  PROVE  SumFunctionOnSet(f, S) = (CHOOSE h : IsSum(h, f, S))[S]
BY DEF SumFunctionOnSet, FoldFunctionOnSet, MapThenFoldSet, Pick, IsSum, SumStep

(* A set of subsets of a finite set has an element with none below it. *)
LEMMA SmallestSet ==
  ASSUME NEW S, IsFiniteSet(S), NEW T, T \subseteq SUBSET S, T # {}
  PROVE  \E U \in T : \A V \in T : ~(V \subseteq U /\ V # U)
<1>1. T \subseteq FiniteSubsetsOf(S)
  BY FS_Subset DEF FiniteSubsetsOf
<1>2. PICK U \in T : \A V \in T : ~(<<V, U>> \in StrictSubsetOrdering(S))
  BY <1>1, WFMin, FS_StrictSubsetOrderingWellFounded
<1>3. ASSUME NEW V \in T, V \subseteq U, V # U
      PROVE  <<V, U>> \in StrictSubsetOrdering(S)
  <2>1. <<V, U>> \in (SUBSET S) \X (SUBSET S)
    OBVIOUS
  <2>2. <<V, U>>[1] = V /\ <<V, U>>[2] = U
    OBVIOUS
  <2>. QED BY <2>1, <2>2, <1>3 DEF StrictSubsetOrdering
<1>4. \A V \in T : ~(V \subseteq U /\ V # U)
  <2>. SUFFICES ASSUME NEW V \in T, V \subseteq U, V # U PROVE FALSE
    OBVIOUS
  <2>1. <<V, U>> \in StrictSubsetOrdering(S)
    BY <1>3
  <2>2. ~(<<V, U>> \in StrictSubsetOrdering(S))
    BY <1>2, Zenon
  <2>. QED BY <2>1, <2>2, Zenon
<1>. QED BY <1>4

(* Two such functions agree wherever both are defined. *)
LEMMA SumUnique ==
  ASSUME NEW f, NEW U, NEW V, IsFiniteSet(U), NEW g, NEW h, IsSum(g, f, U), IsSum(h, f, V)
  PROVE  \A s \in SUBSET (U \cap V) : g[s] = h[s]
<1>. DEFINE T == {s \in SUBSET (U \cap V) : g[s] # h[s]}
<1>. SUFFICES ASSUME T # {} PROVE FALSE
  OBVIOUS
<1>1. T \subseteq SUBSET U
  OBVIOUS
<1>2. PICK s \in T : \A t \in T : ~(t \subseteq s /\ t # s)
  <2>. HIDE DEF T
  <2>. QED BY <1>1, SmallestSet
<1>. DEFINE r == s \ {Pick(s)}
<1>3. s # {} => Pick(s) \in s
  BY PickIn
<1>4. s # {} => r \subseteq s /\ r # s /\ r \in SUBSET (U \cap V)
  BY <1>3
<1>5. s # {} => g[r] = h[r]
  BY <1>4, <1>2
<1>6. g[s] = SumStep(g, f, s) /\ h[s] = SumStep(h, f, s)
  BY DEF IsSum
<1>. QED BY <1>5, <1>6 DEF SumStep

(* Such a function exists for every finite set. *)
LEMMA SumExists ==
  ASSUME NEW f, NEW S, IsFiniteSet(S)
  PROVE  \E h : IsSum(h, f, S)
<1>. DEFINE T == {U \in SUBSET S : ~ \E h : IsSum(h, f, U)}
<1>. SUFFICES ASSUME T # {} PROVE FALSE
  OBVIOUS
<1>0. T \subseteq SUBSET S
  OBVIOUS
<1>1. PICK U \in T : \A V \in T : ~(V \subseteq U /\ V # U)
  <2>. HIDE DEF T
  <2>. QED BY <1>0, SmallestSet
<1>. DEFINE H(V) == CHOOSE h : IsSum(h, f, V)
            p    == Pick(U)
            top  == IF U = {} THEN 0 ELSE f[p] + H(U \ {p})[U \ {p}]
            g    == [s \in SUBSET U |-> IF s = U THEN top ELSE H(s)[s]]
<1>2. \A V \in SUBSET U : V # U => IsSum(H(V), f, V)
  BY <1>1
<1>3. ASSUME NEW s \in SUBSET U, s # {}
      PROVE  g[s \ {Pick(s)}] = H(s \ {Pick(s)})[s \ {Pick(s)}]
  BY <1>3, PickIn
<1>4. ASSUME NEW s \in SUBSET U, s # U
      PROVE  g[s] = SumStep(g, f, s)
  <2>1. IsSum(H(s), f, s)
    BY <1>2, <1>4
  <2>2. H(s)[s] = SumStep(H(s), f, s)
    BY <2>1 DEF IsSum
  <2>3. CASE s = {}
    BY <2>2, <2>3, <1>4 DEF SumStep
  <2>4. CASE s # {}
    <3>. DEFINE r == s \ {Pick(s)}
    <3>1. r \subseteq s /\ r \in SUBSET U /\ r # U /\ r \in SUBSET (s \cap r)
      BY PickIn, <2>4
    <3>2. IsSum(H(r), f, r)
      BY <3>1, <1>2
    <3>3. IsFiniteSet(s)
      BY FS_Subset
    <3>4. H(s)[r] = H(r)[r]
      <4>. HIDE DEF H, r, g, top
      <4>1. \A x \in SUBSET (s \cap r) : H(s)[x] = H(r)[x]
        BY <3>2, <3>3, <2>1, SumUnique, SMT
      <4>. QED BY <4>1, <3>1, Zenon
    <3>5. g[s] = H(s)[s] /\ g[r] = H(r)[r]
      BY <1>4, <3>1
    <3>6. H(s)[s] = f[Pick(s)] + H(s)[r]
      BY <2>2, <2>4 DEF SumStep
    <3>7. g[s] = f[Pick(s)] + g[r]
      BY <3>4, <3>5, <3>6
    <3>. HIDE DEF g
    <3>. QED BY <3>7, <2>4 DEF SumStep
  <2>. QED BY <2>3, <2>4
<1>5. g[U] = SumStep(g, f, U)
  <2>1. U # {} => g[U] = f[p] + g[U \ {p}]
    BY <1>3
  <2>2. U = {} => g[U] = 0
    OBVIOUS
  <2>. HIDE DEF g
  <2>. QED BY <2>1, <2>2 DEF SumStep
<1>6. \A s \in SUBSET U : g[s] = SumStep(g, f, s)
  BY <1>4, <1>5
<1>7. IsSum(g, f, U)
  BY <1>6 DEF IsSum
<1>. QED BY <1>7

(* So the one the fold chooses is one. *)
LEMMA SumIsSum ==
  ASSUME NEW f, NEW S, IsFiniteSet(S)
  PROVE  IsSum(CHOOSE h : IsSum(h, f, S), f, S)
BY SumExists

(* The sum over the empty set is zero. *)
LEMMA SumEmpty == ASSUME NEW f PROVE SumFunctionOnSet(f, {}) = 0
<1>1. IsFiniteSet({})
  BY FS_EmptySet
<1>. QED BY <1>1, SumIsSum, SumUnfold DEF IsSum, SumStep

(* One step of the fold, as an equation between sums. *)
LEMMA SumPick ==
  ASSUME NEW f, NEW S, IsFiniteSet(S), S # {}
  PROVE  SumFunctionOnSet(f, S) = f[Pick(S)] + SumFunctionOnSet(f, S \ {Pick(S)})
<1>. DEFINE r == S \ {Pick(S)}
            g == CHOOSE h : IsSum(h, f, S)
            q == CHOOSE h : IsSum(h, f, r)
<1>1. IsFiniteSet(r)
  BY FS_RemoveElement
<1>2. IsSum(g, f, S) /\ IsSum(q, f, r)
  BY <1>1, SumIsSum
<1>3. g[r] = q[r]
  BY <1>2, SumUnique, r \in SUBSET (S \cap r)
<1>4. g[S] = f[Pick(S)] + g[r]
  BY <1>2 DEF IsSum, SumStep
<1>. QED BY <1>3, <1>4, SumUnfold

(* A sum of integers is an integer. *)
LEMMA SumInt ==
  ASSUME NEW f, NEW S, IsFiniteSet(S), \A x \in S : f[x] \in Int
  PROVE  SumFunctionOnSet(f, S) \in Int
<1>. DEFINE T == {U \in SUBSET S : SumFunctionOnSet(f, U) \notin Int}
<1>. SUFFICES ASSUME T # {} PROVE FALSE
  OBVIOUS
<1>1. T \subseteq SUBSET S
  OBVIOUS
<1>2. PICK U \in T : \A V \in T : ~(V \subseteq U /\ V # U)
  <2>. HIDE DEF T
  <2>. QED BY <1>1, SmallestSet
<1>3. U # {}
  BY SumEmpty
<1>4. IsFiniteSet(U) /\ Pick(U) \in U
  BY <1>3, FS_Subset, PickIn
<1>5. SumFunctionOnSet(f, U \ {Pick(U)}) \in Int
  BY <1>2, <1>4
<1>. QED BY <1>3, <1>4, <1>5, SumPick

(* A sum of natural numbers is a natural number. *)
LEMMA SumNat ==
  ASSUME NEW f, NEW S, IsFiniteSet(S), \A x \in S : f[x] \in Nat
  PROVE  SumFunctionOnSet(f, S) \in Nat
<1>. DEFINE T == {U \in SUBSET S : SumFunctionOnSet(f, U) \notin Nat}
<1>. SUFFICES ASSUME T # {} PROVE FALSE
  OBVIOUS
<1>1. T \subseteq SUBSET S
  OBVIOUS
<1>2. PICK U \in T : \A V \in T : ~(V \subseteq U /\ V # U)
  <2>. HIDE DEF T
  <2>. QED BY <1>1, SmallestSet
<1>3. U # {}
  BY SumEmpty
<1>4. IsFiniteSet(U) /\ Pick(U) \in U
  BY <1>3, FS_Subset, PickIn
<1>5. SumFunctionOnSet(f, U \ {Pick(U)}) \in Nat
  BY <1>2, <1>4
<1>. QED BY <1>3, <1>4, <1>5, SumPick

(* Any element may be split off a sum, not only the one the fold takes. *)
LEMMA SumSplit ==
  ASSUME NEW f, NEW S, IsFiniteSet(S), \A x \in S : f[x] \in Int, NEW k \in S
  PROVE  SumFunctionOnSet(f, S) = f[k] + SumFunctionOnSet(f, S \ {k})
<1>. DEFINE Splits(U, j) == SumFunctionOnSet(f, U) = f[j] + SumFunctionOnSet(f, U \ {j})
            T == {U \in SUBSET S : \E j \in U : ~Splits(U, j)}
<1>. SUFFICES ASSUME T # {} PROVE FALSE
  OBVIOUS
<1>1. T \subseteq SUBSET S
  OBVIOUS
<1>2. PICK U \in T : \A V \in T : ~(V \subseteq U /\ V # U)
  <2>. HIDE DEF T
  <2>. QED BY <1>1, SmallestSet
<1>3. PICK j \in U : ~Splits(U, j)
  BY <1>2
<1>. DEFINE p == Pick(U)
<1>4. p \in U /\ U # {} /\ IsFiniteSet(U) /\ U \subseteq S
  BY PickIn, FS_Subset
<1>5. Splits(U, p)
  BY <1>4, SumPick
<1>6. p # j
  BY <1>5, <1>3
<1>7. Splits(U \ {p}, j) /\ Splits(U \ {j}, p)
  <2>. HIDE DEF Splits
  <2>1. \A V \in SUBSET U : V # U => \A i \in V : Splits(V, i)
    BY <1>2, <1>4
  <2>2. U \ {p} \in SUBSET U /\ U \ {p} # U /\ j \in U \ {p}
    BY <1>4, <1>6
  <2>3. U \ {j} \in SUBSET U /\ U \ {j} # U /\ p \in U \ {j}
    BY <1>4, <1>6
  <2>. QED BY <2>1, <2>2, <2>3, Zenon
<1>8. (U \ {p}) \ {j} = (U \ {j}) \ {p}
  OBVIOUS
<1>9. SumFunctionOnSet(f, (U \ {p}) \ {j}) \in Int
  <2>1. IsFiniteSet((U \ {p}) \ {j}) /\ \A x \in (U \ {p}) \ {j} : f[x] \in Int
    BY <1>4, FS_RemoveElement
  <2>. QED BY <2>1, SumInt
<1>10. f[p] \in Int /\ f[j] \in Int
  BY <1>4
<1>11. SumFunctionOnSet(f, U) = f[p] + (f[j] + SumFunctionOnSet(f, (U \ {p}) \ {j}))
  BY <1>5, <1>7
<1>12. SumFunctionOnSet(f, U \ {j}) = f[p] + SumFunctionOnSet(f, (U \ {p}) \ {j})
  BY <1>7, <1>8
<1>13. Splits(U, j)
  BY <1>9, <1>10, <1>11, <1>12
<1>. QED BY <1>3, <1>13

(* Functions that agree on a set have the same sum over it. *)
LEMMA SumCong ==
  ASSUME NEW f, NEW g, NEW S, IsFiniteSet(S), \A x \in S : f[x] = g[x]
  PROVE  SumFunctionOnSet(f, S) = SumFunctionOnSet(g, S)
<1>. DEFINE T == {U \in SUBSET S : SumFunctionOnSet(f, U) # SumFunctionOnSet(g, U)}
<1>. SUFFICES ASSUME T # {} PROVE FALSE
  OBVIOUS
<1>1. T \subseteq SUBSET S
  OBVIOUS
<1>2. PICK U \in T : \A V \in T : ~(V \subseteq U /\ V # U)
  <2>. HIDE DEF T
  <2>. QED BY <1>1, SmallestSet
<1>3. U # {}
  BY SumEmpty
<1>4. IsFiniteSet(U) /\ Pick(U) \in U
  BY <1>3, FS_Subset, PickIn
<1>5. SumFunctionOnSet(f, U \ {Pick(U)}) = SumFunctionOnSet(g, U \ {Pick(U)})
  BY <1>2, <1>4
<1>. QED BY <1>3, <1>4, <1>5, SumPick

(* Changing a function at one argument changes its sum by the difference: *)
(* what an instruction does to the ledger when it updates one account.    *)
LEMMA SumUpdate ==
  ASSUME NEW f, NEW g, NEW S, IsFiniteSet(S), NEW k \in S,
         \A x \in S : f[x] \in Int /\ g[x] \in Int,
         \A x \in S \ {k} : g[x] = f[x]
  PROVE  SumFunctionOnSet(g, S) = SumFunctionOnSet(f, S) - f[k] + g[k]
<1>1. IsFiniteSet(S \ {k})
  BY FS_RemoveElement
<1>2. SumFunctionOnSet(g, S \ {k}) = SumFunctionOnSet(f, S \ {k})
  BY <1>1, SumCong
<1>3. SumFunctionOnSet(f, S \ {k}) \in Int
  BY <1>1, SumInt
<1>4. SumFunctionOnSet(g, S) = g[k] + SumFunctionOnSet(g, S \ {k})
  BY SumSplit
<1>5. SumFunctionOnSet(f, S) = f[k] + SumFunctionOnSet(f, S \ {k})
  BY SumSplit
<1>. QED BY <1>2, <1>3, <1>4, <1>5

(* No term exceeds a sum of natural numbers. *)
LEMMA SumMember ==
  ASSUME NEW f, NEW S, IsFiniteSet(S), \A x \in S : f[x] \in Nat, NEW k \in S
  PROVE  f[k] <= SumFunctionOnSet(f, S)
<1>1. IsFiniteSet(S \ {k})
  BY FS_RemoveElement
<1>2. SumFunctionOnSet(f, S \ {k}) \in Nat
  BY <1>1, SumNat
<1>3. SumFunctionOnSet(f, S) = f[k] + SumFunctionOnSet(f, S \ {k})
  BY SumSplit
<1>. QED BY <1>2, <1>3

(* Sums are linear. *)
LEMMA SumLinear ==
  ASSUME NEW f, NEW g, NEW h, NEW c \in Int, NEW S, IsFiniteSet(S),
         \A x \in S : f[x] \in Int /\ h[x] \in Int /\ g[x] = f[x] + c * h[x]
  PROVE  SumFunctionOnSet(g, S) = SumFunctionOnSet(f, S) + c * SumFunctionOnSet(h, S)
<1>. DEFINE Lin(U) == SumFunctionOnSet(g, U) = SumFunctionOnSet(f, U) + c * SumFunctionOnSet(h, U)
            T == {U \in SUBSET S : ~Lin(U)}
<1>. SUFFICES ASSUME T # {} PROVE FALSE
  OBVIOUS
<1>1. T \subseteq SUBSET S
  OBVIOUS
<1>2. PICK U \in T : \A V \in T : ~(V \subseteq U /\ V # U)
  <2>. HIDE DEF T
  <2>. QED BY <1>1, SmallestSet
<1>3. U # {}
  BY SumEmpty
<1>. DEFINE p == Pick(U)
            R == U \ {p}
<1>4. IsFiniteSet(U) /\ p \in U /\ IsFiniteSet(R) /\ R \subseteq S
  BY <1>3, FS_Subset, PickIn, FS_RemoveElement
<1>5. Lin(R)
  BY <1>2, <1>4
<1>6. SumFunctionOnSet(f, R) \in Int /\ SumFunctionOnSet(h, R) \in Int
  BY <1>4, SumInt
<1>7. /\ SumFunctionOnSet(f, U) = f[p] + SumFunctionOnSet(f, R)
      /\ SumFunctionOnSet(h, U) = h[p] + SumFunctionOnSet(h, R)
      /\ SumFunctionOnSet(g, U) = g[p] + SumFunctionOnSet(g, R)
  BY <1>3, <1>4, SumPick
<1>8. f[p] \in Int /\ h[p] \in Int /\ g[p] = f[p] + c * h[p]
  BY <1>4
<1>9. c * (h[p] + SumFunctionOnSet(h, R)) = c * h[p] + c * SumFunctionOnSet(h, R)
  BY <1>6, <1>8
<1>10. c * h[p] \in Int /\ c * SumFunctionOnSet(h, R) \in Int
  BY <1>6, <1>8
<1>11. Lin(U)
  BY <1>5, <1>6, <1>7, <1>8, <1>9, <1>10
<1>. QED BY <1>11, <1>2

(* A sum of larger terms is larger. *)
LEMMA SumMono ==
  ASSUME NEW f, NEW g, NEW S, IsFiniteSet(S),
         \A x \in S : f[x] \in Int /\ g[x] \in Int /\ f[x] <= g[x]
  PROVE  SumFunctionOnSet(f, S) <= SumFunctionOnSet(g, S)
<1>. DEFINE h == [x \in S |-> g[x] - f[x]]
<1>1. \A x \in S : f[x] \in Int /\ h[x] \in Nat /\ h[x] \in Int /\ g[x] = f[x] + 1 * h[x]
  OBVIOUS
<1>. HIDE DEF h
<1>2. SumFunctionOnSet(g, S) = SumFunctionOnSet(f, S) + 1 * SumFunctionOnSet(h, S)
  BY <1>1, SumLinear
<1>3. SumFunctionOnSet(h, S) \in Nat /\ SumFunctionOnSet(f, S) \in Int
  BY <1>1, SumNat, SumInt
<1>. QED BY <1>2, <1>3

(* A sum of zeros is zero. *)
LEMMA SumZero ==
  ASSUME NEW f, NEW S, IsFiniteSet(S), \A x \in S : f[x] = 0
  PROVE  SumFunctionOnSet(f, S) = 0
<1>. DEFINE z == [x \in S |-> 0]
<1>1. /\ \A x \in S : z[x] \in Int /\ z[x] = z[x] + 1 * z[x]
      /\ \A x \in S : f[x] = z[x]
  OBVIOUS
<1>. HIDE DEF z
<1>2. SumFunctionOnSet(z, S) = SumFunctionOnSet(z, S) + 1 * SumFunctionOnSet(z, S)
  BY <1>1, SumLinear
<1>3. SumFunctionOnSet(z, S) \in Int /\ SumFunctionOnSet(f, S) = SumFunctionOnSet(z, S)
  BY <1>1, SumInt, SumCong
<1>4. \A n \in Int : n = n + 1 * n => n = 0
  OBVIOUS
<1>. QED BY <1>2, <1>3, <1>4, Zenon

(* Numbers written to different places of a larger set, with zeros       *)
(* everywhere else, keep their sum: what opening several accounts does.  *)
LEMMA SumInject ==
  ASSUME NEW S, NEW T, IsFiniteSet(S), IsFiniteSet(T), NEW j \in [S -> T],
         \A x, y \in S : j[x] = j[y] => x = y,
         NEW f, NEW h, \A x \in S : f[x] \in Int /\ h[j[x]] = f[x],
         \A t \in T : (\A x \in S : t # j[x]) => h[t] = 0
  PROVE  SumFunctionOnSet(h, T) = SumFunctionOnSet(f, S)
<1>. DEFINE H(U) == [t \in T |-> IF \E x \in U : t = j[x] THEN h[t] ELSE 0]
            Same(U) == SumFunctionOnSet(H(U), T) = SumFunctionOnSet(f, U)
            B == {U \in SUBSET S : ~Same(U)}
<1>1. B = {}
  <2>. SUFFICES ASSUME B # {} PROVE FALSE
    OBVIOUS
  <2>1. B \subseteq SUBSET S
    OBVIOUS
  <2>2. PICK U \in B : \A V \in B : ~(V \subseteq U /\ V # U)
    <3>. HIDE DEF B
    <3>. QED BY <2>1, SmallestSet
  <2>3. U \subseteq S /\ ~Same(U)
    OBVIOUS
  <2>4. CASE U = {}
    <3>. DEFINE z == H(U)
    <3>1. \A t \in T : z[t] = 0
      BY <2>4
    <3>. HIDE DEF z
    <3>2. SumFunctionOnSet(z, T) = 0
      BY <3>1, SumZero
    <3>3. SumFunctionOnSet(f, U) = 0
      BY <2>4, SumEmpty
    <3>. QED BY <2>3, <3>2, <3>3 DEF z
  <2>5. CASE U # {}
    <3>. DEFINE p == Pick(U)
                W == U \ {p}
                big == H(U)
                small == H(W)
    <3>1. IsFiniteSet(U) /\ p \in U /\ p \in S /\ IsFiniteSet(W) /\ W \subseteq S
      BY <2>3, <2>5, FS_Subset, PickIn, FS_RemoveElement
    <3>2. Same(W)
      <4>1. W \subseteq U /\ W # U /\ W \in SUBSET S
        BY <3>1
      <4>. QED BY <2>2, <4>1
    <3>3. /\ \A t \in T : small[t] \in Int /\ big[t] \in Int
          /\ \A t \in T \ {j[p]} : big[t] = small[t]
          /\ small[j[p]] = 0 /\ big[j[p]] = f[p]
      BY <2>3, <3>1
    <3>4. SumFunctionOnSet(f, U) = f[p] + SumFunctionOnSet(f, W)
      BY <2>5, <3>1, SumPick
    <3>5. f[p] \in Int /\ SumFunctionOnSet(f, W) \in Int /\ j[p] \in T
      BY <3>1, SumInt
    <3>6. SumFunctionOnSet(small, T) = SumFunctionOnSet(f, W)
      BY <3>2
    <3>7. SumFunctionOnSet(big, T) # SumFunctionOnSet(f, U)
      BY <2>3
    <3>. HIDE DEF big, small, p, W
    <3>8. SumFunctionOnSet(big, T) = SumFunctionOnSet(small, T) - small[j[p]] + big[j[p]]
      BY <3>3, <3>5, SumUpdate
    <3>. QED BY <3>3, <3>4, <3>5, <3>6, <3>7, <3>8
  <2>. QED BY <2>4, <2>5
<1>2. SumFunctionOnSet(H(S), T) = SumFunctionOnSet(f, S)
  BY <1>1
<1>. DEFINE k == H(S)
<1>3. \A t \in T : h[t] = k[t]
  OBVIOUS
<1>. HIDE DEF k
<1>4. SumFunctionOnSet(h, T) = SumFunctionOnSet(k, T)
  BY <1>3, SumCong
<1>. QED BY <1>2, <1>4 DEF k

(* The sum of two functions. *)
LEMMA SumAdd ==
  ASSUME NEW f, NEW g, NEW h, NEW S, IsFiniteSet(S),
         \A x \in S : f[x] \in Int /\ h[x] \in Int /\ g[x] = f[x] + h[x]
  PROVE  SumFunctionOnSet(g, S) = SumFunctionOnSet(f, S) + SumFunctionOnSet(h, S)
<1>1. \A x \in S : f[x] \in Int /\ h[x] \in Int /\ g[x] = f[x] + 1 * h[x]
  OBVIOUS
<1>2. SumFunctionOnSet(g, S) = SumFunctionOnSet(f, S) + 1 * SumFunctionOnSet(h, S)
  BY <1>1, SumLinear
<1>3. SumFunctionOnSet(f, S) \in Int /\ SumFunctionOnSet(h, S) \in Int
  BY <1>1, SumInt
<1>. QED BY <1>2, <1>3

(* A factor may be taken out of a sum. *)
LEMMA SumScale ==
  ASSUME NEW g, NEW h, NEW c \in Int, NEW S, IsFiniteSet(S),
         \A x \in S : h[x] \in Int /\ g[x] = c * h[x]
  PROVE  SumFunctionOnSet(g, S) = c * SumFunctionOnSet(h, S)
<1>. DEFINE z == [x \in S |-> 0]
<1>1. /\ \A x \in S : z[x] = 0
      /\ \A x \in S : z[x] \in Int /\ h[x] \in Int /\ g[x] = z[x] + c * h[x]
  OBVIOUS
<1>. HIDE DEF z
<1>2. SumFunctionOnSet(g, S) = SumFunctionOnSet(z, S) + c * SumFunctionOnSet(h, S)
  BY <1>1, SumLinear
<1>3. SumFunctionOnSet(z, S) = 0 /\ SumFunctionOnSet(h, S) \in Int
  BY <1>1, SumZero, SumInt
<1>4. c * SumFunctionOnSet(h, S) \in Int
  BY <1>3
<1>. QED BY <1>2, <1>3, <1>4

(* Counting the elements of a subset is a sum. *)
LEMMA SumCount ==
  ASSUME NEW T, IsFiniteSet(T), NEW W, W \subseteq T, NEW h,
         \A x \in T : h[x] = IF x \in W THEN 1 ELSE 0
  PROVE  SumFunctionOnSet(h, T) = Cardinality(W)
<1>. DEFINE Counts(U) == \A V \in SUBSET U : \A f :
              (\A x \in U : f[x] = IF x \in V THEN 1 ELSE 0) =>
                SumFunctionOnSet(f, U) = Cardinality(V)
            B == {U \in SUBSET T : ~Counts(U)}
<1>1. SUFFICES ASSUME B # {} PROVE FALSE
  <2>. SUFFICES Counts(T)
    OBVIOUS
  <2>1. T \notin B
    BY <1>1
  <2>. QED BY <2>1
<1>2. B \subseteq SUBSET T
  OBVIOUS
<1>3. PICK U \in B : \A V \in B : ~(V \subseteq U /\ V # U)
  <2>. HIDE DEF B
  <2>. QED BY <1>1, <1>2, SmallestSet
<1>4. U \subseteq T /\ ~Counts(U) /\ IsFiniteSet(U)
  BY <1>3, FS_Subset
<1>0. PICK V \in SUBSET U : \E f : /\ \A x \in U : f[x] = IF x \in V THEN 1 ELSE 0
                                   /\ SumFunctionOnSet(f, U) # Cardinality(V)
  BY <1>4
<1>5. PICK f : /\ \A x \in U : f[x] = IF x \in V THEN 1 ELSE 0
               /\ SumFunctionOnSet(f, U) # Cardinality(V)
  BY <1>0
<1>6. U # {}
  BY <1>5, SumEmpty, FS_EmptySet
<1>7. PICK k \in U : TRUE
  BY <1>6
<1>. DEFINE R == U \ {k}
<1>8. R \subseteq T /\ R \subseteq U /\ R # U
  BY <1>4, <1>7
<1>9. Counts(R)
  BY <1>3, <1>8
<1>. HIDE DEF B
<1>10. SumFunctionOnSet(f, R) = Cardinality(V \ {k})
  <2>1. V \ {k} \in SUBSET R
    BY <1>5
  <2>2. \A x \in R : f[x] = IF x \in V \ {k} THEN 1 ELSE 0
    BY <1>5
  <2>. QED BY <1>9, <2>1, <2>2
<1>. HIDE DEF Counts
<1>11. SumFunctionOnSet(f, U) = f[k] + SumFunctionOnSet(f, R)
  <2>1. \A x \in U : f[x] \in Int
    BY <1>5
  <2>. QED BY <1>4, <2>1, SumSplit
<1>12. IsFiniteSet(V) /\ Cardinality(V) \in Nat
  BY <1>4, FS_Subset, FS_CardinalityType
<1>13. CASE k \in V
  <2>1. Cardinality(V \ {k}) = Cardinality(V) - 1
    BY <1>12, <1>13, FS_RemoveElement
  <2>2. f[k] = 1
    BY <1>5, <1>13
  <2>. QED BY <1>5, <1>10, <1>11, <1>12, <2>1, <2>2
<1>14. CASE k \notin V
  <2>1. V \ {k} = V
    BY <1>14
  <2>2. f[k] = 0
    BY <1>5, <1>14
  <2>3. SumFunctionOnSet(f, R) = Cardinality(V)
    BY <1>10, <2>1
  <2>. HIDE DEF R
  <2>. QED BY <1>5, <1>11, <1>12, <2>2, <2>3
<1>. QED BY <1>13, <1>14
=============================================================================
