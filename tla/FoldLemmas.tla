----------------------------- MODULE FoldLemmas -----------------------------
(***************************************************************************)
(* What the models' sums, counts and folds compute, for every finite set   *)
(* and every sequence.  The library defines them by a recursive function   *)
(* over the subsets of a finite set; the facts below are by induction on   *)
(* those subsets, stated as "there is no smallest counterexample", which   *)
(* needs no operator for a parameter.                                      *)
(***************************************************************************)
EXTENDS Integers, Sequences, FiniteSets, FiniteSetsExt, SequencesExt,
        SequenceTheorems, FiniteSetTheorems, WellFoundedInduction, TLAPS

-----------------------------------------------------------------------------
(* Induction.                                                               *)

(* A non-empty set of numbers has a least one.                              *)
LEMMA LeastNumber ==
  ASSUME NEW S \in SUBSET Nat, S # {}
  PROVE  \E m \in S : \A n \in S : m <= n
<1>1. IsWellFoundedOn(OpToRel(<, Nat), Nat)
  BY NatLessThanWellFounded
<1>2. PICK x \in S : \A y \in S : ~ (<<y, x>> \in OpToRel(<, Nat))
  BY <1>1, WFMin
<1>3. \A y \in S : ~ (y < x)
  BY <1>2 DEF OpToRel
<1> QED
  BY <1>3

(* Among some subsets of a finite set one contains no other of them.        *)
LEMMA SmallestSubset ==
  ASSUME NEW S, IsFiniteSet(S), NEW T \in SUBSET SUBSET S, T # {}
  PROVE  \E m \in T : \A n \in SUBSET m : n # m => n \notin T
<1>1. IsWellFoundedOn(StrictSubsetOrdering(S), FiniteSubsetsOf(S))
  BY FS_StrictSubsetOrderingWellFounded
<1>2. T \in SUBSET FiniteSubsetsOf(S)
  BY FS_FiniteSubsetsOfFinite
<1>3. PICK x \in T : \A y \in T : ~ (<<y, x>> \in StrictSubsetOrdering(S))
  BY <1>1, <1>2, WFMin
<1>4. \A y \in T : ~ (y \subseteq x /\ y # x)
  BY <1>3 DEF StrictSubsetOrdering
<1> QED
  BY <1>4

-----------------------------------------------------------------------------
(* Recursive functions over the subsets of a finite set.                    *)

\* What the library's folds choose from a set.
Chooses(ch, S) == \A s \in SUBSET S : s # {} => ch[s] \in s

\* `it` is the recursive function of the fold of `op` over S from `base`.
IsFold(it, S, base, op, ch) ==
    it = [s \in SUBSET S |-> IF s = {} THEN base
                             ELSE op[<<ch[s], it[s \ {ch[s]}]>>]]

(* Where two such functions are both defined they agree.                    *)
LEMMA FoldDetermined ==
  ASSUME NEW S, IsFiniteSet(S), NEW base, NEW op, NEW ch, Chooses(ch, S),
         NEW A \in SUBSET S, NEW B \in SUBSET S, NEW g, NEW h,
         IsFold(g, A, base, op, ch), IsFold(h, B, base, op, ch),
         NEW t \in SUBSET A, t \in SUBSET B
  PROVE  g[t] = h[t]
<1> DEFINE Bad == {s \in SUBSET S : s \subseteq A /\ s \subseteq B /\ g[s] # h[s]}
<1>1. SUFFICES ASSUME Bad # {} PROVE FALSE
  OBVIOUS
<1>2. Bad \in SUBSET SUBSET S
  OBVIOUS
<1>3. PICK m \in Bad : \A n \in SUBSET m : n # m => n \notin Bad
  <2> HIDE DEF Bad
  <2> QED
    BY <1>1, <1>2, SmallestSubset
<1>4. /\ g[m] = IF m = {} THEN base ELSE op[<<ch[m], g[m \ {ch[m]}]>>]
      /\ h[m] = IF m = {} THEN base ELSE op[<<ch[m], h[m \ {ch[m]}]>>]
  BY DEF IsFold
<1>5. CASE m = {}
  BY <1>4, <1>5
<1>6. CASE m # {}
  <2>1. ch[m] \in m
    BY <1>6 DEF Chooses
  <2>2. m \ {ch[m]} \in SUBSET m /\ m \ {ch[m]} # m
    BY <2>1
  <2>3. g[m \ {ch[m]}] = h[m \ {ch[m]}]
    BY <1>3, <2>2
  <2> QED
    BY <1>4, <1>6, <2>3
<1> QED
  BY <1>5, <1>6

(* There is one for every finite set.                                       *)
LEMMA FoldExists ==
  ASSUME NEW S, IsFiniteSet(S), NEW base, NEW op, NEW ch, Chooses(ch, S)
  PROVE  \E it : IsFold(it, S, base, op, ch)
<1> DEFINE Bad == {s \in SUBSET S : ~ \E it : IsFold(it, s, base, op, ch)}
<1>1. SUFFICES ASSUME Bad # {} PROVE FALSE
  OBVIOUS
<1>2. PICK m \in Bad : \A n \in SUBSET m : n # m => n \notin Bad
  <2>1. Bad \in SUBSET SUBSET S
    OBVIOUS
  <2> HIDE DEF Bad
  <2> QED
    BY <1>1, <2>1, SmallestSubset
<1> DEFINE below(u) == CHOOSE it : IsFold(it, u, base, op, ch)
           it == [s \in SUBSET m |-> IF s = {} THEN base
                                     ELSE op[<<ch[s], below(s \ {ch[s]})[s \ {ch[s]}]>>]]
<1>3. ASSUME NEW u \in SUBSET m, u # m PROVE IsFold(below(u), u, base, op, ch)
  BY <1>2, <1>3
<1>4. ASSUME NEW u \in SUBSET m, u # m PROVE it[u] = below(u)[u]
  <2>1. IsFold(below(u), u, base, op, ch)
    BY <1>3, <1>4
  <2> DEFINE g == below(u)
             v == u \ {ch[u]}
  <2>2. g[u] = IF u = {} THEN base ELSE op[<<ch[u], g[v]>>]
    BY <2>1 DEF IsFold
  <2>3. CASE u = {}
    BY <2>2, <2>3
  <2>4. CASE u # {}
    <3>1. ch[u] \in u
      BY <2>4 DEF Chooses
    <3>2. v \in SUBSET m /\ v # m /\ v \in SUBSET u
      BY <3>1
    <3>3. IsFold(below(v), v, base, op, ch)
      BY <1>3, <3>2
    <3>4. g[v] = below(v)[v]
      <4> HIDE DEF below, v, g
      <4>1. IsFold(g, u, base, op, ch)
        BY <2>1 DEF g
      <4>2. u \in SUBSET S /\ v \in SUBSET S /\ v \in SUBSET v
        BY <3>2
      <4> QED
        BY <3>2, <3>3, <4>1, <4>2, FoldDetermined
    <3> QED
      BY <2>2, <2>4, <3>4
  <2> QED
    BY <2>3, <2>4
<1>5. it = [s \in SUBSET m |-> IF s = {} THEN base ELSE op[<<ch[s], it[s \ {ch[s]}]>>]]
  <2>1. ASSUME NEW s \in SUBSET m, s # {}
        PROVE  below(s \ {ch[s]})[s \ {ch[s]}] = it[s \ {ch[s]}]
    <3>1. ch[s] \in s
      BY <2>1 DEF Chooses
    <3>2. s \ {ch[s]} \in SUBSET m /\ s \ {ch[s]} # m
      BY <3>1
    <3> HIDE DEF below, it
    <3> QED
      BY <1>4, <3>2
  <2> HIDE DEF below
  <2> QED
    BY <2>1
<1>6. IsFold(it, m, base, op, ch)
  BY <1>5 DEF IsFold
<1> QED
  BY <1>6

(* Its values have the type that `op` keeps.                                *)
LEMMA FoldType ==
  ASSUME NEW S, IsFiniteSet(S), NEW V, NEW base \in V, NEW op, NEW ch,
         Chooses(ch, S), \A x \in S, v \in V : op[<<x, v>>] \in V,
         NEW it, IsFold(it, S, base, op, ch)
  PROVE  it \in [SUBSET S -> V]
<1> DEFINE Bad == {s \in SUBSET S : it[s] \notin V}
<1>1. SUFFICES ASSUME Bad # {} PROVE FALSE
  BY DEF IsFold
<1>2. PICK m \in Bad : \A n \in SUBSET m : n # m => n \notin Bad
  <2>1. Bad \in SUBSET SUBSET S
    OBVIOUS
  <2> HIDE DEF Bad
  <2> QED
    BY <1>1, <2>1, SmallestSubset
<1>3. it[m] = IF m = {} THEN base ELSE op[<<ch[m], it[m \ {ch[m]}]>>]
  BY DEF IsFold
<1>4. CASE m = {}
  BY <1>3, <1>4
<1>5. CASE m # {}
  <2>1. ch[m] \in m
    BY <1>5 DEF Chooses
  <2>2. it[m \ {ch[m]}] \in V
    BY <1>2, <2>1
  <2>3. op[<<ch[m], it[m \ {ch[m]}]>>] \in V
    BY <2>1, <2>2
  <2> QED
    BY <1>3, <1>5, <2>3
<1> QED
  BY <1>4, <1>5

-----------------------------------------------------------------------------
(* Sums.                                                                    *)

\* `it` sums f over the subsets of S, taking the elements in the order of ch.
IsSum(it, f, S, ch) ==
    it = [s \in SUBSET S |-> IF s = {} THEN 0
                             ELSE f[ch[s]] + it[s \ {ch[s]}]]

\* The sum of f over S, as the library computes it.
Total(f, S) == MapThenSumSet(LAMBDA x : f[x], S)

\* The library's choice.
Choosing(S) == [s \in SUBSET S |-> CHOOSE x \in s : TRUE]

(* The library's choice is one.                                             *)
LEMMA ChosenFromSet ==
  ASSUME NEW S
  PROVE  Chooses(Choosing(S), S)
  BY DEF Chooses, Choosing

(* A function that sums exists, and sums of numbers are numbers.            *)
LEMMA SumExists ==
  ASSUME NEW S, IsFiniteSet(S), NEW f, \A x \in S : f[x] \in Nat,
         NEW ch, Chooses(ch, S)
  PROVE  \E it \in [SUBSET S -> Nat] : IsSum(it, f, S, ch)
<1> DEFINE op == [p \in S \X Nat |-> f[p[1]] + p[2]]
<1>1. \A x \in S, v \in Nat : op[<<x, v>>] = f[x] + v /\ op[<<x, v>>] \in Nat
  OBVIOUS
<1> HIDE DEF op
<1>2. PICK it : IsFold(it, S, 0, op, ch)
  BY FoldExists
<1>3. it \in [SUBSET S -> Nat]
  <2>1. 0 \in Nat
    OBVIOUS
  <2> QED
    BY <1>1, <1>2, <2>1, FoldType
<1>4. ASSUME NEW s \in SUBSET S, s # {}
      PROVE  op[<<ch[s], it[s \ {ch[s]}]>>] = f[ch[s]] + it[s \ {ch[s]}]
  <2>1. ch[s] \in S
    BY <1>4 DEF Chooses
  <2>2. it[s \ {ch[s]}] \in Nat
    BY <1>3
  <2> QED
    BY <1>1, <2>1, <2>2
<1>5. IsSum(it, f, S, ch)
  BY <1>2, <1>4 DEF IsFold, IsSum
<1> QED
  BY <1>3, <1>5

(* Such a function has numbers for values.                                  *)
LEMMA SumType ==
  ASSUME NEW S, IsFiniteSet(S), NEW f, \A x \in S : f[x] \in Nat,
         NEW ch, Chooses(ch, S), NEW it, IsSum(it, f, S, ch)
  PROVE  it \in [SUBSET S -> Nat]
<1> DEFINE Bad == {s \in SUBSET S : it[s] \notin Nat}
<1>1. SUFFICES ASSUME Bad # {} PROVE FALSE
  BY DEF IsSum
<1>2. PICK m \in Bad : \A n \in SUBSET m : n # m => n \notin Bad
  <2>1. Bad \in SUBSET SUBSET S
    OBVIOUS
  <2> HIDE DEF Bad
  <2> QED
    BY <1>1, <2>1, SmallestSubset
<1>3. it[m] = IF m = {} THEN 0 ELSE f[ch[m]] + it[m \ {ch[m]}]
  BY DEF IsSum
<1>4. CASE m # {}
  <2>1. ch[m] \in m
    BY <1>4 DEF Chooses
  <2>2. it[m \ {ch[m]}] \in Nat
    BY <1>2, <2>1
  <2> QED
    BY <1>3, <1>4, <2>1, <2>2
<1> QED
  BY <1>3, <1>4

(* One more element adds its value, whatever the order of the summands.     *)
LEMMA SumAddsElement ==
  ASSUME NEW S, IsFiniteSet(S), NEW f, \A x \in S : f[x] \in Nat,
         NEW ch, Chooses(ch, S), NEW it, IsSum(it, f, S, ch),
         NEW T \in SUBSET S, NEW y \in S, y \notin T
  PROVE  it[T \cup {y}] = it[T] + f[y]
<1> DEFINE Bad == {s \in SUBSET S : \E z \in S \ s : it[s \cup {z}] # it[s] + f[z]}
<1>1. SUFFICES ASSUME Bad # {} PROVE FALSE
  OBVIOUS
<1>2. PICK m \in Bad : \A n \in SUBSET m : n # m => n \notin Bad
  <2>1. Bad \in SUBSET SUBSET S
    OBVIOUS
  <2> HIDE DEF Bad
  <2> QED
    BY <1>1, <2>1, SmallestSubset
<1>3. PICK z \in S \ m : it[m \cup {z}] # it[m] + f[z]
  OBVIOUS
<1>4. it \in [SUBSET S -> Nat]
  BY SumType
<1> DEFINE u == m \cup {z}
           x == ch[u]
<1>5. x \in u /\ u \in SUBSET S
  BY DEF Chooses
<1>6. it[u] = f[x] + it[u \ {x}]
  BY <1>5 DEF IsSum
<1>7. CASE x = z
  <2>1. u \ {x} = m
    BY <1>7
  <2>2. it[u] = f[z] + it[m] /\ it[m] \in Nat /\ f[z] \in Nat
    BY <1>4, <1>6, <1>7, <2>1
  <2> QED
    BY <1>3, <2>2
<1>8. CASE x # z
  <2> DEFINE n == m \ {x}
  <2>1. x \in m /\ n \in SUBSET m /\ n # m
    BY <1>5, <1>8
  <2>2. n \notin Bad
    BY <1>2, <2>1
  <2>3. it[n \cup {z}] = it[n] + f[z] /\ it[n \cup {x}] = it[n] + f[x]
    BY <2>1, <2>2
  <2>4. u \ {x} = n \cup {z} /\ n \cup {x} = m
    BY <1>8, <2>1
  <2>5. it[n] \in Nat /\ f[x] \in Nat /\ f[z] \in Nat
    BY <1>4, <2>1
  <2>6. it[u] = f[x] + (it[n] + f[z])
    BY <1>6, <2>3, <2>4
  <2>7. it[m] = it[n] + f[x]
    BY <2>3, <2>4
  <2> HIDE DEF x, n
  <2>8. it[u] = it[m] + f[z]
    BY <2>5, <2>6, <2>7
  <2> QED
    BY <1>3, <2>8
<1> QED
  BY <1>7, <1>8

(* So the order does not matter.                                            *)
LEMMA SumsAgree ==
  ASSUME NEW S, IsFiniteSet(S), NEW f, \A x \in S : f[x] \in Nat,
         NEW g, \A x \in S : g[x] = f[x],
         NEW c, Chooses(c, S), NEW i, IsSum(i, f, S, c),
         NEW d, Chooses(d, S), NEW j, IsSum(j, g, S, d),
         NEW T \in SUBSET S
  PROVE  i[T] = j[T]
<1> DEFINE Bad == {s \in SUBSET S : i[s] # j[s]}
<1>1. SUFFICES ASSUME Bad # {} PROVE FALSE
  OBVIOUS
<1>2. PICK m \in Bad : \A n \in SUBSET m : n # m => n \notin Bad
  <2>1. Bad \in SUBSET SUBSET S
    OBVIOUS
  <2> HIDE DEF Bad
  <2> QED
    BY <1>1, <2>1, SmallestSubset
<1>3. CASE m = {}
  BY <1>2, <1>3 DEF IsSum
<1>4. CASE m # {}
  <2>1. PICK x \in m : x = c[m]
    BY <1>4 DEF Chooses
  <2>2. i[m] = f[x] + i[m \ {x}]
    BY <1>4, <2>1 DEF IsSum
  <2>3. i[m \ {x}] = j[m \ {x}]
    BY <1>2
  <2>4. j[(m \ {x}) \cup {x}] = j[m \ {x}] + g[x]
    <3>1. \A e \in S : g[e] \in Nat
      OBVIOUS
    <3>2. m \ {x} \in SUBSET S /\ x \in S /\ x \notin m \ {x}
      OBVIOUS
    <3> HIDE DEF Bad
    <3> QED
      BY <3>1, <3>2, SumAddsElement
  <2>5. (m \ {x}) \cup {x} = m
    OBVIOUS
  <2>6. j[m \ {x}] \in Nat
    <3>1. \A e \in S : g[e] \in Nat
      OBVIOUS
    <3>2. j \in [SUBSET S -> Nat]
      BY <3>1, SumType
    <3> QED
      BY <3>2
  <2>7. f[x] \in Nat /\ g[x] = f[x]
    OBVIOUS
  <2>8. j[m] = j[m \ {x}] + f[x]
    BY <2>4, <2>5, <2>7
  <2>9. i[m] = j[m]
    BY <2>2, <2>3, <2>6, <2>7, <2>8
  <2> QED
    BY <2>9
<1> QED
  BY <1>3, <1>4

(* Whatever the order, what is summed is the Total.                         *)
LEMMA TotalIsSum ==
  ASSUME NEW S, IsFiniteSet(S), NEW f, \A x \in S : f[x] \in Nat
  PROVE  /\ \E it : IsSum(it, f, S, Choosing(S)) /\ Total(f, S) = it[S]
         /\ \A ch, it : Chooses(ch, S) /\ IsSum(it, f, S, ch) => it[S] = Total(f, S)
<1> DEFINE sum == CHOOSE it : it = [s \in SUBSET S |->
                      IF s = {} THEN 0
                      ELSE f[CHOOSE x \in s : TRUE] + it[s \ {CHOOSE x \in s : TRUE}]]
<1>1. Total(f, S) = sum[S]
  BY DEF Total, MapThenSumSet, MapThenFoldSet
<1>2. PICK it : IsSum(it, f, S, Choosing(S))
  BY ChosenFromSet, SumExists
<1>3. it = [s \in SUBSET S |->
                      IF s = {} THEN 0
                      ELSE f[CHOOSE x \in s : TRUE] + it[s \ {CHOOSE x \in s : TRUE}]]
  BY <1>2 DEF IsSum, Choosing
<1>4. sum = [s \in SUBSET S |->
                      IF s = {} THEN 0
                      ELSE f[CHOOSE x \in s : TRUE] + sum[s \ {CHOOSE x \in s : TRUE}]]
  BY <1>3
<1> HIDE DEF sum
<1>5. IsSum(sum, f, S, Choosing(S))
  BY <1>4 DEF IsSum, Choosing
<1> QED
  BY <1>1, <1>5, ChosenFromSet, SumsAgree

(* The sum over nothing.                                                    *)
LEMMA TotalEmpty == ASSUME NEW f PROVE Total(f, {}) = 0
<1>1. IsFiniteSet({})
  BY FS_EmptySet
<1>2. PICK it : IsSum(it, f, {}, Choosing({})) /\ Total(f, {}) = it[{}]
  BY <1>1, TotalIsSum
<1> QED
  BY <1>2 DEF IsSum

(* Sums of numbers are numbers.                                             *)
LEMMA TotalType ==
  ASSUME NEW S, IsFiniteSet(S), NEW f, \A x \in S : f[x] \in Nat
  PROVE  Total(f, S) \in Nat
<1>1. PICK it : IsSum(it, f, S, Choosing(S)) /\ Total(f, S) = it[S]
  BY TotalIsSum
<1>2. it \in [SUBSET S -> Nat]
  BY <1>1, ChosenFromSet, SumType
<1> QED
  BY <1>1, <1>2

(* Only the values on the set count.                                        *)
LEMMA TotalSame ==
  ASSUME NEW S, IsFiniteSet(S), NEW f, \A x \in S : f[x] \in Nat,
         NEW g, \A x \in S : g[x] = f[x]
  PROVE  Total(g, S) = Total(f, S)
<1>1. PICK i : IsSum(i, f, S, Choosing(S)) /\ Total(f, S) = i[S]
  BY TotalIsSum
<1>2. \A x \in S : g[x] \in Nat
  OBVIOUS
<1>3. PICK j : IsSum(j, g, S, Choosing(S)) /\ Total(g, S) = j[S]
  BY <1>2, TotalIsSum
<1>4. i[S] = j[S]
  BY <1>1, <1>3, ChosenFromSet, SumsAgree
<1> QED
  BY <1>1, <1>3, <1>4

(* Summing zeros gives zero.                                                *)
LEMMA TotalZero ==
  ASSUME NEW S, IsFiniteSet(S), NEW f, \A x \in S : f[x] = 0
  PROVE  Total(f, S) = 0
<1>1. \A x \in S : f[x] \in Nat
  OBVIOUS
<1> DEFINE zero == [s \in SUBSET S |-> 0]
<1>2. \A s \in SUBSET S : s # {} => Choosing(S)[s] \in S
  BY ChosenFromSet DEF Chooses
<1>3. IsSum(zero, f, S, Choosing(S))
  BY <1>2 DEF IsSum
<1>4. zero[S] = Total(f, S)
  <2> HIDE DEF zero
  <2> QED
    BY <1>1, <1>3, ChosenFromSet, TotalIsSum
<1> QED
  BY <1>4

(* The sum over a set and one more element.                                 *)
LEMMA TotalAdd ==
  ASSUME NEW S, IsFiniteSet(S), NEW y, y \notin S,
         NEW f, \A x \in S \cup {y} : f[x] \in Nat
  PROVE  Total(f, S \cup {y}) = Total(f, S) + f[y]
<1> DEFINE U == S \cup {y}
           ch == Choosing(U)
<1>1. IsFiniteSet(U) /\ Chooses(ch, U) /\ Chooses(ch, S)
  BY FS_AddElement, ChosenFromSet DEF Choosing, Chooses
<1>2. PICK it : IsSum(it, f, U, ch) /\ Total(f, U) = it[U]
  BY <1>1, TotalIsSum
<1>3. it[S \cup {y}] = it[S] + f[y]
  <2>1. S \in SUBSET U /\ y \in U /\ \A x \in U : f[x] \in Nat
    OBVIOUS
  <2> HIDE DEF U, ch
  <2> QED
    BY <1>1, <1>2, <2>1, SumAddsElement
<1> DEFINE part == [s \in SUBSET S |-> it[s]]
<1>4. IsSum(part, f, S, ch)
  <2>1. \A s \in SUBSET S : s \in SUBSET U /\ s \ {ch[s]} \in SUBSET S
    OBVIOUS
  <2>2. \A s \in SUBSET S : it[s] = IF s = {} THEN 0 ELSE f[ch[s]] + it[s \ {ch[s]}]
    BY <1>2, <2>1 DEF IsSum
  <2> HIDE DEF ch
  <2>3. \A s \in SUBSET S : part[s] = IF s = {} THEN 0 ELSE f[ch[s]] + part[s \ {ch[s]}]
    BY <2>1, <2>2
  <2>4. part = [s \in SUBSET S |-> part[s]]
    OBVIOUS
  <2> HIDE DEF part
  <2> QED
    BY <2>3, <2>4 DEF IsSum
<1>5. part[S] = Total(f, S)
  <2> HIDE DEF part, ch
  <2> QED
    BY <1>1, <1>4, TotalIsSum
<1>6. part[S] = it[S]
  OBVIOUS
<1> QED
  BY <1>2, <1>3, <1>5, <1>6

(* The sum over a set without one of its elements.                          *)
LEMMA TotalRemove ==
  ASSUME NEW S, IsFiniteSet(S), NEW y \in S, NEW f, \A x \in S : f[x] \in Nat
  PROVE  Total(f, S) = Total(f, S \ {y}) + f[y]
<1>1. IsFiniteSet(S \ {y})
  BY FS_RemoveElement
<1>2. (S \ {y}) \cup {y} = S
  OBVIOUS
<1>3. Total(f, (S \ {y}) \cup {y}) = Total(f, S \ {y}) + f[y]
  BY <1>1, <1>2, TotalAdd
<1> QED
  BY <1>2, <1>3

(* Changing one value changes the sum by as much.                           *)
LEMMA TotalUpdate ==
  ASSUME NEW S, IsFiniteSet(S), NEW y \in S,
         NEW f, \A x \in S : f[x] \in Nat,
         NEW g, \A x \in S : g[x] \in Nat,
         \A x \in S \ {y} : g[x] = f[x]
  PROVE  Total(g, S) + f[y] = Total(f, S) + g[y]
<1>1. IsFiniteSet(S \ {y})
  BY FS_RemoveElement
<1>2. Total(g, S \ {y}) = Total(f, S \ {y})
  BY <1>1, TotalSame
<1>3. Total(f, S \ {y}) \in Nat
  BY <1>1, TotalType
<1>4. Total(f, S) = Total(f, S \ {y}) + f[y]
  BY TotalRemove
<1>5. Total(g, S) = Total(g, S \ {y}) + g[y]
  BY TotalRemove
<1>6. f[y] \in Nat /\ g[y] \in Nat
  OBVIOUS
<1> QED
  BY <1>2, <1>3, <1>4, <1>5, <1>6

(* A set splits into a part and the rest.                                   *)
LEMMA TotalSplit ==
  ASSUME NEW S, IsFiniteSet(S), NEW f, \A x \in S : f[x] \in Nat,
         NEW T \in SUBSET S
  PROVE  Total(f, S) = Total(f, T) + Total(f, S \ T)
<1> DEFINE Bad == {s \in SUBSET S : Total(f, S) # Total(f, s) + Total(f, S \ s)}
<1>1. SUFFICES ASSUME Bad # {} PROVE FALSE
  OBVIOUS
<1>2. PICK m \in Bad : \A n \in SUBSET m : n # m => n \notin Bad
  <2>1. Bad \in SUBSET SUBSET S
    OBVIOUS
  <2> HIDE DEF Bad
  <2> QED
    BY <1>1, <2>1, SmallestSubset
<1>3. Total(f, S) \in Nat
  BY TotalType
<1>4. CASE m = {}
  <2>1. Total(f, m) = 0 /\ S \ m = S
    BY <1>4, TotalEmpty
  <2> QED
    BY <1>3, <2>1
<1>5. CASE m # {}
  <2>1. PICK y : y \in m
    BY <1>5
  <2> DEFINE n == m \ {y}
  <2>2. n \notin Bad
    BY <1>2, <2>1
  <2>3. IsFiniteSet(m) /\ IsFiniteSet(n) /\ IsFiniteSet(S \ n) /\ IsFiniteSet(S \ m)
    BY FS_Subset
  <2>4. Total(f, m) = Total(f, n) + f[y]
    BY <2>1, <2>3, TotalRemove
  <2>5. Total(f, S \ n) = Total(f, (S \ n) \ {y}) + f[y]
    <3>1. y \in S \ n
      BY <2>1
    <3> QED
      BY <2>3, <3>1, TotalRemove
  <2>6. (S \ n) \ {y} = S \ m
    BY <2>1
  <2>7. /\ Total(f, n) \in Nat /\ Total(f, S \ m) \in Nat /\ f[y] \in Nat
        /\ n \in SUBSET S
    BY <2>1, <2>3, TotalType
  <2>8. Total(f, S) = Total(f, n) + Total(f, S \ n)
    BY <2>2, <2>7
  <2>9. Total(f, S \ n) = Total(f, S \ m) + f[y]
    BY <2>5, <2>6
  <2> HIDE DEF n
  <2>10. Total(f, S) = Total(f, m) + Total(f, S \ m)
    BY <2>4, <2>7, <2>8, <2>9
  <2> QED
    BY <2>10
<1> QED
  BY <1>4, <1>5

-----------------------------------------------------------------------------
(* Sums over sequences of numbers.                                          *)

SeqTotal(s) == Total(s, DOMAIN s)

(* The indices of a sequence are finitely many.                             *)
LEMMA IndicesFinite ==
  ASSUME NEW S, NEW s \in Seq(S)
  PROVE  IsFiniteSet(DOMAIN s)
<1>1. DOMAIN s = 1 .. Len(s) /\ Len(s) \in Nat
  BY LenProperties
<1> QED
  BY <1>1, FS_Interval

(* The empty sequence, and the type.                                        *)
LEMMA SeqTotalType ==
  /\ SeqTotal(<<>>) = 0
  /\ \A s \in Seq(Nat) : SeqTotal(s) \in Nat
<1>1. SeqTotal(<<>>) = 0
  BY TotalEmpty DEF SeqTotal
<1>2. ASSUME NEW s \in Seq(Nat) PROVE SeqTotal(s) \in Nat
  <2>1. \A i \in DOMAIN s : s[i] \in Nat
    BY ElementOfSeq, LenProperties
  <2> QED
    BY <2>1, IndicesFinite, TotalType DEF SeqTotal
<1> QED
  BY <1>1, <1>2

(* One number more at the end.                                              *)
LEMMA SeqTotalAppend ==
  ASSUME NEW s \in Seq(Nat), NEW n \in Nat
  PROVE  SeqTotal(Append(s, n)) = SeqTotal(s) + n
<1> DEFINE t == Append(s, n)
           k == Len(s) + 1
<1>1. /\ DOMAIN s = 1 .. Len(s) /\ Len(s) \in Nat
      /\ DOMAIN t = DOMAIN s \cup {k} /\ k \notin DOMAIN s
      /\ \A i \in DOMAIN s : t[i] = s[i] /\ s[i] \in Nat
      /\ t[k] = n
  BY LenProperties, AppendProperties, ElementOfSeq
<1>2. IsFiniteSet(DOMAIN s)
  BY IndicesFinite
<1> HIDE DEF t, k
<1>3. \A x \in DOMAIN s \cup {k} : t[x] \in Nat
  BY <1>1
<1>4. Total(t, DOMAIN s \cup {k}) = Total(t, DOMAIN s) + t[k]
  BY <1>1, <1>2, <1>3, TotalAdd
<1>5. Total(t, DOMAIN s) = Total(s, DOMAIN s)
  BY <1>1, <1>2, TotalSame
<1> QED
  BY <1>1, <1>4, <1>5 DEF SeqTotal, t

(* One sequence behind another.                                             *)
LEMMA SeqTotalConcat ==
  ASSUME NEW s \in Seq(Nat), NEW t \in Seq(Nat)
  PROVE  SeqTotal(s \o t) = SeqTotal(s) + SeqTotal(t)
<1> DEFINE Bad == {n \in Nat : \E u \in Seq(Nat) :
                      Len(u) = n /\ SeqTotal(s \o u) # SeqTotal(s) + SeqTotal(u)}
<1>1. SUFFICES ASSUME Bad # {} PROVE FALSE
  BY LenProperties
<1>2. PICK n \in Bad : \A m \in Bad : n <= m
  <2>1. Bad \in SUBSET Nat
    OBVIOUS
  <2> HIDE DEF Bad
  <2> QED
    BY <1>1, <2>1, LeastNumber
<1>3. PICK u \in Seq(Nat) : Len(u) = n /\ SeqTotal(s \o u) # SeqTotal(s) + SeqTotal(u)
  OBVIOUS
<1>4. SeqTotal(s) \in Nat
  BY SeqTotalType
<1>5. CASE u = <<>>
  <2>1. s \o u = s
    BY <1>5, ConcatEmptySeq
  <2> QED
    BY <1>3, <1>4, <1>5, <2>1, SeqTotalType
<1>6. CASE u # <<>>
  <2>1. PICK v \in Seq(Nat), e \in Nat : u = Append(v, e)
    BY <1>6, SequenceEmptyOrAppend
  <2>2. Len(v) = n - 1 /\ Len(v) \in Nat
    BY <1>3, <2>1, AppendProperties, LenProperties
  <2>3. Len(v) \notin Bad
    BY <1>2, <2>2
  <2>4. SeqTotal(s \o v) = SeqTotal(s) + SeqTotal(v)
    BY <2>2, <2>3
  <2>5. s \o u = Append(s \o v, e) /\ s \o v \in Seq(Nat)
    BY <2>1, ConcatProperties, AppendProperties, LenProperties
  <2>6. SeqTotal(s \o u) = SeqTotal(s \o v) + e
    BY <2>5, SeqTotalAppend
  <2>7. SeqTotal(u) = SeqTotal(v) + e /\ SeqTotal(v) \in Nat
    BY <2>1, SeqTotalAppend, SeqTotalType
  <2>8. SeqTotal(s \o u) = SeqTotal(s) + SeqTotal(u)
    BY <1>4, <2>4, <2>6, <2>7
  <2> QED
    BY <1>3, <2>8
<1> QED
  BY <1>5, <1>6

(* A sequence without its first number.                                     *)
LEMMA SeqTotalTail ==
  ASSUME NEW s \in Seq(Nat), s # <<>>
  PROVE  SeqTotal(s) = Head(s) + SeqTotal(Tail(s))
<1>1. Head(s) \in Nat /\ Tail(s) \in Seq(Nat)
  BY HeadTailProperties
<1>2. s = <<Head(s)>> \o Tail(s) /\ <<Head(s)>> \in Seq(Nat)
  BY <1>1, HeadTailProperties, ConcatProperties, LenProperties
<1>3. <<Head(s)>> = Append(<<>>, Head(s)) /\ <<>> \in Seq(Nat)
  BY <1>1
<1>4. SeqTotal(<<Head(s)>>) = Head(s)
  <2>1. SeqTotal(Append(<<>>, Head(s))) = SeqTotal(<<>>) + Head(s)
    BY <1>1, <1>3, SeqTotalAppend
  <2>2. SeqTotal(<<>>) = 0
    BY SeqTotalType
  <2> QED
    BY <1>1, <1>3, <2>1, <2>2
<1> QED
  BY <1>1, <1>2, <1>4, SeqTotalConcat

-----------------------------------------------------------------------------
(* Counts over sequences.                                                   *)

\* Where a sequence has an element of M.
Marked(s, M) == {i \in DOMAIN s : s[i] \in M}
Count(s, M) == Cardinality(Marked(s, M))

(* Counts are numbers; nothing counts nothing; what counts less is less.     *)
LEMMA CountType ==
  ASSUME NEW S, NEW s \in Seq(S), NEW M
  PROVE  /\ IsFiniteSet(Marked(s, M)) /\ Count(s, M) \in Nat
         /\ Count(<<>>, M) = 0
         /\ \A L : (\A i \in DOMAIN s : s[i] \in L => s[i] \in M)
                       => Count(s, L) <= Count(s, M)
<1>1. IsFiniteSet(DOMAIN s)
  BY IndicesFinite
<1>2. Marked(s, M) \subseteq DOMAIN s
  BY DEF Marked
<1>3. IsFiniteSet(Marked(s, M)) /\ Count(s, M) \in Nat
  BY <1>1, <1>2, FS_Subset, FS_CardinalityType DEF Count
<1>4. Count(<<>>, M) = 0
  <2>1. Marked(<<>>, M) = {}
    BY DEF Marked
  <2> QED
    BY <2>1, FS_EmptySet DEF Count
<1>5. ASSUME NEW L, \A i \in DOMAIN s : s[i] \in L => s[i] \in M
      PROVE  Count(s, L) <= Count(s, M)
  <2>1. Marked(s, L) \in SUBSET Marked(s, M)
    BY <1>5 DEF Marked
  <2> QED
    BY <1>3, <2>1, FS_Subset DEF Count
<1> QED
  BY <1>3, <1>4, <1>5

(* One element more at the end.                                             *)
LEMMA CountAppend ==
  ASSUME NEW S, NEW s \in Seq(S), NEW M, NEW e \in S
  PROVE  Count(Append(s, e), M) = Count(s, M) + (IF e \in M THEN 1 ELSE 0)
<1> DEFINE t == Append(s, e)
           n == Len(s) + 1
<1>1. /\ Len(s) \in Nat /\ DOMAIN s = 1 .. Len(s)
      /\ DOMAIN t = 1 .. n /\ t[n] = e
      /\ \A i \in DOMAIN s : t[i] = s[i]
  BY AppendProperties, LenProperties
<1> HIDE DEF t
<1>2. Marked(t, M) = Marked(s, M) \cup (IF e \in M THEN {n} ELSE {})
  BY <1>1 DEF Marked
<1>3. n \notin Marked(s, M)
  BY <1>1 DEF Marked
<1>4. IsFiniteSet(Marked(s, M)) /\ Count(s, M) \in Nat
  BY CountType
<1> HIDE DEF n
<1>5. CASE e \in M
  <2>1. Marked(t, M) = Marked(s, M) \cup {n}
    BY <1>2, <1>5
  <2>2. Cardinality(Marked(t, M)) = Cardinality(Marked(s, M)) + 1
    BY <1>3, <1>4, <2>1, FS_AddElement
  <2> QED
    BY <1>5, <2>2 DEF Count, t
<1>6. CASE e \notin M
  <2>1. Marked(t, M) = Marked(s, M)
    BY <1>2, <1>6
  <2> QED
    BY <1>4, <1>6, <2>1 DEF Count, t
<1> QED
  BY <1>5, <1>6

(* The first element and the rest.                                          *)
LEMMA CountTail ==
  ASSUME NEW S, NEW s \in Seq(S), NEW M, s # <<>>
  PROVE  Count(s, M) = Count(Tail(s), M) + (IF Head(s) \in M THEN 1 ELSE 0)
<1> DEFINE t == Tail(s)
<1>1. /\ Len(s) \in Nat /\ Len(s) > 0 /\ DOMAIN s = 1 .. Len(s)
      /\ t \in Seq(S) /\ DOMAIN t = 1 .. Len(s) - 1
      /\ \A i \in 1 .. Len(s) - 1 : t[i] = s[i + 1]
      /\ Head(s) = s[1]
  BY HeadTailProperties, EmptySeq, LenProperties
<1> DEFINE A == Marked(t, M)
           B == Marked(s, M) \ {1}
           f == [i \in A |-> i + 1]
<1> HIDE DEF t
<1>2. /\ IsFiniteSet(A) /\ Cardinality(A) \in Nat
      /\ IsFiniteSet(Marked(s, M)) /\ Count(s, M) \in Nat
  BY <1>1, CountType DEF Count
<1>3. f \in Bijection(A, B)
  <2>1. \A i \in A : i \in 1 .. Len(s) - 1 /\ i + 1 \in B
    BY <1>1 DEF Marked
  <2>2. \A j \in B : j - 1 \in A /\ (j - 1) + 1 = j
    BY <1>1 DEF Marked
  <2> HIDE DEF A, B
  <2>3. f \in [A -> B]
    BY <2>1
  <2>4. \A i, j \in A : f[i] = f[j] => i = j
    BY <2>1
  <2>5. \A j \in B : \E i \in A : f[i] = j
    BY <2>2
  <2> QED
    BY <2>3, <2>4, <2>5 DEF Bijection, Injection, Surjection, IsInjective
<1>4. Cardinality(B) = Cardinality(A)
  BY <1>2, <1>3, FS_Bijection DEF ExistsBijection
<1>5. 1 \in Marked(s, M) <=> Head(s) \in M
  BY <1>1 DEF Marked
<1>6. Cardinality(B) = IF 1 \in Marked(s, M) THEN Count(s, M) - 1 ELSE Count(s, M)
  BY <1>2, FS_RemoveElement DEF Count
<1> QED
  BY <1>2, <1>4, <1>5, <1>6 DEF Count, t
=============================================================================
