-------------------------- MODULE FusionRef_proofs --------------------------
(***************************************************************************)
(* The counts of references, for any number of references, fusionees and   *)
(* threads, and any forest of inheritance.                                 *)
(***************************************************************************)
EXTENDS FusionRef, FiniteSetTheorems, WellFoundedInduction, TLAPS

(* Induction, over a set of numbers.                                       *)
LEMMA Induction ==
  ASSUME NEW S \in SUBSET Nat, 0 \in S, \A n \in S : n + 1 \in S
  PROVE  S = Nat
<1> DEFINE T == Nat \ S
<1> SUFFICES ASSUME T # {} PROVE FALSE
  OBVIOUS
<1>1. PICK x \in T : \A y \in T : ~ (<<y, x>> \in OpToRel(<, Nat))
  BY WFMin, NatLessThanWellFounded
<1>2. \A y \in T : ~ (y < x)
  BY <1>1 DEF OpToRel
<1>3. x \in Nat /\ x # 0 /\ x \notin S
  OBVIOUS
<1>4. x - 1 \in Nat /\ (x - 1) + 1 = x
  BY <1>3
<1>5. x - 1 \notin T
  BY <1>2, <1>3
<1> QED
  BY <1>3, <1>4, <1>5

-----------------------------------------------------------------------------
(* Sums over a finite set.  One step of the recursion that MapThenSumSet   *)
(* is.                                                                     *)
Any(s) == CHOOSE x \in s : TRUE

Step(g, F, s) == IF s = {} THEN 0 ELSE g[Any(s)] + F[s \ {Any(s)}]

SumOf(g, S) == MapThenSumSet(LAMBDA x : g[x], S)

Sums(g, S, U) == \A s \in SUBSET S : U[s] = Step(g, U, s)

(* A rule over the sizes of the subsets of a finite set.                   *)
LEMMA BySize ==
  ASSUME NEW S, IsFiniteSet(S), NEW Good \in SUBSET (SUBSET S), {} \in Good,
         \A s \in SUBSET S : s # {} /\ s \ {Any(s)} \in Good => s \in Good
  PROVE  Good = SUBSET S
<1> DEFINE N == {n \in Nat : \A s \in SUBSET S : Cardinality(s) = n => s \in Good}
<1>1. \A s \in SUBSET S : IsFiniteSet(s) /\ Cardinality(s) \in Nat
  BY FS_Subset, FS_CardinalityType
<1>2. 0 \in N
  BY <1>1, FS_EmptySet
<1>3. ASSUME NEW n \in N PROVE n + 1 \in N
  <2> SUFFICES ASSUME NEW s \in SUBSET S, Cardinality(s) = n + 1 PROVE s \in Good
    OBVIOUS
  <2>1. s # {}
    BY FS_EmptySet
  <2>2. Any(s) \in s
    BY <2>1 DEF Any
  <2>3. Cardinality(s \ {Any(s)}) = n
    BY <1>1, <2>2, FS_RemoveElement
  <2> QED
    BY <2>1, <2>3
<1>4. N = Nat
  <2> HIDE DEF N
  <2>1. N \in SUBSET Nat
    BY DEF N
  <2> QED
    BY <1>2, <1>3, <2>1, Induction
<1> QED
  BY <1>1, <1>4

(* There is a function that the recursion defines.                         *)
LEMMA SumsExist ==
  ASSUME NEW S, IsFiniteSet(S), NEW g
  PROVE  \E U : U = [s \in SUBSET S |-> Step(g, U, s)]
<1> DEFINE Upto(n) == {s \in SUBSET S : Cardinality(s) <= n}
           Def(F, n) == \A s \in Upto(n) : F[s] = Step(g, F, s)
           N == {n \in Nat : \E F : Def(F, n)}
<1>1. \A s \in SUBSET S : IsFiniteSet(s) /\ Cardinality(s) \in Nat
  BY FS_Subset, FS_CardinalityType
<1>2. 0 \in N
  <2>1. \A s \in Upto(0) : s = {}
    BY <1>1, FS_EmptySet
  <2>2. Def([s \in SUBSET S |-> 0], 0)
    BY <2>1 DEF Step
  <2> QED
    BY <2>2
<1>3. ASSUME NEW n \in N PROVE n + 1 \in N
  <2>1. PICK F : Def(F, n)
    OBVIOUS
  <2> DEFINE G == [s \in SUBSET S |-> IF Cardinality(s) <= n THEN F[s] ELSE Step(g, F, s)]
  <2>2. ASSUME NEW s \in Upto(n + 1) PROVE G[s] = Step(g, G, s)
    <3>1. G[s] = Step(g, F, s)
      BY <2>1
    <3>2. CASE s = {}
      BY <3>1, <3>2 DEF Step
    <3>3. CASE s # {}
      <4>1. Any(s) \in s
        BY <3>3 DEF Any
      <4>2. s \ {Any(s)} \in Upto(n)
        BY <1>1, <4>1, FS_RemoveElement
      <4>3. G[s \ {Any(s)}] = F[s \ {Any(s)}]
        BY <4>2
      <4> QED
        BY <3>1, <3>3, <4>3 DEF Step
    <3> QED
      BY <3>2, <3>3
  <2>3. Def(G, n + 1) /\ n + 1 \in Nat
    BY <2>2
  <2> HIDE DEF Def, G
  <2> QED
    BY <2>3
<1>4. N = Nat
  <2> HIDE DEF N
  <2>1. N \in SUBSET Nat
    BY DEF N
  <2> QED
    BY <1>2, <1>3, <2>1, Induction
<1>5. Cardinality(S) \in N
  BY <1>1, <1>4
<1>6. PICK F : Def(F, Cardinality(S))
  BY <1>5
<1>7. \A s \in SUBSET S : s \in Upto(Cardinality(S))
  BY FS_Subset
<1> DEFINE U == [s \in SUBSET S |-> F[s]]
<1>8. ASSUME NEW s \in SUBSET S PROVE U[s] = Step(g, U, s)
  <2>1. F[s] = Step(g, F, s)
    BY <1>6, <1>7
  <2>2. s # {} => s \ {Any(s)} \in SUBSET S
    OBVIOUS
  <2> QED
    BY <2>1, <2>2 DEF Step
<1>9. U = [s \in SUBSET S |-> Step(g, U, s)]
  <2>1. U = [s \in SUBSET S |-> U[s]]
    OBVIOUS
  <2> HIDE DEF U
  <2> QED
    BY <1>8, <2>1
<1> QED
  BY <1>9

LEMMA SumIs ==
  ASSUME NEW S, IsFiniteSet(S), NEW g
  PROVE  \E U : Sums(g, S, U) /\ SumOf(g, S) = U[S]
<1> DEFINE Def(F) == F = [s \in SUBSET S |-> Step(g, F, s)]
           U == CHOOSE F : Def(F)
<1>1. SumOf(g, S) = U[S]
  BY DEF SumOf, MapThenSumSet, MapThenFoldSet, Step, Any
<1>2. Def(U)
  BY SumsExist
<1> HIDE DEF U
<1>3. Sums(g, S, U)
  BY <1>2 DEF Sums
<1> QED
  BY <1>1, <1>3

(* A sum is a number; it is zero if all its terms are and only then.       *)
LEMMA SumOfNats ==
  ASSUME NEW S, IsFiniteSet(S), NEW g \in [S -> Nat]
  PROVE  /\ SumOf(g, S) \in Nat
         /\ SumOf(g, S) = 0 <=> \A x \in S : g[x] = 0
<1>1. PICK U : Sums(g, S, U) /\ SumOf(g, S) = U[S]
  BY SumIs
<1> DEFINE Good == {s \in SUBSET S : U[s] \in Nat /\ (U[s] = 0 <=> \A x \in s : g[x] = 0)}
<1>2. {} \in Good
  BY <1>1 DEF Sums, Step
<1>3. ASSUME NEW s \in SUBSET S, s # {}, s \ {Any(s)} \in Good PROVE s \in Good
  <2> DEFINE a == Any(s)
  <2>1. a \in s /\ g[a] \in Nat
    BY <1>3 DEF Any
  <2>2. U[s] = g[a] + U[s \ {a}]
    BY <1>1, <1>3 DEF Sums, Step
  <2>3. U[s \ {a}] \in Nat /\ (U[s \ {a}] = 0 <=> \A x \in s \ {a} : g[x] = 0)
    BY <1>3
  <2> HIDE DEF a
  <2>4. U[s] \in Nat /\ (U[s] = 0 <=> g[a] = 0 /\ U[s \ {a}] = 0)
    BY <2>1, <2>2, <2>3
  <2>5. U[s] = 0 <=> \A x \in s : g[x] = 0
    BY <2>1, <2>3, <2>4
  <2> QED
    BY <2>4, <2>5
<1>4. Good = SUBSET S
  <2>1. Good \in SUBSET (SUBSET S)
    OBVIOUS
  <2> HIDE DEF Good
  <2> QED
    BY <1>2, <1>3, <2>1, BySize
<1> QED
  BY <1>1, <1>4

(* When one term changes the sum changes by as much.                       *)
LEMMA SumChanges ==
  ASSUME NEW S, IsFiniteSet(S), NEW g \in [S -> Nat], NEW x \in S, NEW n \in Nat
  PROVE  SumOf([g EXCEPT ![x] = n], S) = SumOf(g, S) + n - g[x]
<1> DEFINE h == [g EXCEPT ![x] = n]
<1>1. PICK U : Sums(g, S, U) /\ SumOf(g, S) = U[S]
  BY SumIs
<1>2. PICK V : Sums(h, S, V) /\ SumOf(h, S) = V[S]
  BY SumIs
<1>3. h \in [S -> Nat] /\ h[x] = n /\ \A y \in S \ {x} : h[y] = g[y]
  OBVIOUS
<1> HIDE DEF h
<1> DEFINE Good == {s \in SUBSET S : /\ U[s] \in Nat /\ V[s] \in Nat
                                     /\ V[s] = IF x \in s THEN U[s] + n - g[x] ELSE U[s]}
<1>4. {} \in Good
  <2>1. U[{}] = 0 /\ V[{}] = 0
    BY <1>1, <1>2 DEF Sums, Step
  <2> QED
    BY <2>1
<1>5. ASSUME NEW s \in SUBSET S, s # {}, s \ {Any(s)} \in Good PROVE s \in Good
  <2> DEFINE a == Any(s)
             t == s \ {a}
  <2>1. a \in s /\ g[a] \in Nat /\ h[a] \in Nat
    BY <1>3, <1>5 DEF Any
  <2>2. U[s] = g[a] + U[t] /\ V[s] = h[a] + V[t]
    BY <1>1, <1>2, <1>5 DEF Sums, Step
  <2>3. U[t] \in Nat /\ V[t] \in Nat /\ V[t] = IF x \in t THEN U[t] + n - g[x] ELSE U[t]
    BY <1>5
  <2>4. (x \in t <=> x \in s /\ x # a) /\ (x # a => h[a] = g[a]) /\ g[x] \in Nat
    BY <1>3, <2>1
  <2> HIDE DEF a, t
  <2>5. U[s] \in Nat /\ V[s] \in Nat
    BY <2>1, <2>2, <2>3
  <2>6. V[s] = IF x \in s THEN U[s] + n - g[x] ELSE U[s]
    BY <1>3, <2>1, <2>2, <2>3, <2>4
  <2> QED
    BY <2>5, <2>6
<1>6. Good = SUBSET S
  <2>1. Good \in SUBSET (SUBSET S)
    OBVIOUS
  <2> HIDE DEF Good
  <2> QED
    BY <1>4, <1>5, <2>1, BySize
<1> QED
  BY <1>1, <1>2, <1>6 DEF h

-----------------------------------------------------------------------------
(* The inheritance is a forest: it has no circles, and only links          *)
(* references that exist.                                                  *)
Ranked(rank) ==
  /\ rank \in [Refs -> Nat]
  /\ \A q \in Refs : inherited[q] # None => rank[inherited[q]] < rank[q]

Forest == \E rank \in [Refs -> Nat] : Ranked(rank)

HeirType == inherited \in [Refs -> Refs \cup {None}]

AboveOf(F, q) == {q} \cup (IF inherited[q] = None THEN {} ELSE F[inherited[q]])

(* The references that inherit from r: r, and who inherits from one that   *)
(* does, but not what r inherits from.                                     *)
LEMMA BelowIs ==
  ASSUME HeirType, Forest
  PROVE  \A r \in Refs :
           /\ Below(r) \in SUBSET Refs /\ r \in Below(r)
           /\ \A q \in Refs \ {r} :
                q \in Below(r) <=> inherited[q] # None /\ inherited[q] \in Below(r)
           /\ inherited[r] # None => inherited[r] \notin Below(r)
<1> DEFINE Closed(X) == \A x \in X : inherited[x] # None => inherited[x] \in X
           Least(q) == {p \in Refs : \A X \in SUBSET Refs : q \in X /\ Closed(X) => p \in X}
           L == [q \in Refs |-> Least(q)]
           Def(F) == F = [q \in Refs |-> AboveOf(F, q)]
           A == CHOOSE F : Def(F)
<1>1. \A r : Below(r) = {q \in Refs : r \in A[q]}
  BY DEF Below, AboveOf
<1>2. ASSUME NEW q \in Refs PROVE Least(q) = AboveOf(L, q)
  <2>1. CASE inherited[q] = None
    <3>1. Closed({q}) /\ {q} \in SUBSET Refs
      BY <2>1
    <3>2. Least(q) = {q}
      BY <3>1
    <3> QED
      BY <2>1, <3>2 DEF AboveOf
  <2>2. CASE inherited[q] # None
    <3> DEFINE i == inherited[q]
    <3>1. i \in Refs
      BY <2>2 DEF HeirType
    <3>2. \A X \in SUBSET Refs : q \in X /\ Closed(X) => i \in X
      BY <2>2
    <3>3. Least(i) \subseteq Least(q) /\ q \in Least(q)
      BY <3>2
    <3>4. ASSUME NEW p \in Least(q), p # q PROVE p \in Least(i)
      <4> SUFFICES ASSUME NEW X \in SUBSET Refs, i \in X, Closed(X) PROVE p \in X
        OBVIOUS
      <4>1. X \cup {q} \in SUBSET Refs /\ q \in X \cup {q} /\ Closed(X \cup {q})
        OBVIOUS
      <4>2. p \in X \cup {q}
        BY <4>1
      <4> QED
        BY <3>4, <4>2
    <3>5. Least(q) = {q} \cup Least(i)
      BY <3>3, <3>4
    <3>6. L[i] = Least(i)
      BY <3>1
    <3> QED
      BY <2>2, <3>5, <3>6 DEF AboveOf
  <2> QED
    BY <2>1, <2>2
<1>3. Def(L)
  <2> HIDE DEF Least
  <2>1. L = [q \in Refs |-> L[q]] /\ \A q \in Refs : L[q] = Least(q)
    OBVIOUS
  <2> HIDE DEF L
  <2> QED
    BY <1>2, <2>1
<1>4. Def(A)
  <2> HIDE DEF L
  <2> QED
    BY <1>3
<1> HIDE DEF A
<1>5. \A q \in Refs : A[q] = {q} \cup (IF inherited[q] = None THEN {} ELSE A[inherited[q]])
  BY <1>4 DEF AboveOf
<1>6. PICK rank \in [Refs -> Nat] : Ranked(rank)
  BY DEF Forest
<1> DEFINE N == {n \in Nat : \A q \in Refs : rank[q] <= n =>
                               \A p \in Refs : p \in A[q] => rank[p] <= rank[q]}
<1>7. 0 \in N
  <2> SUFFICES ASSUME NEW q \in Refs, rank[q] <= 0, NEW p \in Refs, p \in A[q]
               PROVE  rank[p] <= rank[q]
    OBVIOUS
  <2>1. inherited[q] = None
    <3>1. CASE inherited[q] # None
      <4>1. inherited[q] \in Refs /\ rank[inherited[q]] < rank[q]
        BY <1>6, <3>1 DEF Ranked, HeirType
      <4> QED
        BY <1>6, <4>1 DEF Ranked
    <3> QED
      BY <3>1
  <2>2. p = q
    BY <1>5, <2>1
  <2> QED
    BY <1>6, <2>2
<1>8. ASSUME NEW n \in N PROVE n + 1 \in N
  <2>1. n \in Nat /\ \A q \in Refs : rank[q] <= n => \A p \in Refs : p \in A[q] => rank[p] <= rank[q]
    OBVIOUS
  <2> SUFFICES ASSUME NEW q \in Refs, rank[q] <= n + 1, NEW p \in Refs, p \in A[q]
               PROVE  rank[p] <= rank[q]
    BY <2>1
  <2> HIDE DEF N
  <2>2. CASE inherited[q] = None \/ p = q
    <3>1. p = q
      BY <1>5, <2>2
    <3> QED
      BY <1>6, <3>1
  <2>3. CASE inherited[q] # None /\ p # q
    <3>1. inherited[q] \in Refs /\ rank[inherited[q]] < rank[q]
      BY <1>6, <2>3 DEF Ranked, HeirType
    <3>2. p \in A[inherited[q]]
      BY <1>5, <2>3
    <3>3. rank[q] \in Nat /\ rank[p] \in Nat /\ rank[inherited[q]] \in Nat
      BY <1>6, <3>1
    <3>4. rank[inherited[q]] <= n
      BY <2>1, <3>1, <3>3
    <3>5. rank[p] <= rank[inherited[q]]
      BY <2>1, <3>1, <3>2, <3>4
    <3> QED
      BY <3>1, <3>3, <3>5
  <2> QED
    BY <2>2, <2>3
<1>9. N = Nat
  <2>1. N \in SUBSET Nat
    OBVIOUS
  <2> HIDE DEF N
  <2> QED
    BY <1>7, <1>8, <2>1, Induction
<1>10. \A q, p \in Refs : p \in A[q] => rank[p] <= rank[q]
  <2> SUFFICES ASSUME NEW q \in Refs, NEW p \in Refs, p \in A[q] PROVE rank[p] <= rank[q]
    OBVIOUS
  <2>1. rank[q] \in N
    BY <1>6, <1>9
  <2>2. rank[q] \in Nat /\ rank[q] <= rank[q]
    BY <1>6
  <2> QED
    BY <2>1, <2>2
<1> HIDE DEF N
<1> SUFFICES ASSUME NEW r \in Refs
             PROVE  /\ Below(r) \in SUBSET Refs /\ r \in Below(r)
                    /\ \A q \in Refs \ {r} :
                         q \in Below(r) <=> inherited[q] # None /\ inherited[q] \in Below(r)
                    /\ inherited[r] # None => inherited[r] \notin Below(r)
  OBVIOUS
<1>11. Below(r) \in SUBSET Refs /\ r \in Below(r)
  BY <1>1, <1>5
<1>12. ASSUME NEW q \in Refs \ {r}
       PROVE  q \in Below(r) <=> inherited[q] # None /\ inherited[q] \in Below(r)
  <2>1. q \in Below(r) <=> inherited[q] # None /\ r \in A[inherited[q]]
    BY <1>1, <1>5
  <2>2. inherited[q] # None => inherited[q] \in Refs
    BY DEF HeirType
  <2> QED
    BY <1>1, <2>1, <2>2
<1>13. ASSUME inherited[r] # None PROVE inherited[r] \notin Below(r)
  <2>1. inherited[r] \in Refs /\ rank[inherited[r]] < rank[r]
    BY <1>6, <1>13 DEF Ranked, HeirType
  <2>2. inherited[r] \in Below(r) => rank[r] <= rank[inherited[r]]
    BY <1>1, <1>10, <2>1
  <2> QED
    BY <1>6, <2>1, <2>2
<1> QED
  BY <1>11, <1>12, <1>13

-----------------------------------------------------------------------------
(* Who a change of the references of R reaches.                            *)
Reached(R) == UNION {Below(r) : r \in R}

LEMMA ReachedIs ==
  ASSUME HeirType, Forest, NEW R \in SUBSET Refs
  PROVE  /\ Reached(R) \in SUBSET Refs /\ R \subseteq Reached(R)
         /\ \A q \in Refs \ R :
              q \in Reached(R) <=> inherited[q] # None /\ inherited[q] \in Reached(R)
<1>1. \A r \in Refs :
        /\ Below(r) \in SUBSET Refs /\ r \in Below(r)
        /\ \A q \in Refs \ {r} :
             q \in Below(r) <=> inherited[q] # None /\ inherited[q] \in Below(r)
  BY BelowIs
<1>2. Reached(R) \in SUBSET Refs /\ R \subseteq Reached(R)
  BY <1>1 DEF Reached
<1>3. ASSUME NEW q \in Refs \ R
      PROVE  q \in Reached(R) <=> inherited[q] # None /\ inherited[q] \in Reached(R)
  <2>1. \A r \in R : q \in Below(r) <=> inherited[q] # None /\ inherited[q] \in Below(r)
    BY <1>1
  <2> QED
    BY <2>1 DEF Reached
<1> QED
  BY <1>2, <1>3

(* A change adds the same to all it reaches, and tells of those that come  *)
(* to be zero.                                                             *)
LEMMA PropagateIs ==
  ASSUME TypeOK, Forest, NEW R \in SUBSET Refs, NEW diff \in Int, NEW W, Propagate(R, diff, W)
  PROVE  /\ local' \in [Refs -> Int] /\ reports' \in [Refs -> 0..ReportsMod - 1]
         /\ wq' \in [Refs -> SUBSET Threads]
         /\ \A q \in Refs : local'[q] = IF q \in Reached(R) THEN local[q] + diff ELSE local[q]
         /\ \A q \in Refs : watched[q] =>
              reports'[q] = IF q \in Reached(R) /\ local'[q] + global[q] = 0
                            THEN (reports[q] + 1) % ReportsMod ELSE reports[q]
<1> USE DEF TypeOK
<1>1. local' = [q \in Refs |-> IF q \in Reached(R) THEN local[q] + diff ELSE local[q]]
  BY DEF Propagate, Reached
<1>2. local' \in [Refs -> Int]
      /\ \A q \in Refs : local'[q] = IF q \in Reached(R) THEN local[q] + diff ELSE local[q]
  BY <1>1
<1> DEFINE Z == {q \in Reached(R) : local[q] + diff + global[q] = 0}
<1>3. NotifyRefs(Z, W)
  BY DEF Propagate, Reached
<1>4. reports' = [q \in Refs |-> IF q \in Z /\ watched[q]
                                THEN (reports[q] + 1) % ReportsMod ELSE reports[q]]
      /\ wq' = [q \in Refs |-> IF q \in W \/ (q \in Z /\ ~ watched[q]) THEN {} ELSE wq[q]]
  BY <1>3 DEF NotifyRefs
<1>5. wq' \in [Refs -> SUBSET Threads]
  BY <1>4
<1>6. \A n \in 0..ReportsMod - 1 : (n + 1) % ReportsMod \in 0..ReportsMod - 1
  BY BoundAssumption
<1>7. reports' \in [Refs -> 0..ReportsMod - 1]
  <2> HIDE DEF Z
  <2> QED
    BY <1>4, <1>6
<1>8. \A q \in Refs : q \in Z <=> q \in Reached(R) /\ local'[q] + global[q] = 0
  BY <1>2
<1>9. \A q \in Refs : watched[q] =>
        reports'[q] = IF q \in Reached(R) /\ local'[q] + global[q] = 0
                      THEN (reports[q] + 1) % ReportsMod ELSE reports[q]
  <2> HIDE DEF Z
  <2> QED
    BY <1>4, <1>8
<1> QED
  BY <1>2, <1>5, <1>7, <1>9

-----------------------------------------------------------------------------
(* Who inherits exists, and so does what it inherits from; an id that has  *)
(* not been handed out counts nothing; the cleanup goes over what exists.  *)
EntriesAgree ==
  \A r \in Refs :
    /\ inherited[r] # None => Live(r) /\ Live(inherited[r])
    /\ watched[r] => Live(r)
    /\ r \in clearing.left => Live(r) /\ clearing.fusionee # None
    /\ entry[r] = "unborn" => local[r] = 0 /\ \A f \in Fusionees : local_refs[r][f] = 0

ShapeInv == TypeOK /\ EntriesAgree /\ Forest

LEMMA InitShape == Init => ShapeInv
<1> SUFFICES ASSUME Init PROVE ShapeInv
  OBVIOUS
<1>1. PICK start \in Starts : Begin(start)
  BY DEF Init
<1>2. entry \in [Refs -> {"unborn", "live", "destroyed"}] /\ op \in [Threads -> Op]
  BY <1>1 DEF Begin, At, Op
<1>3. forking \in BOOLEAN
  BY <1>1, StartAssumption DEF Begin
<1>4. TypeOK
  BY <1>2, <1>3, BoundAssumption DEF Init, TypeOK, Idle
<1>5. EntriesAgree
  BY NoneAssumption DEF Init, EntriesAgree, Idle
<1>6. Forest
  <2>1. [q \in Refs |-> 0] \in [Refs -> Nat]
    OBVIOUS
  <2> QED
    BY <2>1 DEF Init, Forest, Ranked
<1> QED
  BY <1>4, <1>5, <1>6 DEF ShapeInv

\* The links stay.
LEMMA ForestStays ==
  ASSUME Forest, UNCHANGED inherited
  PROVE  Forest'
BY DEF Forest, Ranked

\* Links go.
LEMMA ForestLoses ==
  ASSUME HeirType, Forest, \A q \in Refs : inherited'[q] \in {inherited[q], None}
  PROVE  Forest'
<1>1. PICK rank \in [Refs -> Nat] : Ranked(rank)
  BY DEF Forest
<1>2. \A q \in Refs : inherited'[q] # None => rank[inherited'[q]] < rank[q]
  BY <1>1 DEF Ranked
<1> QED
  BY <1>1, <1>2 DEF Forest, Ranked

(* A new link from what does not inherit of r already: all below r move    *)
(* up.                                                                     *)
LEMMA ForestGrows ==
  ASSUME HeirType, Forest, NEW r \in Refs, NEW from \in Refs, inherited[r] = None,
         from \notin Below(r), inherited' = [inherited EXCEPT ![r] = from]
  PROVE  Forest'
<1>1. PICK rank \in [Refs -> Nat] : Ranked(rank)
  BY DEF Forest
<1> DEFINE up == [q \in Refs |-> IF q \in Below(r) THEN rank[q] + rank[from] + 1 ELSE rank[q]]
<1>2. up \in [Refs -> Nat]
  BY <1>1
<1>3. ASSUME NEW q \in Refs, inherited'[q] # None PROVE up[inherited'[q]] < up[q]
  <2>1. CASE q = r
    <3>1. inherited'[q] = from /\ q \in Below(r)
      BY <2>1, BelowIs DEF HeirType
    <3>2. up[from] = rank[from] /\ up[q] = rank[q] + rank[from] + 1
      BY <3>1
    <3> QED
      BY <1>1, <3>1, <3>2
  <2>2. CASE q # r
    <3> DEFINE i == inherited[q]
    <3>1. inherited'[q] = i /\ i \in Refs /\ rank[i] < rank[q]
      BY <1>1, <1>3, <2>2 DEF HeirType, Ranked
    <3>2. q \in Below(r) <=> i \in Below(r)
      BY <1>3, <2>2, <3>1, BelowIs
    <3> HIDE DEF i
    <3>3. rank[i] \in Nat /\ rank[q] \in Nat /\ rank[from] \in Nat
      BY <1>1, <3>1
    <3> QED
      BY <3>1, <3>2, <3>3
  <2> QED
    BY <2>1, <2>2
<1> HIDE DEF up
<1> QED
  BY <1>2, <1>3 DEF Forest, Ranked

-----------------------------------------------------------------------------
(* What each step leaves of the shape.                                     *)
LEMMA NewShape ==
  ASSUME ShapeInv, NEW t \in Threads, NEW r \in Refs, New(t, r)
  PROVE  ShapeInv'
<1> USE DEF ShapeInv, New, counts, lockVars
<1>1. TypeOK'
  BY DEF TypeOK
<1>2. EntriesAgree'
  BY DEF TypeOK, EntriesAgree, Live, Idle
<1>3. Forest'
  BY ForestStays
<1> QED
  BY <1>1, <1>2, <1>3

\* Where a thread may come to be.
LEMMA OpTypes ==
  /\ At("user") \in Op /\ At("dead") \in Op
  /\ \A r \in Refs \cup {None} : [at |-> "zero_lock", id |-> r] \in Op
BY DEF At, Op

\* The steps that neither touch a local count nor a link.
LEMMA OtherShape ==
  ASSUME ShapeInv, TypeOK', UNCHANGED <<entry, local, local_refs, inherited>>,
         \A r \in Refs : watched'[r] => watched[r] \/ Live(r),
         \/ UNCHANGED clearing
         \/ \A r \in Refs : r \in clearing'.left => Live(r) /\ clearing'.fusionee # None
  PROVE  ShapeInv'
<1>1. EntriesAgree'
  BY DEF ShapeInv, EntriesAgree, Live
<1>2. Forest'
  BY ForestStays DEF ShapeInv
<1> QED
  BY <1>1, <1>2 DEF ShapeInv

(* The steps that change the local count of a reference and what inherits  *)
(* of it: who is not live is not reached.                                  *)
LEMMA LocalShape ==
  ASSUME ShapeInv, NEW R \in SUBSET Refs, NEW diff \in Int, NEW W, Propagate(R, diff, W),
         \A r \in R : Live(r), NEW r \in Refs, Live(r), NEW f \in Fusionees, NEW n \in Nat,
         local_refs' = [local_refs EXCEPT ![r][f] = n],
         UNCHANGED <<entry, creator, forking, global, inherited, watched>>,
         locked' \in [Refs -> Fusionees \cup {None}], op' \in [Threads -> Op],
         clearing' \in [fusionee: Fusionees \cup {None}, left: SUBSET Refs],
         clearing'.left \subseteq clearing.left,
         clearing'.left = {} \/ clearing'.fusionee = clearing.fusionee
  PROVE  ShapeInv'
<1> USE DEF ShapeInv
<1>1. /\ local' \in [Refs -> Int] /\ reports' \in [Refs -> 0..ReportsMod - 1]
      /\ wq' \in [Refs -> SUBSET Threads]
      /\ \A q \in Refs : local'[q] = IF q \in Reached(R) THEN local[q] + diff ELSE local[q]
  BY PropagateIs
<1>2. TypeOK'
  BY <1>1 DEF TypeOK
<1>3. \A q \in Refs : ~ Live(q) => local'[q] = local[q]
  <2> SUFFICES ASSUME NEW q \in Refs, ~ Live(q) PROVE q \notin Reached(R)
    BY <1>1
  <2>1. q \notin R /\ inherited[q] = None
    BY DEF EntriesAgree
  <2> QED
    BY <2>1, ReachedIs DEF TypeOK, HeirType
<1>4. EntriesAgree'
  BY <1>3 DEF TypeOK, EntriesAgree, Live
<1>5. Forest'
  BY ForestStays
<1> QED
  BY <1>2, <1>4, <1>5

LEMMA InheritShape ==
  ASSUME ShapeInv, NEW t \in Threads, NEW r \in Refs, NEW from \in Refs, Inherit(t, r, from)
  PROVE  ShapeInv'
<1> USE DEF ShapeInv, Inherit, fixed, lockVars
<1>1. {r} \in SUBSET Refs /\ local[from] \in Int /\ Propagate({r}, local[from], {}) /\ Live(r) /\ Live(from)
  BY DEF TypeOK, Ioctl, Live
<1>2. /\ local' \in [Refs -> Int] /\ reports' \in [Refs -> 0..ReportsMod - 1]
      /\ wq' \in [Refs -> SUBSET Threads]
      /\ \A q \in Refs : local'[q] = IF q \in Reached({r}) THEN local[q] + local[from] ELSE local[q]
  BY <1>1, PropagateIs
<1>3. TypeOK'
  BY <1>2 DEF TypeOK
<1>4. \A q \in Refs : ~ Live(q) => local'[q] = local[q]
  <2> SUFFICES ASSUME NEW q \in Refs, ~ Live(q) PROVE q \notin Reached({r})
    BY <1>2
  <2>1. q # r /\ inherited[q] = None
    BY <1>1 DEF EntriesAgree
  <2> QED
    BY <1>1, <2>1, ReachedIs DEF TypeOK, HeirType
<1>5. EntriesAgree'
  BY <1>1, <1>4 DEF TypeOK, EntriesAgree, Live
<1>6. Forest'
  BY ForestGrows DEF TypeOK, HeirType
<1> QED
  BY <1>3, <1>5, <1>6

LEMMA DestroyShape ==
  ASSUME ShapeInv, NEW t \in Threads, NEW r \in Refs, Destroy(t, r)
  PROVE  ShapeInv'
<1> USE DEF ShapeInv, Destroy, Bury, fixed
<1> DEFINE R == {q \in Refs : inherited[q] = r}
<1>1. R \in SUBSET Refs /\ - local[r] \in Int /\ Propagate(R, - local[r], {r}) /\ Live(r)
  BY DEF TypeOK, Ioctl, Live
<1>2. /\ local' \in [Refs -> Int] /\ reports' \in [Refs -> 0..ReportsMod - 1]
      /\ wq' \in [Refs -> SUBSET Threads]
      /\ \A q \in Refs : local'[q] = IF q \in Reached(R) THEN local[q] + (- local[r]) ELSE local[q]
  BY <1>1, PropagateIs
<1>3. inherited' \in [Refs -> Refs \cup {None}]
  BY DEF TypeOK
<1>4. TypeOK'
  BY <1>2, <1>3 DEF TypeOK
<1>5. \A q \in Refs : entry[q] = "unborn" => local'[q] = local[q]
  <2> SUFFICES ASSUME NEW q \in Refs, entry[q] = "unborn" PROVE q \notin Reached(R)
    BY <1>2
  <2>1. inherited[q] = None
    BY DEF EntriesAgree, Live
  <2>2. q \notin R
    BY <2>1, NoneAssumption
  <2> QED
    BY <1>1, <2>1, <2>2, ReachedIs DEF TypeOK, HeirType
<1>6. \A q \in Refs : inherited'[q] = IF q = r \/ inherited[q] = r THEN None ELSE inherited[q]
  BY DEF TypeOK
<1>7. clearing.left = {}
  BY DEF Ioctl, Idle
<1>8. EntriesAgree'
  <2> SUFFICES ASSUME NEW q \in Refs
               PROVE  /\ inherited'[q] # None => Live(q)' /\ entry'[inherited'[q]] = "live"
                      /\ watched'[q] => Live(q)'
                      /\ q \in clearing'.left => Live(q)' /\ clearing'.fusionee # None
                      /\ entry'[q] = "unborn" =>
                           local'[q] = 0 /\ \A f \in Fusionees : local_refs'[q][f] = 0
    BY DEF EntriesAgree, Live
  <2>1. inherited'[q] # None => Live(q)' /\ entry'[inherited'[q]] = "live"
    BY <1>6 DEF EntriesAgree, Live, TypeOK
  <2>2. (watched'[q] => Live(q)') /\ q \notin clearing'.left
    BY <1>7 DEF EntriesAgree, Live, TypeOK
  <2>3. entry'[q] = "unborn" => local'[q] = 0 /\ \A f \in Fusionees : local_refs'[q][f] = 0
    BY <1>1, <1>5 DEF EntriesAgree, Live, TypeOK
  <2> QED
    BY <2>1, <2>2, <2>3
<1>9. Forest'
  <2>1. \A q \in Refs : inherited'[q] \in {inherited[q], None}
    BY <1>6
  <2> QED
    BY <2>1, ForestLoses DEF TypeOK, HeirType
<1> QED
  BY <1>4, <1>8, <1>9

LEMMA ForkShape ==
  ASSUME ShapeInv, NEW t \in Threads, NEW parent \in Fusionees, Fork(t, parent)
  PROVE  ShapeInv'
<1> USE DEF ShapeInv, Fork, fixed, lockVars
<1>1. \A r \in Refs : local_refs'[r] =
        [local_refs[r] EXCEPT ![parent] = IF @ > 0 THEN @ + 1 ELSE @]
  OBVIOUS
<1>2. local_refs' \in [Refs -> [Fusionees -> Nat]]
  BY DEF TypeOK
<1>3. TypeOK'
  BY <1>2 DEF TypeOK
<1>4. ASSUME NEW r \in Refs, \A f \in Fusionees : local_refs[r][f] = 0
      PROVE  \A f \in Fusionees : local_refs'[r][f] = 0
  BY <1>1, <1>4 DEF TypeOK
<1>5. EntriesAgree'
  BY <1>4 DEF EntriesAgree, Live
<1>6. Forest'
  BY ForestStays
<1> QED
  BY <1>3, <1>5, <1>6

LEMMA ShapeStep ==
  ASSUME ShapeInv, [Next]_vars
  PROVE  ShapeInv'
<1> USE DEF ShapeInv
<1>0. TypeOK
  OBVIOUS
<1> DEFINE Stays == /\ UNCHANGED <<entry, local, local_refs, inherited>>
                    /\ \A r \in Refs : watched'[r] => watched[r] \/ Live(r)
                    /\ \/ UNCHANGED clearing
                       \/ \A r \in Refs : r \in clearing'.left =>
                            Live(r) /\ clearing'.fusionee # None
<1>1. ASSUME Stays, TypeOK' PROVE ShapeInv'
  BY <1>1, OtherShape
<1> HIDE DEF ShapeInv
<1>2. CASE UNCHANGED vars
  <2>1. TypeOK'
    BY <1>0, <1>2 DEF TypeOK, vars, counts, lockVars
  <2>2. Stays
    BY <1>2 DEF vars
  <2> QED
    BY <1>1, <2>1, <2>2
<1>3. ASSUME NEW t \in Threads, NEW r \in Refs, RefIoctl(t, r) PROVE ShapeInv'
  <2> DEFINE f == Fid[t]
  <2>1. f \in Fusionees
    BY FidAssumption
  <2>2. CASE New(t, r)
    BY <2>2, NewShape
  <2>3. CASE Up(t, r)
    <3>1. local_refs[r][f] + 1 \in Nat /\ Live(r) /\ {r} \in SUBSET Refs
      BY <1>0, <2>1, <2>3 DEF TypeOK, Up, Ioctl, Live
    <3>2. Propagate({r}, 1, {}) /\ local_refs' = [local_refs EXCEPT ![r][f] = local_refs[r][f] + 1]
      BY <2>3 DEF Up
    <3>3. /\ locked' \in [Refs -> Fusionees \cup {None}] /\ op' \in [Threads -> Op]
          /\ UNCHANGED <<entry, creator, forking, global, inherited, watched, clearing>>
          /\ clearing' \in [fusionee: Fusionees \cup {None}, left: SUBSET Refs]
      BY <1>0, <2>3 DEF TypeOK, Up, fixed, lockVars
    <3>4. (\A q \in {r} : Live(q)) /\ clearing'.left \subseteq clearing.left
          /\ clearing'.fusionee = clearing.fusionee
      BY <3>1, <3>3
    <3>5. 1 \in Int
      OBVIOUS
    <3> HIDE DEF f
    <3> QED
      BY <2>1, <3>1, <3>2, <3>3, <3>4, <3>5, LocalShape
  <2>4. CASE Down(t, r)
    <3>1. local_refs[r][f] - 1 \in Nat /\ Live(r) /\ {r} \in SUBSET Refs
      BY <1>0, <2>1, <2>4 DEF TypeOK, Down, Ioctl, Live
    <3>2. Propagate({r}, -1, {}) /\ local_refs' = [local_refs EXCEPT ![r][f] = local_refs[r][f] - 1]
      BY <2>4 DEF Down
    <3>3. /\ locked' \in [Refs -> Fusionees \cup {None}] /\ op' \in [Threads -> Op]
          /\ UNCHANGED <<entry, creator, forking, global, inherited, watched, clearing>>
          /\ clearing' \in [fusionee: Fusionees \cup {None}, left: SUBSET Refs]
      BY <1>0, <2>4 DEF TypeOK, Down, fixed, lockVars
    <3>4. (\A q \in {r} : Live(q)) /\ clearing'.left \subseteq clearing.left
          /\ clearing'.fusionee = clearing.fusionee
      BY <3>1, <3>3
    <3>5. -1 \in Int
      OBVIOUS
    <3> HIDE DEF f
    <3> QED
      BY <2>1, <3>1, <3>2, <3>3, <3>4, <3>5, LocalShape
  <2>5. CASE UpGlobal(t, r)
    <3>1. TypeOK'
      BY <1>0, <2>5 DEF TypeOK, UpGlobal, fixed, lockVars
    <3> QED
      BY <1>1, <2>5, <3>1 DEF UpGlobal, lockVars
  <2>6. CASE DownGlobal(t, r)
    <3>1. global' \in [Refs -> Nat]
      <4>1. global[r] - 1 \in Nat /\ global' = [global EXCEPT ![r] = global[r] - 1]
        <5>1. global[r] # 0 /\ global' = [global EXCEPT ![r] = global[r] - 1]
          BY <2>6 DEF DownGlobal
        <5>2. global[r] \in Nat
          BY <1>0 DEF TypeOK
        <5> QED
          BY <5>1, <5>2
      <4> QED
        BY <1>0, <4>1 DEF TypeOK
    <3>2. \A n \in 0..ReportsMod - 1 : (n + 1) % ReportsMod \in 0..ReportsMod - 1
      BY BoundAssumption
    <3>3. reports' \in [Refs -> 0..ReportsMod - 1] /\ wq' \in [Refs -> SUBSET Threads]
      <4> DEFINE Z == IF Total(r) = 1 THEN {r} ELSE {}
      <4>1. NotifyRefs(Z, {})
        BY <2>6 DEF DownGlobal
      <4> HIDE DEF Z
      <4> QED
        BY <1>0, <3>2, <4>1 DEF TypeOK, NotifyRefs
    <3>4. TypeOK'
      BY <1>0, <2>6, <3>1, <3>3 DEF TypeOK, DownGlobal, fixed, lockVars
    <3> QED
      BY <1>1, <2>6, <3>4 DEF DownGlobal, lockVars
  <2>7. CASE ZeroLock(t, r)
    <3>1. locked' \in [Refs -> Fusionees \cup {None}] /\ op' \in [Threads -> Op]
          /\ wq' \in [Refs -> SUBSET Threads]
      <4>1. Lock(t, r) \/ Sleep(t, r)
        BY <2>7 DEF ZeroLock
      <4>2. CASE Lock(t, r)
        BY <1>0, <2>1, <4>2, OpTypes DEF TypeOK, Lock, Return
      <4>3. CASE Sleep(t, r)
        BY <1>0, <4>3, OpTypes DEF TypeOK, Sleep
      <4> QED
        BY <4>1, <4>2, <4>3
    <3>2. TypeOK'
      BY <1>0, <2>7, <3>1 DEF TypeOK, ZeroLock, fixed, counts
    <3> QED
      BY <1>1, <2>7, <3>2 DEF ZeroLock, counts
  <2>8. CASE ZeroTryLock(t, r)
    <3>1. TypeOK'
      BY <1>0, <2>1, <2>8 DEF TypeOK, ZeroTryLock, fixed, counts
    <3> QED
      BY <1>1, <2>8, <3>1 DEF ZeroTryLock, counts
  <2>9. CASE ZeroUnlock(t, r)
    <3>1. TypeOK'
      BY <1>0, <2>9 DEF TypeOK, ZeroUnlock, fixed, counts
    <3> QED
      BY <1>1, <2>9, <3>1 DEF ZeroUnlock, counts
  <2>10. CASE Watch(t, r)
    <3>1. TypeOK'
      BY <1>0, <2>10 DEF TypeOK, Watch, fixed, counts
    <3>2. \A q \in Refs : watched'[q] => watched[q] \/ Live(q)
      BY <1>0, <2>10 DEF TypeOK, Watch, Ioctl, Live
    <3> QED
      BY <1>1, <2>10, <3>1, <3>2 DEF Watch, counts
  <2>11. CASE \E from \in Refs : Inherit(t, r, from)
    BY <2>11, InheritShape
  <2>12. CASE Destroy(t, r)
    BY <2>12, DestroyShape
  <2> QED
    BY <1>3, <2>2, <2>3, <2>4, <2>5, <2>6, <2>7, <2>8, <2>9, <2>10, <2>11, <2>12 DEF RefIoctl
<1>4. ASSUME NEW t \in Threads, NEW parent \in Fusionees, Fork(t, parent) PROVE ShapeInv'
  BY <1>4, ForkShape
<1>5. ASSUME NEW t \in Threads, Woken(t) \/ FindGone(t) \/ Interrupt(t) \/ ThreadExit(t)
      PROVE  ShapeInv'
  <2>1. op[t].id \in Refs \cup {None} /\ Fid[t] \in Fusionees
    BY <1>0, FidAssumption DEF TypeOK, Op
  <2>2. /\ locked' \in [Refs -> Fusionees \cup {None}] /\ op' \in [Threads -> Op]
        /\ wq' \in [Refs -> SUBSET Threads]
    <3>1. CASE Woken(t)
      <4> DEFINE r == op[t].id
      <4>1. r \in Refs \cup {None}
        BY <2>1
      <4>2. Lock(t, r) \/ Sleep(t, r) \/ (Return(t) /\ UNCHANGED <<locked, wq>>)
        BY <3>1 DEF Woken
      <4> HIDE DEF r
      <4>3. CASE Lock(t, r)
        BY <1>0, <2>1, <4>3, OpTypes DEF TypeOK, Lock, Return
      <4>4. CASE Sleep(t, r)
        BY <1>0, <4>1, <4>4, OpTypes DEF TypeOK, Sleep
      <4>5. CASE Return(t) /\ UNCHANGED <<locked, wq>>
        BY <1>0, <4>5, OpTypes DEF TypeOK, Return
      <4> QED
        BY <4>2, <4>3, <4>4, <4>5
    <3>2. CASE FindGone(t) \/ Interrupt(t) \/ ThreadExit(t)
      <4>1. op' \in [Threads -> Op]
        BY <1>0, <3>2, OpTypes DEF TypeOK, FindGone, Interrupt, ThreadExit, Return
      <4>2. locked' = locked /\ wq' \in [Refs -> SUBSET Threads]
        BY <1>0, <3>2 DEF TypeOK, FindGone, Interrupt, ThreadExit, lockVars
      <4> QED
        BY <1>0, <4>1, <4>2 DEF TypeOK
    <3> QED
      BY <1>5, <3>1, <3>2
  <2>3. UNCHANGED <<entry, fixed, counts, inherited, watched, reports, clearing>>
    BY <1>5 DEF Woken, FindGone, Interrupt, ThreadExit, lockVars
  <2>4. TypeOK'
    BY <1>0, <2>2, <2>3 DEF TypeOK, fixed, counts
  <2> QED
    BY <1>1, <2>3, <2>4 DEF counts
<1>6. ASSUME NEW f \in Fusionees, Release(f) PROVE ShapeInv'
  <2>1. TypeOK'
    BY <1>0, <1>6 DEF TypeOK, Release, fixed, counts, lockVars
  <2>2. \A r \in Refs : r \in clearing'.left => Live(r) /\ clearing'.fusionee # None
    BY <1>6, NoneAssumption DEF Release, Live
  <2> QED
    BY <1>1, <1>6, <2>1, <2>2 DEF Release, counts, lockVars
<1>7. ASSUME NEW r \in Refs, ClearLocal(r) PROVE ShapeInv'
  <2> DEFINE f == clearing.fusionee
             R == IF local_refs[r][f] > 0 THEN {r} ELSE {}
             W == IF locked[r] = f THEN {r} ELSE {}
  <2>1. Live(r)
    BY <1>7 DEF ClearLocal, ShapeInv, EntriesAgree
  <2>2. f \in Fusionees
    BY <1>0, <1>7 DEF ClearLocal, TypeOK, ShapeInv, EntriesAgree
  <2>3. local_refs[r][f] \in Nat /\ - local_refs[r][f] \in Int /\ R \in SUBSET Refs
    BY <1>0, <2>2 DEF TypeOK
  <2>4. Propagate(R, - local_refs[r][f], W) /\ local_refs' = [local_refs EXCEPT ![r][f] = 0]
    BY <1>7 DEF ClearLocal
  <2>5. /\ clearing' \in [fusionee: Fusionees \cup {None}, left: SUBSET Refs]
        /\ clearing'.left \subseteq clearing.left
        /\ clearing'.left = {} \/ clearing'.fusionee = clearing.fusionee
    BY <1>0, <1>7 DEF TypeOK, ClearLocal, Cleared, Idle
  <2>6. locked' \in [Refs -> Fusionees \cup {None}] /\ op' \in [Threads -> Op]
        /\ UNCHANGED <<entry, creator, forking, global, inherited, watched>>
    BY <1>0, <1>7 DEF TypeOK, ClearLocal, fixed
  <2>7. \A q \in R : Live(q)
    BY <2>1
  <2> HIDE DEF f, R, W
  <2> QED
    BY <2>1, <2>2, <2>3, <2>4, <2>5, <2>6, <2>7, LocalShape
<1> QED
  BY <1>2, <1>3, <1>4, <1>5, <1>6, <1>7 DEF Next

-----------------------------------------------------------------------------
(* What the fusionees hold of a reference, in all.                         *)
LEMMA OwnIs ==
  ASSUME TypeOK, NEW r \in Refs
  PROVE  /\ OwnLocal(r) \in Nat
         /\ OwnLocal(r) = 0 <=> \A f \in Fusionees : local_refs[r][f] = 0
<1>1. OwnLocal(r) = SumOf(local_refs[r], Fusionees)
  BY DEF OwnLocal, SumOf
<1>2. local_refs[r] \in [Fusionees -> Nat]
  BY DEF TypeOK
<1> QED
  BY <1>1, <1>2, SumOfNats, FidAssumption

LEMMA OwnStays ==
  ASSUME NEW r \in Refs, local_refs'[r] = local_refs[r]
  PROVE  OwnLocal(r)' = OwnLocal(r)
<1>1. OwnLocal(r) = SumOf(local_refs[r], Fusionees)
  BY DEF OwnLocal, SumOf
<1>2. OwnLocal(r)' = SumOf(local_refs'[r], Fusionees)
  BY DEF OwnLocal, SumOf, MapThenSumSet, MapThenFoldSet
<1> QED
  BY <1>1, <1>2

LEMMA OwnChanges ==
  ASSUME TypeOK, NEW r \in Refs, NEW f \in Fusionees, NEW n \in Nat,
         local_refs' = [local_refs EXCEPT ![r][f] = n]
  PROVE  /\ OwnLocal(r)' = OwnLocal(r) + n - local_refs[r][f]
         /\ \A q \in Refs \ {r} : OwnLocal(q)' = OwnLocal(q)
<1>1. OwnLocal(r) = SumOf(local_refs[r], Fusionees)
  BY DEF OwnLocal, SumOf
<1>2. OwnLocal(r)' = SumOf(local_refs'[r], Fusionees)
  BY DEF OwnLocal, SumOf, MapThenSumSet, MapThenFoldSet
<1>3. local_refs[r] \in [Fusionees -> Nat] /\ local_refs'[r] = [local_refs[r] EXCEPT ![f] = n]
  BY DEF TypeOK
<1>4. OwnLocal(r)' = OwnLocal(r) + n - local_refs[r][f]
  BY <1>1, <1>2, <1>3, SumChanges, FidAssumption
<1>5. \A q \in Refs \ {r} : local_refs'[q] = local_refs[q]
  BY DEF TypeOK
<1> QED
  BY <1>4, <1>5, OwnStays

-----------------------------------------------------------------------------
(* The count of one reference is right.                                    *)
Adds(r) ==
  local[r] = OwnLocal(r) + (IF inherited[r] = None THEN 0 ELSE local[inherited[r]])

LEMMA AddsUp == CountsAddUp <=> (~ forking => \A r \in Refs : Live(r) => Adds(r))
BY DEF CountsAddUp, Adds

LEMMA AddsUpNext == CountsAddUp' <=> (~ forking' => \A r \in Refs : Live(r)' => Adds(r)')
BY DEF CountsAddUp, Adds

(* A change reaches a reference if and only if it reaches what this one    *)
(* inherits from.                                                          *)
LEMMA AddsKept ==
  ASSUME TypeOK, Forest, NEW R \in SUBSET Refs, NEW diff \in Int, NEW W, Propagate(R, diff, W),
         NEW q \in Refs \ R, Adds(q), inherited'[q] = inherited[q], OwnLocal(q)' = OwnLocal(q)
  PROVE  Adds(q)'
<1>1. \A p \in Refs : local'[p] = IF p \in Reached(R) THEN local[p] + diff ELSE local[p]
  BY PropagateIs
<1>2. q \in Reached(R) <=> inherited[q] # None /\ inherited[q] \in Reached(R)
  BY ReachedIs DEF TypeOK, HeirType
<1>3. OwnLocal(q) \in Nat /\ local[q] \in Int /\ inherited[q] \in Refs \cup {None}
      /\ \A p \in Refs : local[p] \in Int
  BY OwnIs DEF TypeOK
<1>4. CASE inherited[q] = None
  BY <1>1, <1>2, <1>3, <1>4 DEF Adds
<1>5. CASE inherited[q] # None
  <2> DEFINE i == inherited[q]
  <2>1. i \in Refs /\ local[i] \in Int /\ local[q] = OwnLocal(q) + local[i]
    BY <1>3, <1>5 DEF Adds
  <2>2. local'[q] = OwnLocal(q) + local'[i]
    <3> HIDE DEF i
    <3>1. q \in Reached(R) <=> i \in Reached(R)
      BY <1>2, <1>5 DEF i
    <3> QED
      BY <1>1, <1>3, <2>1, <3>1
  <2> QED
    BY <1>5, <2>2 DEF Adds
<1> QED
  BY <1>4, <1>5

(* The change starts at r: what r inherits from is not reached.            *)
LEMMA AddsThere ==
  ASSUME TypeOK, Forest, NEW r \in Refs, NEW diff \in Int, NEW W, Propagate({r}, diff, W),
         Adds(r), inherited'[r] = inherited[r], OwnLocal(r)' = OwnLocal(r) + diff
  PROVE  Adds(r)'
<1>1. \A p \in Refs : local'[p] = IF p \in Reached({r}) THEN local[p] + diff ELSE local[p]
  BY PropagateIs
<1>2. r \in Reached({r}) /\ (inherited[r] # None => inherited[r] \notin Reached({r}))
  BY BelowIs DEF Reached, TypeOK, HeirType
<1>3. OwnLocal(r) \in Nat /\ local[r] \in Int /\ inherited[r] \in Refs \cup {None}
      /\ \A p \in Refs : local[p] \in Int
  BY OwnIs DEF TypeOK
<1>4. CASE inherited[r] = None
  BY <1>1, <1>2, <1>3, <1>4 DEF Adds
<1>5. CASE inherited[r] # None
  <2> DEFINE i == inherited[r]
  <2>1. i \in Refs /\ local[i] \in Int /\ local[r] = OwnLocal(r) + local[i] /\ local'[i] = local[i]
    BY <1>1, <1>2, <1>3, <1>5 DEF Adds
  <2>2. local'[r] = OwnLocal(r) + diff + local'[i]
    <3> HIDE DEF i
    <3> QED
      BY <1>1, <1>2, <1>3, <2>1
  <2> QED
    BY <1>5, <2>2 DEF Adds
<1> QED
  BY <1>4, <1>5

(* The counts after one reference and all that inherits from it have       *)
(* changed by what one fusionee holds more or less.                        *)
LEMMA LocalAdds ==
  ASSUME TypeOK, Forest, CountsAddUp, NEW r \in Refs, Live(r), NEW f \in Fusionees, NEW n \in Nat,
         NEW W, Propagate({r}, n - local_refs[r][f], W),
         local_refs' = [local_refs EXCEPT ![r][f] = n],
         UNCHANGED <<entry, forking, inherited>>
  PROVE  CountsAddUp'
<1> SUFFICES ASSUME ~ forking, NEW q \in Refs, Live(q) PROVE Adds(q)'
  BY AddsUpNext DEF Live
<1>1. Adds(q) /\ Adds(r)
  BY AddsUp
<1>2. n - local_refs[r][f] \in Int /\ local_refs[r][f] \in Nat
  BY DEF TypeOK
<1>3. OwnLocal(r)' = OwnLocal(r) + (n - local_refs[r][f])
  BY <1>2, OwnChanges, OwnIs
<1>4. CASE q = r
  BY <1>1, <1>2, <1>3, <1>4, AddsThere
<1>5. CASE q # r
  <2>1. OwnLocal(q)' = OwnLocal(q)
    BY <1>5, OwnChanges
  <2>2. {r} \in SUBSET Refs /\ q \in Refs \ {r}
    BY <1>5
  <2> QED
    BY <1>1, <1>2, <2>1, <2>2, AddsKept
<1> QED
  BY <1>4, <1>5

LEMMA InheritAdds ==
  ASSUME ShapeInv, CountsAddUp, NEW t \in Threads, NEW r \in Refs, NEW from \in Refs,
         Inherit(t, r, from)
  PROVE  CountsAddUp'
<1> USE DEF ShapeInv, Inherit, fixed
<1> SUFFICES ASSUME ~ forking, NEW q \in Refs, Live(q) PROVE Adds(q)'
  BY AddsUpNext DEF Live
<1>1. {r} \in SUBSET Refs /\ local[from] \in Int /\ local[r] \in Int /\ Propagate({r}, local[from], {}) /\ Live(r)
  BY DEF TypeOK, Ioctl, Live
<1>2. \A p \in Refs : local'[p] = IF p \in Reached({r}) THEN local[p] + local[from] ELSE local[p]
  BY <1>1, PropagateIs
<1>3. Adds(q) /\ Adds(r)
  BY <1>1, AddsUp
<1>4. OwnLocal(q)' = OwnLocal(q) /\ OwnLocal(q) \in Nat
  BY OwnStays, OwnIs
<1>5. CASE q = r
  <2>1. r \in Reached({r}) /\ from \notin Reached({r})
    BY BelowIs DEF Reached, TypeOK, HeirType
  <2>2. local'[r] = local[r] + local[from] /\ local'[from] = local[from]
    BY <1>2, <2>1
  <2>3. local[r] = OwnLocal(r)
    BY <1>3, <1>4, <1>5 DEF Adds
  <2>4. inherited'[r] = from /\ from # None
    BY NoneAssumption DEF TypeOK
  <2> QED
    BY <1>4, <1>5, <2>2, <2>3, <2>4 DEF Adds
<1>6. CASE q # r
  <2>1. inherited'[q] = inherited[q] /\ q \in Refs \ {r}
    BY <1>6 DEF TypeOK
  <2> QED
    BY <1>1, <1>3, <1>4, <2>1, AddsKept
<1> QED
  BY <1>5, <1>6

(* The inheritors of r have nothing from it any more, and those below them *)
(* as much less.                                                           *)
LEMMA DestroyAdds ==
  ASSUME ShapeInv, CountsAddUp, NEW t \in Threads, NEW r \in Refs, Destroy(t, r)
  PROVE  CountsAddUp'
<1> USE DEF ShapeInv
<1> DEFINE R == {q \in Refs : inherited[q] = r}
<1>1. R \in SUBSET Refs /\ - local[r] \in Int /\ local[r] \in Int /\ Propagate(R, - local[r], {r}) /\ Live(r)
  BY DEF TypeOK, Ioctl, Live, Destroy
<1>2. \A p \in Refs : local'[p] = IF p \in Reached(R) THEN local[p] + (- local[r]) ELSE local[p]
  BY <1>1, PropagateIs
<1>3. forking' = forking /\ \A q \in Refs : Live(q)' => Live(q) /\ q # r
  BY DEF Destroy, Bury, fixed, Live, TypeOK
<1> SUFFICES ASSUME ~ forking, NEW q \in Refs, Live(q), q # r PROVE Adds(q)'
  BY <1>3, AddsUpNext
<1>4. Adds(q)
  BY AddsUp
<1>5. local_refs'[q] = local_refs[q]
  BY DEF Destroy, Bury, TypeOK
<1>6. OwnLocal(q)' = OwnLocal(q) /\ OwnLocal(q) \in Nat
  BY <1>5, OwnStays, OwnIs
<1>7. inherited'[q] = IF inherited[q] = r THEN None ELSE inherited[q]
  BY DEF Destroy, Bury, TypeOK
<1>8. CASE q \in R
  <2>1. q \in Reached(R) /\ inherited[q] = r /\ r # None /\ inherited'[q] = None
    BY <1>1, <1>7, <1>8, ReachedIs, NoneAssumption DEF TypeOK, HeirType
  <2>2. local[q] = OwnLocal(q) + local[r]
    BY <1>4, <2>1 DEF Adds
  <2>3. local'[q] = OwnLocal(q)
    BY <1>1, <1>2, <1>6, <2>1, <2>2
  <2> QED
    BY <1>6, <2>1, <2>3 DEF Adds
<1>9. CASE q \notin R
  <2>1. inherited'[q] = inherited[q] /\ q \in Refs \ R
    BY <1>7, <1>9
  <2> HIDE DEF R
  <2> QED
    BY <1>1, <1>4, <1>6, <2>1, AddsKept
<1> QED
  BY <1>8, <1>9

LEMMA CountsStep ==
  ASSUME ShapeInv, CountsAddUp, [Next]_vars
  PROVE  CountsAddUp'
<1>0. TypeOK /\ Forest
  BY DEF ShapeInv
<1>1. ASSUME UNCHANGED <<local, local_refs, inherited, forking>>,
             \A r \in Refs : Live(r)' => Live(r)
      PROVE  CountsAddUp'
  <2> SUFFICES ASSUME ~ forking, NEW r \in Refs, Live(r) PROVE Adds(r)'
    BY <1>1, AddsUpNext
  <2>1. Adds(r) /\ OwnLocal(r)' = OwnLocal(r)
    BY <1>1, AddsUp, OwnStays
  <2> QED
    BY <1>1, <2>1 DEF Adds
<1>2. CASE UNCHANGED vars
  BY <1>1, <1>2 DEF vars, counts, Live
<1>3. ASSUME NEW t \in Threads, NEW r \in Refs, RefIoctl(t, r) PROVE CountsAddUp'
  <2> DEFINE f == Fid[t]
  <2>1. f \in Fusionees
    BY FidAssumption
  <2>2. CASE New(t, r)
    <3> SUFFICES ASSUME ~ forking, NEW q \in Refs, Live(q)' PROVE Adds(q)'
      BY <2>2, AddsUpNext DEF New
    <3>1. UNCHANGED <<local, local_refs, inherited>> /\ (Live(q) \/ q = r)
      BY <1>0, <2>2 DEF New, counts, TypeOK, Live
    <3>2. Adds(q)
      <4>1. CASE Live(q)
        BY <4>1, AddsUp
      <4>2. CASE q = r
        <5>1. local[r] = 0 /\ inherited[r] = None /\ \A g \in Fusionees : local_refs[r][g] = 0
          BY <2>2 DEF New, ShapeInv, EntriesAgree, Live
        <5>2. OwnLocal(r) = 0
          BY <1>0, <5>1, OwnIs
        <5> QED
          BY <4>2, <5>1, <5>2 DEF Adds
      <4> QED
        BY <3>1, <4>1, <4>2
    <3>3. OwnLocal(q)' = OwnLocal(q)
      BY <3>1, OwnStays
    <3> QED
      BY <3>1, <3>2, <3>3 DEF Adds
  <2>3. CASE Up(t, r)
    <3>1. local_refs[r][f] + 1 \in Nat /\ local_refs[r][f] \in Nat /\ Live(r)
      BY <1>0, <2>1, <2>3 DEF TypeOK, Up, Ioctl, Live
    <3>2. (local_refs[r][f] + 1) - local_refs[r][f] = 1
      BY <3>1
    <3>3. /\ Propagate({r}, (local_refs[r][f] + 1) - local_refs[r][f], {})
          /\ local_refs' = [local_refs EXCEPT ![r][f] = local_refs[r][f] + 1]
          /\ UNCHANGED <<entry, forking, inherited>>
      BY <2>3, <3>2 DEF Up, fixed
    <3> HIDE DEF f
    <3> QED
      BY <1>0, <2>1, <3>1, <3>3, LocalAdds
  <2>4. CASE Down(t, r)
    <3>1. local_refs[r][f] - 1 \in Nat /\ local_refs[r][f] \in Nat /\ Live(r)
      BY <1>0, <2>1, <2>4 DEF TypeOK, Down, Ioctl, Live
    <3>2. (local_refs[r][f] - 1) - local_refs[r][f] = -1
      BY <3>1
    <3>3. /\ Propagate({r}, (local_refs[r][f] - 1) - local_refs[r][f], {})
          /\ local_refs' = [local_refs EXCEPT ![r][f] = local_refs[r][f] - 1]
          /\ UNCHANGED <<entry, forking, inherited>>
      BY <2>4, <3>2 DEF Down, fixed
    <3> HIDE DEF f
    <3> QED
      BY <1>0, <2>1, <3>1, <3>3, LocalAdds
  <2>5. CASE UpGlobal(t, r)
    BY <1>1, <2>5 DEF UpGlobal, fixed, Live
  <2>6. CASE DownGlobal(t, r)
    BY <1>1, <2>6 DEF DownGlobal, fixed, Live
  <2>7. CASE ZeroLock(t, r)
    BY <1>1, <2>7 DEF ZeroLock, fixed, counts, Live
  <2>8. CASE ZeroTryLock(t, r)
    BY <1>1, <2>8 DEF ZeroTryLock, fixed, counts, Live
  <2>9. CASE ZeroUnlock(t, r)
    BY <1>1, <2>9 DEF ZeroUnlock, fixed, counts, Live
  <2>10. CASE Watch(t, r)
    BY <1>1, <2>10 DEF Watch, fixed, counts, Live
  <2>11. CASE \E from \in Refs : Inherit(t, r, from)
    BY <2>11, InheritAdds
  <2>12. CASE Destroy(t, r)
    BY <2>12, DestroyAdds
  <2> QED
    BY <1>3, <2>2, <2>3, <2>4, <2>5, <2>6, <2>7, <2>8, <2>9, <2>10, <2>11, <2>12 DEF RefIoctl
<1>4. ASSUME NEW t \in Threads, NEW parent \in Fusionees, Fork(t, parent) PROVE CountsAddUp'
  BY <1>4, AddsUpNext DEF Fork, fixed
<1>5. ASSUME NEW t \in Threads, Woken(t) \/ FindGone(t) \/ Interrupt(t) \/ ThreadExit(t)
      PROVE  CountsAddUp'
  BY <1>1, <1>5 DEF Woken, FindGone, Interrupt, ThreadExit, fixed, counts, Live
<1>6. ASSUME NEW f \in Fusionees, Release(f) PROVE CountsAddUp'
  BY <1>1, <1>6 DEF Release, fixed, counts, Live
<1>7. ASSUME NEW r \in Refs, ClearLocal(r) PROVE CountsAddUp'
  <2> DEFINE f == clearing.fusionee
             W == IF locked[r] = f THEN {r} ELSE {}
  <2>1. Live(r) /\ f \in Fusionees
    BY <1>0, <1>7 DEF ClearLocal, TypeOK, ShapeInv, EntriesAgree
  <2>2. local_refs[r][f] \in Nat /\ 0 \in Nat /\ 0 - local_refs[r][f] = - local_refs[r][f]
    BY <1>0, <2>1 DEF TypeOK
  <2>3. local_refs' = [local_refs EXCEPT ![r][f] = 0] /\ UNCHANGED <<entry, forking, inherited>>
    BY <1>7 DEF ClearLocal, fixed
  <2>4. CASE local_refs[r][f] > 0
    <3>1. Propagate({r}, 0 - local_refs[r][f], W)
      BY <1>7, <2>2, <2>4 DEF ClearLocal
    <3> HIDE DEF f, W
    <3> QED
      BY <1>0, <2>1, <2>2, <2>3, <3>1, LocalAdds
  <2>5. CASE local_refs[r][f] = 0
    <3>1. Propagate({}, - local_refs[r][f], W)
      BY <1>7, <2>5 DEF ClearLocal
    <3>2. \A q \in Refs : local'[q] = local[q]
      <4>1. Reached({}) = {}
        BY DEF Reached
      <4>2. {} \in SUBSET Refs /\ - local_refs[r][f] \in Int
        BY <2>2
      <4> HIDE DEF f, W
      <4> QED
        BY <1>0, <3>1, <4>1, <4>2, PropagateIs
    <3>3. local_refs' = local_refs
      BY <1>0, <2>1, <2>3, <2>5 DEF TypeOK
    <3>4. \A q \in Refs : OwnLocal(q)' = OwnLocal(q)
      BY <3>3, OwnStays
    <3> SUFFICES ASSUME ~ forking, NEW q \in Refs, Live(q) PROVE Adds(q)'
      BY <2>3, AddsUpNext DEF Live
    <3>5. Adds(q) /\ inherited[q] \in Refs \cup {None}
      BY <1>0, AddsUp DEF TypeOK
    <3> QED
      BY <2>3, <3>2, <3>4, <3>5 DEF Adds
  <2> QED
    BY <2>2, <2>4, <2>5
<1> QED
  BY <1>2, <1>3, <1>4, <1>5, <1>6, <1>7 DEF Next

-----------------------------------------------------------------------------
(* By going up the forest: no count is negative.                           *)
LEMMA NotNegative ==
  ASSUME ShapeInv, CountsAddUp, ~ forking
  PROVE  \A r \in Refs : Live(r) => local[r] >= 0
<1>1. PICK rank \in [Refs -> Nat] : Ranked(rank)
  BY DEF ShapeInv, Forest
<1> DEFINE N == {n \in Nat : \A q \in Refs : Live(q) /\ rank[q] <= n => local[q] >= 0}
<1>2. ASSUME NEW q \in Refs, Live(q) PROVE
        /\ rank[q] \in Nat /\ local[q] \in Int
        /\ inherited[q] = None => local[q] >= 0
        /\ inherited[q] # None =>
             /\ inherited[q] \in Refs /\ Live(inherited[q]) /\ local[inherited[q]] \in Int
             /\ rank[inherited[q]] \in Nat /\ rank[inherited[q]] < rank[q]
             /\ local[inherited[q]] >= 0 => local[q] >= 0
  <2>1. rank[q] \in Nat /\ local[q] \in Int /\ OwnLocal(q) \in Nat /\ Adds(q)
    BY <1>1, <1>2, AddsUp, OwnIs DEF ShapeInv, TypeOK
  <2>2. inherited[q] # None =>
          /\ inherited[q] \in Refs /\ Live(inherited[q]) /\ local[inherited[q]] \in Int
          /\ rank[inherited[q]] \in Nat /\ rank[inherited[q]] < rank[q]
    BY <1>1 DEF ShapeInv, TypeOK, EntriesAgree, Ranked
  <2> QED
    BY <2>1, <2>2 DEF Adds
<1>3. 0 \in N
  BY <1>2
<1>4. ASSUME NEW n \in N PROVE n + 1 \in N
  BY <1>2
<1>5. N = Nat
  <2>1. N \in SUBSET Nat
    OBVIOUS
  <2> HIDE DEF N
  <2> QED
    BY <1>3, <1>4, <2>1, Induction
<1> QED
  BY <1>2, <1>5

(* At zero nobody holds anything of his own.                               *)
LEMMA ZeroIsUnheld ==
  ASSUME ShapeInv, CountsAddUp, ~ forking, NEW r \in Refs, Live(r), Zero(r)
  PROVE  global[r] = 0 /\ \A f \in Fusionees : local_refs[r][f] = 0
<1>1. Adds(r) /\ OwnLocal(r) \in Nat /\ local[r] = 0
  BY AddsUp, OwnIs DEF ShapeInv, Zero
<1>2. inherited[r] # None => local[inherited[r]] \in Int /\ local[inherited[r]] >= 0
  BY NotNegative DEF ShapeInv, TypeOK, EntriesAgree
<1>3. OwnLocal(r) = 0
  BY <1>1, <1>2 DEF Adds
<1> QED
  BY <1>3, OwnIs DEF ShapeInv, Zero

LEMMA LockedStep ==
  ASSUME ShapeInv, CountsAddUp, LockedIsZero, [Next]_vars
  PROVE  LockedIsZero'
<1>0. TypeOK
  BY DEF ShapeInv
<1> DEFINE Unheld(r) == global[r] = 0 /\ \A f \in Fusionees : local_refs[r][f] = 0
<1>1. ASSUME UNCHANGED <<global, local_refs, forking>>, locked' = locked
      PROVE  LockedIsZero'
  BY <1>1 DEF LockedIsZero
<1>2. ASSUME NEW r \in Refs, NEW f, locked' = [locked EXCEPT ![r] = f], Live(r), Zero(r),
             UNCHANGED <<global, local_refs, forking>>
      PROVE  LockedIsZero'
  BY <1>0, <1>2, ZeroIsUnheld DEF LockedIsZero, TypeOK
<1>3. ASSUME NEW r \in Refs, locked[r] = None, locked' = locked, UNCHANGED forking,
             \A q \in Refs \ {r} : global'[q] = global[q] /\ local_refs'[q] = local_refs[q]
      PROVE  LockedIsZero'
  BY <1>3 DEF LockedIsZero
<1>4. ASSUME NEW r \in Refs, locked' \in [Refs -> Fusionees \cup {None}], UNCHANGED forking,
             \A q \in Refs : locked'[q] # None => locked'[q] = locked[q],
             \A q \in Refs : Unheld(q) => Unheld(q)'
      PROVE  LockedIsZero'
  BY <1>4 DEF LockedIsZero
<1>5. CASE UNCHANGED vars
  BY <1>1, <1>5 DEF vars, counts, lockVars
<1>6. ASSUME NEW t \in Threads, NEW r \in Refs, RefIoctl(t, r) PROVE LockedIsZero'
  <2>1. CASE New(t, r)
    BY <1>1, <2>1 DEF New, counts, lockVars
  <2>2. CASE Up(t, r)
    <3>1. \A q \in Refs \ {r} : local_refs'[q] = local_refs[q]
      BY <1>0, <2>2 DEF Up, TypeOK
    <3> QED
      BY <1>3, <2>2, <3>1 DEF Up, fixed, lockVars
  <2>3. CASE Down(t, r)
    <3>1. \A q \in Refs \ {r} : local_refs'[q] = local_refs[q]
      BY <1>0, <2>3 DEF Down, TypeOK
    <3> QED
      BY <1>3, <2>3, <3>1 DEF Down, fixed, lockVars
  <2>4. CASE UpGlobal(t, r)
    <3>1. \A q \in Refs \ {r} : global'[q] = global[q]
      BY <1>0, <2>4 DEF UpGlobal, TypeOK
    <3> QED
      BY <1>3, <2>4, <3>1 DEF UpGlobal, fixed, lockVars
  <2>5. CASE DownGlobal(t, r)
    <3>1. \A q \in Refs \ {r} : global'[q] = global[q]
      BY <1>0, <2>5 DEF DownGlobal, TypeOK
    <3> QED
      BY <1>3, <2>5, <3>1 DEF DownGlobal, fixed, lockVars
  <2>6. CASE ZeroLock(t, r)
    <3>1. CASE Lock(t, r)
      BY <1>2, <2>6, <3>1 DEF ZeroLock, Lock, Ioctl, Live, counts, fixed
    <3>2. CASE Sleep(t, r)
      BY <1>1, <2>6, <3>2 DEF ZeroLock, Sleep, counts, fixed
    <3> QED
      BY <2>6, <3>1, <3>2 DEF ZeroLock
  <2>7. CASE ZeroTryLock(t, r)
    BY <1>2, <2>7 DEF ZeroTryLock, Ioctl, Live, counts, fixed
  <2>8. CASE ZeroUnlock(t, r)
    <3>1. locked' \in [Refs -> Fusionees \cup {None}] /\ \A q \in Refs : locked'[q] # None => locked'[q] = locked[q]
      BY <1>0, <2>8 DEF ZeroUnlock, TypeOK
    <3> QED
      BY <1>4, <2>8, <3>1 DEF ZeroUnlock, counts, fixed
  <2>9. CASE Watch(t, r)
    BY <1>1, <2>9 DEF Watch, counts, fixed
  <2>10. CASE \E from \in Refs : Inherit(t, r, from)
    BY <1>1, <2>10 DEF Inherit, fixed, lockVars
  <2>11. CASE Destroy(t, r)
    <3>1. locked' \in [Refs -> Fusionees \cup {None}] /\ \A q \in Refs : locked'[q] # None => locked'[q] = locked[q]
      BY <1>0, <2>11 DEF Destroy, Bury, TypeOK
    <3>2. \A q \in Refs : Unheld(q) => Unheld(q)'
      BY <1>0, <2>11 DEF Destroy, Bury, TypeOK
    <3> QED
      BY <1>4, <2>11, <3>1, <3>2 DEF Destroy, fixed
  <2> QED
    BY <1>6, <2>1, <2>2, <2>3, <2>4, <2>5, <2>6, <2>7, <2>8, <2>9, <2>10, <2>11 DEF RefIoctl
<1>7. ASSUME NEW t \in Threads, NEW parent \in Fusionees, Fork(t, parent) PROVE LockedIsZero'
  BY <1>7 DEF Fork, fixed, LockedIsZero
<1>8. ASSUME NEW t \in Threads, Woken(t) PROVE LockedIsZero'
  <2> DEFINE r == op[t].id
  <2>1. UNCHANGED <<entry, global, local_refs, forking>>
    BY <1>8 DEF Woken, counts, fixed
  <2>2. CASE Lock(t, r)
    <3>1. CASE r \in Refs
      BY <1>2, <1>8, <2>1, <2>2, <3>1 DEF Woken, Lock, Live
    <3>2. CASE r \notin Refs
      <4>1. locked' = locked
        BY <1>0, <2>2, <3>2 DEF Lock, TypeOK
      <4> QED
        BY <1>1, <2>1, <4>1
    <3> QED
      BY <3>1, <3>2
  <2>3. CASE ~ Lock(t, r)
    <3>1. locked' = locked
      BY <1>8, <2>3 DEF Woken, Sleep
    <3> QED
      BY <1>1, <2>1, <3>1
  <2> QED
    BY <2>2, <2>3
<1>9. ASSUME NEW t \in Threads, FindGone(t) \/ Interrupt(t) \/ ThreadExit(t) PROVE LockedIsZero'
  BY <1>1, <1>9 DEF FindGone, Interrupt, ThreadExit, counts, fixed, lockVars
<1>10. ASSUME NEW f \in Fusionees, Release(f) PROVE LockedIsZero'
  BY <1>1, <1>10 DEF Release, counts, fixed, lockVars
<1>11. ASSUME NEW r \in Refs, ClearLocal(r) PROVE LockedIsZero'
  <2>1. locked' \in [Refs -> Fusionees \cup {None}] /\ \A q \in Refs : locked'[q] # None => locked'[q] = locked[q]
    BY <1>0, <1>11 DEF ClearLocal, TypeOK
  <2>2. \A q \in Refs : Unheld(q) => Unheld(q)'
    BY <1>0, <1>11 DEF ClearLocal, TypeOK
  <2> QED
    BY <1>4, <1>11, <2>1, <2>2 DEF ClearLocal, fixed
<1> QED
  BY <1>5, <1>6, <1>7, <1>8, <1>9, <1>10, <1>11 DEF Next

-----------------------------------------------------------------------------
\* What a step may do to a reference that is watched.
Tells(r) ==
  watched[r] /\ Live(r)' =>
    /\ Total(r) > 0 /\ Total(r)' = 0 => reports'[r] = (reports[r] + 1) % ReportsMod
    /\ reports'[r] # reports[r] => Total(r)' = 0

LEMMA Reported == ZeroIsReported <=> [][\A r \in Refs : Tells(r)]_vars
BY DEF ZeroIsReported, Tells

(* A change tells the watcher of each reference it leaves at zero.         *)
LEMMA PropagateTells ==
  ASSUME ShapeInv, NEW R \in SUBSET Refs, NEW diff \in Int, NEW W, Propagate(R, diff, W),
         NEW q \in Refs, global'[q] = global[q]
  PROVE  Tells(q)
<1>1. /\ local' \in [Refs -> Int]
      /\ \A p \in Refs : local'[p] = IF p \in Reached(R) THEN local[p] + diff ELSE local[p]
      /\ \A p \in Refs : watched[p] =>
              reports'[p] = IF p \in Reached(R) /\ local'[p] + global[p] = 0
                            THEN (reports[p] + 1) % ReportsMod ELSE reports[p]
  BY PropagateIs DEF ShapeInv
<1>2. /\ Total(q) = global[q] + local[q] /\ Total(q)' = global[q] + local'[q]
      /\ global[q] \in Nat /\ local[q] \in Int /\ local'[q] \in Int
  BY <1>1 DEF Total, ShapeInv, TypeOK
<1>3. CASE q \in Reached(R)
  BY <1>1, <1>2, <1>3 DEF Tells
<1>4. CASE q \notin Reached(R)
  <2>1. Total(q)' = Total(q) /\ (watched[q] => reports'[q] = reports[q])
    BY <1>1, <1>2, <1>4
  <2> QED
    BY <1>2, <2>1 DEF Tells
<1> QED
  BY <1>3, <1>4

LEMMA TellsStep ==
  ASSUME ShapeInv, [Next]_vars, NEW q \in Refs
  PROVE  Tells(q)
<1>0. TypeOK
  BY DEF ShapeInv
<1>1. ASSUME global'[q] = global[q], local'[q] = local[q], reports'[q] = reports[q]
      PROVE  Tells(q)
  BY <1>0, <1>1 DEF Tells, Total, TypeOK
<1>2. CASE UNCHANGED vars
  BY <1>1, <1>2 DEF vars, counts
<1>3. ASSUME NEW t \in Threads, NEW r \in Refs, RefIoctl(t, r) PROVE Tells(q)
  <2>0. {r} \in SUBSET Refs /\ 1 \in Int /\ -1 \in Int
    OBVIOUS
  <2>1. CASE New(t, r)
    BY <1>1, <2>1 DEF New, counts
  <2>2. CASE Up(t, r)
    BY <2>0, <2>2, PropagateTells DEF Up
  <2>3. CASE Down(t, r)
    BY <2>0, <2>3, PropagateTells DEF Down
  <2>4. CASE UpGlobal(t, r)
    <3>1. /\ global[q] \in Nat /\ local[q] \in Int
          /\ global'[q] = global[q] \/ global'[q] = global[q] + 1
          /\ local'[q] = local[q] /\ reports'[q] = reports[q]
      BY <1>0, <2>4 DEF UpGlobal, TypeOK
    <3> QED
      BY <3>1 DEF Tells, Total
  <2>5. CASE DownGlobal(t, r)
    <3> DEFINE Z == IF Total(r) = 1 THEN {r} ELSE {}
    <3>1. /\ Total(q) = global[q] + local[q] /\ Total(q)' = global'[q] + local[q]
          /\ global[q] \in Nat /\ local[q] \in Int
      BY <1>0, <2>5 DEF DownGlobal, TypeOK, Total
    <3>2. global'[q] = IF q = r THEN global[q] - 1 ELSE global[q]
      <4>1. global' = [global EXCEPT ![r] = @ - 1]
        BY <2>5 DEF DownGlobal
      <4> QED
        BY <1>0, <4>1 DEF TypeOK
    <3>3. watched[q] => reports'[q] = IF q \in Z THEN (reports[q] + 1) % ReportsMod ELSE reports[q]
      <4>1. NotifyRefs(Z, {})
        BY <2>5 DEF DownGlobal
      <4> HIDE DEF Z
      <4> QED
        BY <4>1 DEF NotifyRefs
    <3>4. q \in Z <=> q = r /\ Total(q) = 1
      OBVIOUS
    <3> HIDE DEF Z
    <3>5. CASE q = r
      <4>1. Total(q) \in Int /\ Total(q)' = Total(q) - 1
        BY <3>1, <3>2, <3>5
      <4> HIDE DEF Total
      <4> QED
        BY <3>3, <3>4, <3>5, <4>1 DEF Tells
    <3>6. CASE q # r
      <4>1. Total(q) \in Int /\ Total(q)' = Total(q)
        BY <3>1, <3>2, <3>6
      <4> HIDE DEF Total
      <4> QED
        BY <3>3, <3>4, <3>6, <4>1 DEF Tells
    <3> QED
      BY <3>5, <3>6
  <2>6. CASE ZeroLock(t, r) \/ ZeroTryLock(t, r) \/ ZeroUnlock(t, r) \/ Watch(t, r)
    BY <1>1, <2>6 DEF ZeroLock, ZeroTryLock, ZeroUnlock, Watch, counts
  <2>7. ASSUME NEW from \in Refs, Inherit(t, r, from) PROVE Tells(q)
    <3>1. local[from] \in Int /\ Propagate({r}, local[from], {}) /\ global' = global
      BY <1>0, <2>7 DEF Inherit, TypeOK
    <3> QED
      BY <2>0, <3>1, PropagateTells
  <2>8. CASE Destroy(t, r)
    <3>1. CASE q = r
      <4>1. ~ Live(q)'
        BY <1>0, <2>8, <3>1 DEF Destroy, Bury, Live, TypeOK
      <4> QED
        BY <4>1 DEF Tells
    <3>2. CASE q # r
      <4> DEFINE R == {p \in Refs : inherited[p] = r}
      <4>1. R \in SUBSET Refs /\ - local[r] \in Int /\ Propagate(R, - local[r], {r})
        BY <1>0, <2>8 DEF Destroy, TypeOK
      <4>2. global'[q] = global[q]
        BY <1>0, <2>8, <3>2 DEF Destroy, Bury, TypeOK
      <4> HIDE DEF R
      <4> QED
        BY <4>1, <4>2, PropagateTells
    <3> QED
      BY <3>1, <3>2
  <2> QED
    BY <1>3, <2>1, <2>2, <2>3, <2>4, <2>5, <2>6, <2>7, <2>8 DEF RefIoctl
<1>4. ASSUME NEW t \in Threads, NEW parent \in Fusionees, Fork(t, parent) PROVE Tells(q)
  BY <1>1, <1>4 DEF Fork
<1>5. ASSUME NEW t \in Threads, Woken(t) \/ FindGone(t) \/ Interrupt(t) \/ ThreadExit(t)
      PROVE  Tells(q)
  BY <1>1, <1>5 DEF Woken, FindGone, Interrupt, ThreadExit, counts
<1>6. ASSUME NEW f \in Fusionees, Release(f) PROVE Tells(q)
  BY <1>1, <1>6 DEF Release, counts
<1>7. ASSUME NEW r \in Refs, ClearLocal(r) PROVE Tells(q)
  <2> DEFINE f == clearing.fusionee
             R == IF local_refs[r][f] > 0 THEN {r} ELSE {}
             W == IF locked[r] = f THEN {r} ELSE {}
  <2>1. f \in Fusionees
    BY <1>0, <1>7 DEF ClearLocal, TypeOK, ShapeInv, EntriesAgree
  <2>2. R \in SUBSET Refs /\ - local_refs[r][f] \in Int
    BY <1>0, <2>1 DEF TypeOK
  <2>3. Propagate(R, - local_refs[r][f], W) /\ global' = global
    BY <1>7 DEF ClearLocal
  <2> HIDE DEF f, R, W
  <2> QED
    BY <2>2, <2>3, PropagateTells
<1> QED
  BY <1>2, <1>3, <1>4, <1>5, <1>6, <1>7 DEF Next

-----------------------------------------------------------------------------
IInv == ShapeInv /\ CountsAddUp /\ LockedIsZero

LEMMA RefInv == Spec => []IInv
<1>1. Init => IInv
  <2> SUFFICES ASSUME Init PROVE IInv
    OBVIOUS
  <2>1. ShapeInv /\ \A r \in Refs : ~ Live(r)
    <3>1. PICK start \in Starts : Begin(start)
      BY DEF Init
    <3>2. \A r \in Refs : ~ Live(r)
      BY <3>1 DEF Begin, Live
    <3> QED
      BY <3>2, InitShape
  <2>2. CountsAddUp
    BY <2>1 DEF CountsAddUp
  <2>3. LockedIsZero
    BY DEF Init, LockedIsZero
  <2> QED
    BY <2>1, <2>2, <2>3 DEF IInv
<1>2. IInv /\ [Next]_vars => IInv'
  BY ShapeStep, CountsStep, LockedStep DEF IInv
<1> QED
  BY <1>1, <1>2, PTL DEF Spec

(* No LocalRef goes below zero, whoever takes from it: every variable      *)
(* stays in its range (ref.c:439, 447).                                    *)
THEOREM RefTypes == Spec => []TypeOK
<1>1. IInv => TypeOK
  BY DEF IInv, ShapeInv
<1> QED
  BY <1>1, RefInv, PTL

(* Without forks each local count is the sum of what fusionees hold and of *)
(* what is inherited, for any forest of references (ref.c:545-635).        *)
THEOREM RefCounts == Spec => []CountsAddUp
<1>1. IInv => CountsAddUp
  BY DEF IInv
<1> QED
  BY <1>1, RefInv, PTL

(* Without forks no reference that exists has a negative count, which is   *)
(* what CountsNotNegative says of all worlds (doc/fusion.tmpl:628).        *)
THEOREM RefNotNegative == Spec => [](~ forking => CountsNotNegative)
<1>1. IInv => (~ forking => CountsNotNegative)
  BY NotNegative DEF IInv, CountsNotNegative, ShapeInv, TypeOK
<1> QED
  BY <1>1, RefInv, PTL

(* Nobody holds a reference of his own while it is locked (ref.c:145, 177, *)
(* 231, 260).                                                              *)
THEOREM RefLocked == Spec => []LockedIsZero
<1>1. IInv => LockedIsZero
  BY DEF IInv
<1> QED
  BY <1>1, RefInv, PTL

(* The watcher is told of each drop to zero, once, and of nothing else,    *)
(* forks or not (ref.c:200, 531-543, 567-569).                             *)
THEOREM RefReported == Spec => ZeroIsReported
<1>1. IInv /\ [Next]_vars => [\A r \in Refs : Tells(r)]_vars
  BY TellsStep DEF IInv
<1> QED
  BY <1>1, RefInv, Reported, PTL DEF Spec
=============================================================================
