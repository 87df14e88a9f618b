------------------------ MODULE FusionCall_proofs ------------------------
(***************************************************************************)
(* The safety of the calls, for any number of fusionees, threads and calls *)
(* and for any bounds: who frees an execution, and whose result it is.     *)
(***************************************************************************)
EXTENDS FusionCall, Batches, WellFoundedInduction, TLAPS

-----------------------------------------------------------------------------
(* What Picked takes out of a batch, for every batch.  The library's       *)
(* theorems of induction take an operator; here it is over sets.           *)

(* Induction, over a set of numbers.                                       *)
LEMMA Induction ==
  ASSUME NEW S \in SUBSET Nat, 0 \in S, \A n \in S : n + 1 \in S
  PROVE  S = Nat
<1> DEFINE T == Nat \ S
<1> SUFFICES ASSUME T # {} PROVE FALSE
  OBVIOUS
<1>1. PICK x \in T : \A y \in T : ~ (<<y, x>> \in OpToRel(<, Nat))
  BY WFMin, NatLessThanWellFounded
<1>2. \A y \in T : ~ (y < x)
  BY <1>1 DEF OpToRel
<1>3. x \in Nat /\ x # 0 /\ x \notin S
  OBVIOUS
<1>4. x - 1 \in Nat /\ (x - 1) + 1 = x
  BY <1>3
<1>5. x - 1 \notin T
  BY <1>2, <1>3
<1> QED
  BY <1>3, <1>4, <1>5

\* u has what s has at the places in I, in the order of s.
Picks(u, s, I) ==
  \E g \in [1..Len(u) -> I] : /\ \A j \in 1..Len(u) : u[j] = s[g[j]]
                              /\ \A j, k \in 1..Len(u) : j < k => g[j] < g[k]
                              /\ \A i \in I : \E j \in 1..Len(u) : g[j] = i

LEMMA PickOne ==
  ASSUME NEW S, NEW s \in Seq(S), NEW n \in Nat, n + 1 \in DOMAIN s,
         NEW I \in SUBSET (1..n), NEW u \in Seq(S), Picks(u, s, I)
  PROVE  Append(u, s[n + 1]) \in Seq(S) /\ Picks(Append(u, s[n + 1]), s, I \cup {n + 1})
<1> DEFINE m == Len(u)
           v == Append(u, s[n + 1])
<1>1. PICK g \in [1..m -> I] : /\ \A j \in 1..m : u[j] = s[g[j]]
                               /\ \A j, k \in 1..m : j < k => g[j] < g[k]
                               /\ \A i \in I : \E j \in 1..m : g[j] = i
  BY DEF Picks
<1>2. /\ m \in Nat /\ v \in Seq(S) /\ Len(v) = m + 1
      /\ v[m + 1] = s[n + 1] /\ \A j \in 1..m : v[j] = u[j]
  OBVIOUS
<1> DEFINE h == [j \in 1..(m + 1) |-> IF j = m + 1 THEN n + 1 ELSE g[j]]
<1>3. h \in [1..(m + 1) -> I \cup {n + 1}] /\ h[m + 1] = n + 1 /\ \A j \in 1..m : h[j] = g[j]
  BY <1>2
<1> HIDE DEF h, v, m
<1>4. \A j \in 1..(m + 1) : v[j] = s[h[j]]
  BY <1>1, <1>2, <1>3
<1>5. \A j, k \in 1..(m + 1) : j < k => h[j] < h[k]
  <2> SUFFICES ASSUME NEW j \in 1..(m + 1), NEW k \in 1..(m + 1), j < k PROVE h[j] < h[k]
    OBVIOUS
  <2>1. j \in 1..m
    BY <1>2
  <2>2. h[j] = g[j] /\ g[j] \in I
    BY <1>1, <1>3, <2>1
  <2>3. g[j] \in 1..n
    BY <2>2
  <2>4. CASE k = m + 1
    BY <1>3, <2>2, <2>3, <2>4
  <2>5. CASE k # m + 1
    <3>1. k \in 1..m
      BY <1>2, <2>5
    <3> QED
      BY <1>1, <1>3, <2>1, <2>2, <3>1
  <2> QED
    BY <2>4, <2>5
<1>6. \A i \in I \cup {n + 1} : \E j \in 1..(m + 1) : h[j] = i
  <2>1. m + 1 \in 1..(m + 1)
    BY <1>2
  <2>2. \A i \in I : \E j \in 1..m : h[j] = i
    BY <1>1, <1>3
  <2>3. \A j \in 1..m : j \in 1..(m + 1)
    BY <1>2
  <2> QED
    BY <1>3, <2>1, <2>2, <2>3
<1>7. Picks(v, s, I \cup {n + 1})
  <2>1. m + 1 = Len(v)
    BY <1>2
  <2>2. /\ h \in [1..Len(v) -> I \cup {n + 1}]
        /\ \A j \in 1..Len(v) : v[j] = s[h[j]]
        /\ \A j, k \in 1..Len(v) : j < k => h[j] < h[k]
        /\ \A i \in I \cup {n + 1} : \E j \in 1..Len(v) : h[j] = i
    BY ONLY <1>3, <1>4, <1>5, <1>6, <2>1
  <2> QED
    BY ONLY <2>2 DEF Picks
<1> QED
  BY <1>2, <1>7 DEF v

LEMMA PickedPicks ==
  ASSUME NEW S, NEW s \in Seq(S), NEW I \in SUBSET DOMAIN s
  PROVE  Picked(s, I) \in Seq(S) /\ Picks(Picked(s, I), s, I)
<1> DEFINE Step(F, i) == IF i = 0 THEN <<>>
                         ELSE IF i \in I THEN Append(F[i - 1], s[i]) ELSE F[i - 1]
           Def(F, n) == F = [i \in 0..n |-> Step(F, i)]
           U == CHOOSE F : Def(F, Len(s))
<1>1. Picked(s, I) = U[Len(s)]
  BY DEF Picked
<1>2. \A F, G, i : F[i - 1] = G[i - 1] => Step(F, i) = Step(G, i)
  OBVIOUS
<1>3. \A F, G : Step(F, 0) = Step(G, 0)
  OBVIOUS
<1>4. \A n \in Nat : \E F : Def(F, n)
  <2> DEFINE N == {n \in Nat : \E F : Def(F, n)}
  <2>1. 0 \in N
    <3>1. \A i \in 0..0 : Step([j \in 0..0 |-> <<>>], i) = <<>>
      OBVIOUS
    <3> HIDE DEF Step
    <3>2. [i \in 0..0 |-> <<>>] = [i \in 0..0 |-> Step([j \in 0..0 |-> <<>>], i)]
      BY <3>1
    <3> QED
      BY <3>2
  <2>2. ASSUME NEW n \in N PROVE n + 1 \in N
    <3>1. n \in Nat
      OBVIOUS
    <3>2. PICK F : F = [i \in 0..n |-> Step(F, i)]
      OBVIOUS
    <3> HIDE DEF Step
    <3> DEFINE G == [i \in 0..(n + 1) |-> IF i = n + 1 THEN Step(F, i) ELSE F[i]]
    <3>3. \A i \in 0..n : G[i] = F[i] /\ F[i] = Step(F, i)
      <4>1. ASSUME NEW i \in 0..n PROVE G[i] = F[i]
        BY <3>1
      <4> HIDE DEF G, N
      <4>2. ASSUME NEW i \in 0..n PROVE F[i] = Step(F, i)
        BY <3>2
      <4> QED
        BY <4>1, <4>2
    <3>4. G[n + 1] = Step(F, n + 1)
      BY <3>1
    <3>5. \A i \in 0..(n + 1) : G[i] = Step(G, i)
      <4> SUFFICES ASSUME NEW i \in 0..(n + 1) PROVE G[i] = Step(G, i)
        OBVIOUS
      <4> HIDE DEF G, N
      <4>1. CASE i = 0
        BY <3>1, <1>3, <3>3, <4>1
      <4>2. CASE i # 0
        <5>1. i - 1 \in 0..n
          BY <3>1, <4>2
        <5>2. G[i - 1] = F[i - 1]
          BY <3>3, <5>1
        <5>3. Step(G, i) = Step(F, i)
          BY <1>2, <5>2
        <5>4. G[i] = Step(F, i)
          BY <3>1, <3>3, <3>4
        <5> QED
          BY <5>3, <5>4
      <4> QED
        BY <4>1, <4>2
    <3>6. G = [i \in 0..(n + 1) |-> G[i]]
      OBVIOUS
    <3> HIDE DEF G, Step
    <3>7. [i \in 0..(n + 1) |-> G[i]] = [i \in 0..(n + 1) |-> Step(G, i)]
      BY <3>5
    <3>8. Def(G, n + 1)
      BY <3>6, <3>7
    <3> QED
      BY <3>8
  <2> HIDE DEF N
  <2>3. N = Nat
    <3>1. N \in SUBSET Nat
      BY DEF N
    <3> QED
      BY <2>1, <2>2, <3>1, Induction
  <2> QED
    BY <2>3 DEF N
<1>5. Len(s) \in Nat /\ DOMAIN s = 1..Len(s)
  OBVIOUS
<1> HIDE DEF Step
<1>6. Def(U, Len(s))
  BY <1>4, <1>5
<1> HIDE DEF U
<1>7. \A i \in 0..Len(s) : U[i] = Step(U, i)
  BY <1>6
<1> DEFINE Upto(n) == U[n] \in Seq(S) /\ Picks(U[n], s, I \cap (1..n))
           N == {n \in Nat : n <= Len(s) => Upto(n)}
<1>8. 0 \in N
  <2>1. U[0] = <<>>
    BY <1>5, <1>7 DEF Step
  <2>2. Picks(<<>>, s, {})
    <3>1. <<>> \in [1..Len(<<>>) -> {}]
      OBVIOUS
    <3> QED
      BY <3>1 DEF Picks
  <2>3. I \cap (1..0) = {}
    OBVIOUS
  <2>4. Upto(0)
    BY <2>1, <2>2, <2>3
  <2> QED
    BY <2>4
<1>9. ASSUME NEW n \in N PROVE n + 1 \in N
  <2> SUFFICES ASSUME n + 1 <= Len(s) PROVE Upto(n + 1)
    OBVIOUS
  <2>1. U[n] \in Seq(S) /\ Picks(U[n], s, I \cap (1..n)) /\ n \in Nat
    BY <1>5
  <2>2. n + 1 \in 0..Len(s) /\ n + 1 # 0 /\ (n + 1) - 1 = n /\ n + 1 \in DOMAIN s
    BY <1>5
  <2>3. U[n + 1] = IF n + 1 \in I THEN Append(U[n], s[n + 1]) ELSE U[n]
    BY <1>7, <2>2 DEF Step
  <2>4. CASE n + 1 \in I
    <3>1. I \cap (1..(n + 1)) = (I \cap (1..n)) \cup {n + 1}
      BY <2>4
    <3>2. I \cap (1..n) \in SUBSET (1..n)
      OBVIOUS
    <3>3. Append(U[n], s[n + 1]) \in Seq(S) /\ Picks(Append(U[n], s[n + 1]), s, (I \cap (1..n)) \cup {n + 1})
      BY <2>1, <2>2, <3>2, PickOne
    <3> QED
      BY <2>3, <2>4, <3>1, <3>3
  <2>5. CASE n + 1 \notin I
    <3>1. I \cap (1..(n + 1)) = I \cap (1..n)
      BY <2>5
    <3> QED
      BY <2>1, <2>3, <2>5, <3>1
  <2> QED
    BY <2>4, <2>5
<1> HIDE DEF N, Upto
<1>10. N = Nat
  <2>1. N \in SUBSET Nat
    BY DEF N
  <2> QED
    BY <1>8, <1>9, <2>1, Induction
<1>11. Upto(Len(s)) /\ I \cap (1..Len(s)) = I
  BY <1>5, <1>10 DEF N
<1> QED
  BY <1>1, <1>11 DEF Upto

(* A set of numbers with a bound has a greatest.                           *)
LEMMA Greatest ==
  ASSUME NEW n \in Nat, NEW S \in SUBSET (0..n), S # {}
  PROVE  \E x \in S : \A y \in S : y <= x
<1>1. \A y \in S : y \in Nat /\ n - y \in Nat
  OBVIOUS
<1> DEFINE T == {n - y : y \in S}
<1>2. T \in SUBSET Nat
  BY <1>1
<1>3. PICK e \in S : TRUE
  OBVIOUS
<1>4. T # {}
  BY <1>3
<1>5. PICK z \in T : \A y \in T : ~ (<<y, z>> \in OpToRel(<, Nat))
  BY <1>2, <1>4, WFMin, NatLessThanWellFounded
<1>6. PICK x \in S : z = n - x
  OBVIOUS
<1>7. \A y \in S : ~ (n - y < n - x)
  BY <1>1, <1>5, <1>6 DEF OpToRel
<1> QED
  BY <1>1, <1>7

(* What was picked is what is in it, and it kept its order.                *)
LEMMA PicksToSet ==
  ASSUME NEW S, NEW s \in Seq(S), NEW I \in SUBSET DOMAIN s, NEW u \in Seq(S), Picks(u, s, I)
  PROVE  ToSet(u) = {s[i] : i \in I}
<1>1. DOMAIN u = 1..Len(u)
  OBVIOUS
<1>2. PICK g \in [1..Len(u) -> I] : /\ \A j \in 1..Len(u) : u[j] = s[g[j]]
                                    /\ \A i \in I : \E j \in 1..Len(u) : g[j] = i
  BY DEF Picks
<1>3. \A x \in ToSet(u) : x \in {s[i] : i \in I}
  BY <1>1, <1>2 DEF ToSet
<1>4. \A i \in I : s[i] \in ToSet(u)
  <2> SUFFICES ASSUME NEW i \in I PROVE s[i] \in ToSet(u)
    OBVIOUS
  <2>1. PICK j \in 1..Len(u) : g[j] = i
    BY <1>2
  <2>2. u[j] = s[i]
    BY <1>2, <2>1
  <2> QED
    BY <1>1, <2>2 DEF ToSet
<1> QED
  BY <1>3, <1>4

(* What a sequence of elements of S has at a place is an element of S.     *)
LEMMA ElementOf ==
  ASSUME NEW S, NEW s \in Seq(S), NEW i \in DOMAIN s
  PROVE  s[i] \in S
  OBVIOUS

(* Two sequences, one behind the other.                                    *)
LEMMA Concat ==
  ASSUME NEW S, NEW s \in Seq(S), NEW u \in Seq(S)
  PROVE  /\ s \o u \in Seq(S) /\ Len(s \o u) = Len(s) + Len(u)
         /\ Len(s) \in Nat /\ Len(u) \in Nat
         /\ \A j \in 1..Len(s) : (s \o u)[j] = s[j]
         /\ \A j \in 1..Len(u) : (s \o u)[Len(s) + j] = u[j]
  OBVIOUS

(* To take one element out is to pick the others.                          *)
LEMMA RemovePicks ==
  ASSUME NEW S, NEW s \in Seq(S), NEW i \in DOMAIN s
  PROVE  RemoveAt(s, i) \in Seq(S) /\ Picks(RemoveAt(s, i), s, DOMAIN s \ {i})
<1> DEFINE n == Len(s)
           a == SubSeq(s, 1, i - 1)
           b == SubSeq(s, i + 1, n)
           u == a \o b
<1>1. n \in Nat /\ DOMAIN s = 1..n /\ i \in 1..n
  OBVIOUS
<1>2. a \in Seq(S) /\ Len(a) = i - 1 /\ \A j \in 1..(i - 1) : a[j] = s[j]
  BY <1>1
<1>3. b \in Seq(S) /\ Len(b) = n - i /\ \A j \in 1..(n - i) : b[j] = s[i + j]
  BY <1>1
<1>4. RemoveAt(s, i) = u
  BY DEF RemoveAt
<1> HIDE DEF a, b, n
<1>5. a \in Seq(S) /\ b \in Seq(S) /\ u = a \o b
  BY <1>2, <1>3
<1> HIDE DEF u
<1>6. /\ a \o b \in Seq(S) /\ Len(a \o b) = Len(a) + Len(b)
      /\ \A j \in 1..Len(a) : (a \o b)[j] = a[j]
      /\ \A j \in 1..Len(b) : (a \o b)[Len(a) + j] = b[j]
  BY <1>5, Concat
<1>7. /\ u \in Seq(S) /\ Len(u) = Len(a) + Len(b)
      /\ \A j \in 1..Len(a) : u[j] = a[j]
      /\ \A j \in 1..Len(b) : u[Len(a) + j] = b[j]
  BY <1>5, <1>6
<1>8. u \in Seq(S) /\ Len(u) = n - 1
  BY <1>1, <1>2, <1>3, <1>7
<1>9. \A j \in 1..(n - 1) : u[j] = IF j < i THEN s[j] ELSE s[j + 1]
  <2> SUFFICES ASSUME NEW j \in 1..(n - 1) PROVE u[j] = IF j < i THEN s[j] ELSE s[j + 1]
    OBVIOUS
  <2>1. CASE j < i
    <3>1. j \in 1..(i - 1) /\ j \in 1..Len(a)
      BY <1>1, <1>2, <2>1
    <3>2. u[j] = a[j]
      BY <1>7, <3>1
    <3> QED
      BY <1>2, <2>1, <3>1, <3>2
  <2>2. CASE ~ (j < i)
    <3> DEFINE k == j - (i - 1)
    <3>1. k \in 1..(n - i) /\ i + k = j + 1 /\ j = Len(a) + k
      BY <1>1, <1>2, <2>2
    <3>2. u[j] = b[k]
      BY <1>3, <1>7, <3>1
    <3>3. b[k] = s[j + 1]
      BY <1>3, <3>1
    <3> QED
      BY <2>2, <3>2, <3>3
  <2> QED
    BY <2>1, <2>2
<1> DEFINE I == DOMAIN s \ {i}
           g == [j \in 1..(n - 1) |-> IF j < i THEN j ELSE j + 1]
<1>10. g \in [1..(n - 1) -> I]
  BY <1>1
<1>11. \A j \in 1..(n - 1) : u[j] = s[g[j]]
  BY <1>9
<1>12. \A j, k \in 1..(n - 1) : j < k => g[j] < g[k]
  BY <1>1
<1>13. \A x \in I : \E j \in 1..(n - 1) : g[j] = x
  <2> SUFFICES ASSUME NEW x \in I PROVE \E j \in 1..(n - 1) : g[j] = x
    OBVIOUS
  <2>1. CASE x < i
    <3>1. x \in 1..(n - 1) /\ g[x] = x
      BY <1>1, <2>1
    <3> QED
      BY <3>1
  <2>2. CASE ~ (x < i)
    <3>1. x - 1 \in 1..(n - 1) /\ ~ (x - 1 < i) /\ (x - 1) + 1 = x
      BY <1>1, <2>2
    <3>2. g[x - 1] = x
      BY <3>1
    <3> QED
      BY <3>1, <3>2
  <2> QED
    BY <2>1, <2>2
<1> HIDE DEF g, I
<1>14. Picks(u, s, I)
  BY <1>8, <1>10, <1>11, <1>12, <1>13 DEF Picks
<1> QED
  BY <1>8, <1>4, <1>14 DEF I

(* A beginning and the rest of a sequence.                                 *)
LEMMA SplitPicks ==
  ASSUME NEW S, NEW s \in Seq(S), NEW k \in 0..Len(s)
  PROVE  /\ SubSeq(s, 1, k) \in Seq(S) /\ Picks(SubSeq(s, 1, k), s, 1..k)
         /\ SubSeq(s, k + 1, Len(s)) \in Seq(S)
         /\ Picks(SubSeq(s, k + 1, Len(s)), s, (k + 1)..Len(s))
<1> DEFINE n == Len(s)
           a == SubSeq(s, 1, k)
           b == SubSeq(s, k + 1, n)
<1>1. n \in Nat /\ k \in 0..n /\ k \in Nat
  OBVIOUS
<1>2. a \in Seq(S) /\ Len(a) = k /\ \A j \in 1..k : a[j] = s[j]
  BY <1>1
<1>3. b \in Seq(S) /\ Len(b) = n - k /\ \A j \in 1..(n - k) : b[j] = s[k + j]
  BY <1>1
<1> HIDE DEF n, a, b
<1> DEFINE g == [j \in 1..k |-> j]
           h == [j \in 1..(n - k) |-> k + j]
<1>4. g \in [1..k -> 1..k] /\ \A j \in 1..k : g[j] = j
  OBVIOUS
<1>5. h \in [1..(n - k) -> (k + 1)..n] /\ \A j \in 1..(n - k) : h[j] = k + j
  BY <1>1
<1>6. \A x \in (k + 1)..n : \E j \in 1..(n - k) : h[j] = x
  <2> SUFFICES ASSUME NEW x \in (k + 1)..n PROVE \E j \in 1..(n - k) : h[j] = x
    OBVIOUS
  <2>1. x - k \in 1..(n - k) /\ k + (x - k) = x
    BY <1>1
  <2> QED
    BY <1>5, <2>1
<1>7. \A i, j \in 1..(n - k) : i < j => h[i] < h[j]
  BY <1>1, <1>5
<1> HIDE DEF g, h
<1>8. Picks(a, s, 1..k)
  <2>1. \A j \in 1..k : a[j] = s[g[j]]
    BY <1>2, <1>4
  <2>2. \A i, j \in 1..k : i < j => g[i] < g[j]
    BY <1>4
  <2>3. \A x \in 1..k : \E j \in 1..k : g[j] = x
    BY <1>4
  <2> QED
    BY <1>2, <1>4, <2>1, <2>2, <2>3 DEF Picks
<1>9. Picks(b, s, (k + 1)..n)
  <2>1. \A j \in 1..(n - k) : b[j] = s[h[j]]
    BY <1>3, <1>5
  <2>2. Len(b) = n - k
    BY <1>3
  <2> QED
    BY <1>5, <1>6, <1>7, <2>1, <2>2 DEF Picks
<1> QED
  BY <1>2, <1>3, <1>8, <1>9 DEF a, b, n

-----------------------------------------------------------------------------
(* Every variable stays in its range; that an execution is freed at most   *)
(* twice, which TypeOK says as well, is left to FreeInv.                   *)
ExecutionObject ==
  [caller: Fusionees \cup {None}, serial: 0..(SerialMod - 1),
   executed: BOOLEAN, ret: 0..MaxCount, frees: Nat]

ListTypes ==
  /\ state \in [Calls -> {"unborn", "live", "gone"}]
  /\ owner \in [Calls -> Fusionees \cup {None}]
  /\ count \in [Calls -> 0..MaxCount]
  /\ serial \in [Calls -> 0..(SerialMod - 1)]
  /\ executions \in [Calls -> Seq(1..MaxCount)]

ExecTypes ==
  /\ exec \in [Executions -> ExecutionObject]
  /\ ewait \in [Executions -> SUBSET Threads]

LockTypes ==
  /\ clock \in [Calls -> Threads \cup {None}]
  /\ elock \in Threads \cup {None}
  /\ dev \in Devs

TypeInv ==
  /\ Q!TypeOK /\ ListTypes /\ ExecTypes /\ LockTypes
  /\ cop \in [Threads -> COp]
  /\ owed \in [Fusionees -> Seq(CallMessage)]

(* What the queues pick out of a batch is what Picked picks.               *)
LEMMA QueuesPick ==
  ASSUME NEW s \in Seq(CallMessage), NEW I \in SUBSET DOMAIN s
  PROVE  Q!Picked(s, I) \in Seq(CallMessage) /\ Picks(Q!Picked(s, I), s, I)
<1>1. Q!Picked(s, I) = Picked(s, I)
  BY DEF Q!Picked, Picked
<1>2. Picked(s, I) \in Seq(CallMessage) /\ Picks(Picked(s, I), s, I)
  BY PickedPicks
<1> QED
  BY <1>1, <1>2

(* A message is queued at its end, and its fusionee has received one more. *)
LEMMA SendTypes ==
  ASSUME Q!TypeOK, NEW f \in Fusionees, NEW m \in CallMessage, Q!Send(f, m)
  PROVE  Q!TypeOK'
<1>1. messages' \in [Fusionees -> Seq(CallMessage)]
  <2>1. Append(messages[f], m) \in Seq(CallMessage)
    BY DEF Q!TypeOK
  <2> QED
    BY <2>1 DEF Q!TypeOK, Q!Send
<1>2. wait' \in [Fusionees -> SUBSET Threads]
  BY DEF Q!TypeOK, Q!Send
<1> QED
  BY <1>1, <1>2 DEF Q!TypeOK, Q!Send

(* A batch is a beginning of the queue; its tracked messages are kept, and *)
(* an answer is owed for those with a serial.                              *)
LEMMA BatchTypes ==
  ASSUME NEW s \in Seq(CallMessage), NEW k \in 0..Len(s)
  PROVE  /\ SubSeq(s, 1, k) \in Seq(CallMessage) /\ SubSeq(s, k + 1, Len(s)) \in Seq(CallMessage)
         /\ Q!Tracked(SubSeq(s, 1, k)) \in Seq(CallMessage)
<1>1. SubSeq(s, 1, k) \in Seq(CallMessage) /\ SubSeq(s, k + 1, Len(s)) \in Seq(CallMessage)
  OBVIOUS
<1> DEFINE b == SubSeq(s, 1, k)
           I == {i \in DOMAIN b : b[i].tracked}
<1>2. b \in Seq(CallMessage) /\ I \in SUBSET DOMAIN b
  BY <1>1
<1> HIDE DEF b, I
<1>3. Q!Picked(b, I) \in Seq(CallMessage)
  BY <1>2, QueuesPick
<1>4. Q!Tracked(b) = Q!Picked(b, I)
  BY DEF Q!Tracked, I
<1> QED
  BY <1>1, <1>3, <1>4 DEF b

LEMMA WantingTypes ==
  ASSUME NEW b \in Seq(CallMessage)
  PROVE  Wanting(b) \in Seq(CallMessage) /\ Picks(Wanting(b), b, {i \in DOMAIN b : HasSerial(b[i])})
<1> DEFINE I == {i \in DOMAIN b : HasSerial(b[i])}
<1>1. I \in SUBSET DOMAIN b
  OBVIOUS
<1>2. Wanting(b) = Q!Picked(b, I)
  BY DEF Wanting
<1> HIDE DEF I
<1>3. Q!Picked(b, I) \in Seq(CallMessage) /\ Picks(Q!Picked(b, I), b, I)
  BY <1>1, QueuesPick
<1> QED
  BY <1>2, <1>3 DEF I

LEMMA DeliverTypes ==
  ASSUME Q!TypeOK, NEW f \in Fusionees, NEW before \in Seq(CallMessage),
         NEW k \in 0..Len(messages[f]), Q!Deliver(f, k, before)
  PROVE  /\ messages' \in [Fusionees -> Seq(CallMessage)]
         /\ prev_msgs' \in [Fusionees -> Seq(CallMessage)]
         /\ handling' \in [Fusionees -> Seq(CallMessage)]
<1> DEFINE b == SubSeq(messages[f], 1, k)
           rest == SubSeq(messages[f], k + 1, Len(messages[f]))
           kept == before \o Q!Tracked(b)
<1>1. messages[f] \in Seq(CallMessage)
  BY DEF Q!TypeOK
<1>2. b \in Seq(CallMessage) /\ rest \in Seq(CallMessage) /\ Q!Tracked(b) \in Seq(CallMessage)
  BY <1>1, BatchTypes
<1>3. kept \in Seq(CallMessage)
  BY <1>2
<1>4. /\ messages' = [messages EXCEPT ![f] = rest]
      /\ prev_msgs' = [prev_msgs EXCEPT ![f] = kept]
      /\ handling' = [handling EXCEPT ![f] = b]
  BY DEF Q!Deliver
<1> HIDE DEF b, rest, kept
<1> QED
  BY <1>2, <1>3, <1>4 DEF Q!TypeOK

(* The sleeps of the queues.                                               *)
LEMMA SleepTypes ==
  ASSUME Q!TypeOK, NEW t \in Threads, NEW c,
         Q!WaitProcessing(t, c) \/ Q!ProcessingWoken(t) \/ Q!Interrupt(t)
  PROVE  Q!TypeOK' /\ messages' = messages /\ listed' = listed
<1>1. Fid[t] \in Fusionees
  BY QueueAssumption
<1>2. Q!QAt("user") \in Q!QOp /\ (c \in Calls => [at |-> "processing", key |-> c] \in Q!QOp)
  BY DEF Q!QAt, Q!QOp
<1>3. UNCHANGED <<listed, messages, prev_msgs, dispatcher_pid, handling>>
  BY DEF Q!WaitProcessing, Q!ProcessingWoken, Q!Interrupt
<1>4. qop' \in [Threads -> Q!QOp]
  <2>1. \/ qop' \in {qop, [qop EXCEPT ![t] = Q!QAt("user")]}
        \/ c \in Calls /\ qop' = [qop EXCEPT ![t] = [at |-> "processing", key |-> c]]
    BY DEF Q!WaitProcessing, Q!WaitKeys, Q!ProcessingWoken, Q!Interrupt
  <2> QED
    BY <1>2, <2>1 DEF Q!TypeOK
<1>5. wait' \in {wait, [wait EXCEPT ![Fid[t]] = @ \cup {t}], [wait EXCEPT ![Fid[t]] = @ \ {t}]}
  BY DEF Q!WaitProcessing, Q!ProcessingWoken, Q!Interrupt
<1>6. /\ [wait EXCEPT ![Fid[t]] = @ \cup {t}] \in [Fusionees -> SUBSET Threads]
      /\ [wait EXCEPT ![Fid[t]] = @ \ {t}] \in [Fusionees -> SUBSET Threads]
      /\ wait \in [Fusionees -> SUBSET Threads]
  BY <1>1 DEF Q!TypeOK
<1>7. wait' \in [Fusionees -> SUBSET Threads]
  BY <1>5, <1>6
<1> QED
  BY <1>3, <1>4, <1>7 DEF Q!TypeOK

(* What a read does to the queue of its fusionee: nothing, or a batch goes *)
(* to the client.                                                          *)
LEMMA ReadTypes ==
  ASSUME Q!TypeOK, NEW t \in Threads, Q!ReadSleep(t) \/ Q!ReadNow(t) \/ Q!ReadWoken(t)
  PROVE  /\ Q!TypeOK' /\ listed' = listed
         /\ \/ messages' = messages
            \/ \E k \in 0..Len(messages[Fid[t]]) :
                 /\ messages' = [messages EXCEPT ![Fid[t]] = SubSeq(@, k + 1, Len(@))]
                 /\ handling'[Fid[t]] = SubSeq(messages[Fid[t]], 1, k)
<1> DEFINE f == Fid[t]
<1>1. Fid[t] \in Fusionees /\ <<>> \in Seq(CallMessage)
  BY QueueAssumption
<1>2. Q!QAt("user") \in Q!QOp /\ Q!QAt("reading") \in Q!QOp
  BY DEF Q!QAt, Q!QOp
<1>3. CASE Q!ReadSleep(t)
  <2>1. qop' \in [Threads -> Q!QOp] /\ dispatcher_pid' \in [Fusionees -> Threads \cup {None}]
    BY <1>2, <1>3 DEF Q!TypeOK, Q!ReadSleep
  <2>2. prev_msgs' \in [Fusionees -> Seq(CallMessage)] /\ handling' \in [Fusionees -> Seq(CallMessage)]
    BY <1>1, <1>3 DEF Q!TypeOK, Q!ReadSleep
  <2>3. wait' \in [Fusionees -> SUBSET Threads]
    BY <1>3 DEF Q!TypeOK, Q!ReadSleep
  <2>4. UNCHANGED <<listed, messages>>
    BY <1>3 DEF Q!ReadSleep
  <2> QED
    BY <2>1, <2>2, <2>3, <2>4 DEF Q!TypeOK
<1>4. CASE Q!ReadNow(t)
  <2>1. PICK k \in 0..Len(messages[f]) : Q!Deliver(f, k, <<>>)
    BY <1>4 DEF Q!ReadNow
  <2>2. /\ messages' \in [Fusionees -> Seq(CallMessage)]
        /\ prev_msgs' \in [Fusionees -> Seq(CallMessage)]
        /\ handling' \in [Fusionees -> Seq(CallMessage)]
    BY <1>1, <2>1, DeliverTypes
  <2>3. /\ dispatcher_pid' \in [Fusionees -> Threads \cup {None}]
        /\ wait' \in [Fusionees -> SUBSET Threads]
    BY <1>1, <1>4 DEF Q!ReadNow, Q!TypeOK
  <2>4. UNCHANGED <<listed, qop>>
    BY <1>4 DEF Q!ReadNow
  <2>5. Q!TypeOK'
    BY <2>2, <2>3, <2>4 DEF Q!TypeOK
  <2>6. /\ messages' = [messages EXCEPT ![f] = SubSeq(@, k + 1, Len(@))]
        /\ handling'[f] = SubSeq(messages[f], 1, k)
    BY <1>1, <2>1 DEF Q!Deliver, Q!TypeOK
  <2> QED
    BY <2>4, <2>5, <2>6
<1>5. CASE Q!ReadWoken(t)
  <2>1. UNCHANGED <<listed, dispatcher_pid>>
    BY <1>5 DEF Q!ReadWoken
  <2>2. \/ /\ wait' = [wait EXCEPT ![f] = @ \cup {t}]
           /\ UNCHANGED <<messages, prev_msgs, handling, qop>>
        \/ /\ \E k \in 0..Len(messages[f]) : Q!Deliver(f, k, prev_msgs[f])
           /\ qop' = [qop EXCEPT ![t] = Q!QAt("user")] /\ wait' = wait
    BY <1>5 DEF Q!ReadWoken
  <2>3. CASE /\ wait' = [wait EXCEPT ![f] = @ \cup {t}]
             /\ UNCHANGED <<messages, prev_msgs, handling, qop>>
    <3>1. wait' \in [Fusionees -> SUBSET Threads]
      BY <1>1, <2>3 DEF Q!TypeOK
    <3> QED
      BY <2>1, <2>3, <3>1 DEF Q!TypeOK
  <2>4. CASE /\ \E k \in 0..Len(messages[f]) : Q!Deliver(f, k, prev_msgs[f])
             /\ qop' = [qop EXCEPT ![t] = Q!QAt("user")] /\ wait' = wait
    <3>1. PICK k \in 0..Len(messages[f]) : Q!Deliver(f, k, prev_msgs[f])
      BY <2>4
    <3>2. prev_msgs[f] \in Seq(CallMessage)
      BY <1>1 DEF Q!TypeOK
    <3>3. /\ messages' \in [Fusionees -> Seq(CallMessage)]
          /\ prev_msgs' \in [Fusionees -> Seq(CallMessage)]
          /\ handling' \in [Fusionees -> Seq(CallMessage)]
      BY <1>1, <3>1, <3>2, DeliverTypes
    <3>4. qop' \in [Threads -> Q!QOp]
      BY <1>2, <2>4 DEF Q!TypeOK
    <3>5. Q!TypeOK'
      BY <2>1, <2>4, <3>3, <3>4 DEF Q!TypeOK
    <3>6. /\ messages' = [messages EXCEPT ![f] = SubSeq(@, k + 1, Len(@))]
          /\ handling'[f] = SubSeq(messages[f], 1, k)
      BY <1>1, <3>1 DEF Q!Deliver, Q!TypeOK
    <3> QED
      BY <2>1, <3>5, <3>6
  <2> QED
    BY <2>2, <2>3, <2>4
<1> QED
  BY <1>3, <1>4, <1>5

(* Where the ioctls put a thread, and what becomes of an execution.        *)
LEMMA CopForms ==
  ASSUME NEW c \in Calls, NEW n \in 0..MaxCount,
         NEW place \in {"transfer", "execute", "return", "processing", "pending", "destroy", "lookup"}
  PROVE  /\ In(place, c, n) \in COp /\ User \in COp
         /\ \A q \in COp : [q EXCEPT !.at = "execute"] \in COp
<1>1. In(place, c, n) \in COp
  BY DEF In, COp
<1>2. 0 \in 0..MaxCount
  BY CallAssumption
<1>3. User \in COp
  BY <1>2 DEF User, COp
<1>4. \A q \in COp : [q EXCEPT !.at = "execute"] \in COp
  BY DEF COp
<1> QED
  BY <1>1, <1>3, <1>4

LEMMA ExecForms ==
  ASSUME NEW x \in ExecutionObject, NEW f \in Fusionees, NEW sn \in 0..(SerialMod - 1), NEW n \in 0..MaxCount
  PROVE  /\ NoExecution \in ExecutionObject
         /\ [NoExecution EXCEPT !.caller = f, !.serial = sn] \in ExecutionObject
         /\ [x EXCEPT !.frees = @ + 1] \in ExecutionObject
         /\ [x EXCEPT !.caller = None] \in ExecutionObject
         /\ [[x EXCEPT !.ret = n] EXCEPT !.executed = TRUE] \in ExecutionObject
<1>1. NoExecution \in ExecutionObject
  BY CallAssumption DEF NoExecution, ExecutionObject
<1>2. [NoExecution EXCEPT !.caller = f, !.serial = sn] \in ExecutionObject
  <2>1. [NoExecution EXCEPT !.caller = f] \in ExecutionObject
    BY <1>1 DEF ExecutionObject
  <2>2. \A y \in ExecutionObject : [y EXCEPT !.serial = sn] \in ExecutionObject
    BY DEF ExecutionObject
  <2> QED
    BY <2>1, <2>2
<1>3. [x EXCEPT !.frees = @ + 1] \in ExecutionObject
  <2>1. x.frees + 1 \in Nat
    BY DEF ExecutionObject
  <2> QED
    BY <2>1 DEF ExecutionObject
<1>4. [x EXCEPT !.caller = None] \in ExecutionObject
  BY DEF ExecutionObject
<1>5. [x EXCEPT !.ret = n] \in ExecutionObject
  BY DEF ExecutionObject
<1>6. \A y \in ExecutionObject : [y EXCEPT !.executed = TRUE] \in ExecutionObject
  BY DEF ExecutionObject
<1> QED
  BY <1>1, <1>2, <1>3, <1>4, <1>5, <1>6

(* The next serial is never zero.                                          *)
LEMMA Serials ==
  ASSUME ListTypes, NEW c \in Calls
  PROVE  NextSerial(c) \in 1..(SerialMod - 1)
<1>1. serial[c] \in Nat /\ SerialMod \in Nat /\ SerialMod >= 2
  BY CallAssumption DEF ListTypes
<1>2. (serial[c] + 1) % SerialMod \in 0..(SerialMod - 1)
  BY <1>1
<1> QED
  BY <1>1, <1>2 DEF NextSerial

LEMMA MessageForms ==
  ASSUME ListTypes, NEW c \in Calls, count[c] < MaxCount, NEW sn \in 0..(SerialMod - 1)
  PROVE  /\ CallMsg(c, sn) \in CallMessage /\ count[c] + 1 \in 1..MaxCount
         /\ <<c, count[c] + 1>> \in Executions
<1>1. count[c] \in 0..MaxCount /\ MaxCount \in Nat
  BY CallAssumption DEF ListTypes
<1>2. count[c] + 1 \in 1..MaxCount
  BY <1>1
<1> QED
  BY <1>2 DEF CallMsg, CallMessage, Executions

-----------------------------------------------------------------------------
(* The types, handler by handler.                                          *)
LEMMA QueueSame ==
  ASSUME Q!TypeOK, UNCHANGED msgVars
  PROVE  Q!TypeOK'
  BY DEF Q!TypeOK, msgVars

LEMMA SyncTypes ==
  ASSUME TypeInv, NEW t \in Threads, NEW c \in Calls, ExecuteSync(t, c)
  PROVE  TypeInv'
<1> DEFINE n == count[c] + 1
           sn == NextSerial(c)
           x == [NoExecution EXCEPT !.caller = Fid[t], !.serial = NextSerial(c)]
<1>1. sn \in 0..(SerialMod - 1) /\ sn \in 1..(SerialMod - 1)
  BY Serials, CallAssumption DEF TypeInv
<1>2. /\ Q!Send(owner[c], CallMsg(c, sn)) /\ owner[c] \in listed /\ count[c] < MaxCount
      /\ exec' = [exec EXCEPT ![<<c, n>>] = x]
      /\ executions' = [executions EXCEPT ![c] = <<n>> \o @]
      /\ serial' = [serial EXCEPT ![c] = sn]
      /\ count' = [count EXCEPT ![c] = n]
      /\ clock' = [clock EXCEPT ![c] = t]
      /\ cop' = [cop EXCEPT ![t] = In("transfer", c, n)]
      /\ UNCHANGED <<state, owner, ewait, elock, dev, owed>>
  BY DEF ExecuteSync, devVars
<1>3. x \in ExecutionObject
  <2>1. Fid[t] \in Fusionees /\ 0 \in 0..MaxCount
    BY QueueAssumption, CallAssumption
  <2>2. NoExecution \in ExecutionObject
    BY CallAssumption DEF NoExecution, ExecutionObject
  <2> QED
    BY <1>1, <2>1, <2>2, ExecForms
<1>4. CallMsg(c, sn) \in CallMessage /\ n \in 1..MaxCount /\ <<c, n>> \in Executions
  BY <1>1, <1>2, MessageForms DEF TypeInv
<1>5. n \in 0..MaxCount
  BY <1>4
<1> HIDE DEF sn, x, n
<1>6. Q!TypeOK'
  <2>1. owner[c] \in Fusionees
    BY <1>2 DEF TypeInv, Q!TypeOK
  <2> QED
    BY <1>2, <1>4, <2>1, SendTypes DEF TypeInv
<1>7. ListTypes'
  <2>1. <<n>> \o executions[c] \in Seq(1..MaxCount)
    BY <1>4 DEF TypeInv, ListTypes
  <2>2. executions' \in [Calls -> Seq(1..MaxCount)]
    BY <1>2, <2>1 DEF TypeInv, ListTypes
  <2>3. count' \in [Calls -> 0..MaxCount]
    BY <1>2, <1>5 DEF TypeInv, ListTypes
  <2>4. serial' \in [Calls -> 0..(SerialMod - 1)]
    BY <1>1, <1>2 DEF TypeInv, ListTypes
  <2> QED
    BY <1>2, <2>2, <2>3, <2>4 DEF TypeInv, ListTypes
<1>8. ExecTypes'
  BY <1>2, <1>3 DEF TypeInv, ExecTypes
<1>9. LockTypes'
  BY <1>2 DEF TypeInv, LockTypes
<1>10. cop' \in [Threads -> COp]
  BY <1>2, <1>5, CopForms DEF TypeInv
<1> QED
  BY <1>2, <1>6, <1>7, <1>8, <1>9, <1>10 DEF TypeInv

LEMMA OnewayTypes ==
  ASSUME TypeInv, NEW t \in Threads, NEW c \in Calls, ExecuteOneway(t, c) \/ ExecuteFails(t, c)
  PROVE  TypeInv'
<1>1. NextSerial(c) \in 0..(SerialMod - 1)
  BY Serials, CallAssumption DEF TypeInv
<1>2. UNCHANGED <<state, owner, executions, execVars, lockVars, cop, owed>>
  BY DEF ExecuteOneway, ExecuteFails
<1>3. serial' \in [Calls -> 0..(SerialMod - 1)]
  BY <1>1 DEF ExecuteOneway, ExecuteFails, TypeInv, ListTypes
<1>4. CASE ExecuteOneway(t, c)
  <2>1. Q!Send(owner[c], CallMsg(c, 0)) /\ owner[c] \in listed /\ count[c] < MaxCount
        /\ count' = [count EXCEPT ![c] = @ + 1]
    BY <1>4 DEF ExecuteOneway
  <2>2. CallMsg(c, 0) \in CallMessage /\ count[c] + 1 \in 1..MaxCount
    <3>1. 0 \in 0..(SerialMod - 1) /\ ListTypes
      BY CallAssumption DEF TypeInv
    <3> QED
      BY <2>1, <3>1, MessageForms
  <2>3. owner[c] \in Fusionees
    BY <2>1 DEF TypeInv, Q!TypeOK
  <2>4. Q!TypeOK'
    BY <2>1, <2>2, <2>3, SendTypes DEF TypeInv
  <2>5. count' \in [Calls -> 0..MaxCount]
    <3>1. count[c] + 1 \in 0..MaxCount
      BY <2>2
    <3> QED
      BY <2>1, <3>1 DEF TypeInv, ListTypes
  <2> QED
    BY <1>2, <1>3, <2>4, <2>5 DEF TypeInv, ListTypes, ExecTypes, LockTypes, execVars, lockVars, devVars
<1>5. CASE ExecuteFails(t, c)
  <2>1. UNCHANGED <<msgVars, count>>
    BY <1>5 DEF ExecuteFails
  <2>2. Q!TypeOK'
    BY <2>1, QueueSame DEF TypeInv
  <2> QED
    BY <1>2, <1>3, <2>1, <2>2 DEF TypeInv, ListTypes, ExecTypes, LockTypes, execVars, lockVars, devVars
<1> QED
  BY <1>4, <1>5

(* The caller sleeps, wakes, or gives up.                                  *)
LEMMA CallerTypes ==
  ASSUME TypeInv, NEW t \in Threads, cop[t].at \in {"transfer", "execute"} => ExecOf(t) \in Executions,
         ExecuteSleep(t) \/ CallerWoken(t) \/ CallerSignal(t)
  PROVE  TypeInv'
<1>1. UNCHANGED <<msgVars, listVars, devVars, owed>>
  BY DEF ExecuteSleep, CallerWoken, CallerSignal, lockVars
<1>2. Q!TypeOK' /\ ListTypes'
  BY <1>1, QueueSame DEF TypeInv, ListTypes, listVars
<1> DEFINE e == ExecOf(t)
<1>3. e \in Executions
  BY DEF ExecuteSleep, CallerWoken, CallerSignal
<1> HIDE DEF e
<1>4. exec' \in {exec, [exec EXCEPT ![e].frees = @ + 1], [exec EXCEPT ![e].caller = None]}
  BY DEF ExecuteSleep, CallerWoken, CallerSignal, e
<1>5. exec' \in [Executions -> ExecutionObject]
  <2>1. exec[e] \in ExecutionObject /\ exec \in [Executions -> ExecutionObject]
    BY <1>3 DEF TypeInv, ExecTypes
  <2>2. 0 \in 0..MaxCount /\ 0 \in 0..(SerialMod - 1) /\ Fid[t] \in Fusionees
    BY CallAssumption, QueueAssumption
  <2>3. [exec[e] EXCEPT !.frees = @ + 1] \in ExecutionObject /\ [exec[e] EXCEPT !.caller = None] \in ExecutionObject
    BY <2>1, <2>2, ExecForms
  <2>4. [exec EXCEPT ![e].frees = @ + 1] \in [Executions -> ExecutionObject]
    BY <2>1, <2>3
  <2>5. [exec EXCEPT ![e].caller = None] \in [Executions -> ExecutionObject]
    BY <2>1, <2>3
  <2> QED
    BY <1>4, <2>1, <2>4, <2>5
<1>6. ewait' \in {ewait, [ewait EXCEPT ![e] = @ \cup {t}], [ewait EXCEPT ![e] = @ \ {t}]}
  BY DEF ExecuteSleep, CallerWoken, CallerSignal, e
<1>7. ewait' \in [Executions -> SUBSET Threads]
  <2>1. /\ [ewait EXCEPT ![e] = @ \cup {t}] \in [Executions -> SUBSET Threads]
        /\ [ewait EXCEPT ![e] = @ \ {t}] \in [Executions -> SUBSET Threads]
        /\ ewait \in [Executions -> SUBSET Threads]
    BY <1>3 DEF TypeInv, ExecTypes
  <2> QED
    BY <1>6, <2>1
<1>8. LockTypes'
  <2>1. clock' \in {clock, [clock EXCEPT ![cop[t].call] = None]}
    BY DEF ExecuteSleep, CallerWoken, CallerSignal, lockVars
  <2>2. clock' \in [Calls -> Threads \cup {None}]
    BY <2>1 DEF TypeInv, LockTypes
  <2> QED
    BY <1>1, <2>2 DEF TypeInv, LockTypes, devVars
<1>9. cop' \in [Threads -> COp]
  <2>1. cop' \in {[cop EXCEPT ![t].at = "execute"], [cop EXCEPT ![t] = User]}
    BY DEF ExecuteSleep, CallerWoken, CallerSignal
  <2>2. [cop[t] EXCEPT !.at = "execute"] \in COp /\ User \in COp
    <3>1. 0 \in 0..MaxCount
      BY CallAssumption
    <3> QED
      BY <3>1 DEF TypeInv, COp, User
  <2>3. [cop EXCEPT ![t].at = "execute"] \in [Threads -> COp] /\ [cop EXCEPT ![t] = User] \in [Threads -> COp]
    BY <2>2 DEF TypeInv
  <2> QED
    BY <2>1, <2>3
<1> QED
  BY <1>1, <1>2, <1>5, <1>7, <1>8, <1>9 DEF TypeInv, ExecTypes

(* A read moves a batch, and what it owes, to the client.                  *)
LEMMA DispatchTypes ==
  ASSUME TypeInv, NEW t \in Threads, Dispatch(t)
  PROVE  TypeInv' /\ UNCHANGED <<listed, listVars, execVars, lockVars, cop>>
<1> DEFINE f == Fid[t]
<1>1. /\ Q!ReadSleep(t) \/ Q!ReadNow(t) \/ Q!ReadWoken(t)
      /\ owed' = [owed EXCEPT ![f] = IF messages'[f] = messages[f] THEN @
                                    ELSE @ \o Wanting(handling'[f])]
      /\ UNCHANGED <<listVars, execVars, lockVars, cop>>
  BY DEF Dispatch
<1>2. Q!TypeOK' /\ listed' = listed
  BY <1>1, ReadTypes DEF TypeInv
<1>3. f \in Fusionees
  BY QueueAssumption
<1>4. handling'[f] \in Seq(CallMessage)
  BY <1>2, <1>3 DEF Q!TypeOK
<1>5. Wanting(handling'[f]) \in Seq(CallMessage)
  BY <1>4, WantingTypes
<1> HIDE DEF f
<1>6. owed[f] \in Seq(CallMessage) /\ owed[f] \o Wanting(handling'[f]) \in Seq(CallMessage)
  BY <1>3, <1>5 DEF TypeInv
<1>7. owed' \in [Fusionees -> Seq(CallMessage)]
  BY <1>1, <1>6 DEF TypeInv
<1> QED
  BY <1>1, <1>2, <1>7 DEF TypeInv, ListTypes, ExecTypes, LockTypes, listVars, execVars, lockVars, devVars

(* A return answers one message; with an execution that is off its list.   *)
LEMMA AnswerTypes ==
  ASSUME TypeInv, NEW t \in Threads, NEW i, MayAnswer(t, i), Answered(t, i)
  PROVE  /\ owed[Fid[t]][i] \in CallMessage /\ Fid[t] \in Fusionees
         /\ owed' \in [Fusionees -> Seq(CallMessage)]
<1>1. Fid[t] \in Fusionees
  BY QueueAssumption
<1>2. owed[Fid[t]] \in Seq(CallMessage) /\ i \in DOMAIN owed[Fid[t]]
  BY <1>1 DEF TypeInv, MayAnswer
<1>3. RemoveAt(owed[Fid[t]], i) \in Seq(CallMessage)
  BY <1>2, RemovePicks
<1> QED
  BY <1>1, <1>2, <1>3 DEF TypeInv, Answered

(* The execution a return takes is the oldest that fits.                   *)
LEMMA FoundOldest ==
  ASSUME TypeInv, NEW c \in Calls, NEW sn, Candidates(c, sn) # {}
  PROVE  /\ FoundAt(c, sn) \in Candidates(c, sn)
         /\ \A j \in Candidates(c, sn) : j <= FoundAt(c, sn)
         /\ FoundAt(c, sn) \in DOMAIN executions[c]
         /\ Found(c, sn) \in 1..MaxCount /\ <<c, Found(c, sn)>> \in Executions
<1> DEFINE n == Len(executions[c])
<1>1. executions[c] \in Seq(1..MaxCount)
  BY DEF TypeInv, ListTypes
<1>2. n \in Nat /\ DOMAIN executions[c] = 1..n
  BY <1>1
<1>3. Candidates(c, sn) \in SUBSET (0..n) /\ Candidates(c, sn) \in SUBSET DOMAIN executions[c]
  BY <1>2 DEF Candidates
<1> HIDE DEF n
<1>4. \E i \in Candidates(c, sn) : \A j \in Candidates(c, sn) : j <= i
  BY <1>2, <1>3, Greatest
<1>5. FoundAt(c, sn) \in Candidates(c, sn) /\ \A j \in Candidates(c, sn) : j <= FoundAt(c, sn)
  BY <1>4 DEF FoundAt
<1>6. FoundAt(c, sn) \in DOMAIN executions[c]
  BY <1>3, <1>5
<1>7. Found(c, sn) \in 1..MaxCount
  <2>1. executions[c][FoundAt(c, sn)] \in 1..MaxCount
    BY <1>1, <1>6, ElementOf
  <2> QED
    BY <2>1 DEF Found
<1> QED
  BY <1>5, <1>6, <1>7 DEF Executions

LEMMA UnlinkTypes ==
  ASSUME TypeInv, NEW c \in Calls, NEW sn, Candidates(c, sn) # {}, Unlink(c, sn)
  PROVE  executions' \in [Calls -> Seq(1..MaxCount)]
<1>1. executions[c] \in Seq(1..MaxCount) /\ FoundAt(c, sn) \in DOMAIN executions[c]
  BY FoundOldest DEF TypeInv, ListTypes
<1>2. RemoveAt(executions[c], FoundAt(c, sn)) \in Seq(1..MaxCount)
  BY <1>1, RemovePicks
<1> QED
  BY <1>2 DEF Unlink, TypeInv, ListTypes

LEMMA ReturnTypes ==
  ASSUME TypeInv, NEW t \in Threads, NEW i, Return(t, i)
  PROVE  TypeInv'
<1> DEFINE m == owed[Fid[t]][i]
           c == m.id
           sn == m.serial
           n == Found(c, sn)
           x == [[exec[<<c, n>>] EXCEPT !.ret = m.n] EXCEPT !.executed = TRUE]
<1>1. /\ MayAnswer(t, i) /\ Answered(t, i) /\ Candidates(c, sn) # {} /\ Unlink(c, sn)
      /\ exec' = [exec EXCEPT ![<<c, n>>].ret = m.n, ![<<c, n>>].executed = TRUE]
      /\ clock' = [clock EXCEPT ![c] = t]
      /\ cop' = [cop EXCEPT ![t] = In("return", c, n)]
      /\ UNCHANGED <<msgVars, state, owner, count, serial, ewait, elock, dev>>
  BY DEF Return, devVars
<1>2. m \in CallMessage /\ owed' \in [Fusionees -> Seq(CallMessage)]
  BY <1>1, AnswerTypes
<1>3. c \in Calls /\ m.n \in 0..MaxCount
  <2>1. m.n \in 1..MaxCount /\ c \in Calls
    BY <1>2 DEF CallMessage
  <2> QED
    BY <2>1
<1>4. <<c, n>> \in Executions /\ n \in 1..MaxCount /\ n \in 0..MaxCount
  <2> HIDE DEF m, c, sn
  <2>1. <<c, n>> \in Executions /\ n \in 1..MaxCount
    BY <1>1, <1>3, FoundOldest
  <2> HIDE DEF n
  <2> QED
    BY <2>1
<1>5. executions' \in [Calls -> Seq(1..MaxCount)]
  BY <1>1, <1>3, UnlinkTypes
<1>6. ListTypes' /\ Q!TypeOK'
  BY <1>1, <1>5, QueueSame DEF TypeInv, ListTypes
<1> HIDE DEF c, sn, n
<1>7. exec' \in [Executions -> ExecutionObject]
  <2>1. exec[<<c, n>>] \in ExecutionObject
    BY <1>4 DEF TypeInv, ExecTypes
  <2>2. [exec[<<c, n>>] EXCEPT !.ret = m.n] \in ExecutionObject
    BY <1>3, <2>1 DEF ExecutionObject
  <2> DEFINE mid == [exec EXCEPT ![<<c, n>>].ret = m.n]
  <2>3. mid \in [Executions -> ExecutionObject]
    BY <1>4, <2>2 DEF TypeInv, ExecTypes
  <2>4. [mid[<<c, n>>] EXCEPT !.executed = TRUE] \in ExecutionObject
    <3>1. mid[<<c, n>>] \in ExecutionObject
      BY <1>4, <2>3
    <3> QED
      BY <3>1 DEF ExecutionObject
  <2>5. exec' = [mid EXCEPT ![<<c, n>>].executed = TRUE]
    BY <1>1
  <2> HIDE DEF mid
  <2> QED
    BY <2>3, <2>4, <2>5
<1>8. clock' \in [Calls -> Threads \cup {None}] /\ cop' \in [Threads -> COp]
  BY <1>1, <1>3, <1>4, CopForms DEF TypeInv, LockTypes
<1> QED
  BY <1>1, <1>2, <1>6, <1>7, <1>8 DEF TypeInv, ExecTypes, LockTypes

LEMMA NobodyTypes ==
  ASSUME TypeInv, NEW t \in Threads, NEW i, ReturnToNobody(t, i)
  PROVE  TypeInv'
<1> DEFINE m == owed[Fid[t]][i]
           c == m.id
           sn == m.serial
           n == Found(c, sn)
<1>1. /\ MayAnswer(t, i) /\ Answered(t, i) /\ Candidates(c, sn) # {} /\ Unlink(c, sn)
      /\ exec' = [exec EXCEPT ![<<c, n>>].frees = @ + 1]
      /\ UNCHANGED <<msgVars, state, owner, count, serial, ewait, lockVars, cop>>
  BY DEF ReturnToNobody
<1>2. m \in CallMessage /\ owed' \in [Fusionees -> Seq(CallMessage)]
  BY <1>1, AnswerTypes
<1>3. c \in Calls
  BY <1>2 DEF CallMessage
<1>4. <<c, n>> \in Executions
  BY <1>1, <1>3, FoundOldest
<1>5. executions' \in [Calls -> Seq(1..MaxCount)]
  BY <1>1, <1>3, UnlinkTypes
<1>6. ListTypes' /\ Q!TypeOK'
  BY <1>1, <1>5, QueueSame DEF TypeInv, ListTypes
<1> HIDE DEF c, sn, n
<1>7. exec' \in [Executions -> ExecutionObject]
  <2>1. exec[<<c, n>>] \in ExecutionObject
    BY <1>4 DEF TypeInv, ExecTypes
  <2>2. exec[<<c, n>>].frees + 1 \in Nat
    BY <2>1 DEF ExecutionObject
  <2>3. [exec[<<c, n>>] EXCEPT !.frees = @ + 1] \in ExecutionObject
    BY <2>1, <2>2 DEF ExecutionObject
  <2> QED
    BY <1>1, <2>3 DEF TypeInv, ExecTypes
<1> QED
  BY <1>1, <1>2, <1>6, <1>7 DEF TypeInv, ExecTypes, LockTypes, lockVars, devVars

LEMMA FailTypes ==
  ASSUME TypeInv, NEW t \in Threads, NEW i, ReturnFails(t, i)
  PROVE  TypeInv'
<1>1. /\ MayAnswer(t, i) /\ Answered(t, i)
      /\ UNCHANGED <<msgVars, listVars, execVars, lockVars, cop>>
  BY DEF ReturnFails
<1>2. owed' \in [Fusionees -> Seq(CallMessage)]
  BY <1>1, AnswerTypes
<1>3. Q!TypeOK'
  BY <1>1, QueueSame DEF TypeInv
<1> QED
  BY <1>1, <1>2, <1>3
     DEF TypeInv, ListTypes, ExecTypes, LockTypes, listVars, execVars, lockVars, devVars

(* The handlers that only lock, wake, wait or look up.                     *)
LEMMA WakeTypes ==
  ASSUME TypeInv, NEW t \in Threads, NEW c \in Calls,
         ReturnWake(t) \/ LockBlocks(t, c) \/ LockGranted(t)
  PROVE  TypeInv'
<1>1. UNCHANGED <<msgVars, listVars, exec, dev, owed>>
  BY DEF ReturnWake, LockBlocks, LockGranted, devVars, execVars
<1>2. Q!TypeOK' /\ ListTypes'
  BY <1>1, QueueSame DEF TypeInv, ListTypes, listVars
<1>3. ewait' \in [Executions -> SUBSET Threads]
  <2>1. ewait' \in {ewait, [ewait EXCEPT ![ExecOf(t)] = {}]}
    BY DEF ReturnWake, LockBlocks, LockGranted, execVars
  <2> QED
    BY <2>1 DEF TypeInv, ExecTypes
<1>4. clock' \in [Calls -> Threads \cup {None}]
  <2>1. clock' \in {clock, [clock EXCEPT ![cop[t].call] = None]}
    BY DEF ReturnWake, LockBlocks, LockGranted
  <2> QED
    BY <2>1 DEF TypeInv, LockTypes
<1>5. elock' \in Threads \cup {None}
  BY DEF ReturnWake, LockBlocks, LockGranted, devVars, TypeInv, LockTypes
<1>6. cop' \in [Threads -> COp]
  <2>1. cop' \in {[cop EXCEPT ![t] = User], [cop EXCEPT ![t] = In("lookup", c, 0)]}
    BY DEF ReturnWake, LockBlocks, LockGranted
  <2>2. 0 \in 0..MaxCount
    BY CallAssumption
  <2>3. User \in COp /\ In("lookup", c, 0) \in COp
    BY <2>2, CopForms
  <2> QED
    BY <2>1, <2>3 DEF TypeInv
<1> QED
  BY <1>1, <1>2, <1>3, <1>4, <1>5, <1>6 DEF TypeInv, ExecTypes, LockTypes

LEMMA NewTypes ==
  ASSUME TypeInv, NEW t \in Threads, NEW c \in Calls, New(t, c)
  PROVE  TypeInv'
<1>1. UNCHANGED <<msgVars, count, serial, executions, execVars, lockVars, cop, owed>>
  BY DEF New
<1>2. Q!TypeOK'
  BY <1>1, QueueSame DEF TypeInv
<1>3. Fid[t] \in Fusionees
  BY QueueAssumption
<1>4. ListTypes'
  BY <1>1, <1>3 DEF TypeInv, ListTypes, New
<1> QED
  BY <1>1, <1>2, <1>4 DEF TypeInv, ExecTypes, LockTypes, execVars, lockVars, devVars

LEMMA WaitTypes ==
  ASSUME TypeInv, NEW t \in Threads, cop[t].at # "user" => cop[t].call \in Calls,
         cop[t].at = "pending" => ExecOf(t) \in Executions,
         \/ \E c \in Calls : DestroyStart(t, c)
         \/ DestroyWoken(t) \/ ProcessingWoken(t) \/ Interrupt(t)
  PROVE  TypeInv' /\ UNCHANGED <<listed, messages>>
<1>1. ASSUME NEW c \in Calls, DestroyLoop(t, c)
      PROVE  TypeInv' /\ UNCHANGED <<listed, messages>>
  <2>1. /\ Q!WaitProcessing(t, c)
        /\ cop' = [cop EXCEPT ![t] = In("processing", c, 0)]
        /\ UNCHANGED <<listVars, execVars, lockVars, owed>>
    BY <1>1 DEF DestroyLoop
  <2>2. Q!TypeOK' /\ UNCHANGED <<listed, messages>>
    BY <2>1, SleepTypes DEF TypeInv
  <2>3. 0 \in 0..MaxCount
    BY CallAssumption
  <2>4. cop' \in [Threads -> COp]
    BY <2>1, <2>3, CopForms DEF TypeInv
  <2> QED
    BY <2>1, <2>2, <2>4
       DEF TypeInv, ListTypes, ExecTypes, LockTypes, listVars, execVars, lockVars, devVars
<1>2. CASE \E c \in Calls : DestroyStart(t, c)
  BY <1>1, <1>2 DEF DestroyStart
<1>3. CASE DestroyWoken(t)
  BY <1>1, <1>3 DEF DestroyWoken
<1>4. CASE ProcessingWoken(t)
  <2>1. Q!ProcessingWoken(t) /\ UNCHANGED <<listVars, execVars, lockVars, cop, owed>>
    BY <1>4 DEF ProcessingWoken
  <2>2. Q!TypeOK' /\ UNCHANGED <<listed, messages>>
    BY <2>1, SleepTypes DEF TypeInv
  <2> QED
    BY <2>1, <2>2
       DEF TypeInv, ListTypes, ExecTypes, LockTypes, listVars, execVars, lockVars, devVars
<1>5. CASE Interrupt(t)
  <2>1. /\ cop' = [cop EXCEPT ![t] = User]
        /\ UNCHANGED <<listVars, exec, lockVars, owed>>
    BY <1>5 DEF Interrupt
  <2>2. 0 \in 0..MaxCount
    BY CallAssumption
  <2>3. cop' \in [Threads -> COp]
    BY <2>1, <2>2 DEF TypeInv, COp, User
  <2>4. \/ Q!Interrupt(t) /\ UNCHANGED ewait
        \/ /\ ewait' = [ewait EXCEPT ![ExecOf(t)] = @ \ {t}]
           /\ UNCHANGED msgVars
    BY <1>5 DEF Interrupt
  <2>5. Q!TypeOK' /\ UNCHANGED <<listed, messages>>
    <3>1. CASE Q!Interrupt(t)
      BY <3>1, SleepTypes DEF TypeInv
    <3>2. CASE UNCHANGED msgVars
      BY <3>2, QueueSame DEF TypeInv, msgVars
    <3> QED
      BY <2>4, <3>1, <3>2
  <2>6. ewait' \in [Executions -> SUBSET Threads]
    BY <2>4 DEF TypeInv, ExecTypes
  <2> QED
    BY <2>1, <2>3, <2>5, <2>6 DEF TypeInv, ListTypes, ExecTypes, LockTypes, listVars, lockVars, devVars
<1> QED
  BY <1>2, <1>3, <1>4, <1>5

LEMMA LockTaken ==
  ASSUME TypeInv, NEW t \in Threads, cop[t].at # "user" => cop[t].call \in Calls, DestroyLock(t)
  PROVE  TypeInv'
<1> DEFINE c == cop[t].call
           n == executions[c][1]
<1>1. /\ UNCHANGED <<msgVars, listVars, exec, devVars, owed>>
      /\ c \in Calls
      /\ \/ cop' = [cop EXCEPT ![t] = User] /\ UNCHANGED <<ewait, clock>>
         \/ /\ cop' = [cop EXCEPT ![t] = In("destroy", c, 0)]
            /\ clock' = [clock EXCEPT ![c] = t] /\ UNCHANGED ewait
         \/ /\ executions[c] # <<>> /\ cop' = [cop EXCEPT ![t] = In("pending", c, n)]
            /\ ewait' = [ewait EXCEPT ![<<c, n>>] = @ \cup {t}] /\ UNCHANGED clock
  BY DEF DestroyLock
<1>2. Q!TypeOK'
  BY <1>1, QueueSame DEF TypeInv
<1>3. executions[c] # <<>> => n \in 1..MaxCount
  <2> SUFFICES ASSUME executions[c] # <<>> PROVE n \in 1..MaxCount
    OBVIOUS
  <2>1. executions[c] \in Seq(1..MaxCount)
    BY <1>1 DEF TypeInv, ListTypes
  <2>2. 1 \in DOMAIN executions[c]
    BY <2>1
  <2> QED
    BY <2>1, <2>2, ElementOf
<1>4. executions[c] # <<>> => n \in 0..MaxCount
  BY <1>3
<1> HIDE DEF c, n
<1>5. 0 \in 0..MaxCount
  BY CallAssumption
<1>6. cop' \in [Threads -> COp]
  <2>1. User \in COp /\ In("destroy", c, 0) \in COp /\ (executions[c] # <<>> => In("pending", c, n) \in COp)
    BY <1>1, <1>4, <1>5, CopForms
  <2> QED
    BY <1>1, <2>1 DEF TypeInv
<1>7. clock' \in [Calls -> Threads \cup {None}]
  BY <1>1 DEF TypeInv, LockTypes
<1>8. ewait' \in [Executions -> SUBSET Threads]
  <2>1. PICK e : e = <<c, n>>
    OBVIOUS
  <2>2. ewait' \in {ewait, [ewait EXCEPT ![e] = @ \cup {t}]}
    BY <1>1, <2>1
  <2>3. \A x \in Executions : ewait[x] \in SUBSET Threads
    BY DEF TypeInv, ExecTypes
  <2> QED
    BY <2>2, <2>3 DEF TypeInv, ExecTypes
<1> QED
  BY <1>1, <1>2, <1>6, <1>7, <1>8 DEF TypeInv, ListTypes, ExecTypes, LockTypes, listVars, devVars

(* Calls go, and with them what hangs on them.                             *)
LEMMA GoneTypes ==
  ASSUME TypeInv, NEW C \in SUBSET Calls, DestroyCalls(C)
  PROVE  ListTypes' /\ ExecTypes'
<1> DEFINE Freed == {e \in Executions : e[1] \in C /\ e[2] \in ToSet(executions[e[1]])}
<1>1. /\ state' = [c \in Calls |-> IF c \in C THEN "gone" ELSE state[c]]
      /\ executions' = [c \in Calls |-> IF c \in C THEN <<>> ELSE executions[c]]
      /\ exec' = [e \in Executions |->
                    IF e \in Freed THEN [exec[e] EXCEPT !.frees = @ + 1] ELSE exec[e]]
      /\ ewait' = [e \in Executions |-> IF e \in Freed THEN {} ELSE ewait[e]]
      /\ UNCHANGED <<owner, count, serial>>
  BY DEF DestroyCalls
<1> HIDE DEF Freed
<1>2. executions' \in [Calls -> Seq(1..MaxCount)] /\ state' \in [Calls -> {"unborn", "live", "gone"}]
  <2>1. <<>> \in Seq(1..MaxCount)
    OBVIOUS
  <2> QED
    BY <1>1, <2>1 DEF TypeInv, ListTypes
<1>3. exec' \in [Executions -> ExecutionObject]
  <2>1. \A x \in ExecutionObject : [x EXCEPT !.frees = @ + 1] \in ExecutionObject
    <3> SUFFICES ASSUME NEW x \in ExecutionObject PROVE [x EXCEPT !.frees = @ + 1] \in ExecutionObject
      OBVIOUS
    <3>1. x.frees + 1 \in Nat
      BY DEF ExecutionObject
    <3> QED
      BY <3>1 DEF ExecutionObject
  <2>2. \A e \in Executions : exec[e] \in ExecutionObject
    BY DEF TypeInv, ExecTypes
  <2>3. \A e \in Executions : (IF e \in Freed THEN [exec[e] EXCEPT !.frees = @ + 1] ELSE exec[e]) \in ExecutionObject
    BY <2>1, <2>2
  <2> QED
    BY <1>1, <2>3
<1>4. ewait' \in [Executions -> SUBSET Threads]
  BY <1>1 DEF TypeInv, ExecTypes
<1> QED
  BY <1>1, <1>2, <1>3, <1>4 DEF TypeInv, ListTypes, ExecTypes

LEMMA FinishTypes ==
  ASSUME TypeInv, NEW t \in Threads, cop[t].at # "user" => cop[t].call \in Calls, DestroyFinish(t)
  PROVE  TypeInv'
<1>1. /\ DestroyCalls({cop[t].call}) /\ cop[t].call \in Calls
      /\ clock' = [clock EXCEPT ![cop[t].call] = None]
      /\ cop' = [cop EXCEPT ![t] = User]
      /\ UNCHANGED <<msgVars, devVars, owed>>
  BY DEF DestroyFinish
<1>2. ListTypes' /\ ExecTypes' /\ Q!TypeOK'
  BY <1>1, GoneTypes, QueueSame DEF TypeInv
<1>3. 0 \in 0..MaxCount
  BY CallAssumption
<1>4. cop' \in [Threads -> COp]
  BY <1>1, <1>3 DEF TypeInv, COp, User
<1>5. LockTypes'
  BY <1>1 DEF TypeInv, LockTypes, devVars
<1> QED
  BY <1>1, <1>2, <1>4, <1>5 DEF TypeInv

LEMMA LeaveTypes ==
  ASSUME TypeInv, NEW f \in Fusionees, Leave(f) \/ DestroyAll(f)
  PROVE  TypeInv'
<1>1. CASE Leave(f)
  <2>1. Q!Release(f) /\ UNCHANGED <<listVars, execVars, lockVars, cop>>
    BY <1>1 DEF Leave
  <2>2. qop' \in [Threads -> Q!QOp]
    BY <2>1 DEF TypeInv, Q!TypeOK, Q!Release, Q!QAt, Q!QOp
  <2>3. <<>> \in Seq(CallMessage)
    OBVIOUS
  <2>4. Q!TypeOK'
    BY <2>1, <2>2, <2>3 DEF TypeInv, Q!TypeOK, Q!Release
  <2>5. owed' \in [Fusionees -> Seq(CallMessage)]
    BY <1>1, <2>3 DEF Leave, TypeInv
  <2> QED
    BY <2>1, <2>4, <2>5
       DEF TypeInv, ListTypes, ExecTypes, LockTypes, listVars, execVars, lockVars, devVars
<1>2. CASE DestroyAll(f)
  <2> DEFINE C == {c \in Calls : state[c] = "live" /\ owner[c] = f}
  <2>1. DestroyCalls(C) /\ UNCHANGED <<msgVars, lockVars, cop, owed>> /\ C \in SUBSET Calls
    BY <1>2 DEF DestroyAll
  <2>2. ListTypes' /\ ExecTypes' /\ Q!TypeOK'
    BY <2>1, GoneTypes, QueueSame DEF TypeInv
  <2> QED
    BY <2>1, <2>2 DEF TypeInv, LockTypes, lockVars, devVars
<1> QED
  BY <1>1, <1>2

-----------------------------------------------------------------------------
(* Who is where.  A thread that has locked a call is alone with it, and a  *)
(* caller is alone with its execution.                                     *)
Locking(t) == cop[t].at \in {"transfer", "return", "destroy"}

Places ==
  \A t \in Threads :
    /\ cop[t].at # "user" => cop[t].call \in Calls
    /\ InExecute(t) \/ cop[t].at \in {"return", "pending"} => ExecOf(t) \in Executions
    /\ InExecute(t) => cop[t].n <= count[cop[t].call]
    /\ cop[t].at \notin {"user", "processing"} => Q!InUser(t)
Locked ==
  \A t \in Threads : Locking(t) =>
    /\ clock[cop[t].call] = t
    /\ cop[t].at = "return" => ~ Linked(ExecOf(t))
    /\ cop[t].at = "destroy" => executions[cop[t].call] = <<>>
Alone ==
  \A t, u \in Threads : InExecute(t) /\ InExecute(u) /\ ExecOf(t) = ExecOf(u) => t = u

(* The list of a call: the newest first, none of them executed, and none   *)
(* for a call that is not there.                                           *)
Falling(s) == \A i, j \in DOMAIN s : i < j => s[i] > s[j]
Distinct(c) ==
  \A n, k \in ToSet(executions[c]) : exec[<<c, n>>].serial = exec[<<c, k>>].serial => n = k
Listed ==
  \A c \in Calls :
    /\ Falling(executions[c])
    /\ state[c] # "live" => executions[c] = <<>>
    /\ Distinct(c)
    /\ \A n \in ToSet(executions[c]) :
         n <= count[c] /\ exec[<<c, n>>].serial # 0 /\ ~ exec[<<c, n>>].executed
    /\ \A n \in 1..MaxCount : n > count[c] => exec[<<c, n>>] = NoExecution

(* An execution can be freed by whoever finds it on the list, and by its   *)
(* caller.                                                                 *)
Budget ==
  \A e \in Executions :
    /\ exec[e].frees <= 2
    /\ Linked(e) \/ Waited(e) => exec[e].frees <= 1
    /\ Linked(e) /\ Waited(e) => exec[e].frees = 0

(* Who frees an execution, while nobody leaves: its caller, who is woken   *)
(* when it is off the list, or the return that finds its caller gone.      *)
Stays == "leave" \notin dev.env
Freeing ==
  Stays => /\ listed = Fusionees
           /\ \A e \in Executions :
                exec[e].frees > 0 => exec[e].frees = 1 /\ ~ Linked(e)
           /\ \A t \in Threads : InExecute(t) =>
                /\ exec[ExecOf(t)].frees = 0 /\ exec[ExecOf(t)].caller # None
                /\ cop[t].at = "execute" /\ t \notin ewait[ExecOf(t)] => ~ Linked(ExecOf(t))
Keeping ==
  Orderly => \A e \in Executions :
    /\ Linked(e) => Waited(e)
    /\ Allocated(e) /\ exec[e].frees = 0 => Linked(e) \/ Waited(e)

FreeInv == Places /\ Locked /\ Alone /\ Listed /\ Budget /\ Freeing /\ Keeping

-----------------------------------------------------------------------------
(* The handlers that touch no execution and lock no call.                  *)
Quiet ==
  /\ UNCHANGED <<exec, executions, clock, dev>>
  /\ \A c \in Calls : count[c] <= count'[c] /\ (state'[c] # "live" => executions[c] = <<>>)
  /\ Stays => listed' = listed
  /\ \A t \in Threads :
       \/ cop'[t] = cop[t] /\ (cop[t].at \notin {"user", "processing"} => Q!InUser(t)')
       \/ /\ cop[t].at \notin {"transfer", "execute", "return", "destroy"}
          /\ cop'[t].at \in {"user", "processing", "pending", "lookup"}
          /\ cop'[t].at # "user" => cop'[t].call \in Calls
          /\ cop'[t].at = "pending" => <<cop'[t].call, cop'[t].n>> \in Executions
          /\ cop'[t].at \in {"pending", "lookup"} => Q!InUser(t)'
  /\ \A t \in Threads : InExecute(t) =>
       (t \in ewait[ExecOf(t)] => t \in ewait'[ExecOf(t)])

LEMMA QuietFree ==
  ASSUME TypeInv, TypeInv', FreeInv, Quiet
  PROVE  FreeInv'
<1>1. \A t \in Threads : Locking(t)' => Locking(t) /\ cop'[t] = cop[t]
  BY DEF Quiet, Locking
<1>2. \A t \in Threads : InExecute(t)' => InExecute(t) /\ cop'[t] = cop[t]
  BY DEF Quiet, InExecute
<1>3. \A t \in Threads : InExecute(t) => InExecute(t)' /\ cop'[t] = cop[t]
  BY DEF Quiet, InExecute
<1>4. \A e \in Executions : Linked(e)' <=> Linked(e)
  BY DEF Quiet, Linked
<1>5. \A t \in Threads : InExecute(t) => ExecOf(t)' = ExecOf(t)
  BY <1>3 DEF ExecOf
<1>6. \A e \in Executions : Waited(e)' <=> Waited(e)
  BY <1>2, <1>3, <1>5 DEF Waited, InExecute
<1>7. Places'
  <2> SUFFICES ASSUME NEW t \in Threads
               PROVE  /\ cop'[t].at # "user" => cop'[t].call \in Calls
                      /\ InExecute(t)' \/ cop'[t].at \in {"return", "pending"} => ExecOf(t)' \in Executions
                      /\ InExecute(t)' => cop'[t].n <= count'[cop'[t].call]
                      /\ cop'[t].at \notin {"user", "processing"} => Q!InUser(t)'
    BY DEF Places
  <2>1. CASE cop'[t] = cop[t] /\ (cop[t].at \notin {"user", "processing"} => Q!InUser(t)')
    <3>1. InExecute(t)' => cop'[t].n <= count'[cop'[t].call]
      <4> SUFFICES ASSUME InExecute(t)' PROVE cop'[t].n <= count'[cop'[t].call]
        OBVIOUS
      <4>1. cop[t].call \in Calls /\ cop[t].n <= count[cop[t].call]
        BY <1>2 DEF FreeInv, Places, InExecute
      <4>2. count[cop[t].call] \in Int /\ count'[cop[t].call] \in Int /\ cop[t].n \in Int
        BY <4>1 DEF TypeInv, ListTypes, COp
      <4>3. count[cop[t].call] <= count'[cop[t].call]
        BY <4>1 DEF Quiet
      <4> QED
        BY <2>1, <4>1, <4>2, <4>3
    <3> QED
      BY <2>1, <3>1 DEF FreeInv, Places, InExecute, ExecOf
  <2>2. CASE /\ cop[t].at \notin {"transfer", "execute", "return", "destroy"}
             /\ cop'[t].at \in {"user", "processing", "pending", "lookup"}
             /\ cop'[t].at # "user" => cop'[t].call \in Calls
             /\ cop'[t].at = "pending" => <<cop'[t].call, cop'[t].n>> \in Executions
             /\ cop'[t].at \in {"pending", "lookup"} => Q!InUser(t)'
    BY <2>2 DEF InExecute, ExecOf
  <2> QED
    BY <2>1, <2>2 DEF Quiet
<1>8. Locked'
  <2> SUFFICES ASSUME NEW t \in Threads, Locking(t)'
               PROVE  /\ clock'[cop'[t].call] = t
                      /\ cop'[t].at = "return" => ~ Linked(ExecOf(t))'
                      /\ cop'[t].at = "destroy" => executions'[cop'[t].call] = <<>>
    BY DEF Locked
  <2> QED
    BY <1>1 DEF FreeInv, Locked, Quiet, Linked, ExecOf
<1>9. Alone'
  BY <1>2, <1>5 DEF FreeInv, Alone
<1>10. Listed'
  <2> SUFFICES ASSUME NEW c \in Calls
               PROVE  /\ Falling(executions'[c])
                      /\ state'[c] # "live" => executions'[c] = <<>>
                      /\ Distinct(c)'
                      /\ \A n \in ToSet(executions'[c]) :
                           n <= count'[c] /\ exec'[<<c, n>>].serial # 0 /\ ~ exec'[<<c, n>>].executed
                      /\ \A n \in 1..MaxCount : n > count'[c] => exec'[<<c, n>>] = NoExecution
    BY DEF Listed
  <2>1. exec' = exec /\ executions' = executions
    BY DEF Quiet
  <2>2. count[c] <= count'[c] /\ count[c] \in Int /\ count'[c] \in Int
    BY DEF Quiet, TypeInv, ListTypes
  <2>3. Falling(executions'[c]) /\ Distinct(c)'
    BY <2>1 DEF FreeInv, Listed, Distinct
  <2>4. state'[c] # "live" => executions'[c] = <<>>
    BY <2>1 DEF Quiet
  <2>5. \A n \in ToSet(executions[c]) : n \in 1..MaxCount
    <3>1. executions[c] \in Seq(1..MaxCount)
      BY DEF TypeInv, ListTypes
    <3> QED
      BY <3>1, ElementOf DEF ToSet
  <2>6. ASSUME NEW n \in ToSet(executions'[c])
        PROVE  n <= count'[c] /\ exec'[<<c, n>>].serial # 0 /\ ~ exec'[<<c, n>>].executed
    <3>1. n <= count[c] /\ exec[<<c, n>>].serial # 0 /\ ~ exec[<<c, n>>].executed /\ n \in Int
      BY <2>1, <2>5, <2>6 DEF FreeInv, Listed
    <3> QED
      BY <2>1, <2>2, <3>1
  <2>7. ASSUME NEW n \in 1..MaxCount, n > count'[c] PROVE exec'[<<c, n>>] = NoExecution
    <3>1. n > count[c]
      BY <2>2, <2>7
    <3> QED
      BY <2>1, <3>1 DEF FreeInv, Listed
  <2> QED
    BY <2>3, <2>4, <2>6, <2>7
<1>11. Budget'
  BY <1>4, <1>6 DEF FreeInv, Budget, Quiet
<1>12. Freeing'
  <2>1. Stays' <=> Stays
    BY DEF Stays, Quiet
  <2> SUFFICES ASSUME Stays
               PROVE  /\ listed' = Fusionees
                      /\ \A e \in Executions :
                           exec'[e].frees > 0 => exec'[e].frees = 1 /\ ~ Linked(e)'
                      /\ \A t \in Threads : InExecute(t)' =>
                           /\ exec'[ExecOf(t)'].frees = 0 /\ exec'[ExecOf(t)'].caller # None
                           /\ cop'[t].at = "execute" /\ t \notin ewait'[ExecOf(t)'] => ~ Linked(ExecOf(t))'
    BY <2>1 DEF Freeing
  <2>2. listed' = Fusionees
    BY DEF FreeInv, Freeing, Quiet
  <2>3. \A e \in Executions : exec'[e].frees > 0 => exec'[e].frees = 1 /\ ~ Linked(e)'
    BY <1>4 DEF FreeInv, Freeing, Quiet
  <2>4. ASSUME NEW t \in Threads, InExecute(t)'
        PROVE  /\ exec'[ExecOf(t)'].frees = 0 /\ exec'[ExecOf(t)'].caller # None
               /\ cop'[t].at = "execute" /\ t \notin ewait'[ExecOf(t)'] => ~ Linked(ExecOf(t))'
    <3>1. InExecute(t) /\ cop'[t] = cop[t] /\ ExecOf(t)' = ExecOf(t) /\ exec' = exec
      BY <1>2, <1>5, <2>4 DEF Quiet
    <3>2. /\ exec[ExecOf(t)].frees = 0 /\ exec[ExecOf(t)].caller # None
          /\ cop[t].at = "execute" /\ t \notin ewait[ExecOf(t)] => ~ Linked(ExecOf(t))
      BY <3>1 DEF FreeInv, Freeing
    <3>3. Linked(ExecOf(t))' <=> Linked(ExecOf(t))
      BY <3>1 DEF Linked, Quiet
    <3>4. t \in ewait[ExecOf(t)] => t \in ewait'[ExecOf(t)]
      BY <3>1 DEF Quiet
    <3> QED
      BY <3>1, <3>2, <3>3, <3>4
  <2> QED
    BY <2>2, <2>3, <2>4
<1>13. Keeping'
  <2>1. Orderly' <=> Orderly
    BY DEF Orderly, Quiet
  <2> QED
    BY <1>4, <1>6, <2>1 DEF FreeInv, Keeping, Allocated, Quiet
<1> QED
  BY <1>7, <1>8, <1>9, <1>10, <1>11, <1>12, <1>13 DEF FreeInv

LEMMA QuietIssue ==
  ASSUME TypeInv, TypeInv', FreeInv, NEW t \in Threads, NEW c \in Calls,
         New(t, c) \/ ExecuteOneway(t, c) \/ ExecuteFails(t, c)
  PROVE  Quiet
<1>1. UNCHANGED <<listed, qop, executions, execVars, lockVars, cop>>
  BY DEF New, ExecuteOneway, ExecuteFails, Q!Send, msgVars
<1>2. count' \in {count, [count EXCEPT ![c] = @ + 1]}
  BY DEF New, ExecuteOneway, ExecuteFails
<1>3. state' \in {state, [state EXCEPT ![c] = "live"]}
  BY DEF New, ExecuteOneway, ExecuteFails
<1>4. \A d \in Calls : count[d] <= count'[d]
  <2> SUFFICES ASSUME NEW d \in Calls PROVE count[d] <= count'[d]
    OBVIOUS
  <2>1. count[d] \in Int /\ count'[d] \in Int /\ count \in [Calls -> 0..MaxCount]
    BY DEF TypeInv, ListTypes
  <2> QED
    BY <1>2, <2>1
<1>5. \A d \in Calls : state'[d] # "live" => executions[d] = <<>>
  BY <1>3 DEF FreeInv, Listed, TypeInv, ListTypes
<1>6. \A u \in Threads : cop'[u] = cop[u] /\ (cop[u].at \notin {"user", "processing"} => Q!InUser(u)')
  BY <1>1 DEF FreeInv, Places, Q!InUser
<1> QED
  BY <1>1, <1>4, <1>5, <1>6 DEF Quiet, execVars, lockVars, devVars

LEMMA QuietLookup ==
  ASSUME TypeInv, TypeInv', FreeInv, NEW t \in Threads, NEW c \in Calls,
         LockBlocks(t, c) \/ LockGranted(t)
  PROVE  Quiet
<1>1. UNCHANGED <<msgVars, listVars, execVars, clock, dev>>
  BY DEF LockBlocks, LockGranted
<1>2. \A d \in Calls : count[d] \in Int
  BY DEF TypeInv, ListTypes
<1>3. \A u \in Threads : cop[u].at \notin {"user", "processing"} => Q!InUser(u)'
  BY <1>1 DEF FreeInv, Places, Q!InUser, msgVars
<1>4. \A u \in Threads : u # t => cop'[u] = cop[u]
  BY DEF LockBlocks, LockGranted, TypeInv
<1>5. CASE LockBlocks(t, c)
  <2>1. cop'[t] = In("lookup", c, 0) /\ cop[t].at = "user" /\ Q!InUser(t)
    BY <1>5 DEF LockBlocks, TypeInv, Free
  <2>2. cop'[t].at = "lookup" /\ cop'[t].call = c /\ Q!InUser(t)'
    BY <1>1, <2>1 DEF In, Q!InUser, msgVars
  <2> QED
    BY <1>1, <1>2, <1>3, <1>4, <2>1, <2>2
       DEF Quiet, FreeInv, Listed, execVars, listVars, msgVars
<1>6. CASE LockGranted(t)
  <2>1. cop'[t].at = "user" /\ cop[t].at = "lookup"
    BY <1>6 DEF LockGranted, TypeInv, User
  <2> QED
    BY <1>1, <1>2, <1>3, <1>4, <2>1 DEF Quiet, FreeInv, Listed, execVars, listVars, msgVars
<1> QED
  BY <1>5, <1>6

LEMMA QuietRead ==
  ASSUME TypeInv, TypeInv', FreeInv, NEW t \in Threads, Dispatch(t)
  PROVE  Quiet
<1>1. UNCHANGED <<listed, listVars, execVars, lockVars, cop>>
  BY DispatchTypes
<1>2. cop[t].at = "user" /\ (Q!ReadSleep(t) \/ Q!ReadNow(t) \/ Q!ReadWoken(t))
  BY DEF Dispatch
<1>3. \A u \in Threads : u # t => qop'[u] = qop[u]
  BY <1>2 DEF Q!ReadSleep, Q!ReadNow, Q!ReadWoken, TypeInv, Q!TypeOK
<1>4. \A u \in Threads : cop'[u] = cop[u] /\ (cop[u].at \notin {"user", "processing"} => Q!InUser(u)')
  BY <1>1, <1>2, <1>3 DEF FreeInv, Places, Q!InUser
<1>5. \A d \in Calls : count[d] \in Int
  BY DEF TypeInv, ListTypes
<1> QED
  BY <1>1, <1>4, <1>5 DEF Quiet, FreeInv, Listed, execVars, listVars, lockVars, devVars

LEMMA QuietFails ==
  ASSUME TypeInv, TypeInv', FreeInv, NEW t \in Threads, NEW i, ReturnFails(t, i)
  PROVE  Quiet
<1>1. UNCHANGED <<msgVars, listVars, execVars, lockVars, cop>>
  BY DEF ReturnFails
<1>2. \A u \in Threads : cop'[u] = cop[u] /\ (cop[u].at \notin {"user", "processing"} => Q!InUser(u)')
  BY <1>1 DEF FreeInv, Places, Q!InUser, msgVars
<1>3. \A d \in Calls : count[d] \in Int
  BY DEF TypeInv, ListTypes
<1> QED
  BY <1>1, <1>2, <1>3 DEF Quiet, FreeInv, Listed, execVars, listVars, lockVars, devVars, msgVars

LEMMA QuietLoop ==
  ASSUME TypeInv, TypeInv', FreeInv, NEW t \in Threads, NEW c \in Calls,
         cop[t].at \in {"user", "pending"}, DestroyLoop(t, c)
  PROVE  Quiet
<1>1. /\ Q!WaitProcessing(t, c)
      /\ cop' = [cop EXCEPT ![t] = In("processing", c, 0)]
      /\ UNCHANGED <<listVars, execVars, lockVars>>
  BY DEF DestroyLoop
<1>2. listed' = listed /\ \A u \in Threads : u # t => qop'[u] = qop[u]
  BY <1>1 DEF Q!WaitProcessing, TypeInv, Q!TypeOK
<1>3. \A u \in Threads : u # t =>
        cop'[u] = cop[u] /\ (cop[u].at \notin {"user", "processing"} => Q!InUser(u)')
  BY <1>1, <1>2 DEF FreeInv, Places, Q!InUser
<1>4. cop'[t].at = "processing" /\ cop'[t].call = c
  BY <1>1 DEF TypeInv, In
<1>5. \A d \in Calls : count[d] \in Int
  BY DEF TypeInv, ListTypes
<1> QED
  BY <1>1, <1>2, <1>3, <1>4, <1>5 DEF Quiet, FreeInv, Listed, execVars, listVars, lockVars, devVars

LEMMA QuietWait ==
  ASSUME TypeInv, TypeInv', FreeInv, NEW t \in Threads,
         \/ \E c \in Calls : DestroyStart(t, c)
         \/ DestroyWoken(t) \/ ProcessingWoken(t)
  PROVE  Quiet
<1>1. CASE \E c \in Calls : DestroyStart(t, c)
  BY <1>1, QuietLoop DEF DestroyStart, Free
<1>2. CASE DestroyWoken(t)
  <2>1. cop[t].at = "pending" /\ cop[t].call \in Calls /\ DestroyLoop(t, cop[t].call)
    BY <1>2 DEF DestroyWoken, FreeInv, Places
  <2> QED
    BY <2>1, QuietLoop
<1>3. CASE ProcessingWoken(t)
  <2>1. Q!ProcessingWoken(t) /\ UNCHANGED <<listVars, execVars, lockVars, cop>>
    BY <1>3 DEF ProcessingWoken
  <2>2. listed' = listed /\ qop[t].at = "processing" /\ \A u \in Threads : u # t => qop'[u] = qop[u]
    BY <2>1 DEF Q!ProcessingWoken, TypeInv, Q!TypeOK
  <2>3. cop[t].at \in {"user", "processing"}
    BY <2>2 DEF FreeInv, Places, Q!InUser
  <2>4. \A u \in Threads : cop'[u] = cop[u] /\ (cop[u].at \notin {"user", "processing"} => Q!InUser(u)')
    BY <2>1, <2>2, <2>3 DEF FreeInv, Places, Q!InUser
  <2>5. \A d \in Calls : count[d] \in Int
    BY DEF TypeInv, ListTypes
  <2> QED
    BY <2>1, <2>2, <2>4, <2>5 DEF Quiet, FreeInv, Listed, execVars, listVars, lockVars, devVars
<1> QED
  BY <1>1, <1>2, <1>3

LEMMA QuietInterrupt ==
  ASSUME TypeInv, TypeInv', FreeInv, NEW t \in Threads, Interrupt(t)
  PROVE  Quiet
<1>1. cop' = [cop EXCEPT ![t] = User] /\ UNCHANGED <<listVars, exec, lockVars>>
  BY DEF Interrupt
<1>2. \/ Q!Interrupt(t) /\ UNCHANGED ewait
      \/ /\ cop[t].at = "pending"
         /\ ewait' = [ewait EXCEPT ![ExecOf(t)] = @ \ {t}]
         /\ UNCHANGED msgVars
  BY DEF Interrupt
<1>3. listed' = listed /\ \A u \in Threads : u # t => qop'[u] = qop[u]
  BY <1>2 DEF Q!Interrupt, TypeInv, Q!TypeOK, msgVars
<1>4. cop[t].at \in {"user", "processing", "pending"}
  <2>1. CASE Q!Interrupt(t)
    BY <2>1 DEF Q!Interrupt, FreeInv, Places, Q!InUser
  <2> QED
    BY <1>2, <2>1
<1>5. \A u \in Threads : u # t => cop'[u] = cop[u] /\ (cop[u].at \notin {"user", "processing"} => Q!InUser(u)')
  BY <1>1, <1>3 DEF FreeInv, Places, Q!InUser
<1>6. cop'[t].at = "user"
  BY <1>1 DEF TypeInv, User
<1>7. \A u \in Threads : InExecute(u) => (u \in ewait[ExecOf(u)] => u \in ewait'[ExecOf(u)])
  <2> SUFFICES ASSUME NEW u \in Threads, InExecute(u), u \in ewait[ExecOf(u)]
               PROVE  u \in ewait'[ExecOf(u)]
    OBVIOUS
  <2>1. u # t /\ ExecOf(u) \in Executions
    BY <1>4 DEF InExecute, FreeInv, Places
  <2>2. ewait \in [Executions -> SUBSET Threads]
    BY DEF TypeInv, ExecTypes
  <2> QED
    BY <1>2, <2>1, <2>2
<1>8. \A d \in Calls : count[d] \in Int
  BY DEF TypeInv, ListTypes
<1> QED
  BY <1>1, <1>3, <1>4, <1>5, <1>6, <1>7, <1>8 DEF Quiet, FreeInv, Listed, listVars, lockVars, devVars

LEMMA QuietLeave ==
  ASSUME TypeInv, TypeInv', FreeInv, NEW f \in Fusionees, Leave(f)
  PROVE  Quiet
<1>1. /\ \A t \in Threads : Fid[t] = f => cop[t].at = "user"
      /\ Q!Release(f) /\ ~ Stays
      /\ UNCHANGED <<listVars, execVars, lockVars, cop>>
  BY DEF Leave, Stays
<1>2. \A t \in Threads : Fid[t] # f => qop'[t] = qop[t]
  BY <1>1 DEF Q!Release
<1>3. \A u \in Threads : cop'[u] = cop[u] /\ (cop[u].at \notin {"user", "processing"} => Q!InUser(u)')
  BY <1>1, <1>2 DEF FreeInv, Places, Q!InUser
<1>4. \A d \in Calls : count[d] \in Int
  BY DEF TypeInv, ListTypes
<1> QED
  BY <1>1, <1>3, <1>4 DEF Quiet, FreeInv, Listed, execVars, listVars, lockVars, devVars

-----------------------------------------------------------------------------
(* What is on the list of a call.                                          *)
LEMMA OnList ==
  ASSUME TypeInv, FreeInv, NEW c \in Calls
  PROVE  /\ executions[c] \in Seq(1..MaxCount) /\ Falling(executions[c]) /\ count[c] \in Nat
         /\ \A n \in ToSet(executions[c]) :
              /\ n \in 1..MaxCount /\ n \in Int /\ n <= count[c] /\ <<c, n>> \in Executions
              /\ exec[<<c, n>>].serial # 0 /\ ~ exec[<<c, n>>].executed
         /\ \A n \in 1..MaxCount : Linked(<<c, n>>) <=> n \in ToSet(executions[c])
<1>1. executions[c] \in Seq(1..MaxCount) /\ count[c] \in 0..MaxCount
  BY DEF TypeInv, ListTypes
<1>2. \A n \in ToSet(executions[c]) : n \in 1..MaxCount
  BY <1>1, ElementOf DEF ToSet
<1>3. \A n \in 1..MaxCount : n \in Int /\ <<c, n>> \in Executions
  BY DEF Executions
<1>4. \A n \in ToSet(executions[c]) :
        n <= count[c] /\ exec[<<c, n>>].serial # 0 /\ ~ exec[<<c, n>>].executed
  BY DEF FreeInv, Listed
<1>5. Falling(executions[c])
  BY DEF FreeInv, Listed
<1>6. \A n \in 1..MaxCount : Linked(<<c, n>>) <=> n \in ToSet(executions[c])
  BY DEF Linked
<1> QED
  BY <1>1, <1>2, <1>3, <1>4, <1>5, <1>6

LEMMA Push ==
  ASSUME NEW s \in Seq(1..MaxCount), NEW n \in 1..MaxCount, Falling(s), \A k \in ToSet(s) : k < n
  PROVE  ToSet(<<n>> \o s) = {n} \cup ToSet(s) /\ Falling(<<n>> \o s)
<1> DEFINE u == <<n>> \o s
<1>1. /\ u \in Seq(1..MaxCount) /\ Len(u) = Len(s) + 1 /\ Len(s) \in Nat
      /\ u[1] = n /\ \A j \in 1..Len(s) : u[j + 1] = s[j]
  OBVIOUS
<1>2. DOMAIN u = 1..(Len(s) + 1) /\ DOMAIN s = 1..Len(s)
  BY <1>1
<1> HIDE DEF u
<1>3. \A j \in DOMAIN u : j = 1 \/ (j - 1 \in DOMAIN s /\ u[j] = s[j - 1])
  <2> SUFFICES ASSUME NEW j \in DOMAIN u, j # 1 PROVE j - 1 \in DOMAIN s /\ u[j] = s[j - 1]
    OBVIOUS
  <2>1. j - 1 \in 1..Len(s) /\ (j - 1) + 1 = j
    BY <1>1, <1>2
  <2>2. u[(j - 1) + 1] = s[j - 1]
    BY <1>1, <2>1
  <2> QED
    BY <1>2, <2>1, <2>2
<1>4. ToSet(u) = {n} \cup ToSet(s)
  <2>1. \A x \in ToSet(u) : x = n \/ x \in ToSet(s)
    BY <1>1, <1>3 DEF ToSet
  <2>2. n \in ToSet(u)
    <3>1. 1 \in DOMAIN u
      BY <1>1, <1>2
    <3> QED
      BY <1>1, <3>1 DEF ToSet
  <2>3. \A x \in ToSet(s) : x \in ToSet(u)
    <3> SUFFICES ASSUME NEW j \in DOMAIN s PROVE s[j] \in ToSet(u)
      BY DEF ToSet
    <3>1. j + 1 \in DOMAIN u /\ u[j + 1] = s[j]
      BY <1>1, <1>2
    <3> QED
      BY <3>1 DEF ToSet
  <2> QED
    BY <2>1, <2>2, <2>3
<1>5. Falling(u)
  <2> SUFFICES ASSUME NEW i \in DOMAIN u, NEW j \in DOMAIN u, i < j PROVE u[i] > u[j]
    BY DEF Falling
  <2>1. i \in Int /\ j \in Int /\ j # 1 /\ i >= 1
    BY <1>1, <1>2
  <2>2. j - 1 \in DOMAIN s /\ u[j] = s[j - 1] /\ s[j - 1] \in ToSet(s)
    BY <1>3, <2>1 DEF ToSet
  <2>3. CASE i = 1
    <3>1. s[j - 1] < n /\ u[i] = n
      BY <1>1, <2>2, <2>3
    <3>2. s[j - 1] \in Int /\ n \in Int
      <4>1. s[j - 1] \in 1..MaxCount
        BY <2>2, ElementOf
      <4> QED
        BY <4>1
    <3> QED
      BY <2>2, <3>1, <3>2
  <2>4. CASE i # 1
    <3>1. i - 1 \in DOMAIN s /\ u[i] = s[i - 1] /\ i - 1 < j - 1
      BY <1>3, <2>1, <2>4
    <3> QED
      BY <2>2, <3>1 DEF Falling
  <2> QED
    BY <2>3, <2>4
<1> QED
  BY <1>4, <1>5 DEF u

(* A new execution: its caller is the only one who knows it.               *)
LEMMA SyncFree ==
  ASSUME TypeInv, TypeInv', FreeInv, NEW t \in Threads, NEW c \in Calls, ExecuteSync(t, c)
  PROVE  FreeInv'
<1> DEFINE n == count[c] + 1
           sn == NextSerial(c)
           x == [NoExecution EXCEPT !.caller = Fid[t], !.serial = NextSerial(c)]
           e0 == <<c, n>>
<1>1. /\ Free(t) /\ Lockable(c) /\ SerialIsFresh(c) /\ count[c] < MaxCount
      /\ exec' = [exec EXCEPT ![<<c, n>>] = x]
      /\ executions' = [executions EXCEPT ![c] = <<n>> \o @]
      /\ count' = [count EXCEPT ![c] = n]
      /\ clock' = [clock EXCEPT ![c] = t]
      /\ cop' = [cop EXCEPT ![t] = In("transfer", c, n)]
      /\ UNCHANGED <<listed, qop, state, ewait, dev>>
  BY DEF ExecuteSync, devVars, Q!Send
<1>2. n \in 1..MaxCount /\ <<c, n>> \in Executions
  <2>1. 0 \in 0..(SerialMod - 1) /\ ListTypes /\ count[c] < MaxCount
    BY <1>1, CallAssumption DEF TypeInv
  <2> QED
    BY <2>1, MessageForms
<1>3. n \in Int /\ n = count[c] + 1 /\ count[c] \in Nat
  BY OnList
<1>4. sn # 0 /\ sn \in Nat
  <2>1. sn \in 1..(SerialMod - 1)
    BY Serials DEF TypeInv
  <2> QED
    BY <2>1
<1>5. x.caller = Fid[t] /\ x.serial = sn /\ x.frees = 0 /\ x.executed = FALSE
  BY DEF NoExecution
<1>6. state[c] = "live" /\ clock[c] = None /\ cop[t].at = "user" /\ Q!InUser(t)
  BY <1>1 DEF Free, Lockable
<1>7. \A i \in DOMAIN executions[c] : exec[<<c, executions[c][i]>>].serial # sn
  BY <1>1 DEF SerialIsFresh
<1> HIDE DEF sn, x
<1>8. exec'[e0] = x /\ \A e \in Executions : e # e0 => exec'[e] = exec[e]
  BY <1>1, <1>2 DEF TypeInv, ExecTypes
<1>9. executions'[c] = <<n>> \o executions[c] /\ \A d \in Calls : d # c => executions'[d] = executions[d]
  BY <1>1 DEF TypeInv, ListTypes
<1>10. count'[c] = n /\ \A d \in Calls : d # c => count'[d] = count[d]
  BY <1>1 DEF TypeInv, ListTypes
<1>11. clock'[c] = t /\ \A d \in Calls : d # c => clock'[d] = clock[d]
  BY <1>1 DEF TypeInv, LockTypes
<1>12. /\ cop'[t].at = "transfer" /\ cop'[t].call = c /\ cop'[t].n = n
       /\ \A u \in Threads : u # t => cop'[u] = cop[u]
  BY <1>1 DEF TypeInv, In
<1> HIDE DEF n
<1>13. /\ ToSet(executions'[c]) = {n} \cup ToSet(executions[c])
       /\ Falling(executions'[c])
  <2>1. \A k \in ToSet(executions[c]) : k < n
    <3> SUFFICES ASSUME NEW k \in ToSet(executions[c]) PROVE k < n
      OBVIOUS
    <3>1. k \in Int /\ k <= count[c]
      BY OnList
    <3> QED
      BY <1>3, <3>1
  <2>2. executions[c] \in Seq(1..MaxCount) /\ Falling(executions[c])
    BY OnList
  <2> QED
    BY <1>2, <1>9, <2>1, <2>2, Push
<1>14. n \notin ToSet(executions[c]) /\ ~ Linked(e0)
  <2>1. n \notin ToSet(executions[c])
    <3> SUFFICES ASSUME n \in ToSet(executions[c]) PROVE FALSE
      OBVIOUS
    <3>1. n <= count[c]
      BY OnList
    <3> QED
      BY <1>3, <3>1
  <2> QED
    BY <1>2, <2>1, OnList
<1>15. exec[e0] = NoExecution
  <2>1. n > count[c]
    BY <1>3
  <2> QED
    BY <1>2, <2>1 DEF FreeInv, Listed
<1>16. \A e \in Executions : Linked(e)' <=> Linked(e) \/ e = e0
  <2> SUFFICES ASSUME NEW d \in Calls, NEW k \in 1..MaxCount
               PROVE  Linked(<<d, k>>)' <=> Linked(<<d, k>>) \/ <<d, k>> = e0
    BY DEF Executions
  <2>1. Linked(<<d, k>>)' <=> k \in ToSet(executions'[d])
    BY DEF Linked
  <2>2. Linked(<<d, k>>) <=> k \in ToSet(executions[d])
    BY DEF Linked
  <2> QED
    BY <1>9, <1>13, <2>1, <2>2
<1>17. \A u \in Threads : InExecute(u)' <=> u = t \/ InExecute(u)
  BY <1>12 DEF InExecute
<1>18. ExecOf(t)' = e0 /\ \A u \in Threads : u # t => ExecOf(u)' = ExecOf(u)
  BY <1>12 DEF ExecOf
<1>19. ~ InExecute(t) /\ \A u \in Threads : InExecute(u) => ExecOf(u) # e0
  <2>1. ~ InExecute(t)
    BY <1>6 DEF InExecute
  <2>2. ASSUME NEW u \in Threads, InExecute(u), ExecOf(u) = e0 PROVE FALSE
    <3>1. cop[u].call = c /\ cop[u].n = n
      BY <2>2 DEF ExecOf
    <3>2. cop[u].n <= count[cop[u].call]
      BY <2>2 DEF FreeInv, Places
    <3> QED
      BY <1>3, <3>1, <3>2
  <2> QED
    BY <2>1, <2>2
<1>20. \A e \in Executions : Waited(e)' <=> Waited(e) \/ e = e0
  <2>1. \A e \in Executions : Waited(e) <=> \E u \in Threads : InExecute(u) /\ ExecOf(u) = e
    BY DEF Waited, InExecute
  <2>2. \A e \in Executions : Waited(e)' <=> \E u \in Threads : InExecute(u)' /\ ExecOf(u)' = e
    BY DEF Waited, InExecute
  <2> QED
    BY <1>17, <1>18, <1>19, <2>1, <2>2
<1>21. Places'
  <2> SUFFICES ASSUME NEW u \in Threads
               PROVE  /\ cop'[u].at # "user" => cop'[u].call \in Calls
                      /\ InExecute(u)' \/ cop'[u].at \in {"return", "pending"} => ExecOf(u)' \in Executions
                      /\ InExecute(u)' => cop'[u].n <= count'[cop'[u].call]
                      /\ cop'[u].at \notin {"user", "processing"} => Q!InUser(u)'
    BY DEF Places
  <2>1. Q!InUser(u)' <=> Q!InUser(u)
    BY <1>1 DEF Q!InUser
  <2>2. CASE u = t
    BY <1>2, <1>3, <1>6, <1>10, <1>12, <1>18, <2>1, <2>2
  <2>3. CASE u # t
    <3>1. /\ cop[u].at # "user" => cop[u].call \in Calls
          /\ InExecute(u) \/ cop[u].at \in {"return", "pending"} => ExecOf(u) \in Executions
          /\ InExecute(u) => cop[u].n <= count[cop[u].call]
          /\ cop[u].at \notin {"user", "processing"} => Q!InUser(u)
      BY DEF FreeInv, Places
    <3>2. InExecute(u) => cop[u].n <= count'[cop[u].call]
      <4> SUFFICES ASSUME InExecute(u) PROVE cop[u].n <= count'[cop[u].call]
        OBVIOUS
      <4>1. cop[u].call \in Calls /\ cop[u].n <= count[cop[u].call]
        BY <3>1 DEF InExecute
      <4>2. cop[u].n \in Int
        BY DEF TypeInv, COp
      <4> QED
        BY <1>3, <1>10, <4>1, <4>2
    <3> QED
      BY <1>12, <1>17, <1>18, <2>1, <2>3, <3>1, <3>2
  <2> QED
    BY <2>2, <2>3
<1>22. Locked'
  <2> SUFFICES ASSUME NEW u \in Threads, Locking(u)'
               PROVE  /\ clock'[cop'[u].call] = u
                      /\ cop'[u].at = "return" => ~ Linked(ExecOf(u))'
                      /\ cop'[u].at = "destroy" => executions'[cop'[u].call] = <<>>
    BY DEF Locked
  <2>1. CASE u = t
    BY <1>11, <1>12, <2>1
  <2>2. CASE u # t
    <3>1. Locking(u) /\ cop'[u] = cop[u] /\ cop[u].call \in Calls
      BY <1>12, <2>2 DEF Locking, FreeInv, Places
    <3>2. /\ clock[cop[u].call] = u
          /\ cop[u].at = "return" => ~ Linked(ExecOf(u))
          /\ cop[u].at = "destroy" => executions[cop[u].call] = <<>>
      BY <3>1 DEF FreeInv, Locked
    <3>3. cop[u].call # c
      BY <1>6, <3>2, QueueAssumption
    <3>4. ExecOf(u) # e0 /\ (cop[u].at = "return" => ExecOf(u) \in Executions)
      BY <3>1, <3>3 DEF ExecOf, FreeInv, Places
    <3>5. cop[u].at = "return" => ~ Linked(ExecOf(u))'
      <4> SUFFICES ASSUME cop[u].at = "return" PROVE ~ Linked(ExecOf(u))'
        OBVIOUS
      <4> DEFINE d == cop[u].call
                 k == cop[u].n
      <4>1. d \in Calls /\ d # c /\ ~ (k \in ToSet(executions[d])) /\ cop'[u] = cop[u]
        BY <3>1, <3>2, <3>3 DEF Linked, ExecOf
      <4>2. executions'[d] = executions[d]
        BY <1>9, <4>1
      <4> QED
        BY <4>1, <4>2 DEF Linked, ExecOf
    <3> QED
      BY <1>9, <1>11, <3>1, <3>2, <3>3, <3>5
  <2> QED
    BY <2>1, <2>2
<1>23. Alone'
  BY <1>17, <1>18, <1>19 DEF FreeInv, Alone
<1>24. Listed'
  <2> SUFFICES ASSUME NEW d \in Calls
               PROVE  /\ Falling(executions'[d])
                      /\ state'[d] # "live" => executions'[d] = <<>>
                      /\ Distinct(d)'
                      /\ \A k \in ToSet(executions'[d]) :
                           k <= count'[d] /\ exec'[<<d, k>>].serial # 0 /\ ~ exec'[<<d, k>>].executed
                      /\ \A k \in 1..MaxCount : k > count'[d] => exec'[<<d, k>>] = NoExecution
    BY DEF Listed
  <2>1. /\ Falling(executions[d])
        /\ state[d] # "live" => executions[d] = <<>>
        /\ Distinct(d)
        /\ \A k \in ToSet(executions[d]) :
             k <= count[d] /\ exec[<<d, k>>].serial # 0 /\ ~ exec[<<d, k>>].executed
        /\ \A k \in 1..MaxCount : k > count[d] => exec[<<d, k>>] = NoExecution
    BY DEF FreeInv, Listed
  <2>2. \A k \in ToSet(executions[d]) : k \in Int /\ <<d, k>> \in Executions /\ <<d, k>> # e0
    BY <1>14, OnList
  <2>3. \A k \in ToSet(executions[d]) : exec'[<<d, k>>] = exec[<<d, k>>]
    BY <1>8, <2>2
  <2>4. CASE d # c
    <3>1. \A k \in 1..MaxCount : <<d, k>> \in Executions /\ <<d, k>> # e0
      BY <2>4 DEF Executions
    <3>2. \A k \in 1..MaxCount : exec'[<<d, k>>] = exec[<<d, k>>]
      BY <1>8, <3>1
    <3>3. executions'[d] = executions[d] /\ count'[d] = count[d] /\ state'[d] = state[d]
      BY <1>1, <1>9, <1>10, <2>4
    <3>4. Distinct(d)'
      BY <2>1, <2>3, <3>3 DEF Distinct
    <3> QED
      BY <2>1, <2>3, <3>2, <3>3, <3>4
  <2>5. CASE d = c
    <3>1. Falling(executions'[c]) /\ state'[c] = "live"
      BY <1>1, <1>6, <1>13
    <3>2. \A k \in ToSet(executions[c]) : exec[<<c, k>>].serial # sn
      BY <1>7 DEF ToSet
    <3>3. Distinct(c)'
      <4>1. \A k \in ToSet(executions[c]) : exec'[<<c, k>>].serial = exec[<<c, k>>].serial
        BY <2>3, <2>5
      <4>2. exec'[<<c, n>>].serial = sn
        BY <1>5, <1>8
      <4>3. \A k, l \in ToSet(executions[c]) : exec[<<c, k>>].serial = exec[<<c, l>>].serial => k = l
        BY <2>1, <2>5 DEF Distinct
      <4> QED
        BY <1>13, <3>2, <4>1, <4>2, <4>3 DEF Distinct
    <3>4. \A k \in ToSet(executions'[c]) :
            k <= count'[c] /\ exec'[<<c, k>>].serial # 0 /\ ~ exec'[<<c, k>>].executed
      <4>1. n <= count'[c] /\ exec'[<<c, n>>].serial # 0 /\ ~ exec'[<<c, n>>].executed
        BY <1>3, <1>4, <1>5, <1>8, <1>10
      <4>2. ASSUME NEW k \in ToSet(executions[c])
            PROVE  k <= count'[c] /\ exec'[<<c, k>>].serial # 0 /\ ~ exec'[<<c, k>>].executed
        <5>1. k \in Int /\ k <= count[c] /\ exec[<<c, k>>].serial # 0 /\ ~ exec[<<c, k>>].executed
          BY OnList
        <5>2. k <= n
          BY <1>3, <5>1
        <5> QED
          BY <1>10, <2>3, <2>5, <5>1, <5>2
      <4> QED
        BY <1>13, <4>1, <4>2
    <3>5. \A k \in 1..MaxCount : k > count'[c] => exec'[<<c, k>>] = NoExecution
      <4> SUFFICES ASSUME NEW k \in 1..MaxCount, k > n PROVE exec'[<<c, k>>] = NoExecution
        BY <1>10
      <4>1. k > count[c] /\ k # n
        BY <1>3
      <4>2. <<c, k>> \in Executions /\ <<c, k>> # e0
        BY <4>1 DEF Executions
      <4> QED
        BY <1>8, <2>1, <2>5, <4>1, <4>2
    <3> QED
      BY <2>5, <3>1, <3>3, <3>4, <3>5
  <2> QED
    BY <2>4, <2>5
<1>25. Budget'
  <2> SUFFICES ASSUME NEW e \in Executions
               PROVE  /\ exec'[e].frees <= 2
                      /\ Linked(e)' \/ Waited(e)' => exec'[e].frees <= 1
                      /\ Linked(e)' /\ Waited(e)' => exec'[e].frees = 0
    BY DEF Budget
  <2>1. CASE e = e0
    BY <1>5, <1>8, <2>1
  <2>2. CASE e # e0
    BY <1>8, <1>16, <1>20, <2>2 DEF FreeInv, Budget
  <2> QED
    BY <2>1, <2>2
<1>26. Freeing'
  <2> SUFFICES ASSUME Stays
               PROVE  /\ listed' = Fusionees
                      /\ \A e \in Executions :
                           exec'[e].frees > 0 => exec'[e].frees = 1 /\ ~ Linked(e)'
                      /\ \A u \in Threads : InExecute(u)' =>
                           /\ exec'[ExecOf(u)'].frees = 0 /\ exec'[ExecOf(u)'].caller # None
                           /\ cop'[u].at = "execute" /\ u \notin ewait'[ExecOf(u)'] => ~ Linked(ExecOf(u))'
    BY <1>1 DEF Freeing, Stays
  <2>1. listed' = Fusionees
    BY <1>1 DEF FreeInv, Freeing
  <2>2. \A e \in Executions : exec'[e].frees > 0 => exec'[e].frees = 1 /\ ~ Linked(e)'
    <3> SUFFICES ASSUME NEW e \in Executions, exec'[e].frees > 0
                 PROVE  exec'[e].frees = 1 /\ ~ Linked(e)'
      OBVIOUS
    <3>1. e # e0
      BY <1>5, <1>8
    <3> QED
      BY <1>8, <1>16, <3>1 DEF FreeInv, Freeing
  <2>3. ASSUME NEW u \in Threads, InExecute(u)'
        PROVE  /\ exec'[ExecOf(u)'].frees = 0 /\ exec'[ExecOf(u)'].caller # None
               /\ cop'[u].at = "execute" /\ u \notin ewait'[ExecOf(u)'] => ~ Linked(ExecOf(u))'
    <3>1. CASE u = t
      <4>1. Fid[t] # None
        BY QueueAssumption
      <4> QED
        BY <1>5, <1>8, <1>12, <1>18, <3>1, <4>1
    <3>2. CASE u # t
      <4>1. InExecute(u) /\ ExecOf(u) \in Executions /\ ExecOf(u) # e0 /\ ExecOf(u)' = ExecOf(u)
        BY <1>17, <1>18, <1>19, <2>3, <3>2 DEF FreeInv, Places
      <4>2. /\ exec[ExecOf(u)].frees = 0 /\ exec[ExecOf(u)].caller # None
            /\ cop[u].at = "execute" /\ u \notin ewait[ExecOf(u)] => ~ Linked(ExecOf(u))
        BY <4>1 DEF FreeInv, Freeing
      <4>3. Linked(ExecOf(u))' <=> Linked(ExecOf(u))
        <5> DEFINE d == cop[u].call
                   k == cop[u].n
        <5>1. cop'[u] = cop[u] /\ d \in Calls /\ <<d, k>> # e0
          BY <1>12, <3>2, <4>1 DEF ExecOf, FreeInv, Places, InExecute
        <5>2. k \in ToSet(executions'[d]) <=> k \in ToSet(executions[d])
          BY <1>9, <1>13, <5>1
        <5> QED
          BY <5>1, <5>2 DEF Linked, ExecOf
      <4>4. exec'[ExecOf(u)] = exec[ExecOf(u)] /\ cop'[u] = cop[u] /\ ewait' = ewait
        BY <1>1, <1>8, <1>12, <3>2, <4>1
      <4> QED
        BY <4>1, <4>2, <4>3, <4>4
    <3> QED
      BY <3>1, <3>2
  <2> QED
    BY <2>1, <2>2, <2>3
<1>27. Keeping'
  <2>1. Orderly' <=> Orderly
    BY <1>1 DEF Orderly
  <2> SUFFICES ASSUME Orderly, NEW e \in Executions
               PROVE  /\ Linked(e)' => Waited(e)'
                      /\ Allocated(e)' /\ exec'[e].frees = 0 => Linked(e)' \/ Waited(e)'
    BY <2>1 DEF Keeping
  <2>2. CASE e = e0
    BY <1>16, <1>20, <2>2
  <2>3. CASE e # e0
    BY <1>8, <1>16, <1>20, <2>3 DEF FreeInv, Keeping, Allocated
  <2> QED
    BY <2>2, <2>3
<1> QED
  BY <1>21, <1>22, <1>23, <1>24, <1>25, <1>26, <1>27 DEF FreeInv

-----------------------------------------------------------------------------
(* The other handlers change a few things each; what they leave alone is   *)
(* stated once.  First the callers and who waits for what.                 *)
LEMMA SameCallers ==
  ASSUME FreeInv, \A u \in Threads : cop'[u] = cop[u] \/ (~ InExecute(u) /\ ~ InExecute(u)')
  PROVE  /\ \A u \in Threads : InExecute(u)' <=> InExecute(u)
         /\ \A u \in Threads : InExecute(u) => cop'[u] = cop[u] /\ ExecOf(u)' = ExecOf(u)
         /\ \A e \in Executions : Waited(e)' <=> Waited(e)
         /\ Alone'
<1>1. \A u \in Threads : InExecute(u)' <=> InExecute(u)
  BY DEF InExecute
<1>2. \A u \in Threads : InExecute(u) => cop'[u] = cop[u] /\ ExecOf(u)' = ExecOf(u)
  BY DEF ExecOf
<1>3. \A e \in Executions : Waited(e)' <=> Waited(e)
  <2>1. \A e \in Executions : Waited(e) <=> \E u \in Threads : InExecute(u) /\ ExecOf(u) = e
    BY DEF Waited, InExecute
  <2>2. \A e \in Executions : Waited(e)' <=> \E u \in Threads : InExecute(u)' /\ ExecOf(u)' = e
    BY DEF Waited, InExecute
  <2> QED
    BY <1>1, <1>2, <2>1, <2>2
<1>4. Alone'
  BY <1>1, <1>2 DEF FreeInv, Alone
<1> QED
  BY <1>1, <1>2, <1>3, <1>4

(* Where the threads are, when a thread goes to another place of the same  *)
(* kind or back to user space.                                             *)
LEMMA SamePlaces ==
  ASSUME FreeInv, UNCHANGED <<count, qop>>,
         \A u \in Threads :
           \/ cop'[u] = cop[u]
           \/ cop'[u].at = "user"
           \/ InExecute(u) /\ cop'[u].at = "execute" /\ cop'[u].call = cop[u].call /\ cop'[u].n = cop[u].n
           \/ /\ cop'[u].at \in {"return", "destroy"} /\ Q!InUser(u) /\ cop'[u].call \in Calls
              /\ cop'[u].at = "return" => <<cop'[u].call, cop'[u].n>> \in Executions
  PROVE  Places'
<1> SUFFICES ASSUME NEW u \in Threads
             PROVE  /\ cop'[u].at # "user" => cop'[u].call \in Calls
                    /\ InExecute(u)' \/ cop'[u].at \in {"return", "pending"} => ExecOf(u)' \in Executions
                    /\ InExecute(u)' => cop'[u].n <= count'[cop'[u].call]
                    /\ cop'[u].at \notin {"user", "processing"} => Q!InUser(u)'
  BY DEF Places
<1>1. /\ cop[u].at # "user" => cop[u].call \in Calls
      /\ InExecute(u) \/ cop[u].at \in {"return", "pending"} => ExecOf(u) \in Executions
      /\ InExecute(u) => cop[u].n <= count[cop[u].call]
      /\ cop[u].at \notin {"user", "processing"} => Q!InUser(u)
  BY DEF FreeInv, Places
<1>2. Q!InUser(u)' <=> Q!InUser(u)
  BY DEF Q!InUser
<1>3. CASE cop'[u] = cop[u]
  BY <1>1, <1>2, <1>3 DEF InExecute, ExecOf
<1>4. CASE cop'[u].at = "user"
  BY <1>4 DEF InExecute
<1>5. CASE InExecute(u) /\ cop'[u].at = "execute" /\ cop'[u].call = cop[u].call /\ cop'[u].n = cop[u].n
  BY <1>1, <1>2, <1>5 DEF InExecute, ExecOf
<1>6. CASE /\ cop'[u].at \in {"return", "destroy"} /\ Q!InUser(u) /\ cop'[u].call \in Calls
           /\ cop'[u].at = "return" => <<cop'[u].call, cop'[u].n>> \in Executions
  BY <1>2, <1>6 DEF InExecute, ExecOf
<1> QED
  BY <1>3, <1>4, <1>5, <1>6

(* The lists, when nothing is linked or unlinked.                          *)
LEMMA SameLists ==
  ASSUME TypeInv, FreeInv, UNCHANGED <<executions, count>>,
         \A c \in Calls : state'[c] = state[c] \/ executions[c] = <<>>,
         \A e \in Executions : /\ exec'[e].serial = exec[e].serial
                               /\ exec'[e].executed = exec[e].executed,
         \A c \in Calls, n \in 1..MaxCount : n > count[c] => exec'[<<c, n>>] = exec[<<c, n>>]
  PROVE  Listed' /\ \A e \in Executions : Linked(e)' <=> Linked(e)
<1>1. \A e \in Executions : Linked(e)' <=> Linked(e)
  BY DEF Linked
<1>2. Listed'
  <2> SUFFICES ASSUME NEW c \in Calls
               PROVE  /\ Falling(executions'[c])
                      /\ state'[c] # "live" => executions'[c] = <<>>
                      /\ Distinct(c)'
                      /\ \A n \in ToSet(executions'[c]) :
                           n <= count'[c] /\ exec'[<<c, n>>].serial # 0 /\ ~ exec'[<<c, n>>].executed
                      /\ \A n \in 1..MaxCount : n > count'[c] => exec'[<<c, n>>] = NoExecution
    BY DEF Listed
  <2>1. /\ Falling(executions[c])
        /\ state[c] # "live" => executions[c] = <<>>
        /\ Distinct(c)
        /\ \A n \in ToSet(executions[c]) :
             n <= count[c] /\ exec[<<c, n>>].serial # 0 /\ ~ exec[<<c, n>>].executed
        /\ \A n \in 1..MaxCount : n > count[c] => exec[<<c, n>>] = NoExecution
    BY DEF FreeInv, Listed
  <2>2. \A n \in ToSet(executions[c]) : <<c, n>> \in Executions
    BY OnList
  <2>3. \A n \in ToSet(executions[c]) : /\ exec'[<<c, n>>].serial = exec[<<c, n>>].serial
                                        /\ exec'[<<c, n>>].executed = exec[<<c, n>>].executed
    BY <2>2
  <2>4. Distinct(c)'
    BY <2>1, <2>3 DEF Distinct
  <2> QED
    BY <2>1, <2>3, <2>4
<1> QED
  BY <1>1, <1>2

(* Who holds a call, when t lets one go or holds none.                     *)
LEMMA LetGo ==
  ASSUME TypeInv, FreeInv, NEW t \in Threads,
         \A u \in Threads : u # t => cop'[u] = cop[u],
         ~ Locking(t)', executions' = executions,
         \/ clock' = clock
         \/ Locking(t) /\ clock' = [clock EXCEPT ![cop[t].call] = None]
  PROVE  Locked'
<1> SUFFICES ASSUME NEW u \in Threads, Locking(u)'
             PROVE  /\ clock'[cop'[u].call] = u
                    /\ cop'[u].at = "return" => ~ Linked(ExecOf(u))'
                    /\ cop'[u].at = "destroy" => executions'[cop'[u].call] = <<>>
  BY DEF Locked
<1>1. u # t /\ cop'[u] = cop[u] /\ Locking(u)
  BY DEF Locking
<1>2. /\ clock[cop[u].call] = u
      /\ cop[u].at = "return" => ~ Linked(ExecOf(u))
      /\ cop[u].at = "destroy" => executions[cop[u].call] = <<>>
  BY <1>1 DEF FreeInv, Locked
<1>3. clock'[cop[u].call] = u
  <2>1. CASE clock' = clock
    BY <1>2, <2>1
  <2>2. CASE Locking(t) /\ clock' = [clock EXCEPT ![cop[t].call] = None]
    <3>1. clock[cop[t].call] = t /\ cop[t].call # cop[u].call
      BY <1>1, <1>2, <2>2 DEF FreeInv, Locked
    <3>2. clock \in [Calls -> Threads \cup {None}] /\ cop[u].call \in Calls
      BY <1>1 DEF TypeInv, LockTypes, FreeInv, Places, Locking
    <3> QED
      BY <1>2, <2>2, <3>1, <3>2
  <2> QED
    BY <2>1, <2>2
<1>4. Linked(ExecOf(u))' <=> Linked(ExecOf(u))
  BY <1>1 DEF Linked, ExecOf
<1> QED
  BY <1>1, <1>2, <1>3, <1>4

-----------------------------------------------------------------------------
(* The caller goes to sleep.                                               *)
LEMMA SleepFree ==
  ASSUME TypeInv, TypeInv', FreeInv, NEW t \in Threads, ExecuteSleep(t)
  PROVE  FreeInv'
<1>1. /\ cop[t].at = "transfer"
      /\ ewait' = [ewait EXCEPT ![ExecOf(t)] = @ \cup {t}]
      /\ clock' = [clock EXCEPT ![cop[t].call] = None]
      /\ cop' = [cop EXCEPT ![t].at = "execute"]
      /\ UNCHANGED <<listed, qop, state, count, executions, exec, dev>>
  BY DEF ExecuteSleep, msgVars, listVars, devVars
<1>2. /\ cop'[t].at = "execute" /\ cop'[t].call = cop[t].call /\ cop'[t].n = cop[t].n
      /\ \A u \in Threads : u # t => cop'[u] = cop[u]
  BY <1>1 DEF TypeInv, COp
<1>3. InExecute(t) /\ ExecOf(t) \in Executions
  BY <1>1 DEF InExecute, FreeInv, Places
<1>4. \A u \in Threads : (InExecute(u)' <=> InExecute(u)) /\ ExecOf(u)' = ExecOf(u)
  BY <1>1, <1>2 DEF InExecute, ExecOf
<1>5. \A e \in Executions : Waited(e)' <=> Waited(e)
  <2>1. \A e \in Executions : Waited(e) <=> \E u \in Threads : InExecute(u) /\ ExecOf(u) = e
    BY DEF Waited, InExecute
  <2>2. \A e \in Executions : Waited(e)' <=> \E u \in Threads : InExecute(u)' /\ ExecOf(u)' = e
    BY DEF Waited, InExecute
  <2> QED
    BY <1>4, <2>1, <2>2
<1>6. Listed' /\ \A e \in Executions : Linked(e)' <=> Linked(e)
  BY <1>1, SameLists
<1>7. Places'
  BY <1>1, <1>2, <1>3, SamePlaces
<1>8. Locked'
  BY <1>1, <1>2, LetGo DEF Locking
<1>9. Alone'
  BY <1>4 DEF FreeInv, Alone
<1>10. Budget'
  BY <1>1, <1>5, <1>6 DEF FreeInv, Budget
<1>11. Freeing'
  <2> SUFFICES ASSUME Stays
               PROVE  /\ listed' = Fusionees
                      /\ \A e \in Executions :
                           exec'[e].frees > 0 => exec'[e].frees = 1 /\ ~ Linked(e)'
                      /\ \A u \in Threads : InExecute(u)' =>
                           /\ exec'[ExecOf(u)'].frees = 0 /\ exec'[ExecOf(u)'].caller # None
                           /\ cop'[u].at = "execute" /\ u \notin ewait'[ExecOf(u)'] => ~ Linked(ExecOf(u))'
    BY <1>1 DEF Freeing, Stays
  <2>1. listed' = Fusionees /\ \A e \in Executions : exec'[e].frees > 0 => exec'[e].frees = 1 /\ ~ Linked(e)'
    BY <1>1, <1>6 DEF FreeInv, Freeing
  <2>2. ASSUME NEW u \in Threads, InExecute(u)'
        PROVE  /\ exec'[ExecOf(u)'].frees = 0 /\ exec'[ExecOf(u)'].caller # None
               /\ cop'[u].at = "execute" /\ u \notin ewait'[ExecOf(u)'] => ~ Linked(ExecOf(u))'
    <3>1. InExecute(u) /\ ExecOf(u)' = ExecOf(u) /\ ExecOf(u) \in Executions
      BY <1>4, <2>2 DEF FreeInv, Places
    <3>2. /\ exec[ExecOf(u)].frees = 0 /\ exec[ExecOf(u)].caller # None
          /\ cop[u].at = "execute" /\ u \notin ewait[ExecOf(u)] => ~ Linked(ExecOf(u))
      BY <3>1 DEF FreeInv, Freeing
    <3>3. ewait \in [Executions -> SUBSET Threads]
      BY DEF TypeInv, ExecTypes
    <3>4. (u \in ewait[ExecOf(u)] => u \in ewait'[ExecOf(u)]) /\ t \in ewait'[ExecOf(t)]
      BY <1>1, <1>3, <3>1, <3>3
    <3>5. Linked(ExecOf(u))' <=> Linked(ExecOf(u))
      BY <1>1, <3>1 DEF Linked
    <3> QED
      BY <1>1, <1>2, <3>1, <3>2, <3>4, <3>5
  <2> QED
    BY <2>1, <2>2
<1>12. Keeping'
  BY <1>1, <1>5, <1>6 DEF FreeInv, Keeping, Orderly, Allocated
<1> QED
  BY <1>6, <1>7, <1>8, <1>9, <1>10, <1>11, <1>12 DEF FreeInv

(* The caller is back, with its result or with a signal.                   *)
LEMMA BackFree ==
  ASSUME TypeInv, TypeInv', FreeInv, NEW t \in Threads, CallerWoken(t) \/ CallerSignal(t)
  PROVE  FreeInv'
<1>1. /\ cop[t].at = "execute" /\ cop' = [cop EXCEPT ![t] = User]
      /\ UNCHANGED <<listed, qop, state, count, executions, clock, dev>>
  BY DEF CallerWoken, CallerSignal, msgVars, listVars, lockVars, devVars
<1>2. cop'[t].at = "user" /\ \A u \in Threads : u # t => cop'[u] = cop[u]
  BY <1>1 DEF TypeInv, User
<1>3. InExecute(t) /\ ~ InExecute(t)' /\ ExecOf(t) \in Executions
  BY <1>1, <1>2 DEF InExecute, FreeInv, Places
<1>4. PICK e0 \in Executions : e0 = ExecOf(t)
  BY <1>3
<1>5. \A u \in Threads : u # t => (InExecute(u)' <=> InExecute(u)) /\ ExecOf(u)' = ExecOf(u)
  BY <1>2 DEF InExecute, ExecOf
<1>6. \A u \in Threads : u # t /\ InExecute(u) => ExecOf(u) # e0
  BY <1>3, <1>4 DEF FreeInv, Alone
<1>7. exec[e0] \in ExecutionObject
  BY DEF TypeInv, ExecTypes
<1>8. \/ /\ t \notin ewait[e0] /\ ewait' = ewait
         /\ exec' = [exec EXCEPT ![e0].frees = @ + 1]
      \/ /\ "signal" \in dev.env
         /\ exec' = [exec EXCEPT ![e0].caller = None]
         /\ ewait' = [ewait EXCEPT ![e0] = @ \ {t}]
  BY <1>4 DEF CallerWoken, CallerSignal
<1>9. \A c \in Calls, n \in 1..MaxCount : n > count[c] => <<c, n>> # e0
  <2> SUFFICES ASSUME NEW c \in Calls, NEW n \in 1..MaxCount, n > count[c], <<c, n>> = e0 PROVE FALSE
    OBVIOUS
  <2>1. cop[t].n = n /\ cop[t].call = c
    BY <1>4 DEF ExecOf
  <2>2. n <= count[c]
    BY <1>3, <2>1 DEF FreeInv, Places
  <2>3. n \in Int /\ count[c] \in Int
    BY DEF TypeInv, ListTypes
  <2> QED
    BY <2>2, <2>3
<1>10. /\ \A e \in Executions : e # e0 => exec'[e] = exec[e] /\ ewait'[e] = ewait[e]
       /\ exec'[e0].serial = exec[e0].serial /\ exec'[e0].executed = exec[e0].executed
       /\ \/ t \notin ewait[e0] /\ exec'[e0].frees = exec[e0].frees + 1
          \/ "signal" \in dev.env /\ exec'[e0].frees = exec[e0].frees
  <2>1. exec \in [Executions -> ExecutionObject] /\ ewait \in [Executions -> SUBSET Threads]
    BY DEF TypeInv, ExecTypes
  <2>2. CASE /\ t \notin ewait[e0] /\ ewait' = ewait
             /\ exec' = [exec EXCEPT ![e0].frees = @ + 1]
    BY <1>7, <2>1, <2>2 DEF ExecutionObject
  <2>3. CASE /\ "signal" \in dev.env
             /\ exec' = [exec EXCEPT ![e0].caller = None]
             /\ ewait' = [ewait EXCEPT ![e0] = @ \ {t}]
    BY <1>7, <2>1, <2>3 DEF ExecutionObject
  <2> QED
    BY <1>8, <2>2, <2>3
<1>11. /\ \A e \in Executions : e # e0 => (Waited(e)' <=> Waited(e))
       /\ Waited(e0) /\ ~ Waited(e0)'
  <2>1. \A e \in Executions : Waited(e) <=> \E u \in Threads : InExecute(u) /\ ExecOf(u) = e
    BY DEF Waited, InExecute
  <2>2. \A e \in Executions : Waited(e)' <=> \E u \in Threads : InExecute(u)' /\ ExecOf(u)' = e
    BY DEF Waited, InExecute
  <2> QED
    BY <1>3, <1>4, <1>5, <1>6, <2>1, <2>2
<1>12. Listed' /\ \A e \in Executions : Linked(e)' <=> Linked(e)
  <2>1. \A e \in Executions : exec'[e].serial = exec[e].serial /\ exec'[e].executed = exec[e].executed
    BY <1>10
  <2>2. \A c \in Calls, n \in 1..MaxCount : n > count[c] => exec'[<<c, n>>] = exec[<<c, n>>]
    BY <1>9, <1>10 DEF Executions
  <2> QED
    BY <1>1, <2>1, <2>2, SameLists
<1>13. Places'
  BY <1>1, <1>2, SamePlaces
<1>14. Locked'
  BY <1>1, <1>2, LetGo DEF Locking
<1>15. Alone'
  <2>1. \A u \in Threads : InExecute(u)' => u # t
    BY <1>3
  <2> QED
    BY <1>5, <2>1 DEF FreeInv, Alone
<1>16. Budget'
  <2> SUFFICES ASSUME NEW e \in Executions
               PROVE  /\ exec'[e].frees <= 2
                      /\ Linked(e)' \/ Waited(e)' => exec'[e].frees <= 1
                      /\ Linked(e)' /\ Waited(e)' => exec'[e].frees = 0
    BY DEF Budget
  <2>1. CASE e # e0
    BY <1>10, <1>11, <1>12, <2>1 DEF FreeInv, Budget
  <2>2. CASE e = e0
    <3>1. exec[e0].frees \in Nat /\ exec[e0].frees <= 1 /\ (Linked(e0) => exec[e0].frees = 0)
      BY <1>7, <1>11 DEF FreeInv, Budget, ExecutionObject
    <3>2. exec'[e0].frees \in {exec[e0].frees, exec[e0].frees + 1}
      BY <1>10
    <3>3. (Linked(e0)' <=> Linked(e0)) /\ ~ Waited(e0)'
      BY <1>11, <1>12
    <3>4. exec'[e0].frees <= 2
      BY <3>1, <3>2
    <3>5. Linked(e0) => exec'[e0].frees <= 1
      BY <3>1, <3>2
    <3> QED
      BY <2>2, <3>3, <3>4, <3>5
  <2> QED
    BY <2>1, <2>2
<1>17. Freeing'
  <2> SUFFICES ASSUME Stays
               PROVE  /\ listed' = Fusionees
                      /\ \A e \in Executions :
                           exec'[e].frees > 0 => exec'[e].frees = 1 /\ ~ Linked(e)'
                      /\ \A u \in Threads : InExecute(u)' =>
                           /\ exec'[ExecOf(u)'].frees = 0 /\ exec'[ExecOf(u)'].caller # None
                           /\ cop'[u].at = "execute" /\ u \notin ewait'[ExecOf(u)'] => ~ Linked(ExecOf(u))'
    BY <1>1 DEF Freeing, Stays
  <2>1. listed' = Fusionees
    BY <1>1 DEF FreeInv, Freeing
  <2>2. exec[e0].frees = 0 /\ (t \notin ewait[e0] => ~ Linked(e0))
    BY <1>1, <1>3, <1>4 DEF FreeInv, Freeing
  <2>3. \A e \in Executions : exec'[e].frees > 0 => exec'[e].frees = 1 /\ ~ Linked(e)'
    <3> SUFFICES ASSUME NEW e \in Executions, exec'[e].frees > 0
                 PROVE  exec'[e].frees = 1 /\ ~ Linked(e)'
      OBVIOUS
    <3>1. CASE e = e0
      BY <1>10, <1>12, <2>2, <3>1
    <3>2. CASE e # e0
      BY <1>10, <1>12, <3>2 DEF FreeInv, Freeing
    <3> QED
      BY <3>1, <3>2
  <2>4. ASSUME NEW u \in Threads, InExecute(u)'
        PROVE  /\ exec'[ExecOf(u)'].frees = 0 /\ exec'[ExecOf(u)'].caller # None
               /\ cop'[u].at = "execute" /\ u \notin ewait'[ExecOf(u)'] => ~ Linked(ExecOf(u))'
    <3>1. u # t /\ InExecute(u) /\ ExecOf(u) \in Executions /\ ExecOf(u) # e0 /\ ExecOf(u)' = ExecOf(u)
      BY <1>3, <1>5, <1>6, <2>4 DEF FreeInv, Places
    <3>2. /\ exec[ExecOf(u)].frees = 0 /\ exec[ExecOf(u)].caller # None
          /\ cop[u].at = "execute" /\ u \notin ewait[ExecOf(u)] => ~ Linked(ExecOf(u))
      BY <3>1 DEF FreeInv, Freeing
    <3>3. Linked(ExecOf(u))' <=> Linked(ExecOf(u))
      BY <1>1, <3>1 DEF Linked
    <3>4. exec'[ExecOf(u)] = exec[ExecOf(u)] /\ ewait'[ExecOf(u)] = ewait[ExecOf(u)] /\ cop'[u] = cop[u]
      BY <1>2, <1>10, <3>1
    <3> QED
      BY <3>1, <3>2, <3>3, <3>4
  <2> QED
    BY <2>1, <2>3, <2>4
<1>18. Keeping'
  <2> SUFFICES ASSUME Orderly, NEW e \in Executions
               PROVE  /\ Linked(e)' => Waited(e)'
                      /\ Allocated(e)' /\ exec'[e].frees = 0 => Linked(e)' \/ Waited(e)'
    BY <1>1 DEF Keeping, Orderly
  <2>1. CASE e = e0
    <3>1. Stays /\ "signal" \notin dev.env
      BY DEF Orderly, Stays
    <3>2. t \notin ewait[e0] /\ exec'[e0].frees = exec[e0].frees + 1
      BY <1>10, <3>1
    <3>3. ~ Linked(e0) /\ exec[e0].frees = 0
      BY <1>1, <1>3, <1>4, <3>1, <3>2 DEF FreeInv, Freeing
    <3> QED
      BY <1>12, <2>1, <3>2, <3>3
  <2>2. CASE e # e0
    BY <1>10, <1>11, <1>12, <2>2 DEF FreeInv, Keeping, Allocated
  <2> QED
    BY <2>1, <2>2
<1> QED
  BY <1>12, <1>13, <1>14, <1>15, <1>16, <1>17, <1>18 DEF FreeInv

-----------------------------------------------------------------------------
(* The execution of a return is taken off its list.                        *)
LEMMA FallingPicked ==
  ASSUME NEW s \in Seq(1..MaxCount), NEW I \in SUBSET DOMAIN s, NEW u \in Seq(1..MaxCount),
         Picks(u, s, I), Falling(s)
  PROVE  Falling(u)
<1>1. PICK g \in [1..Len(u) -> I] : /\ \A j \in 1..Len(u) : u[j] = s[g[j]]
                                    /\ \A j, k \in 1..Len(u) : j < k => g[j] < g[k]
  BY DEF Picks
<1>2. DOMAIN u = 1..Len(u)
  OBVIOUS
<1> SUFFICES ASSUME NEW i \in DOMAIN u, NEW j \in DOMAIN u, i < j PROVE u[i] > u[j]
  BY DEF Falling
<1>3. g[i] \in DOMAIN s /\ g[j] \in DOMAIN s /\ g[i] < g[j]
  BY <1>1, <1>2
<1>4. s[g[i]] > s[g[j]]
  BY <1>3 DEF Falling
<1> QED
  BY <1>1, <1>2, <1>4

LEMMA Unlinked ==
  ASSUME TypeInv, FreeInv, NEW c \in Calls, NEW sn, Candidates(c, sn) # {}, Unlink(c, sn),
         NEW n, n = Found(c, sn)
  PROVE  /\ n \in ToSet(executions[c]) /\ n \in 1..MaxCount /\ <<c, n>> \in Executions
         /\ Falling(executions'[c]) /\ ToSet(executions'[c]) = ToSet(executions[c]) \ {n}
         /\ \A d \in Calls : d # c => executions'[d] = executions[d]
         /\ \A e \in Executions : Linked(e)' <=> Linked(e) /\ e # <<c, n>>
<1> DEFINE s == executions[c]
           i == FoundAt(c, sn)
           I == DOMAIN s \ {i}
           u == RemoveAt(s, i)
<1>1. i \in DOMAIN s /\ n = s[i] /\ n \in 1..MaxCount /\ <<c, n>> \in Executions
  BY FoundOldest DEF Found
<1>2. s \in Seq(1..MaxCount) /\ Falling(s)
  BY OnList
<1>3. executions'[c] = u /\ \A d \in Calls : d # c => executions'[d] = executions[d]
  BY DEF Unlink, TypeInv, ListTypes
<1> HIDE DEF s, i, u
<1>4. u \in Seq(1..MaxCount) /\ Picks(u, s, I) /\ I \in SUBSET DOMAIN s
  BY <1>1, <1>2, RemovePicks DEF u
<1>5. ToSet(u) = {s[j] : j \in I} /\ Falling(u)
  BY <1>2, <1>4, PicksToSet, FallingPicked
<1>6. \A j \in DOMAIN s : j # i => s[j] # s[i]
  <2> SUFFICES ASSUME NEW j \in DOMAIN s, j # i, s[j] = s[i] PROVE FALSE
    OBVIOUS
  <2>1. i \in Int /\ j \in Int /\ s[i] \in 1..MaxCount
    BY <1>1, <1>2
  <2>2. i < j \/ j < i
    BY <2>1
  <2>3. s[i] > s[j] \/ s[j] > s[i]
    BY <1>1, <1>2, <2>2 DEF Falling
  <2> QED
    BY <2>1, <2>3
<1>7. ToSet(u) = ToSet(s) \ {n}
  <2>1. ToSet(s) = {s[j] : j \in DOMAIN s}
    BY DEF ToSet
  <2>2. \A x : x \in ToSet(s) /\ x # n <=> \E j \in I : x = s[j]
    BY <1>1, <1>6, <2>1
  <2> QED
    BY <1>5, <2>2
<1>8. n \in ToSet(s)
  BY <1>1 DEF ToSet
<1>9. \A e \in Executions : Linked(e)' <=> Linked(e) /\ e # <<c, n>>
  <2> SUFFICES ASSUME NEW d \in Calls, NEW k \in 1..MaxCount
               PROVE  Linked(<<d, k>>)' <=> Linked(<<d, k>>) /\ <<d, k>> # <<c, n>>
    BY DEF Executions
  <2>1. Linked(<<d, k>>)' <=> k \in ToSet(executions'[d])
    BY DEF Linked
  <2>2. Linked(<<d, k>>) <=> k \in ToSet(executions[d])
    BY DEF Linked
  <2>3. CASE d = c
    BY <1>3, <1>7, <2>1, <2>2, <2>3 DEF s
  <2>4. CASE d # c
    BY <1>3, <2>1, <2>2, <2>4
  <2> QED
    BY <2>3, <2>4
<1> QED
  BY <1>1, <1>3, <1>5, <1>7, <1>8, <1>9 DEF s

(* A return, to a caller or to nobody.                                     *)
LEMMA UnlinkFree ==
  ASSUME TypeInv, TypeInv', FreeInv, NEW t \in Threads, NEW c \in Calls, NEW sn, NEW n,
         Candidates(c, sn) # {}, n = Found(c, sn), Lockable(c), Free(t), Unlink(c, sn),
         UNCHANGED <<listed, qop, state, count, ewait, dev>>,
         \A e \in Executions : e # <<c, n>> => exec'[e] = exec[e],
         exec'[<<c, n>>].serial = exec[<<c, n>>].serial, exec'[<<c, n>>].caller = exec[<<c, n>>].caller,
         \/ /\ exec'[<<c, n>>].frees = exec[<<c, n>>].frees
            /\ clock' = [clock EXCEPT ![c] = t]
            /\ cop' = [cop EXCEPT ![t] = In("return", c, n)]
         \/ /\ exec[<<c, n>>].caller = None /\ exec'[<<c, n>>].frees = exec[<<c, n>>].frees + 1
            /\ clock' = clock /\ cop' = cop
  PROVE  FreeInv'
<1>1. PICK e0 : e0 = <<c, n>>
  OBVIOUS
<1>2. /\ n \in ToSet(executions[c]) /\ n \in 1..MaxCount /\ e0 \in Executions
      /\ Falling(executions'[c]) /\ ToSet(executions'[c]) = ToSet(executions[c]) \ {n}
      /\ \A d \in Calls : d # c => executions'[d] = executions[d]
      /\ \A e \in Executions : Linked(e)' <=> Linked(e) /\ e # e0
  BY <1>1, Unlinked
<1>3. state[c] = "live" /\ clock[c] = None /\ cop[t].at = "user" /\ Q!InUser(t)
  BY DEF Lockable, Free
<1>4. \A e \in Executions : e # e0 => exec'[e] = exec[e]
  BY <1>1
<1>5. exec'[e0].serial = exec[e0].serial /\ exec'[e0].caller = exec[e0].caller
  BY <1>1
<1>6. /\ \A u \in Threads : u # t => cop'[u] = cop[u]
      /\ \/ cop'[t] = In("return", c, n) /\ clock' = [clock EXCEPT ![c] = t]
         \/ cop'[t] = cop[t] /\ clock' = clock
      /\ cop'[t].at = "return" => cop'[t].call = c /\ cop'[t].n = n
      /\ cop'[t].at \in {"return", "user"}
  <2>1. In("return", c, n).at = "return" /\ In("return", c, n).call = c /\ In("return", c, n).n = n
    BY DEF In
  <2> QED
    BY <1>3, <2>1 DEF TypeInv
<1>7. exec[e0].frees \in Nat /\ Linked(e0) /\ ~ exec[e0].executed
  <2>1. exec[e0] \in ExecutionObject
    BY <1>2 DEF TypeInv, ExecTypes
  <2>2. ~ exec[e0].executed
    BY <1>1, <1>2, OnList
  <2>3. Linked(e0)
    BY <1>1, <1>2, OnList
  <2> QED
    BY <2>1, <2>2, <2>3 DEF ExecutionObject
<1>8. \A u \in Threads : cop'[u] = cop[u] \/ (~ InExecute(u) /\ ~ InExecute(u)')
  BY <1>3, <1>6 DEF InExecute
<1>9. /\ \A u \in Threads : InExecute(u)' <=> InExecute(u)
      /\ \A u \in Threads : InExecute(u) => cop'[u] = cop[u] /\ ExecOf(u)' = ExecOf(u)
      /\ \A e \in Executions : Waited(e)' <=> Waited(e)
      /\ Alone'
  BY <1>8, SameCallers
<1>10. \/ exec'[e0].frees = exec[e0].frees
       \/ exec[e0].caller = None /\ exec'[e0].frees = exec[e0].frees + 1
  BY <1>1
<1>11. Places'
  <2>1. \A u \in Threads :
          \/ cop'[u] = cop[u]
          \/ /\ cop'[u].at \in {"return", "destroy"} /\ Q!InUser(u) /\ cop'[u].call \in Calls
             /\ cop'[u].at = "return" => <<cop'[u].call, cop'[u].n>> \in Executions
    <3> SUFFICES ASSUME NEW u \in Threads, cop'[u] # cop[u]
                 PROVE  /\ cop'[u].at \in {"return", "destroy"} /\ Q!InUser(u) /\ cop'[u].call \in Calls
                        /\ cop'[u].at = "return" => <<cop'[u].call, cop'[u].n>> \in Executions
      OBVIOUS
    <3>1. u = t /\ cop'[t] = In("return", c, n)
      BY <1>6
    <3>2. cop'[t].at = "return"
      BY <3>1 DEF In
    <3> QED
      BY <1>1, <1>2, <1>3, <1>6, <3>1, <3>2
  <2> QED
    BY <2>1, SamePlaces
<1>12. Locked'
  <2> SUFFICES ASSUME NEW u \in Threads, Locking(u)'
               PROVE  /\ clock'[cop'[u].call] = u
                      /\ cop'[u].at = "return" => ~ Linked(ExecOf(u))'
                      /\ cop'[u].at = "destroy" => executions'[cop'[u].call] = <<>>
    BY DEF Locked
  <2>1. CASE u = t
    <3>1. cop'[t].at = "return" /\ cop'[t].call = c /\ cop'[t].n = n
      BY <1>6, <2>1 DEF Locking
    <3>2. clock' = [clock EXCEPT ![c] = t]
      BY <1>3, <1>6, <3>1
    <3>3. clock'[c] = t
      BY <3>2 DEF TypeInv, LockTypes
    <3>4. n \notin ToSet(executions'[c])
      BY <1>2
    <3>5. ~ Linked(ExecOf(t))'
      BY <3>1, <3>4 DEF Linked, ExecOf
    <3> QED
      BY <2>1, <3>1, <3>3, <3>5
  <2>2. CASE u # t
    <3>1. Locking(u) /\ cop'[u] = cop[u] /\ cop[u].call \in Calls
      BY <1>6, <2>2 DEF Locking, FreeInv, Places
    <3>2. /\ clock[cop[u].call] = u
          /\ cop[u].at = "return" => ~ Linked(ExecOf(u))
          /\ cop[u].at = "destroy" => executions[cop[u].call] = <<>>
      BY <3>1 DEF FreeInv, Locked
    <3>3. cop[u].call # c
      BY <1>3, <3>2, QueueAssumption
    <3>4. executions'[cop[u].call] = executions[cop[u].call]
      BY <1>2, <3>1, <3>3
    <3>5. clock'[cop[u].call] = u
      BY <1>6, <3>1, <3>2, <3>3 DEF TypeInv, LockTypes
    <3>6. Linked(ExecOf(u))' <=> Linked(ExecOf(u))
      BY <3>1, <3>4 DEF Linked, ExecOf
    <3> QED
      BY <3>1, <3>2, <3>4, <3>5, <3>6
  <2> QED
    BY <2>1, <2>2
<1>13. Listed'
  <2> SUFFICES ASSUME NEW d \in Calls
               PROVE  /\ Falling(executions'[d])
                      /\ state'[d] # "live" => executions'[d] = <<>>
                      /\ Distinct(d)'
                      /\ \A k \in ToSet(executions'[d]) :
                           k <= count'[d] /\ exec'[<<d, k>>].serial # 0 /\ ~ exec'[<<d, k>>].executed
                      /\ \A k \in 1..MaxCount : k > count'[d] => exec'[<<d, k>>] = NoExecution
    BY DEF Listed
  <2>1. /\ Falling(executions[d])
        /\ state[d] # "live" => executions[d] = <<>>
        /\ Distinct(d)
        /\ \A k \in ToSet(executions[d]) :
             k <= count[d] /\ exec[<<d, k>>].serial # 0 /\ ~ exec[<<d, k>>].executed
        /\ \A k \in 1..MaxCount : k > count[d] => exec[<<d, k>>] = NoExecution
    BY DEF FreeInv, Listed
  <2>2. ToSet(executions'[d]) \subseteq ToSet(executions[d])
    BY <1>2
  <2>3. \A k \in ToSet(executions'[d]) : <<d, k>> \in Executions /\ <<d, k>> # e0
    <3> SUFFICES ASSUME NEW k \in ToSet(executions'[d]), <<d, k>> = e0 PROVE FALSE
      BY <2>2, OnList
    <3>1. d = c /\ k = n
      BY <1>1
    <3> QED
      BY <1>2, <3>1
  <2>4. \A k \in ToSet(executions'[d]) : exec'[<<d, k>>] = exec[<<d, k>>]
    BY <1>4, <2>3
  <2>5. Distinct(d)'
    BY <2>1, <2>2, <2>4 DEF Distinct
  <2>6. \A k \in 1..MaxCount : k > count'[d] => exec'[<<d, k>>] = NoExecution
    <3> SUFFICES ASSUME NEW k \in 1..MaxCount, k > count[d] PROVE exec'[<<d, k>>] = NoExecution
      OBVIOUS
    <3>1. <<d, k>> # e0
      <4> SUFFICES ASSUME d = c, k = n PROVE FALSE
        BY <1>1
      <4>1. n <= count[c] /\ n \in Int /\ count[c] \in Int
        BY <1>2, OnList
      <4> QED
        BY <4>1
    <3>2. <<d, k>> \in Executions
      BY DEF Executions
    <3> QED
      BY <1>4, <2>1, <3>1, <3>2
  <2>7. Falling(executions'[d]) /\ (state'[d] # "live" => executions'[d] = <<>>)
    <3>1. CASE d = c
      BY <1>2, <1>3, <3>1
    <3>2. CASE d # c
      BY <1>2, <2>1, <3>2
    <3> QED
      BY <3>1, <3>2
  <2> QED
    BY <2>1, <2>2, <2>4, <2>5, <2>6, <2>7
<1>14. Budget'
  <2> SUFFICES ASSUME NEW e \in Executions
               PROVE  /\ exec'[e].frees <= 2
                      /\ Linked(e)' \/ Waited(e)' => exec'[e].frees <= 1
                      /\ Linked(e)' /\ Waited(e)' => exec'[e].frees = 0
    BY DEF Budget
  <2>1. CASE e # e0
    BY <1>2, <1>4, <1>9, <2>1 DEF FreeInv, Budget
  <2>2. CASE e = e0
    <3>1. exec[e0].frees <= 1 /\ (Waited(e0) => exec[e0].frees = 0)
      BY <1>2, <1>7 DEF FreeInv, Budget
    <3>2. exec'[e0].frees \in {exec[e0].frees, exec[e0].frees + 1}
      BY <1>10
    <3>3. ~ Linked(e0)' /\ (Waited(e0)' <=> Waited(e0))
      BY <1>2, <1>9
    <3>4. exec'[e0].frees <= 2
      BY <1>7, <3>1, <3>2
    <3>5. Waited(e0) => exec'[e0].frees <= 1
      BY <1>7, <3>1, <3>2
    <3> QED
      BY <2>2, <3>3, <3>4, <3>5
  <2> QED
    BY <2>1, <2>2
<1>15. Freeing'
  <2> SUFFICES ASSUME Stays
               PROVE  /\ listed' = Fusionees
                      /\ \A e \in Executions :
                           exec'[e].frees > 0 => exec'[e].frees = 1 /\ ~ Linked(e)'
                      /\ \A u \in Threads : InExecute(u)' =>
                           /\ exec'[ExecOf(u)'].frees = 0 /\ exec'[ExecOf(u)'].caller # None
                           /\ cop'[u].at = "execute" /\ u \notin ewait'[ExecOf(u)'] => ~ Linked(ExecOf(u))'
    BY DEF Freeing, Stays
  <2>1. listed' = Fusionees
    BY DEF FreeInv, Freeing
  <2>2. exec[e0].frees = 0
    <3>1. ~ (exec[e0].frees > 0)
      BY <1>2, <1>7 DEF FreeInv, Freeing
    <3> QED
      BY <1>7, <3>1
  <2>3. \A e \in Executions : exec'[e].frees > 0 => exec'[e].frees = 1 /\ ~ Linked(e)'
    <3> SUFFICES ASSUME NEW e \in Executions, exec'[e].frees > 0
                 PROVE  exec'[e].frees = 1 /\ ~ Linked(e)'
      OBVIOUS
    <3>1. CASE e = e0
      BY <1>2, <1>10, <2>2, <3>1
    <3>2. CASE e # e0
      BY <1>2, <1>4, <3>2 DEF FreeInv, Freeing
    <3> QED
      BY <3>1, <3>2
  <2>4. ASSUME NEW u \in Threads, InExecute(u)'
        PROVE  /\ exec'[ExecOf(u)'].frees = 0 /\ exec'[ExecOf(u)'].caller # None
               /\ cop'[u].at = "execute" /\ u \notin ewait'[ExecOf(u)'] => ~ Linked(ExecOf(u))'
    <3>1. InExecute(u) /\ ExecOf(u) \in Executions /\ ExecOf(u)' = ExecOf(u) /\ cop'[u] = cop[u]
      BY <1>9, <2>4 DEF FreeInv, Places
    <3>2. /\ exec[ExecOf(u)].frees = 0 /\ exec[ExecOf(u)].caller # None
          /\ cop[u].at = "execute" /\ u \notin ewait[ExecOf(u)] => ~ Linked(ExecOf(u))
      BY <3>1 DEF FreeInv, Freeing
    <3>3. exec'[ExecOf(u)].frees = 0 /\ exec'[ExecOf(u)].caller # None
      <4>1. CASE ExecOf(u) = e0
        BY <1>5, <1>10, <3>2, <4>1
      <4>2. CASE ExecOf(u) # e0
        BY <1>4, <3>1, <3>2, <4>2
      <4> QED
        BY <4>1, <4>2
    <3>4. Linked(ExecOf(u))' => Linked(ExecOf(u))
      <4> DEFINE d == cop[u].call
                 k == cop[u].n
      <4>1. d \in Calls /\ cop'[u] = cop[u]
        BY <3>1 DEF FreeInv, Places, InExecute
      <4>2. k \in ToSet(executions'[d]) => k \in ToSet(executions[d])
        BY <1>2, <4>1
      <4> QED
        BY <4>1, <4>2 DEF Linked, ExecOf
    <3> QED
      BY <3>1, <3>2, <3>3, <3>4
  <2> QED
    BY <2>1, <2>3, <2>4
<1>16. Keeping'
  <2> SUFFICES ASSUME Orderly, NEW e \in Executions
               PROVE  /\ Linked(e)' => Waited(e)'
                      /\ Allocated(e)' /\ exec'[e].frees = 0 => Linked(e)' \/ Waited(e)'
    BY DEF Keeping, Orderly
  <2>1. CASE e = e0
    BY <1>2, <1>7, <1>9, <2>1 DEF FreeInv, Keeping
  <2>2. CASE e # e0
    BY <1>2, <1>4, <1>9, <2>2 DEF FreeInv, Keeping, Allocated
  <2> QED
    BY <2>1, <2>2
<1> QED
  BY <1>9, <1>11, <1>12, <1>13, <1>14, <1>15, <1>16 DEF FreeInv

LEMMA ReturnFree ==
  ASSUME TypeInv, TypeInv', FreeInv, NEW t \in Threads, NEW i, Return(t, i) \/ ReturnToNobody(t, i)
  PROVE  FreeInv'
<1>1. PICK m, c, sn, n :
        /\ m = owed[Fid[t]][i] /\ c = m.id /\ sn = m.serial /\ n = Found(c, sn)
  OBVIOUS
<1>2. /\ Free(t) /\ MayAnswer(t, i) /\ Lockable(c) /\ Candidates(c, sn) # {} /\ Unlink(c, sn)
      /\ Answered(t, i)
      /\ UNCHANGED <<listed, qop, state, count, ewait, dev>>
      /\ \/ /\ exec' = [exec EXCEPT ![<<c, n>>].ret = m.n, ![<<c, n>>].executed = TRUE]
            /\ clock' = [clock EXCEPT ![c] = t]
            /\ cop' = [cop EXCEPT ![t] = In("return", c, n)]
         \/ /\ exec[<<c, n>>].caller = None
            /\ exec' = [exec EXCEPT ![<<c, n>>].frees = @ + 1]
            /\ clock' = clock /\ cop' = cop
  BY <1>1 DEF Return, ReturnToNobody, msgVars, lockVars, devVars
<1>3. c \in Calls
  BY <1>1, <1>2, AnswerTypes DEF CallMessage
<1>4. <<c, n>> \in Executions
  BY <1>1, <1>2, <1>3, FoundOldest
<1>5. exec[<<c, n>>] \in ExecutionObject /\ exec \in [Executions -> ExecutionObject]
  BY <1>4 DEF TypeInv, ExecTypes
<1>6. /\ \A e \in Executions : e # <<c, n>> => exec'[e] = exec[e]
      /\ exec'[<<c, n>>].serial = exec[<<c, n>>].serial /\ exec'[<<c, n>>].caller = exec[<<c, n>>].caller
      /\ \/ /\ exec'[<<c, n>>].frees = exec[<<c, n>>].frees
            /\ clock' = [clock EXCEPT ![c] = t]
            /\ cop' = [cop EXCEPT ![t] = In("return", c, n)]
         \/ /\ exec[<<c, n>>].caller = None /\ exec'[<<c, n>>].frees = exec[<<c, n>>].frees + 1
            /\ clock' = clock /\ cop' = cop
  <2>1. CASE /\ exec' = [exec EXCEPT ![<<c, n>>].ret = m.n, ![<<c, n>>].executed = TRUE]
             /\ clock' = [clock EXCEPT ![c] = t]
             /\ cop' = [cop EXCEPT ![t] = In("return", c, n)]
    BY <1>4, <1>5, <2>1 DEF ExecutionObject
  <2>2. CASE /\ exec[<<c, n>>].caller = None
             /\ exec' = [exec EXCEPT ![<<c, n>>].frees = @ + 1]
             /\ clock' = clock /\ cop' = cop
    BY <1>4, <1>5, <2>2 DEF ExecutionObject
  <2> QED
    BY <1>2, <2>1, <2>2
<1>7. /\ Candidates(c, sn) # {} /\ n = Found(c, sn) /\ Lockable(c) /\ Free(t) /\ Unlink(c, sn)
      /\ UNCHANGED <<listed, qop, state, count, ewait, dev>>
  BY <1>1, <1>2
<1> QED
  BY ONLY TypeInv, TypeInv', FreeInv, <1>3, <1>6, <1>7, UnlinkFree

(* Sleepers are woken when the execution is off the list.                  *)
LEMMA WakeFree ==
  ASSUME TypeInv, TypeInv', FreeInv, NEW t \in Threads, ReturnWake(t)
  PROVE  FreeInv'
<1>1. /\ cop[t].at = "return"
      /\ ewait' = [ewait EXCEPT ![ExecOf(t)] = {}]
      /\ clock' = [clock EXCEPT ![cop[t].call] = None]
      /\ cop' = [cop EXCEPT ![t] = User]
      /\ UNCHANGED <<listed, qop, state, count, executions, exec, dev>>
  BY DEF ReturnWake, msgVars, listVars, devVars
<1>2. cop'[t].at = "user" /\ \A u \in Threads : u # t => cop'[u] = cop[u]
  BY <1>1 DEF TypeInv, User
<1>3. \A u \in Threads : cop'[u] = cop[u] \/ (~ InExecute(u) /\ ~ InExecute(u)')
  BY <1>1, <1>2 DEF InExecute
<1>4. /\ \A u \in Threads : InExecute(u)' <=> InExecute(u)
      /\ \A u \in Threads : InExecute(u) => cop'[u] = cop[u] /\ ExecOf(u)' = ExecOf(u)
      /\ \A e \in Executions : Waited(e)' <=> Waited(e)
      /\ Alone'
  BY <1>3, SameCallers
<1>5. Listed' /\ \A e \in Executions : Linked(e)' <=> Linked(e)
  BY <1>1, SameLists
<1>6. ~ Linked(ExecOf(t)) /\ ExecOf(t) \in Executions
  BY <1>1 DEF FreeInv, Locked, Places, Locking
<1>7. Places'
  BY <1>1, <1>2, SamePlaces
<1>8. Locked'
  BY <1>1, <1>2, LetGo DEF Locking
<1>9. Budget'
  BY <1>1, <1>4, <1>5 DEF FreeInv, Budget
<1>10. Freeing'
  <2> SUFFICES ASSUME Stays
               PROVE  /\ listed' = Fusionees
                      /\ \A e \in Executions :
                           exec'[e].frees > 0 => exec'[e].frees = 1 /\ ~ Linked(e)'
                      /\ \A u \in Threads : InExecute(u)' =>
                           /\ exec'[ExecOf(u)'].frees = 0 /\ exec'[ExecOf(u)'].caller # None
                           /\ cop'[u].at = "execute" /\ u \notin ewait'[ExecOf(u)'] => ~ Linked(ExecOf(u))'
    BY <1>1 DEF Freeing, Stays
  <2>1. listed' = Fusionees /\ \A e \in Executions : exec'[e].frees > 0 => exec'[e].frees = 1 /\ ~ Linked(e)'
    BY <1>1, <1>5 DEF FreeInv, Freeing
  <2>2. ASSUME NEW u \in Threads, InExecute(u)'
        PROVE  /\ exec'[ExecOf(u)'].frees = 0 /\ exec'[ExecOf(u)'].caller # None
               /\ cop'[u].at = "execute" /\ u \notin ewait'[ExecOf(u)'] => ~ Linked(ExecOf(u))'
    <3>1. InExecute(u) /\ ExecOf(u)' = ExecOf(u) /\ ExecOf(u) \in Executions /\ cop'[u] = cop[u]
      BY <1>4, <2>2 DEF FreeInv, Places
    <3>2. /\ exec[ExecOf(u)].frees = 0 /\ exec[ExecOf(u)].caller # None
          /\ cop[u].at = "execute" /\ u \notin ewait[ExecOf(u)] => ~ Linked(ExecOf(u))
      BY <3>1 DEF FreeInv, Freeing
    <3>3. Linked(ExecOf(u))' <=> Linked(ExecOf(u))
      BY <1>1, <3>1 DEF Linked
    <3>4. ExecOf(u) = ExecOf(t) \/ ewait'[ExecOf(u)] = ewait[ExecOf(u)]
      BY <1>1, <3>1 DEF TypeInv, ExecTypes
    <3> QED
      BY <1>1, <1>6, <3>1, <3>2, <3>3, <3>4
  <2> QED
    BY <2>1, <2>2
<1>11. Keeping'
  BY <1>1, <1>4, <1>5 DEF FreeInv, Keeping, Orderly, Allocated
<1> QED
  BY <1>4, <1>5, <1>7, <1>8, <1>9, <1>10, <1>11 DEF FreeInv

(* A destroy that finds the call free and without executions has it.       *)
LEMMA LockFree ==
  ASSUME TypeInv, TypeInv', FreeInv, NEW t \in Threads, DestroyLock(t)
  PROVE  FreeInv'
<1>1. PICK c \in Calls : c = cop[t].call
  BY DEF DestroyLock, FreeInv, Places
<1>2. /\ cop[t].at = "processing" /\ Q!InUser(t) /\ clock[c] = None
      /\ UNCHANGED <<listed, qop, state, count, executions, exec, dev>>
  BY <1>1 DEF DestroyLock, msgVars, listVars, devVars
<1>3. \/ cop' = [cop EXCEPT ![t] = User] /\ UNCHANGED <<ewait, clock>>
      \/ /\ executions[c] = <<>> /\ cop' = [cop EXCEPT ![t] = In("destroy", c, 0)]
         /\ clock' = [clock EXCEPT ![c] = t] /\ UNCHANGED ewait
      \/ /\ executions[c] # <<>> /\ cop' = [cop EXCEPT ![t] = In("pending", c, executions[c][1])]
         /\ ewait' = [ewait EXCEPT ![<<c, executions[c][1]>>] = @ \cup {t}] /\ UNCHANGED clock
  BY <1>1 DEF DestroyLock
<1>4. \A u \in Threads : u # t => cop'[u] = cop[u]
  BY <1>3 DEF TypeInv
<1>5. \A d \in Calls : count[d] \in Int
  BY DEF TypeInv, ListTypes
<1>6. \A u \in Threads : u # t => cop'[u] = cop[u] /\ (cop[u].at \notin {"user", "processing"} => Q!InUser(u)')
  BY <1>2, <1>4 DEF FreeInv, Places, Q!InUser
<1>7. CASE cop' = [cop EXCEPT ![t] = User] /\ UNCHANGED <<ewait, clock>>
  <2>1. cop'[t].at = "user"
    BY <1>7 DEF TypeInv, User
  <2>2. Quiet
    BY <1>2, <1>5, <1>6, <1>7, <2>1 DEF Quiet, FreeInv, Listed
  <2> QED
    BY <2>2, QuietFree
<1>8. CASE /\ executions[c] # <<>> /\ cop' = [cop EXCEPT ![t] = In("pending", c, executions[c][1])]
           /\ ewait' = [ewait EXCEPT ![<<c, executions[c][1]>>] = @ \cup {t}] /\ UNCHANGED clock
  <2>1. PICK n : n = executions[c][1]
    OBVIOUS
  <2>2. n \in 1..MaxCount /\ <<c, n>> \in Executions
    <3>1. executions[c] \in Seq(1..MaxCount)
      BY OnList
    <3>2. 1 \in DOMAIN executions[c]
      BY <1>8, <3>1
    <3>3. n \in ToSet(executions[c])
      BY <2>1, <3>2 DEF ToSet
    <3> QED
      BY <3>3, OnList
  <2>3. cop'[t].at = "pending" /\ cop'[t].call = c /\ cop'[t].n = n
    BY <1>8, <2>1 DEF TypeInv, In
  <2>4. Q!InUser(t)'
    BY <1>2 DEF Q!InUser
  <2>5. ewait' = [ewait EXCEPT ![<<c, n>>] = @ \cup {t}]
    BY <1>8, <2>1
  <2>6. \A u \in Threads : InExecute(u) => (u \in ewait[ExecOf(u)] => u \in ewait'[ExecOf(u)])
    BY <2>5 DEF TypeInv, ExecTypes, FreeInv, Places
  <2>7. clock' = clock
    BY <1>8
  <2>8. Quiet
    BY <1>2, <1>5, <1>6, <2>2, <2>3, <2>4, <2>6, <2>7 DEF Quiet, FreeInv, Listed
  <2> QED
    BY <2>8, QuietFree
<1>9. CASE /\ executions[c] = <<>> /\ cop' = [cop EXCEPT ![t] = In("destroy", c, 0)]
           /\ clock' = [clock EXCEPT ![c] = t] /\ UNCHANGED ewait
  <2>1. cop'[t].at = "destroy" /\ cop'[t].call = c
    BY <1>9 DEF TypeInv, In
  <2>2. \A u \in Threads : cop'[u] = cop[u] \/ (~ InExecute(u) /\ ~ InExecute(u)')
    BY <1>2, <1>4, <2>1 DEF InExecute
  <2>3. /\ \A u \in Threads : InExecute(u)' <=> InExecute(u)
        /\ \A u \in Threads : InExecute(u) => cop'[u] = cop[u] /\ ExecOf(u)' = ExecOf(u)
        /\ \A e \in Executions : Waited(e)' <=> Waited(e)
        /\ Alone'
    BY <2>2, SameCallers
  <2>4. Listed' /\ \A e \in Executions : Linked(e)' <=> Linked(e)
    BY <1>2, SameLists
  <2>5. Places'
    BY <1>2, <1>4, <2>1, SamePlaces
  <2>6. Locked'
    <3> SUFFICES ASSUME NEW u \in Threads, Locking(u)'
                 PROVE  /\ clock'[cop'[u].call] = u
                        /\ cop'[u].at = "return" => ~ Linked(ExecOf(u))'
                        /\ cop'[u].at = "destroy" => executions'[cop'[u].call] = <<>>
      BY DEF Locked
    <3>1. CASE u = t
      <4>1. clock'[c] = t
        BY <1>9 DEF TypeInv, LockTypes
      <4> QED
        BY <1>2, <1>9, <2>1, <3>1, <4>1
    <3>2. CASE u # t
      <4>1. Locking(u) /\ cop'[u] = cop[u] /\ cop[u].call \in Calls
        BY <1>4, <3>2 DEF Locking, FreeInv, Places
      <4>2. /\ clock[cop[u].call] = u
            /\ cop[u].at = "return" => ~ Linked(ExecOf(u))
            /\ cop[u].at = "destroy" => executions[cop[u].call] = <<>>
        BY <4>1 DEF FreeInv, Locked
      <4>3. cop[u].call # c
        BY <1>2, <4>2, QueueAssumption
      <4>4. clock'[cop[u].call] = u
        BY <1>9, <4>1, <4>2, <4>3 DEF TypeInv, LockTypes
      <4>5. Linked(ExecOf(u))' <=> Linked(ExecOf(u))
        BY <1>2, <4>1 DEF Linked, ExecOf
      <4> QED
        BY <1>2, <4>1, <4>2, <4>4, <4>5
    <3> QED
      BY <3>1, <3>2
  <2>7. Budget'
    BY <1>2, <2>3, <2>4 DEF FreeInv, Budget
  <2>8. Freeing'
    <3> SUFFICES ASSUME Stays
                 PROVE  /\ listed' = Fusionees
                        /\ \A e \in Executions :
                             exec'[e].frees > 0 => exec'[e].frees = 1 /\ ~ Linked(e)'
                        /\ \A u \in Threads : InExecute(u)' =>
                             /\ exec'[ExecOf(u)'].frees = 0 /\ exec'[ExecOf(u)'].caller # None
                             /\ cop'[u].at = "execute" /\ u \notin ewait'[ExecOf(u)'] => ~ Linked(ExecOf(u))'
      BY <1>2 DEF Freeing, Stays
    <3>1. listed' = Fusionees /\ \A e \in Executions : exec'[e].frees > 0 => exec'[e].frees = 1 /\ ~ Linked(e)'
      BY <1>2, <2>4 DEF FreeInv, Freeing
    <3>2. ASSUME NEW u \in Threads, InExecute(u)'
          PROVE  /\ exec'[ExecOf(u)'].frees = 0 /\ exec'[ExecOf(u)'].caller # None
                 /\ cop'[u].at = "execute" /\ u \notin ewait'[ExecOf(u)'] => ~ Linked(ExecOf(u))'
      <4>1. InExecute(u) /\ ExecOf(u)' = ExecOf(u) /\ cop'[u] = cop[u] /\ ewait' = ewait /\ exec' = exec
        BY <1>2, <1>9, <2>3, <3>2
      <4>2. /\ exec[ExecOf(u)].frees = 0 /\ exec[ExecOf(u)].caller # None
            /\ cop[u].at = "execute" /\ u \notin ewait[ExecOf(u)] => ~ Linked(ExecOf(u))
        BY <4>1 DEF FreeInv, Freeing
      <4>3. Linked(ExecOf(u))' <=> Linked(ExecOf(u))
        BY <1>2, <4>1 DEF Linked
      <4> QED
        BY <4>1, <4>2, <4>3
    <3> QED
      BY <3>1, <3>2
  <2>9. Keeping'
    BY <1>2, <2>3, <2>4 DEF FreeInv, Keeping, Orderly, Allocated
  <2> QED
    BY <2>3, <2>4, <2>5, <2>6, <2>7, <2>8, <2>9 DEF FreeInv
<1> QED
  BY <1>3, <1>7, <1>8, <1>9

(* The calls in C go: what is on their lists is freed.                     *)
LEMMA Gone ==
  ASSUME TypeInv, FreeInv, NEW C \in SUBSET Calls, DestroyCalls(C)
  PROVE  /\ \A c \in Calls : executions'[c] = IF c \in C THEN <<>> ELSE executions[c]
         /\ \A c \in Calls : state'[c] = IF c \in C THEN "gone" ELSE state[c]
         /\ UNCHANGED <<owner, count>>
         /\ \A c \in Calls, n \in 1..MaxCount :
              IF c \in C /\ n \in ToSet(executions[c])
              THEN exec'[<<c, n>>] = [exec[<<c, n>>] EXCEPT !.frees = @ + 1]
              ELSE exec'[<<c, n>>] = exec[<<c, n>>] /\ ewait'[<<c, n>>] = ewait[<<c, n>>]
<1> DEFINE Freed == {e \in Executions : e[1] \in C /\ e[2] \in ToSet(executions[e[1]])}
<1>1. /\ state' = [c \in Calls |-> IF c \in C THEN "gone" ELSE state[c]]
      /\ executions' = [c \in Calls |-> IF c \in C THEN <<>> ELSE executions[c]]
      /\ exec' = [e \in Executions |->
                    IF e \in Freed THEN [exec[e] EXCEPT !.frees = @ + 1] ELSE exec[e]]
      /\ ewait' = [e \in Executions |-> IF e \in Freed THEN {} ELSE ewait[e]]
      /\ UNCHANGED <<owner, count, serial>>
  BY DEF DestroyCalls
<1>2. ASSUME NEW c \in Calls, NEW n \in 1..MaxCount
      PROVE  IF c \in C /\ n \in ToSet(executions[c])
             THEN exec'[<<c, n>>] = [exec[<<c, n>>] EXCEPT !.frees = @ + 1]
             ELSE exec'[<<c, n>>] = exec[<<c, n>>] /\ ewait'[<<c, n>>] = ewait[<<c, n>>]
  <2>1. <<c, n>> \in Executions
    BY DEF Executions
  <2>2. <<c, n>> \in Freed <=> c \in C /\ n \in ToSet(executions[c])
    BY <2>1
  <2> HIDE DEF Freed
  <2>3. CASE c \in C /\ n \in ToSet(executions[c])
    BY <1>1, <2>1, <2>2, <2>3
  <2>4. CASE ~ (c \in C /\ n \in ToSet(executions[c]))
    BY <1>1, <2>1, <2>2, <2>4
  <2> QED
    BY <2>3, <2>4
<1> QED
  BY <1>1, <1>2

LEMMA FinishFree ==
  ASSUME TypeInv, TypeInv', FreeInv, NEW t \in Threads, DestroyFinish(t)
  PROVE  FreeInv'
<1>1. PICK c \in Calls : c = cop[t].call
  BY DEF DestroyFinish, FreeInv, Places
<1>2. /\ cop[t].at = "destroy" /\ DestroyCalls({c})
      /\ clock' = [clock EXCEPT ![cop[t].call] = None]
      /\ cop' = [cop EXCEPT ![t] = User]
      /\ UNCHANGED <<listed, qop, dev>>
  BY <1>1 DEF DestroyFinish, msgVars, devVars
<1>3. executions[c] = <<>>
  BY <1>1, <1>2 DEF FreeInv, Locked, Locking
<1>4. ToSet(executions[c]) = {}
  BY <1>3 DEF ToSet
<1>5. count' = count /\ \A d \in Calls : executions'[d] = executions[d] /\ (state'[d] = state[d] \/ d = c)
  BY <1>2, <1>3, Gone
<1>6. \A d \in Calls, n \in 1..MaxCount : exec'[<<d, n>>] = exec[<<d, n>>] /\ ewait'[<<d, n>>] = ewait[<<d, n>>]
  <2> SUFFICES ASSUME NEW d \in Calls, NEW n \in 1..MaxCount
               PROVE  exec'[<<d, n>>] = exec[<<d, n>>] /\ ewait'[<<d, n>>] = ewait[<<d, n>>]
    OBVIOUS
  <2>1. ~ (d \in {c} /\ n \in ToSet(executions[d]))
    BY <1>4
  <2>2. IF d \in {c} /\ n \in ToSet(executions[d])
        THEN exec'[<<d, n>>] = [exec[<<d, n>>] EXCEPT !.frees = @ + 1]
        ELSE exec'[<<d, n>>] = exec[<<d, n>>] /\ ewait'[<<d, n>>] = ewait[<<d, n>>]
    BY <1>2, Gone
  <2> QED
    BY <2>1, <2>2
<1>7. executions' = executions
  <2>1. executions \in [Calls -> Seq(1..MaxCount)] /\ executions' \in [Calls -> Seq(1..MaxCount)]
    BY DEF TypeInv, ListTypes
  <2> QED
    BY <1>5, <2>1
<1>8. exec' = exec /\ ewait' = ewait
  <2>1. \A e \in Executions : exec'[e] = exec[e] /\ ewait'[e] = ewait[e]
    BY <1>6 DEF Executions
  <2>2. /\ exec \in [Executions -> ExecutionObject] /\ exec' \in [Executions -> ExecutionObject]
        /\ ewait \in [Executions -> SUBSET Threads] /\ ewait' \in [Executions -> SUBSET Threads]
    BY DEF TypeInv, ExecTypes
  <2> QED
    BY <2>1, <2>2
<1>9. cop'[t].at = "user" /\ \A u \in Threads : u # t => cop'[u] = cop[u]
  BY <1>2 DEF TypeInv, User
<1>10. \A u \in Threads : cop'[u] = cop[u] \/ (~ InExecute(u) /\ ~ InExecute(u)')
  BY <1>2, <1>9 DEF InExecute
<1>11. /\ \A u \in Threads : InExecute(u)' <=> InExecute(u)
       /\ \A u \in Threads : InExecute(u) => cop'[u] = cop[u] /\ ExecOf(u)' = ExecOf(u)
       /\ \A e \in Executions : Waited(e)' <=> Waited(e)
       /\ Alone'
  BY <1>10, SameCallers
<1>12. Listed' /\ \A e \in Executions : Linked(e)' <=> Linked(e)
  BY <1>3, <1>5, <1>7, <1>8, SameLists
<1>13. Places'
  BY <1>2, <1>5, <1>9, SamePlaces
<1>14. Locked'
  BY <1>2, <1>7, <1>9, LetGo DEF Locking
<1>15. Budget'
  BY <1>8, <1>11, <1>12 DEF FreeInv, Budget
<1>16. Freeing'
  <2> SUFFICES ASSUME Stays
               PROVE  /\ listed' = Fusionees
                      /\ \A e \in Executions :
                           exec'[e].frees > 0 => exec'[e].frees = 1 /\ ~ Linked(e)'
                      /\ \A u \in Threads : InExecute(u)' =>
                           /\ exec'[ExecOf(u)'].frees = 0 /\ exec'[ExecOf(u)'].caller # None
                           /\ cop'[u].at = "execute" /\ u \notin ewait'[ExecOf(u)'] => ~ Linked(ExecOf(u))'
    BY <1>2 DEF Freeing, Stays
  <2>1. listed' = Fusionees /\ \A e \in Executions : exec'[e].frees > 0 => exec'[e].frees = 1 /\ ~ Linked(e)'
    BY <1>2, <1>8, <1>12 DEF FreeInv, Freeing
  <2>2. ASSUME NEW u \in Threads, InExecute(u)'
        PROVE  /\ exec'[ExecOf(u)'].frees = 0 /\ exec'[ExecOf(u)'].caller # None
               /\ cop'[u].at = "execute" /\ u \notin ewait'[ExecOf(u)'] => ~ Linked(ExecOf(u))'
    <3>1. InExecute(u) /\ ExecOf(u)' = ExecOf(u) /\ cop'[u] = cop[u]
      BY <1>11, <2>2
    <3>2. /\ exec[ExecOf(u)].frees = 0 /\ exec[ExecOf(u)].caller # None
          /\ cop[u].at = "execute" /\ u \notin ewait[ExecOf(u)] => ~ Linked(ExecOf(u))
      BY <3>1 DEF FreeInv, Freeing
    <3>3. Linked(ExecOf(u))' <=> Linked(ExecOf(u))
      BY <1>7, <3>1 DEF Linked
    <3> QED
      BY <1>8, <3>1, <3>2, <3>3
  <2> QED
    BY <2>1, <2>2
<1>17. Keeping'
  BY <1>2, <1>8, <1>11, <1>12 DEF FreeInv, Keeping, Orderly, Allocated
<1> QED
  BY <1>11, <1>12, <1>13, <1>14, <1>15, <1>16, <1>17 DEF FreeInv

LEMMA DestroyAllFree ==
  ASSUME TypeInv, TypeInv', FreeInv, NEW f \in Fusionees, DestroyAll(f)
  PROVE  FreeInv'
<1> DEFINE C == {c \in Calls : state[c] = "live" /\ owner[c] = f}
<1>1. /\ f \notin listed /\ \A c \in C : clock[c] = None
      /\ DestroyCalls(C) /\ C \in SUBSET Calls
      /\ UNCHANGED <<listed, qop, clock, dev, cop>>
  BY DEF DestroyAll, msgVars, lockVars, devVars
<1> HIDE DEF C
<1>2. ~ Stays /\ ~ Orderly
  BY <1>1 DEF FreeInv, Freeing, Orderly, Stays
<1>3. count' = count /\ \A c \in Calls : /\ executions'[c] = IF c \in C THEN <<>> ELSE executions[c]
                                         /\ state'[c] = IF c \in C THEN "gone" ELSE state[c]
  BY <1>1, Gone
<1>4. \A c \in Calls, n \in 1..MaxCount :
        IF c \in C /\ n \in ToSet(executions[c])
        THEN exec'[<<c, n>>] = [exec[<<c, n>>] EXCEPT !.frees = @ + 1]
        ELSE exec'[<<c, n>>] = exec[<<c, n>>] /\ ewait'[<<c, n>>] = ewait[<<c, n>>]
  BY <1>1, Gone
<1>5. /\ \A e \in Executions : Waited(e)' <=> Waited(e)
      /\ Alone'
  BY <1>1, SameCallers
<1>6. Places'
  BY <1>1, <1>3, SamePlaces
<1>7. ToSet(<<>>) = {}
  BY DEF ToSet
<1>8. Locked'
  <2> SUFFICES ASSUME NEW u \in Threads, Locking(u)'
               PROVE  /\ clock'[cop'[u].call] = u
                      /\ cop'[u].at = "return" => ~ Linked(ExecOf(u))'
                      /\ cop'[u].at = "destroy" => executions'[cop'[u].call] = <<>>
    BY DEF Locked
  <2>1. Locking(u) /\ cop'[u] = cop[u] /\ cop[u].call \in Calls
    BY <1>1 DEF Locking, FreeInv, Places
  <2>2. /\ clock[cop[u].call] = u
        /\ cop[u].at = "return" => ~ Linked(ExecOf(u))
        /\ cop[u].at = "destroy" => executions[cop[u].call] = <<>>
    BY <2>1 DEF FreeInv, Locked
  <2>3. executions'[cop[u].call] = executions[cop[u].call]
    <3>1. cop[u].call \notin C
      BY <1>1, <2>2, QueueAssumption
    <3> QED
      BY <1>3, <2>1, <3>1
  <2>4. Linked(ExecOf(u))' <=> Linked(ExecOf(u))
    BY <2>1, <2>3 DEF Linked, ExecOf
  <2> QED
    BY <1>1, <2>1, <2>2, <2>3, <2>4
<1>9. Listed'
  <2> SUFFICES ASSUME NEW d \in Calls
               PROVE  /\ Falling(executions'[d])
                      /\ state'[d] # "live" => executions'[d] = <<>>
                      /\ Distinct(d)'
                      /\ \A k \in ToSet(executions'[d]) :
                           k <= count'[d] /\ exec'[<<d, k>>].serial # 0 /\ ~ exec'[<<d, k>>].executed
                      /\ \A k \in 1..MaxCount : k > count'[d] => exec'[<<d, k>>] = NoExecution
    BY DEF Listed
  <2>1. /\ Falling(executions[d])
        /\ state[d] # "live" => executions[d] = <<>>
        /\ Distinct(d)
        /\ \A k \in ToSet(executions[d]) :
             k <= count[d] /\ exec[<<d, k>>].serial # 0 /\ ~ exec[<<d, k>>].executed
        /\ \A k \in 1..MaxCount : k > count[d] => exec[<<d, k>>] = NoExecution
    BY DEF FreeInv, Listed
  <2>2. \A k \in 1..MaxCount : k > count[d] => exec'[<<d, k>>] = NoExecution
    <3> SUFFICES ASSUME NEW k \in 1..MaxCount, k > count[d] PROVE exec'[<<d, k>>] = NoExecution
      OBVIOUS
    <3>1. k \notin ToSet(executions[d])
      <4> SUFFICES ASSUME k \in ToSet(executions[d]) PROVE FALSE
        OBVIOUS
      <4>1. k \in Int /\ k <= count[d]
        BY OnList
      <4>2. count[d] \in Nat
        BY OnList
      <4>3. count[d] \in Int
        BY <4>2
      <4> QED
        BY <4>1, <4>3
    <3>2. exec'[<<d, k>>] = exec[<<d, k>>]
      BY <1>4, <3>1
    <3> QED
      BY <2>1, <3>2
  <2>3. CASE d \in C
    <3>1. executions'[d] = <<>> /\ state'[d] = "gone"
      BY <1>3, <2>3
    <3>2. Falling(<<>>)
      BY DEF Falling
    <3>3. Distinct(d)'
      BY <1>7, <3>1 DEF Distinct
    <3> QED
      BY <1>3, <1>7, <2>2, <3>1, <3>2, <3>3
  <2>4. CASE d \notin C
    <3>1. executions'[d] = executions[d] /\ state'[d] = state[d]
      BY <1>3, <2>4
    <3>2. \A k \in ToSet(executions[d]) : exec'[<<d, k>>] = exec[<<d, k>>]
      <4>1. \A k \in ToSet(executions[d]) : k \in 1..MaxCount
        BY OnList
      <4> QED
        BY <1>4, <2>4, <4>1
    <3>3. Distinct(d)'
      BY <2>1, <3>1, <3>2 DEF Distinct
    <3> QED
      BY <1>3, <2>1, <2>2, <3>1, <3>2, <3>3
  <2> QED
    BY <2>3, <2>4
<1>10. Budget'
  <2> SUFFICES ASSUME NEW c \in Calls, NEW n \in 1..MaxCount
               PROVE  /\ exec'[<<c, n>>].frees <= 2
                      /\ Linked(<<c, n>>)' \/ Waited(<<c, n>>)' => exec'[<<c, n>>].frees <= 1
                      /\ Linked(<<c, n>>)' /\ Waited(<<c, n>>)' => exec'[<<c, n>>].frees = 0
    BY DEF Budget, Executions
  <2>1. <<c, n>> \in Executions
    BY DEF Executions
  <2>2. /\ exec[<<c, n>>].frees <= 2
        /\ Linked(<<c, n>>) \/ Waited(<<c, n>>) => exec[<<c, n>>].frees <= 1
        /\ Linked(<<c, n>>) /\ Waited(<<c, n>>) => exec[<<c, n>>].frees = 0
    BY <2>1 DEF FreeInv, Budget
  <2>3. Linked(<<c, n>>)' <=> n \in ToSet(executions'[c])
    BY DEF Linked
  <2>4. Linked(<<c, n>>) <=> n \in ToSet(executions[c])
    BY DEF Linked
  <2>5. Waited(<<c, n>>)' <=> Waited(<<c, n>>)
    BY <1>5, <2>1
  <2>6. CASE c \in C /\ n \in ToSet(executions[c])
    <3>1. exec'[<<c, n>>] = [exec[<<c, n>>] EXCEPT !.frees = @ + 1] /\ exec[<<c, n>>] \in ExecutionObject
      BY <1>4, <2>1, <2>6 DEF TypeInv, ExecTypes
    <3>2. exec'[<<c, n>>].frees = exec[<<c, n>>].frees + 1 /\ exec[<<c, n>>].frees \in Nat
      BY <3>1 DEF ExecutionObject
    <3>3. ~ Linked(<<c, n>>)'
      BY <1>3, <1>7, <2>3, <2>6
    <3>4. exec[<<c, n>>].frees <= 1 /\ (Waited(<<c, n>>) => exec[<<c, n>>].frees = 0)
      BY <2>2, <2>4, <2>6
    <3>5. exec'[<<c, n>>].frees <= 2
      BY <3>2, <3>4
    <3>6. Waited(<<c, n>>) => exec'[<<c, n>>].frees <= 1
      BY <3>2, <3>4
    <3> QED
      BY <2>5, <3>3, <3>5, <3>6
  <2>7. CASE ~ (c \in C /\ n \in ToSet(executions[c]))
    <3>1. exec'[<<c, n>>] = exec[<<c, n>>]
      BY <1>4, <2>7
    <3>2. Linked(<<c, n>>)' => Linked(<<c, n>>)
      BY <1>3, <1>7, <2>3, <2>4
    <3> QED
      BY <2>2, <2>5, <3>1, <3>2
  <2> QED
    BY <2>6, <2>7
<1>11. Freeing' /\ Keeping'
  BY <1>1, <1>2 DEF Freeing, Keeping, Stays, Orderly
<1> QED
  BY <1>5, <1>6, <1>8, <1>9, <1>10, <1>11 DEF FreeInv

-----------------------------------------------------------------------------
LEMMA FreeInit ==
  ASSUME Init
  PROVE  TypeInv /\ FreeInv
<1>1. <<>> \in Seq(CallMessage) /\ <<>> \in Seq(1..MaxCount) /\ 0 \in 0..MaxCount /\ 0 \in 0..(SerialMod - 1)
  BY CallAssumption
<1>2. NoExecution \in ExecutionObject /\ NoExecution.frees = 0 /\ NoExecution.serial = 0
  BY <1>1 DEF NoExecution, ExecutionObject
<1>3. User \in COp /\ User.at = "user"
  BY <1>1 DEF User, COp
<1>4. Q!TypeOK
  <2>1. Q!QAt("user") \in Q!QOp
    BY DEF Q!QAt, Q!QOp
  <2> QED
    BY <1>1, <2>1 DEF Init, Q!Init, Q!TypeOK
<1>5. ListTypes /\ ExecTypes /\ LockTypes
  BY <1>1, <1>2 DEF Init, ListTypes, ExecTypes, LockTypes
<1>6. TypeInv
  BY <1>1, <1>3, <1>4, <1>5 DEF Init, TypeInv
<1>7. \A t \in Threads : cop[t] = User
  BY DEF Init
<1>8. Places /\ Locked /\ Alone
  BY <1>3, <1>7 DEF Places, Locked, Alone, InExecute, Locking
<1>9. \A c \in Calls : executions[c] = <<>>
  BY DEF Init
<1>10. \A e \in Executions : exec[e] = NoExecution
  BY DEF Init
<1>11. ToSet(<<>>) = {} /\ Falling(<<>>)
  BY DEF ToSet, Falling
<1>12. Listed
  <2>1. \A c \in Calls : Distinct(c)
    BY <1>9, <1>11 DEF Distinct
  <2>2. \A c \in Calls, n \in 1..MaxCount : exec[<<c, n>>] = NoExecution
    BY <1>10 DEF Executions
  <2> QED
    BY <1>9, <1>11, <2>1, <2>2 DEF Listed
<1>13. \A e \in Executions : ~ Linked(e)
  BY <1>9, <1>11 DEF Linked, Executions
<1>14. Budget
  BY <1>2, <1>10 DEF Budget
<1>15. Freeing
  <2>1. listed = Fusionees
    BY DEF Init, Q!Init
  <2>2. \A t \in Threads : ~ InExecute(t)
    BY <1>3, <1>7 DEF InExecute
  <2> QED
    BY <1>2, <1>10, <2>1, <2>2 DEF Freeing
<1>16. Keeping
  BY <1>2, <1>10, <1>13 DEF Keeping, Allocated
<1> QED
  BY <1>6, <1>8, <1>12, <1>14, <1>15, <1>16 DEF FreeInv

LEMMA TypeStep ==
  ASSUME TypeInv, FreeInv, [Next]_vars
  PROVE  TypeInv'
<1>1. \A t \in Threads : /\ cop[t].at # "user" => cop[t].call \in Calls
                         /\ cop[t].at \in {"transfer", "execute"} => ExecOf(t) \in Executions
                         /\ cop[t].at = "pending" => ExecOf(t) \in Executions
  BY DEF FreeInv, Places, InExecute
<1>2. Callers \subseteq Threads /\ Owners \subseteq Threads
  BY CallAssumption
<1>3. ASSUME NEW t \in Callers, CallerStep(t) PROVE TypeInv'
  <2>1. t \in Threads
    BY <1>2
  <2>2. CASE ExecuteSleep(t) \/ CallerWoken(t) \/ CallerSignal(t)
    BY <1>1, <2>1, <2>2, CallerTypes
  <2>3. CASE LockGranted(t)
    <3>1. cop[t].call \in Calls
      BY <1>1, <2>1, <2>3 DEF LockGranted
    <3> QED
      BY <2>1, <2>3, <3>1, WakeTypes
  <2>4. CASE \E c \in Calls : ExecuteSync(t, c)
    BY <2>1, <2>4, SyncTypes
  <2>5. CASE \E c \in Calls : ExecuteOneway(t, c) \/ ExecuteFails(t, c)
    BY <2>1, <2>5, OnewayTypes
  <2>6. CASE \E c \in Calls : LockBlocks(t, c)
    BY <2>1, <2>6, WakeTypes
  <2> QED
    BY <1>3, <2>2, <2>3, <2>4, <2>5, <2>6 DEF CallerStep
<1>4. ASSUME NEW t \in Owners, OwnerStep(t) PROVE TypeInv'
  <2>1. t \in Threads
    BY <1>2
  <2>2. CASE \E c \in Calls : New(t, c)
    BY <2>1, <2>2, NewTypes
  <2>3. CASE (\E c \in Calls : DestroyStart(t, c)) \/ DestroyWoken(t) \/ ProcessingWoken(t) \/ Interrupt(t)
    BY <1>1, <2>1, <2>3, WaitTypes
  <2>4. CASE Dispatch(t)
    BY <2>1, <2>4, DispatchTypes
  <2>5. ASSUME NEW i, Return(t, i) PROVE TypeInv'
    BY <2>1, <2>5, ReturnTypes
  <2>6. ASSUME NEW i, ReturnToNobody(t, i) PROVE TypeInv'
    BY <2>1, <2>6, NobodyTypes
  <2>7. ASSUME NEW i, ReturnFails(t, i) PROVE TypeInv'
    BY <2>1, <2>7, FailTypes
  <2>8. CASE ReturnWake(t)
    <3>1. cop[t].call \in Calls
      BY <1>1, <2>1, <2>8 DEF ReturnWake
    <3> QED
      BY <2>1, <2>8, <3>1, WakeTypes
  <2>9. CASE DestroyLock(t)
    BY <1>1, <2>1, <2>9, LockTaken
  <2>10. CASE DestroyFinish(t)
    BY <1>1, <2>1, <2>10, FinishTypes
  <2> QED
    BY <1>4, <2>2, <2>3, <2>4, <2>5, <2>6, <2>7, <2>8, <2>9, <2>10 DEF OwnerStep
<1>5. ASSUME NEW f \in Fusionees, Leave(f) \/ DestroyAll(f) PROVE TypeInv'
  BY <1>5, LeaveTypes
<1>6. CASE UNCHANGED vars
  <2>1. Q!TypeOK'
    BY <1>6, QueueSame DEF vars, TypeInv
  <2> QED
    BY <1>6, <2>1 DEF vars, TypeInv, ListTypes, ExecTypes, LockTypes, listVars, execVars, lockVars, devVars
<1> QED
  BY <1>3, <1>4, <1>5, <1>6 DEF Next

LEMMA FreeStep ==
  ASSUME TypeInv, TypeInv', FreeInv, [Next]_vars
  PROVE  FreeInv'
<1>1. Callers \subseteq Threads /\ Owners \subseteq Threads
  BY CallAssumption
<1>2. ASSUME NEW t \in Callers, CallerStep(t) PROVE FreeInv'
  <2>1. t \in Threads
    BY <1>1
  <2>2. CASE ExecuteSleep(t)
    BY <2>1, <2>2, SleepFree
  <2>3. CASE CallerWoken(t) \/ CallerSignal(t)
    BY <2>1, <2>3, BackFree
  <2>4. CASE LockGranted(t)
    <3>1. cop[t].call \in Calls
      BY <2>1, <2>4 DEF LockGranted, FreeInv, Places
    <3> QED
      BY <2>1, <2>4, <3>1, QuietLookup, QuietFree
  <2>5. CASE \E c \in Calls : ExecuteSync(t, c)
    BY <2>1, <2>5, SyncFree
  <2>6. CASE \E c \in Calls : ExecuteOneway(t, c) \/ ExecuteFails(t, c)
    BY <2>1, <2>6, QuietIssue, QuietFree
  <2>7. CASE \E c \in Calls : LockBlocks(t, c)
    BY <2>1, <2>7, QuietLookup, QuietFree
  <2> QED
    BY <1>2, <2>2, <2>3, <2>4, <2>5, <2>6, <2>7 DEF CallerStep
<1>3. ASSUME NEW t \in Owners, OwnerStep(t) PROVE FreeInv'
  <2>1. t \in Threads
    BY <1>1
  <2>2. CASE \E c \in Calls : New(t, c)
    BY <2>1, <2>2, QuietIssue, QuietFree
  <2>3. CASE (\E c \in Calls : DestroyStart(t, c)) \/ DestroyWoken(t) \/ ProcessingWoken(t)
    BY <2>1, <2>3, QuietWait, QuietFree
  <2>4. CASE Interrupt(t)
    BY <2>1, <2>4, QuietInterrupt, QuietFree
  <2>5. CASE Dispatch(t)
    BY <2>1, <2>5, QuietRead, QuietFree
  <2>6. ASSUME NEW i, Return(t, i) \/ ReturnToNobody(t, i) PROVE FreeInv'
    BY <2>1, <2>6, ReturnFree
  <2>7. ASSUME NEW i, ReturnFails(t, i) PROVE FreeInv'
    BY <2>1, <2>7, QuietFails, QuietFree
  <2>8. CASE ReturnWake(t)
    BY <2>1, <2>8, WakeFree
  <2>9. CASE DestroyLock(t)
    BY <2>1, <2>9, LockFree
  <2>10. CASE DestroyFinish(t)
    BY <2>1, <2>10, FinishFree
  <2> QED
    BY <1>3, <2>2, <2>3, <2>4, <2>5, <2>6, <2>7, <2>8, <2>9, <2>10 DEF OwnerStep
<1>4. ASSUME NEW f \in Fusionees, Leave(f) \/ DestroyAll(f) PROVE FreeInv'
  BY <1>4, QuietLeave, QuietFree, DestroyAllFree
<1>5. CASE UNCHANGED vars
  <2>1. UNCHANGED <<listed, qop, listVars, execVars, clock, dev, cop>>
    BY <1>5 DEF vars, msgVars, lockVars, devVars
  <2>2. \A u \in Threads : cop'[u] = cop[u] /\ (cop[u].at \notin {"user", "processing"} => Q!InUser(u)')
    BY <2>1 DEF FreeInv, Places, Q!InUser
  <2>3. \A d \in Calls : count[d] \in Int
    BY DEF TypeInv, ListTypes
  <2>4. Quiet
    BY <2>1, <2>2, <2>3 DEF Quiet, FreeInv, Listed, execVars, listVars
  <2> QED
    BY <2>4, QuietFree
<1> QED
  BY <1>2, <1>3, <1>4, <1>5 DEF Next

(* Every variable of the calls stays in its range, also the number of      *)
(* times an execution is freed.                                            *)
THEOREM CallTypes == Spec => []TypeOK
<1>1. TypeInv /\ FreeInv => TypeOK
  <2> SUFFICES ASSUME TypeInv, FreeInv PROVE TypeOK
    OBVIOUS
  <2>1. exec \in [Executions -> Execution]
    <3>1. \A e \in Executions : exec[e] \in ExecutionObject /\ exec[e].frees <= 2
      BY DEF TypeInv, ExecTypes, FreeInv, Budget
    <3>2. \A x \in ExecutionObject : x.frees <= 2 => x \in Execution
      BY DEF ExecutionObject, Execution
    <3> QED
      BY <3>1, <3>2 DEF TypeInv, ExecTypes
  <2> QED
    BY <2>1 DEF TypeInv, ListTypes, ExecTypes, LockTypes, TypeOK
<1>2. Init => TypeInv /\ FreeInv
  BY FreeInit
<1>3. TypeInv /\ FreeInv /\ [Next]_vars => (TypeInv /\ FreeInv)'
  BY TypeStep, FreeStep
<1> QED
  BY <1>1, <1>2, <1>3, PTL DEF Spec

(* An execution is freed once, while its owner stays: by the caller that   *)
(* took the result, or by the return that found the caller gone.           *)
THEOREM FreedSafe == Spec => []FreedOnce
<1>1. TypeInv /\ FreeInv => FreedOnce
  <2> SUFFICES ASSUME TypeInv, FreeInv, NEW e \in Executions
               PROVE  /\ "leave" \notin dev.env /\ exec[e].frees > 0 =>
                           exec[e].frees = 1 /\ ~ Linked(e) /\ ~ Waited(e)
                      /\ Orderly /\ Allocated(e) /\ exec[e].frees = 0 => Linked(e) \/ Waited(e)
    BY DEF FreedOnce
  <2>1. Orderly /\ Allocated(e) /\ exec[e].frees = 0 => Linked(e) \/ Waited(e)
    BY DEF FreeInv, Keeping
  <2>2. ASSUME Stays, exec[e].frees > 0 PROVE exec[e].frees = 1 /\ ~ Linked(e) /\ ~ Waited(e)
    <3>1. exec[e].frees = 1 /\ ~ Linked(e)
      BY <2>2 DEF FreeInv, Freeing
    <3>2. ~ Waited(e)
      BY <2>2, <3>1 DEF FreeInv, Freeing, Waited, InExecute
    <3> QED
      BY <3>1, <3>2
  <2> QED
    BY <2>1, <2>2 DEF Stays
<1>2. Init => TypeInv /\ FreeInv
  BY FreeInit
<1>3. TypeInv /\ FreeInv /\ [Next]_vars => (TypeInv /\ FreeInv)'
  BY TypeStep, FreeStep
<1> QED
  BY <1>1, <1>2, <1>3, PTL DEF Spec

-----------------------------------------------------------------------------
(* Whose result it is.  What a fusionee has in hand, read or not, it has   *)
(* in the order it was sent; each of its messages is of a call it owns.    *)
Rising(s) == \A i, j \in DOMAIN s : i < j /\ s[i].id = s[j].id => s[i].n < s[j].n
Ahead(s, u) == \A m \in ToSet(s), k \in ToSet(u) : m.id = k.id => m.n < k.n
InHand(f) == ToSet(messages[f]) \cup ToSet(owed[f])

InTurn ==
  \A f \in Fusionees :
    /\ Rising(owed[f]) /\ Rising(messages[f]) /\ Ahead(owed[f], messages[f])
    /\ \A m \in InHand(f) : /\ state[m.id] # "unborn" /\ owner[m.id] = f /\ m.n <= count[m.id]
                            /\ "oneway" \notin dev.env => m.serial # 0
    /\ f \notin listed => messages[f] = <<>> /\ owed[f] = <<>>

(* A message in hand that wants an answer is that of an execution on the   *)
(* list, and each execution on the list has one.                           *)
Wants(m, c, n) == m.id = c /\ m.n = n /\ m.serial # 0 /\ m.serial = exec[<<c, n>>].serial
Asked ==
  Matched => \A c \in Calls : owner[c] \in listed =>
    /\ \A m \in InHand(owner[c]) : m.id = c /\ m.serial # 0 =>
         m.n \in ToSet(executions[c]) /\ Wants(m, c, m.n)
    /\ \A n \in ToSet(executions[c]) : \E m \in InHand(owner[c]) : Wants(m, c, n)

MatchInv == InTurn /\ Asked /\ ResultIsOwn

-----------------------------------------------------------------------------
(* Sequences of messages in the order they were sent.                      *)
LEMMA RisingPicks ==
  ASSUME NEW s \in Seq(CallMessage), NEW u \in Seq(CallMessage), NEW I \in SUBSET DOMAIN s,
         Picks(u, s, I), Rising(s)
  PROVE  Rising(u)
<1>1. PICK g \in [1..Len(u) -> I] : /\ \A j \in 1..Len(u) : u[j] = s[g[j]]
                                    /\ \A j, k \in 1..Len(u) : j < k => g[j] < g[k]
  BY DEF Picks
<1>2. DOMAIN u = 1..Len(u)
  OBVIOUS
<1> SUFFICES ASSUME NEW j \in DOMAIN u, NEW k \in DOMAIN u, j < k, u[j].id = u[k].id
             PROVE  u[j].n < u[k].n
  BY DEF Rising
<1>3. g[j] \in DOMAIN s /\ g[k] \in DOMAIN s /\ g[j] < g[k] /\ u[j] = s[g[j]] /\ u[k] = s[g[k]]
  BY <1>1, <1>2
<1> QED
  BY <1>3 DEF Rising

LEMMA ConcatSet ==
  ASSUME NEW s \in Seq(CallMessage), NEW u \in Seq(CallMessage)
  PROVE  ToSet(s \o u) = ToSet(s) \cup ToSet(u)
<1>1. /\ s \o u \in Seq(CallMessage) /\ Len(s \o u) = Len(s) + Len(u)
      /\ Len(s) \in Nat /\ Len(u) \in Nat
      /\ \A j \in 1..Len(s) : (s \o u)[j] = s[j]
      /\ \A j \in 1..Len(u) : (s \o u)[Len(s) + j] = u[j]
  BY Concat
<1>2. /\ DOMAIN (s \o u) = 1..(Len(s) + Len(u))
      /\ DOMAIN s = 1..Len(s) /\ DOMAIN u = 1..Len(u)
  BY <1>1
<1> DEFINE v == s \o u
           a == Len(s)
           b == Len(u)
<1> HIDE DEF v, a, b
<1>3. ASSUME NEW m \in ToSet(v) PROVE m \in ToSet(s) \cup ToSet(u)
  <2>1. PICK j \in 1..(a + b) : m = v[j]
    BY <1>2, <1>3 DEF ToSet, v, a, b
  <2>2. CASE j <= a
    <3>1. j \in 1..a
      BY <1>1, <2>1, <2>2 DEF a, b
    <3>2. v[j] = s[j] /\ j \in DOMAIN s
      BY <1>1, <1>2, <3>1 DEF v, a
    <3> QED
      BY <2>1, <3>2 DEF ToSet
  <2>3. CASE a < j
    <3>1. j - a \in 1..b /\ a + (j - a) = j
      BY <1>1, <2>1, <2>3 DEF a, b
    <3>2. v[j] = u[j - a] /\ j - a \in DOMAIN u
      BY <1>1, <1>2, <3>1 DEF v, a, b
    <3> QED
      BY <2>1, <3>2 DEF ToSet
  <2>4. j <= a \/ a < j
    BY <1>1, <2>1 DEF a, b
  <2> QED
    BY <2>2, <2>3, <2>4
<1>4. ASSUME NEW m \in ToSet(s) PROVE m \in ToSet(v)
  <2>1. PICK j \in 1..a : m = s[j]
    BY <1>2, <1>4 DEF ToSet, a
  <2>2. j \in DOMAIN v /\ v[j] = s[j]
    BY <1>1, <1>2, <2>1 DEF v, a, b
  <2> QED
    BY <2>1, <2>2 DEF ToSet
<1>5. ASSUME NEW m \in ToSet(u) PROVE m \in ToSet(v)
  <2>1. PICK j \in 1..b : m = u[j]
    BY <1>2, <1>5 DEF ToSet, b
  <2>2. a + j \in DOMAIN v /\ v[a + j] = u[j]
    BY <1>1, <1>2, <2>1 DEF v, a, b
  <2> QED
    BY <2>1, <2>2 DEF ToSet
<1>6. ToSet(v) = ToSet(s) \cup ToSet(u)
  BY <1>3, <1>4, <1>5
<1> QED
  BY <1>6 DEF v

LEMMA RisingConcat ==
  ASSUME NEW s \in Seq(CallMessage), NEW u \in Seq(CallMessage),
         Rising(s), Rising(u), Ahead(s, u)
  PROVE  Rising(s \o u)
<1>1. /\ s \o u \in Seq(CallMessage) /\ Len(s \o u) = Len(s) + Len(u)
      /\ Len(s) \in Nat /\ Len(u) \in Nat
      /\ \A j \in 1..Len(s) : (s \o u)[j] = s[j]
      /\ \A j \in 1..Len(u) : (s \o u)[Len(s) + j] = u[j]
  BY Concat
<1>2. /\ DOMAIN (s \o u) = 1..(Len(s) + Len(u))
      /\ DOMAIN s = 1..Len(s) /\ DOMAIN u = 1..Len(u)
  BY <1>1
<1> DEFINE v == s \o u
           a == Len(s)
           b == Len(u)
<1> HIDE DEF v, a, b
<1> SUFFICES ASSUME NEW j \in 1..(a + b), NEW k \in 1..(a + b), j < k, v[j].id = v[k].id
             PROVE  v[j].n < v[k].n
  BY <1>2 DEF Rising, v, a, b
<1>3. a \in Nat /\ b \in Nat
  BY <1>1 DEF a, b
<1>4. \A i \in 1..(a + b) : i <= a => i \in DOMAIN s /\ v[i] = s[i] /\ v[i] \in ToSet(s)
  <2> SUFFICES ASSUME NEW i \in 1..(a + b), i <= a
               PROVE  i \in DOMAIN s /\ v[i] = s[i] /\ v[i] \in ToSet(s)
    OBVIOUS
  <2>1. i \in 1..a
    BY <1>3
  <2>2. i \in DOMAIN s /\ v[i] = s[i]
    BY <1>1, <1>2, <2>1 DEF v, a
  <2> QED
    BY <2>2 DEF ToSet
<1>5. \A i \in 1..(a + b) : a < i => i - a \in DOMAIN u /\ v[i] = u[i - a] /\ v[i] \in ToSet(u)
  <2> SUFFICES ASSUME NEW i \in 1..(a + b), a < i
               PROVE  i - a \in DOMAIN u /\ v[i] = u[i - a] /\ v[i] \in ToSet(u)
    OBVIOUS
  <2>1. i - a \in 1..b /\ a + (i - a) = i
    BY <1>3
  <2>2. i - a \in DOMAIN u /\ v[i] = u[i - a]
    BY <1>1, <1>2, <2>1 DEF v, a, b
  <2> QED
    BY <2>2 DEF ToSet
<1>6. CASE k <= a
  <2>1. j <= a
    BY <1>3, <1>6
  <2> QED
    BY <1>4, <1>6, <2>1 DEF Rising
<1>7. CASE a < j
  <2>1. a < k /\ j - a < k - a
    BY <1>3, <1>7
  <2> QED
    BY <1>5, <1>7, <2>1 DEF Rising
<1>8. CASE j <= a /\ a < k
  BY <1>4, <1>5, <1>8 DEF Ahead
<1>9. k <= a \/ a < j \/ (j <= a /\ a < k)
  BY <1>3
<1> QED
  BY <1>6, <1>7, <1>8, <1>9

(* A message at the end, later than all others of its call.                *)
LEMMA RisingAppend ==
  ASSUME NEW s \in Seq(CallMessage), NEW m \in CallMessage, Rising(s),
         \A k \in ToSet(s) : k.id = m.id => k.n < m.n
  PROVE  /\ Append(s, m) \in Seq(CallMessage) /\ Rising(Append(s, m))
         /\ ToSet(Append(s, m)) = ToSet(s) \cup {m}
<1> DEFINE v == Append(s, m)
           a == Len(s)
<1>1. /\ v \in Seq(CallMessage) /\ Len(v) = a + 1 /\ a \in Nat
      /\ DOMAIN s = 1..a /\ DOMAIN v = 1..(a + 1)
      /\ v[a + 1] = m /\ \A j \in 1..a : v[j] = s[j]
  OBVIOUS
<1> HIDE DEF v, a
<1>2. ToSet(v) = ToSet(s) \cup {m}
  <2>1. ASSUME NEW k \in ToSet(v) PROVE k \in ToSet(s) \cup {m}
    <3>1. PICK j \in 1..(a + 1) : k = v[j]
      BY <1>1, <2>1 DEF ToSet
    <3>2. j = a + 1 \/ j \in 1..a
      BY <1>1
    <3> QED
      BY <1>1, <3>1, <3>2 DEF ToSet
  <2>2. ASSUME NEW k \in ToSet(s) PROVE k \in ToSet(v)
    <3>1. PICK j \in 1..a : k = s[j]
      BY <1>1, <2>2 DEF ToSet
    <3>2. j \in 1..(a + 1) /\ v[j] = k
      BY <1>1, <3>1
    <3> QED
      BY <1>1, <3>2 DEF ToSet
  <2>3. a + 1 \in 1..(a + 1)
    BY <1>1
  <2>4. m \in ToSet(v)
    BY <1>1, <2>3 DEF ToSet
  <2> QED
    BY <2>1, <2>2, <2>4
<1>3. Rising(v)
  <2> SUFFICES ASSUME NEW j \in 1..(a + 1), NEW k \in 1..(a + 1), j < k, v[j].id = v[k].id
               PROVE  v[j].n < v[k].n
    BY <1>1 DEF Rising
  <2>1. j \in 1..a /\ (k = a + 1 \/ k \in 1..a)
    BY <1>1
  <2>2. v[j] = s[j] /\ s[j] \in ToSet(s)
    BY <1>1, <2>1 DEF ToSet
  <2>3. CASE k = a + 1
    BY <1>1, <2>2, <2>3
  <2>4. CASE k \in 1..a
    BY <1>1, <2>1, <2>2, <2>4 DEF Rising
  <2> QED
    BY <2>1, <2>3, <2>4
<1> QED
  BY <1>1, <1>2, <1>3 DEF v

-----------------------------------------------------------------------------
(* The handlers that send, read and answer no message.  Who leaves drops   *)
(* his, and only calls whose owner has left lose executions.               *)
Kept ==
  /\ dev' = dev /\ listed' \in SUBSET listed
  /\ \A f \in Fusionees :
       \/ messages'[f] = messages[f] /\ owed'[f] = owed[f] /\ (f \in listed' <=> f \in listed)
       \/ messages'[f] = <<>> /\ owed'[f] = <<>>  /\ f \notin listed'
  /\ \A c \in Calls : /\ count'[c] = count[c]
                      /\ state[c] # "unborn" => state'[c] # "unborn" /\ owner'[c] = owner[c]
                      /\ owner'[c] \in listed' => executions'[c] = executions[c]
  /\ \A e \in Executions : /\ exec'[e].serial = exec[e].serial
                           /\ exec'[e].executed = exec[e].executed
                           /\ exec'[e].ret = exec[e].ret

LEMMA InHandTypes ==
  ASSUME TypeInv, NEW f \in Fusionees, NEW m \in InHand(f)
  PROVE  m \in CallMessage /\ m.id \in Calls /\ m.n \in 1..MaxCount /\ m.n \in Int
<1>1. messages[f] \in Seq(CallMessage) /\ owed[f] \in Seq(CallMessage)
  BY DEF TypeInv, Q!TypeOK
<1>2. (\E i \in DOMAIN messages[f] : m = messages[f][i]) \/ (\E i \in DOMAIN owed[f] : m = owed[f][i])
  BY DEF InHand, ToSet
<1>3. m \in CallMessage
  <2>1. CASE \E i \in DOMAIN messages[f] : m = messages[f][i]
    BY <1>1, <2>1, ElementOf
  <2>2. CASE \E i \in DOMAIN owed[f] : m = owed[f][i]
    BY <1>1, <2>2, ElementOf
  <2> QED
    BY <1>2, <2>1, <2>2
<1>4. m.id \in Calls /\ m.n \in 1..MaxCount
  BY <1>3 DEF CallMessage
<1> QED
  BY <1>3, <1>4

LEMMA KeptMatch ==
  ASSUME TypeInv, FreeInv, MatchInv, Kept
  PROVE  MatchInv'
<1>1. \A f \in Fusionees : InHand(f)' \in SUBSET InHand(f)
  <2>1. ToSet(<<>>) = {}
    BY DEF ToSet
  <2> QED
    BY <2>1 DEF Kept, InHand
<1>2. InTurn'
  <2> SUFFICES ASSUME NEW f \in Fusionees
               PROVE  /\ Rising(owed'[f]) /\ Rising(messages'[f]) /\ Ahead(owed'[f], messages'[f])
                      /\ \A m \in InHand(f)' :
                           /\ state'[m.id] # "unborn" /\ owner'[m.id] = f /\ m.n <= count'[m.id]
                           /\ "oneway" \notin dev'.env => m.serial # 0
                      /\ f \notin listed' => messages'[f] = <<>> /\ owed'[f] = <<>>
    BY DEF InTurn
  <2>1. /\ Rising(owed[f]) /\ Rising(messages[f]) /\ Ahead(owed[f], messages[f])
        /\ f \notin listed => messages[f] = <<>> /\ owed[f] = <<>>
    BY DEF MatchInv, InTurn
  <2>2. Rising(<<>>) /\ Ahead(<<>>, <<>>)
    BY DEF Rising, Ahead, ToSet
  <2>3. \/ messages'[f] = messages[f] /\ owed'[f] = owed[f] /\ (f \in listed' <=> f \in listed)
        \/ messages'[f] = <<>> /\ owed'[f] = <<>>  /\ f \notin listed'
    BY DEF Kept
  <2>4. ASSUME NEW m \in InHand(f)'
        PROVE  /\ state'[m.id] # "unborn" /\ owner'[m.id] = f /\ m.n <= count'[m.id]
               /\ "oneway" \notin dev'.env => m.serial # 0
    <3>1. m \in InHand(f) /\ m.id \in Calls
      BY <1>1, <2>4, InHandTypes
    <3>2. /\ state[m.id] # "unborn" /\ owner[m.id] = f /\ m.n <= count[m.id]
          /\ "oneway" \notin dev.env => m.serial # 0
      BY <3>1 DEF MatchInv, InTurn
    <3>3. /\ count'[m.id] = count[m.id] /\ dev' = dev
          /\ state'[m.id] # "unborn" /\ owner'[m.id] = owner[m.id]
      BY <3>1, <3>2 DEF Kept
    <3> QED
      BY <3>2, <3>3
  <2>5. /\ Rising(owed'[f]) /\ Rising(messages'[f]) /\ Ahead(owed'[f], messages'[f])
        /\ f \notin listed' => messages'[f] = <<>> /\ owed'[f] = <<>>
    BY <2>1, <2>2, <2>3
  <2> QED
    BY <2>4, <2>5
<1>3. Matched' <=> Matched
  BY DEF Matched, Kept
<1>4. Asked'
  <2> SUFFICES ASSUME Matched, NEW c \in Calls, owner'[c] \in listed'
               PROVE  /\ \A m \in InHand(owner[c])' : m.id = c /\ m.serial # 0 =>
                           m.n \in ToSet(executions'[c]) /\ Wants(m, c, m.n)'
                      /\ \A n \in ToSet(executions'[c]) :
                           \E m \in InHand(owner[c])' : Wants(m, c, n)'
    BY <1>3 DEF Asked
  <2>1. PICK f \in Fusionees : f = owner'[c]
    BY DEF Kept, TypeInv, Q!TypeOK
  <2>2. f \in listed /\ f \in listed' /\ InHand(owner[c])' = InHand(f)'
    BY <2>1 DEF Kept, InHand
  <2>3. InHand(f)' = InHand(f)
    <3>1. messages'[f] = messages[f] /\ owed'[f] = owed[f]
      BY <2>1, <2>2 DEF Kept
    <3> QED
      BY <3>1 DEF InHand
  <2>4. executions'[c] = executions[c] /\ executions[c] \in Seq(1..MaxCount)
    BY <2>1, <2>2 DEF Kept, TypeInv, ListTypes
  <2>5. \A n \in 1..MaxCount : exec'[<<c, n>>].serial = exec[<<c, n>>].serial
    BY DEF Kept, Executions
  <2>6. \A n \in 1..MaxCount : \A m : Wants(m, c, n)' <=> Wants(m, c, n)
    BY <2>5 DEF Wants
  <2>7. \A n \in ToSet(executions[c]) : n \in 1..MaxCount
    BY OnList
  <2>8. CASE state[c] = "unborn"
    <3>1. executions[c] = <<>>
      BY <2>8 DEF FreeInv, Listed
    <3>2. ToSet(executions'[c]) = {}
      BY <2>4, <3>1 DEF ToSet
    <3>3. \A m \in InHand(f) : m.id # c
      BY <2>1, <2>2, <2>8 DEF MatchInv, InTurn
    <3> QED
      BY <2>2, <2>3, <3>2, <3>3
  <2>9. CASE state[c] # "unborn"
    <3>1. owner[c] = f
      BY <2>1, <2>9 DEF Kept
    <3>2. /\ \A m \in InHand(f) : m.id = c /\ m.serial # 0 =>
               m.n \in ToSet(executions[c]) /\ Wants(m, c, m.n)
          /\ \A n \in ToSet(executions[c]) : \E m \in InHand(f) : Wants(m, c, n)
      BY <2>1, <2>2, <3>1 DEF MatchInv, Asked
    <3>3. ASSUME NEW m \in InHand(f)', m.id = c, m.serial # 0
          PROVE  m.n \in ToSet(executions'[c]) /\ Wants(m, c, m.n)'
      <4>1. m \in InHand(f) /\ m.n \in 1..MaxCount
        BY <2>1, <2>3, <3>3, InHandTypes
      <4> QED
        BY <2>4, <2>6, <3>2, <3>3, <4>1
    <3>4. ASSUME NEW n \in ToSet(executions'[c]) PROVE \E m \in InHand(f)' : Wants(m, c, n)'
      BY <2>3, <2>4, <2>6, <2>7, <3>2, <3>4
    <3> QED
      BY <2>2, <3>3, <3>4
  <2> QED
    BY <2>2, <2>8, <2>9
<1>5. ResultIsOwn'
  BY <1>3 DEF Kept, MatchInv, ResultIsOwn
<1> QED
  BY <1>2, <1>4, <1>5 DEF MatchInv

\* Nothing Kept speaks of changes.
Still == UNCHANGED <<dev, listed, messages, owed, count, state, owner, executions, exec>>

LEMMA StillKept ==
  ASSUME Still
  PROVE  Kept
BY DEF Still, Kept

LEMMA StillCaller ==
  ASSUME NEW t \in Threads,
         ExecuteSleep(t) \/ LockGranted(t) \/ \E c \in Calls : ExecuteFails(t, c) \/ LockBlocks(t, c)
  PROVE  Still
BY DEF Still, ExecuteFails, LockBlocks, ExecuteSleep, LockGranted,
       msgVars, listVars, execVars, lockVars, devVars

LEMMA StillOwner ==
  ASSUME NEW t \in Threads,
         ReturnWake(t) \/ DestroyLock(t) \/ DestroyWoken(t) \/ ProcessingWoken(t) \/ Interrupt(t)
           \/ \E c \in Calls : DestroyStart(t, c)
  PROVE  Still
<1>1. CASE ReturnWake(t) \/ DestroyLock(t)
  BY <1>1 DEF Still, ReturnWake, DestroyLock, msgVars, listVars, devVars
<1>2. CASE DestroyWoken(t)
  BY <1>2 DEF Still, DestroyWoken, DestroyLoop, Q!WaitProcessing, listVars, execVars, lockVars, devVars
<1>3. CASE \E c \in Calls : DestroyStart(t, c)
  BY <1>3 DEF Still, DestroyStart, DestroyLoop, Q!WaitProcessing, listVars, execVars, lockVars, devVars
<1>4. CASE ProcessingWoken(t)
  BY <1>4 DEF Still, ProcessingWoken, Q!ProcessingWoken, listVars, execVars, lockVars, devVars
<1>5. CASE Interrupt(t)
  BY <1>5 DEF Still, Interrupt, Q!Interrupt, msgVars, listVars, lockVars, devVars
<1> QED
  BY <1>1, <1>2, <1>3, <1>4, <1>5

(* A caller that comes back changes only what says who frees its execution.*)
LEMMA BackKept ==
  ASSUME TypeInv, FreeInv, NEW t \in Threads, CallerWoken(t) \/ CallerSignal(t)
  PROVE  Kept
<1>1. UNCHANGED <<dev, listed, messages, owed, count, state, owner, executions>>
  BY DEF CallerWoken, CallerSignal, msgVars, listVars, lockVars, devVars
<1>2. PICK e \in Executions : e = ExecOf(t)
  BY DEF CallerWoken, CallerSignal, FreeInv, Places, InExecute
<1>3. exec' \in {[exec EXCEPT ![e].frees = @ + 1], [exec EXCEPT ![e].caller = None]}
  BY <1>2 DEF CallerWoken, CallerSignal
<1>4. \A x \in Executions : /\ exec'[x].serial = exec[x].serial
                            /\ exec'[x].executed = exec[x].executed
                            /\ exec'[x].ret = exec[x].ret
  <2> SUFFICES ASSUME NEW x \in Executions
               PROVE  /\ exec'[x].serial = exec[x].serial
                      /\ exec'[x].executed = exec[x].executed
                      /\ exec'[x].ret = exec[x].ret
    OBVIOUS
  <2>1. exec[x] \in ExecutionObject
    BY DEF TypeInv, ExecTypes
  <2>2. exec'[x] \in {exec[x], [exec[x] EXCEPT !.frees = @ + 1], [exec[x] EXCEPT !.caller = None]}
    BY <1>3 DEF TypeInv, ExecTypes
  <2> QED
    BY <2>1, <2>2 DEF ExecutionObject
<1> QED
  BY <1>1, <1>4 DEF Kept

LEMMA NewKept ==
  ASSUME TypeInv, FreeInv, NEW t \in Threads, NEW c \in Calls, New(t, c)
  PROVE  Kept
<1>1. UNCHANGED <<dev, listed, messages, owed, count, executions, exec>>
  BY DEF New, msgVars, execVars, lockVars, devVars
<1>2. \A d \in Calls : state[d] # "unborn" => state'[d] # "unborn" /\ owner'[d] = owner[d]
  BY DEF New, TypeInv, ListTypes
<1> QED
  BY <1>1, <1>2 DEF Kept

(* The calls in C go: none had an execution, or their owner has left.      *)
LEMMA GoneKept ==
  ASSUME TypeInv, FreeInv, NEW C \in SUBSET Calls, DestroyCalls(C),
         \A c \in C : executions[c] = <<>> \/ owner[c] \notin listed,
         UNCHANGED <<dev, listed, messages, owed>>
  PROVE  Kept
<1>1. /\ \A c \in Calls : executions'[c] = IF c \in C THEN <<>> ELSE executions[c]
      /\ \A c \in Calls : state'[c] = IF c \in C THEN "gone" ELSE state[c]
      /\ UNCHANGED <<owner, count>>
      /\ \A c \in Calls, n \in 1..MaxCount :
           IF c \in C /\ n \in ToSet(executions[c])
           THEN exec'[<<c, n>>] = [exec[<<c, n>>] EXCEPT !.frees = @ + 1]
           ELSE exec'[<<c, n>>] = exec[<<c, n>>] /\ ewait'[<<c, n>>] = ewait[<<c, n>>]
  BY Gone
<1>2. \A c \in Calls : owner'[c] \in listed' => executions'[c] = executions[c]
  BY <1>1
<1>3. ASSUME NEW x \in Executions
      PROVE  /\ exec'[x].serial = exec[x].serial
             /\ exec'[x].executed = exec[x].executed
             /\ exec'[x].ret = exec[x].ret
  <2>1. exec[x] \in ExecutionObject
    BY DEF TypeInv, ExecTypes
  <2>2. exec'[x] = exec[x] \/ exec'[x] = [exec[x] EXCEPT !.frees = @ + 1]
    <3>1. PICK d \in Calls, n \in 1..MaxCount : x = <<d, n>>
      BY DEF Executions
    <3> QED
      BY <1>1, <3>1
  <2> QED
    BY <2>1, <2>2 DEF ExecutionObject
<1>4. \A c \in Calls : state[c] # "unborn" => state'[c] # "unborn" /\ owner'[c] = owner[c]
  BY <1>1
<1> QED
  BY <1>1, <1>2, <1>3, <1>4 DEF Kept

LEMMA FinishKept ==
  ASSUME TypeInv, FreeInv, NEW t \in Threads, DestroyFinish(t)
  PROVE  Kept
<1>1. PICK c \in Calls : c = cop[t].call
  BY DEF DestroyFinish, FreeInv, Places
<1>2. /\ cop[t].at = "destroy" /\ DestroyCalls({c})
      /\ UNCHANGED <<dev, listed, messages, owed>>
  BY <1>1 DEF DestroyFinish, msgVars, devVars
<1>3. executions[c] = <<>>
  BY <1>1, <1>2 DEF FreeInv, Locked, Locking
<1> QED
  BY <1>2, <1>3, GoneKept

LEMMA DestroyAllKept ==
  ASSUME TypeInv, FreeInv, NEW f \in Fusionees, DestroyAll(f)
  PROVE  Kept
<1> DEFINE C == {c \in Calls : state[c] = "live" /\ owner[c] = f}
<1>1. /\ C \in SUBSET Calls /\ DestroyCalls(C)
      /\ UNCHANGED <<dev, listed, messages, owed>>
  BY DEF DestroyAll, msgVars, lockVars, devVars
<1>2. \A c \in C : owner[c] \notin listed
  BY DEF DestroyAll
<1> HIDE DEF C
<1> QED
  BY <1>1, <1>2, GoneKept

LEMMA LeaveKept ==
  ASSUME TypeInv, NEW f \in Fusionees, Leave(f)
  PROVE  Kept
<1>1. UNCHANGED <<dev, listVars, exec>> /\ Q!Release(f) /\ owed' = [owed EXCEPT ![f] = <<>>]
  BY DEF Leave, execVars, lockVars, devVars
<1>2. listed' = listed \ {f} /\ messages' = [messages EXCEPT ![f] = <<>>]
  BY <1>1 DEF Q!Release
<1>3. \A g \in Fusionees :
        \/ messages'[g] = messages[g] /\ owed'[g] = owed[g] /\ (g \in listed' <=> g \in listed)
        \/ messages'[g] = <<>> /\ owed'[g] = <<>>  /\ g \notin listed'
  BY <1>1, <1>2 DEF TypeInv, Q!TypeOK
<1> QED
  BY <1>1, <1>2, <1>3 DEF Kept, listVars

(* A read moves messages from those that were sent to those in work, and   *)
(* drops those that want no answer.                                        *)
LEMMA ReadMoves ==
  ASSUME TypeInv, MatchInv, NEW t \in Threads, NEW f \in Fusionees, f = Fid[t], Dispatch(t)
  PROVE  /\ Rising(owed'[f]) /\ Rising(messages'[f]) /\ Ahead(owed'[f], messages'[f])
         /\ InHand(f)' \in SUBSET InHand(f)
         /\ \A m \in InHand(f) : m.serial # 0 => m \in InHand(f)'
         /\ \A g \in Fusionees : g # f => messages'[g] = messages[g] /\ owed'[g] = owed[g]
<1> DEFINE s == messages[f]
           o == owed[f]
<1>1. /\ s \in Seq(CallMessage) /\ o \in Seq(CallMessage)
      /\ Rising(o) /\ Rising(s) /\ Ahead(o, s)
  BY DEF TypeInv, Q!TypeOK, MatchInv, InTurn
<1>2. /\ Q!ReadSleep(t) \/ Q!ReadNow(t) \/ Q!ReadWoken(t)
      /\ owed' = [owed EXCEPT ![f] = IF messages'[f] = messages[f] THEN @
                                     ELSE @ \o Wanting(handling'[f])]
  BY DEF Dispatch
<1>3. \A g \in Fusionees : g # f => owed'[g] = owed[g]
  BY <1>2 DEF TypeInv
<1>4. CASE messages'[f] = messages[f]
  <2>1. owed'[f] = o
    BY <1>2, <1>4 DEF TypeInv
  <2>2. \A g \in Fusionees : g # f => messages'[g] = messages[g]
    BY <1>2, ReadTypes DEF TypeInv, Q!TypeOK
  <2>3. InHand(f)' = InHand(f)
    BY <1>4, <2>1 DEF InHand
  <2> QED
    BY <1>1, <1>3, <1>4, <2>1, <2>2, <2>3
<1>5. CASE messages'[f] # messages[f]
  <2>1. PICK k \in 0..Len(s) : /\ messages' = [messages EXCEPT ![f] = SubSeq(@, k + 1, Len(@))]
                               /\ handling'[f] = SubSeq(s, 1, k)
    BY <1>2, <1>5, ReadTypes DEF TypeInv
  <2> DEFINE a == SubSeq(s, 1, k)
             b == SubSeq(s, k + 1, Len(s))
             w == Wanting(a)
             n == Len(s)
  <2>2. messages'[f] = b /\ owed'[f] = o \o w /\ \A g \in Fusionees : g # f => messages'[g] = messages[g]
    BY <1>2, <1>5, <2>1 DEF TypeInv, Q!TypeOK
  <2>3. n \in Nat /\ DOMAIN s = 1..n /\ k \in 0..n /\ k \in Nat
    BY <1>1
  <2>4. /\ a \in Seq(CallMessage) /\ Picks(a, s, 1..k)
        /\ b \in Seq(CallMessage) /\ Picks(b, s, (k + 1)..n)
    BY <1>1, SplitPicks
  <2>5. w \in Seq(CallMessage) /\ Picks(w, a, {i \in DOMAIN a : HasSerial(a[i])})
    BY <2>4, WantingTypes
  <2> DEFINE W == {i \in DOMAIN a : HasSerial(a[i])}
  <2>6. W \in SUBSET DOMAIN a /\ (1..k) \in SUBSET DOMAIN s /\ ((k + 1)..n) \in SUBSET DOMAIN s
    BY <2>3
  <2> HIDE DEF s, o, a, b, w, n
  <2>7. ToSet(a) = {s[i] : i \in 1..k} /\ ToSet(b) = {s[i] : i \in (k + 1)..n}
    BY <1>1, <2>4, <2>6, PicksToSet
  <2>8. ToSet(w) = {a[i] : i \in W}
    BY <2>4, <2>5, <2>6, PicksToSet
  <2>9. Rising(a) /\ Rising(b)
    BY <1>1, <2>4, <2>6, RisingPicks
  <2>10. Rising(w)
    BY <2>4, <2>5, <2>6, <2>9, RisingPicks
  <2>11. ToSet(w) \in SUBSET ToSet(a) /\ ToSet(a) \cup ToSet(b) = ToSet(s)
    <3>1. ToSet(w) \in SUBSET ToSet(a)
      BY <2>8 DEF ToSet
    <3>2. ToSet(s) = {s[i] : i \in 1..n}
      BY <2>3 DEF ToSet
    <3>3. \A i \in 1..n : i \in 1..k \/ i \in (k + 1)..n
      BY <2>3
    <3>4. \A i \in 1..k : i \in 1..n
      BY <2>3
    <3>5. \A i \in (k + 1)..n : i \in 1..n
      BY <2>3
    <3>6. \A x : x \in ToSet(a) \cup ToSet(b) <=> x \in ToSet(s)
      BY <2>7, <3>2, <3>3, <3>4, <3>5
    <3> QED
      BY <3>1, <3>6
  <2>12. Ahead(a, b)
    <3> SUFFICES ASSUME NEW i \in 1..k, NEW j \in (k + 1)..n, s[i].id = s[j].id
                 PROVE  s[i].n < s[j].n
      BY <2>7 DEF Ahead
    <3>1. i \in DOMAIN s /\ j \in DOMAIN s /\ i < j
      BY <2>3
    <3> QED
      BY <1>1, <3>1 DEF Rising
  <2>13. Ahead(o, w) /\ Ahead(o, b) /\ Ahead(w, b)
    BY <1>1, <2>11, <2>12 DEF Ahead
  <2>14. Rising(o \o w) /\ ToSet(o \o w) = ToSet(o) \cup ToSet(w)
    BY <1>1, <2>5, <2>10, <2>13, RisingConcat, ConcatSet
  <2>15. Ahead(o \o w, b)
    BY <2>13, <2>14 DEF Ahead
  <2>16. InHand(f) = ToSet(s) \cup ToSet(o) /\ InHand(f)' = ToSet(b) \cup ToSet(o \o w)
    BY <2>2 DEF InHand, s, o
  <2>17. InHand(f)' \in SUBSET InHand(f)
    BY <2>11, <2>14, <2>16
  <2>18. \A m \in InHand(f) : m.serial # 0 => m \in InHand(f)'
    <3> SUFFICES ASSUME NEW m \in ToSet(a), m.serial # 0 PROVE m \in ToSet(w)
      BY <2>11, <2>14, <2>16
    <3>1. PICK i \in DOMAIN a : m = a[i]
      BY DEF ToSet
    <3>2. i \in W
      BY <3>1 DEF HasSerial
    <3> QED
      BY <2>8, <3>1, <3>2
  <2> QED
    BY <1>3, <2>2, <2>9, <2>14, <2>15, <2>17, <2>18
<1> QED
  BY <1>4, <1>5

LEMMA DispatchMatch ==
  ASSUME TypeInv, FreeInv, MatchInv, NEW t \in Threads, Dispatch(t)
  PROVE  MatchInv'
<1>1. PICK f \in Fusionees : f = Fid[t]
  BY QueueAssumption
<1>2. UNCHANGED <<listed, state, owner, count, executions, exec, dev>>
  BY DispatchTypes DEF listVars, execVars, lockVars, devVars
<1>3. /\ Rising(owed'[f]) /\ Rising(messages'[f]) /\ Ahead(owed'[f], messages'[f])
      /\ InHand(f)' \in SUBSET InHand(f)
      /\ \A m \in InHand(f) : m.serial # 0 => m \in InHand(f)'
      /\ \A g \in Fusionees : g # f => messages'[g] = messages[g] /\ owed'[g] = owed[g]
  BY <1>1, ReadMoves
<1>4. f \notin listed => messages'[f] = <<>> /\ owed'[f] = <<>>
  <2> SUFFICES ASSUME f \notin listed PROVE messages'[f] = <<>> /\ owed'[f] = <<>>
    OBVIOUS
  <2>1. messages[f] = <<>> /\ owed[f] = <<>>
    BY DEF MatchInv, InTurn
  <2>2. messages[f] = messages'[f]
    <3>1. \/ messages' = messages
          \/ \E k \in 0..Len(messages[Fid[t]]) :
               messages' = [messages EXCEPT ![Fid[t]] = SubSeq(@, k + 1, Len(@))]
      BY ReadTypes DEF Dispatch, TypeInv
    <3>2. CASE messages' = messages
      BY <3>2
    <3>3. CASE \E k \in 0..Len(messages[Fid[t]]) :
                 messages' = [messages EXCEPT ![Fid[t]] = SubSeq(@, k + 1, Len(@))]
      <4>1. PICK k \in 0..Len(<<>>) : messages' = [messages EXCEPT ![f] = SubSeq(@, k + 1, Len(@))]
        BY <1>1, <2>1, <3>3
      <4>2. SubSeq(<<>>, k + 1, Len(<<>>)) = <<>>
        BY <4>1
      <4> QED
        BY <2>1, <4>1, <4>2 DEF TypeInv, Q!TypeOK
    <3> QED
      BY <3>1, <3>2, <3>3
  <2>3. owed'[f] = owed[f]
    BY <1>1, <2>2 DEF Dispatch, TypeInv
  <2> QED
    BY <2>1, <2>2, <2>3
<1>5. \A g \in Fusionees : g # f => InHand(g)' = InHand(g)
  BY <1>3 DEF InHand
<1>6. InTurn'
  <2> SUFFICES ASSUME NEW g \in Fusionees
               PROVE  /\ Rising(owed'[g]) /\ Rising(messages'[g]) /\ Ahead(owed'[g], messages'[g])
                      /\ \A m \in InHand(g)' :
                           /\ state'[m.id] # "unborn" /\ owner'[m.id] = g /\ m.n <= count'[m.id]
                           /\ "oneway" \notin dev'.env => m.serial # 0
                      /\ g \notin listed' => messages'[g] = <<>> /\ owed'[g] = <<>>
    BY DEF InTurn
  <2>1. /\ Rising(owed[g]) /\ Rising(messages[g]) /\ Ahead(owed[g], messages[g])
        /\ \A m \in InHand(g) :
             /\ state[m.id] # "unborn" /\ owner[m.id] = g /\ m.n <= count[m.id]
             /\ "oneway" \notin dev.env => m.serial # 0
        /\ g \notin listed => messages[g] = <<>> /\ owed[g] = <<>>
    BY DEF MatchInv, InTurn
  <2>2. CASE g = f
    BY <1>2, <1>3, <1>4, <2>1, <2>2
  <2>3. CASE g # f
    BY <1>2, <1>3, <1>5, <2>1, <2>3
  <2> QED
    BY <2>2, <2>3
<1>7. Matched' <=> Matched
  BY <1>2 DEF Matched
<1>8. Asked'
  <2> SUFFICES ASSUME Matched, NEW c \in Calls, owner[c] \in listed
               PROVE  /\ \A m \in InHand(owner[c])' : m.id = c /\ m.serial # 0 =>
                           m.n \in ToSet(executions[c]) /\ Wants(m, c, m.n)
                      /\ \A n \in ToSet(executions[c]) :
                           \E m \in InHand(owner[c])' : Wants(m, c, n)
    BY <1>2, <1>7 DEF Asked, Wants, InHand
  <2>1. /\ \A m \in InHand(owner[c]) : m.id = c /\ m.serial # 0 =>
             m.n \in ToSet(executions[c]) /\ Wants(m, c, m.n)
        /\ \A n \in ToSet(executions[c]) : \E m \in InHand(owner[c]) : Wants(m, c, n)
    BY DEF MatchInv, Asked
  <2>2. owner[c] \in Fusionees
    BY DEF TypeInv, Q!TypeOK
  <2>3. /\ InHand(owner[c])' \in SUBSET InHand(owner[c])
        /\ \A m \in InHand(owner[c]) : m.serial # 0 => m \in InHand(owner[c])'
    <3>1. PICK g \in Fusionees : g = owner[c]
      BY <2>2
    <3>2. InHand(owner[c])' = InHand(g)' /\ InHand(owner[c]) = InHand(g)
      BY <1>2, <3>1 DEF InHand
    <3>3. InHand(g)' \in SUBSET InHand(g) /\ \A m \in InHand(g) : m.serial # 0 => m \in InHand(g)'
      BY <1>3, <1>5
    <3> QED
      BY <3>2, <3>3
  <2>4. \A m, n : Wants(m, c, n) => m.serial # 0
    BY DEF Wants
  <2> QED
    BY <2>1, <2>3, <2>4
<1>9. ResultIsOwn'
  BY <1>2, <1>7 DEF MatchInv, ResultIsOwn
<1> QED
  BY <1>6, <1>8, <1>9 DEF MatchInv

(* A message is sent: it is behind all others of its call.                 *)
LEMMA SentMoves ==
  ASSUME TypeInv, FreeInv, MatchInv, NEW c \in Calls, NEW sn \in 0..(SerialMod - 1),
         NEW f \in Fusionees, f = owner[c],
         count[c] < MaxCount, state[c] = "live", Q!Send(f, CallMsg(c, sn)), owed' = owed
  PROVE  /\ listed' = listed /\ f \in listed
         /\ CallMsg(c, sn) \in CallMessage
         /\ Rising(messages'[f]) /\ Ahead(owed[f], messages'[f])
         /\ InHand(f)' = InHand(f) \cup {CallMsg(c, sn)}
         /\ \A g \in Fusionees : g # f => messages'[g] = messages[g] /\ InHand(g)' = InHand(g)
<1> DEFINE s == messages[f]
           m == CallMsg(c, sn)
<1>1. /\ f \in listed /\ listed' = listed
      /\ messages' = [messages EXCEPT ![f] = Append(@, m)]
  BY DEF Q!Send
<1>2. m \in CallMessage
  BY MessageForms DEF TypeInv
<1>3. m.id = c /\ m.n = count[c] + 1 /\ count[c] \in Int
  BY DEF CallMsg, TypeInv, ListTypes
<1>4. s \in Seq(CallMessage) /\ Rising(s) /\ Ahead(owed[f], s)
  BY DEF TypeInv, Q!TypeOK, MatchInv, InTurn
<1> HIDE DEF m
<1>5. \A k \in InHand(f) : k.id = m.id => k.n < m.n
  <2> SUFFICES ASSUME NEW k \in InHand(f), k.id = c PROVE k.n < m.n
    BY <1>3
  <2>1. k.n <= count[c] /\ k.n \in Int
    BY InHandTypes DEF MatchInv, InTurn
  <2> QED
    BY <1>3, <2>1
<1>6. messages'[f] = Append(s, m) /\ \A g \in Fusionees : g # f => messages'[g] = messages[g]
  BY <1>1 DEF TypeInv, Q!TypeOK
<1> HIDE DEF s
<1>7. \A k \in ToSet(s) : k \in InHand(f)
  BY DEF InHand, s
<1>8. \A k \in ToSet(s) : k.id = m.id => k.n < m.n
  BY <1>5, <1>7
<1>9. Rising(Append(s, m)) /\ ToSet(Append(s, m)) = ToSet(s) \cup {m}
  BY <1>2, <1>4, <1>8, RisingAppend
<1>10. Ahead(owed[f], Append(s, m))
  BY <1>4, <1>5, <1>9 DEF Ahead, InHand
<1>11. InHand(f)' = InHand(f) \cup {m}
  BY <1>6, <1>9 DEF InHand, s
<1>12. \A g \in Fusionees : g # f => InHand(g)' = InHand(g)
  BY <1>6 DEF InHand
<1> QED
  BY <1>1, <1>2, <1>6, <1>9, <1>10, <1>11, <1>12 DEF m

LEMMA SentTurn ==
  ASSUME TypeInv, FreeInv, MatchInv, NEW c \in Calls, NEW sn \in 0..(SerialMod - 1),
         NEW f \in Fusionees, f = owner[c],
         count[c] < MaxCount, state[c] = "live", Q!Send(f, CallMsg(c, sn)), owed' = owed,
         count' = [count EXCEPT ![c] = @ + 1], UNCHANGED <<state, owner, dev>>,
         "oneway" \notin dev.env => sn # 0
  PROVE  InTurn'
<1>1. /\ listed' = listed /\ f \in listed
      /\ Rising(messages'[f]) /\ Ahead(owed[f], messages'[f])
      /\ InHand(f)' = InHand(f) \cup {CallMsg(c, sn)}
      /\ \A g \in Fusionees : g # f => messages'[g] = messages[g] /\ InHand(g)' = InHand(g)
  BY SentMoves
<1>2. \A d \in Calls : count[d] \in Int /\ count'[d] \in Int /\ count[d] <= count'[d]
  BY DEF TypeInv, ListTypes
<1>3. count'[c] = count[c] + 1
  BY DEF TypeInv, ListTypes
<1> SUFFICES ASSUME NEW g \in Fusionees
             PROVE  /\ Rising(owed'[g]) /\ Rising(messages'[g]) /\ Ahead(owed'[g], messages'[g])
                    /\ \A m \in InHand(g)' :
                         /\ state'[m.id] # "unborn" /\ owner'[m.id] = g /\ m.n <= count'[m.id]
                         /\ "oneway" \notin dev'.env => m.serial # 0
                    /\ g \notin listed' => messages'[g] = <<>> /\ owed'[g] = <<>>
  BY DEF InTurn
<1>4. /\ Rising(owed[g]) /\ Rising(messages[g]) /\ Ahead(owed[g], messages[g])
      /\ g \notin listed => messages[g] = <<>> /\ owed[g] = <<>>
  BY DEF MatchInv, InTurn
<1>5. ASSUME NEW m \in InHand(g)
      PROVE  /\ state'[m.id] # "unborn" /\ owner'[m.id] = g /\ m.n <= count'[m.id]
             /\ "oneway" \notin dev'.env => m.serial # 0
  <2>1. /\ state[m.id] # "unborn" /\ owner[m.id] = g /\ m.n <= count[m.id]
        /\ "oneway" \notin dev.env => m.serial # 0
    BY DEF MatchInv, InTurn
  <2>2. m.id \in Calls /\ m.n \in Int
    BY InHandTypes
  <2>3. m.n <= count'[m.id]
    BY <1>2, <2>1, <2>2
  <2> QED
    BY <2>1, <2>3
<1>6. CASE g = f
  <2>1. ASSUME NEW m, m = CallMsg(c, sn)
        PROVE  /\ state'[m.id] # "unborn" /\ owner'[m.id] = g /\ m.n <= count'[m.id]
               /\ "oneway" \notin dev'.env => m.serial # 0
    <3>1. m.id = c /\ m.n = count[c] + 1 /\ m.serial = sn
      BY <2>1 DEF CallMsg
    <3>2. m.n <= count'[c]
      BY <1>2, <1>3, <3>1
    <3> QED
      BY <1>6, <3>1, <3>2
  <2> QED
    BY <1>1, <1>4, <1>5, <1>6, <2>1
<1>7. CASE g # f
  BY <1>1, <1>4, <1>5, <1>7
<1> QED
  BY <1>6, <1>7

(* A one-way message wants no answer.                                      *)
LEMMA OnewayMatch ==
  ASSUME TypeInv, FreeInv, MatchInv, NEW t \in Threads, NEW c \in Calls, ExecuteOneway(t, c)
  PROVE  MatchInv'
<1>1. /\ "oneway" \in dev.env /\ state[c] = "live" /\ count[c] < MaxCount /\ owner[c] \in listed
      /\ Q!Send(owner[c], CallMsg(c, 0)) /\ count' = [count EXCEPT ![c] = @ + 1]
      /\ UNCHANGED <<state, owner, executions, exec, dev, owed>>
  BY DEF ExecuteOneway, Lockable, execVars, lockVars, devVars
<1>2. PICK f \in Fusionees : f = owner[c]
  BY <1>1 DEF TypeInv, Q!TypeOK
<1>3. 0 \in 0..(SerialMod - 1)
  BY CallAssumption
<1>4. Q!Send(f, CallMsg(c, 0))
  BY <1>1, <1>2
<1>5. /\ listed' = listed /\ InHand(f)' = InHand(f) \cup {CallMsg(c, 0)}
      /\ \A g \in Fusionees : g # f => InHand(g)' = InHand(g)
  BY <1>1, <1>2, <1>3, <1>4, SentMoves
<1>6. InTurn'
  BY <1>1, <1>2, <1>3, <1>4, SentTurn
<1>7. Matched' <=> Matched
  BY <1>1 DEF Matched
<1>8. Asked'
  <2> SUFFICES ASSUME Matched, NEW d \in Calls, owner[d] \in listed
               PROVE  /\ \A m \in InHand(owner[d])' : m.id = d /\ m.serial # 0 =>
                           m.n \in ToSet(executions[d]) /\ Wants(m, d, m.n)
                      /\ \A n \in ToSet(executions[d]) :
                           \E m \in InHand(owner[d])' : Wants(m, d, n)
    BY <1>1, <1>5, <1>7 DEF Asked, Wants, InHand
  <2>1. /\ \A m \in InHand(owner[d]) : m.id = d /\ m.serial # 0 =>
             m.n \in ToSet(executions[d]) /\ Wants(m, d, m.n)
        /\ \A n \in ToSet(executions[d]) : \E m \in InHand(owner[d]) : Wants(m, d, n)
    BY DEF MatchInv, Asked
  <2>2. PICK g \in Fusionees : g = owner[d]
    BY DEF TypeInv, Q!TypeOK
  <2>3. InHand(owner[d])' = InHand(g)' /\ InHand(owner[d]) = InHand(g)
    BY <1>1, <2>2 DEF InHand
  <2>4. InHand(g)' = InHand(g) \/ InHand(g)' = InHand(g) \cup {CallMsg(c, 0)}
    BY <1>5
  <2>5. CallMsg(c, 0).serial = 0
    BY DEF CallMsg
  <2> QED
    BY <2>1, <2>3, <2>4, <2>5
<1>9. ResultIsOwn'
  BY <1>1, <1>7 DEF MatchInv, ResultIsOwn
<1> QED
  BY <1>6, <1>8, <1>9 DEF MatchInv

LEMMA SyncMatch ==
  ASSUME TypeInv, FreeInv, MatchInv, NEW t \in Threads, NEW c \in Calls, ExecuteSync(t, c)
  PROVE  MatchInv'
<1>1. /\ Lockable(c) /\ count[c] < MaxCount /\ owner[c] \in listed
      /\ Q!Send(owner[c], CallMsg(c, NextSerial(c)))
      /\ UNCHANGED <<state, owner, dev, owed>>
  BY DEF ExecuteSync, devVars
<1>2. PICK n \in 1..MaxCount : n = count[c] + 1 /\ <<c, n>> \in Executions
  <2>1. 0 \in 0..(SerialMod - 1) /\ ListTypes /\ count[c] < MaxCount
    BY <1>1, CallAssumption DEF TypeInv
  <2> QED
    BY <2>1, MessageForms
<1>3. PICK sn \in 0..(SerialMod - 1) : sn = NextSerial(c) /\ sn # 0
  <2>1. NextSerial(c) \in 1..(SerialMod - 1)
    BY Serials DEF TypeInv
  <2>2. \A i \in 1..(SerialMod - 1) : i \in 0..(SerialMod - 1) /\ i # 0
    BY CallAssumption
  <2> QED
    BY <2>1, <2>2
<1>4. PICK x : x = [NoExecution EXCEPT !.caller = Fid[t], !.serial = sn]
  OBVIOUS
<1>5. PICK m0 : m0 = CallMsg(c, sn)
  OBVIOUS
<1>6. /\ exec' = [exec EXCEPT ![<<c, n>>] = x]
      /\ executions' = [executions EXCEPT ![c] = <<n>> \o @]
      /\ count' = [count EXCEPT ![c] = n]
  BY <1>2, <1>3, <1>4 DEF ExecuteSync
<1>7. n \in Int /\ n = count[c] + 1 /\ count[c] \in Nat
  BY <1>2, OnList
<1>8. x.serial = sn /\ ~ x.executed
  BY <1>4 DEF NoExecution
<1>9. m0.id = c /\ m0.n = n /\ m0.serial = sn
  BY <1>2, <1>5 DEF CallMsg
<1>10. PICK f \in Fusionees : f = owner[c]
  BY <1>1 DEF TypeInv, Q!TypeOK
<1>11. state[c] = "live" /\ Q!Send(f, CallMsg(c, sn)) /\ count' = [count EXCEPT ![c] = @ + 1]
  BY <1>1, <1>2, <1>10, <1>3, <1>6 DEF Lockable
<1>12. /\ listed' = listed /\ InHand(f)' = InHand(f) \cup {m0}
      /\ \A g \in Fusionees : g # f => InHand(g)' = InHand(g)
  BY <1>1, <1>10, <1>11, <1>5, SentMoves
<1>13. InTurn'
  BY <1>1, <1>10, <1>11, <1>3, SentTurn
<1>14. exec'[<<c, n>>] = x /\ \A e \in Executions : e # <<c, n>> => exec'[e] = exec[e]
  BY <1>2, <1>6 DEF TypeInv, ExecTypes
<1>15. executions'[c] = <<n>> \o executions[c] /\ \A d \in Calls : d # c => executions'[d] = executions[d]
  BY <1>6 DEF TypeInv, ListTypes
<1>16. \A k \in ToSet(executions[c]) : k < n /\ k # n
  <2> SUFFICES ASSUME NEW k \in ToSet(executions[c]) PROVE k < n /\ k # n
    OBVIOUS
  <2>1. k \in Int /\ k <= count[c]
    BY OnList
  <2> QED
    BY <1>7, <2>1
<1>17. ToSet(executions'[c]) = {n} \cup ToSet(executions[c])
  <2>1. executions[c] \in Seq(1..MaxCount) /\ Falling(executions[c])
    BY OnList
  <2> QED
    BY <1>2, <1>15, <1>16, <2>1, Push
<1>18. Matched' <=> Matched
  BY <1>1 DEF Matched
<1>19. Asked'
  <2> SUFFICES ASSUME Matched, NEW d \in Calls, owner[d] \in listed
               PROVE  /\ \A m \in InHand(owner[d])' : m.id = d /\ m.serial # 0 =>
                           m.n \in ToSet(executions'[d]) /\ Wants(m, d, m.n)'
                      /\ \A k \in ToSet(executions'[d]) :
                           \E m \in InHand(owner[d])' : Wants(m, d, k)'
    BY <1>1, <1>12, <1>18 DEF Asked, InHand
  <2>1. /\ \A m \in InHand(owner[d]) : m.id = d /\ m.serial # 0 =>
             m.n \in ToSet(executions[d]) /\ Wants(m, d, m.n)
        /\ \A k \in ToSet(executions[d]) : \E m \in InHand(owner[d]) : Wants(m, d, k)
    BY DEF MatchInv, Asked
  <2>2. PICK g \in Fusionees : g = owner[d]
    BY DEF TypeInv, Q!TypeOK
  <2>3. InHand(owner[d])' = InHand(g)' /\ InHand(owner[d]) = InHand(g)
    BY <1>1, <2>2 DEF InHand
  <2>4. InHand(g)' = InHand(g) \/ (g = f /\ InHand(g)' = InHand(g) \cup {m0})
    BY <1>12
  <2>5. \A k \in ToSet(executions[d]) : k \in 1..MaxCount /\ <<d, k>> # <<c, n>>
    BY <1>16, OnList
  <2>6. \A k \in ToSet(executions[d]) : \A m : Wants(m, d, k)' <=> Wants(m, d, k)
    <3> SUFFICES ASSUME NEW k \in ToSet(executions[d]) PROVE \A m : Wants(m, d, k)' <=> Wants(m, d, k)
      OBVIOUS
    <3>1. exec'[<<d, k>>] = exec[<<d, k>>]
      BY <1>14, <2>5 DEF Executions
    <3> QED
      BY <3>1 DEF Wants
  <2>7. CASE d = c
    <3>1. g = f /\ InHand(g)' = InHand(g) \cup {m0}
      BY <1>10, <1>12, <2>2, <2>7
    <3>2. Wants(m0, c, n)'
      BY <1>8, <1>9, <1>14, <1>3 DEF Wants
    <3>3. ASSUME NEW m \in InHand(g)', m.id = d, m.serial # 0
          PROVE  m.n \in ToSet(executions'[d]) /\ Wants(m, d, m.n)'
      <4>1. CASE m = m0
        BY <1>9, <1>17, <2>7, <3>2, <4>1
      <4>2. CASE m \in InHand(g)
        <5>1. m.n \in ToSet(executions[d]) /\ Wants(m, d, m.n)
          BY <2>1, <2>3, <3>3, <4>2
        <5> QED
          BY <1>17, <2>6, <2>7, <5>1
      <4> QED
        BY <3>1, <3>3, <4>1, <4>2
    <3>4. ASSUME NEW k \in ToSet(executions'[d]) PROVE \E m \in InHand(g)' : Wants(m, d, k)'
      <4>1. CASE k = n
        BY <2>7, <3>1, <3>2, <4>1
      <4>2. CASE k \in ToSet(executions[d])
        BY <2>1, <2>3, <2>6, <3>1, <4>2
      <4> QED
        BY <1>17, <2>7, <3>4, <4>1, <4>2
    <3> QED
      BY <2>3, <3>3, <3>4
  <2>8. CASE d # c
    <3>1. executions'[d] = executions[d]
      BY <1>15, <2>8
    <3>2. ASSUME NEW m \in InHand(g)', m.id = d, m.serial # 0
          PROVE  m.n \in ToSet(executions'[d]) /\ Wants(m, d, m.n)'
      <4>1. m \in InHand(g)
        BY <1>9, <2>4, <2>8, <3>2
      <4>2. m.n \in ToSet(executions[d]) /\ Wants(m, d, m.n)
        BY <2>1, <2>3, <3>2, <4>1
      <4> QED
        BY <2>6, <3>1, <4>2
    <3>3. ASSUME NEW k \in ToSet(executions'[d]) PROVE \E m \in InHand(g)' : Wants(m, d, k)'
      <4>1. PICK m \in InHand(g) : Wants(m, d, k)
        BY <2>1, <2>3, <3>1, <3>3
      <4> QED
        BY <2>4, <2>6, <3>1, <3>3, <4>1
    <3> QED
      BY <2>3, <3>2, <3>3
  <2> QED
    BY <2>7, <2>8
<1>20. ResultIsOwn'
  <2> SUFFICES ASSUME Matched, NEW e \in Executions, exec'[e].executed PROVE exec'[e].ret = e[2]
    BY <1>18 DEF ResultIsOwn
  <2>1. e # <<c, n>>
    BY <1>8, <1>14
  <2> QED
    BY <1>14, <2>1 DEF MatchInv, ResultIsOwn
<1> QED
  BY <1>13, <1>19, <1>20 DEF MatchInv

(* A message is answered: nothing else in hand is of its execution.        *)
LEMMA AnswerMoves ==
  ASSUME TypeInv, MatchInv, NEW t \in Threads, NEW i, MayAnswer(t, i), Answered(t, i),
         NEW f \in Fusionees, f = Fid[t], NEW m, m = owed[f][i], messages' = messages
  PROVE  /\ m \in InHand(f) /\ m \in CallMessage /\ i \in DOMAIN owed[f]
         /\ Rising(owed'[f]) /\ Ahead(owed'[f], messages[f])
         /\ InHand(f)' \in SUBSET InHand(f)
         /\ \A k \in InHand(f) : k \in InHand(f)' \/ k = m
         /\ \A k \in InHand(f)' : k.id = m.id => k.n # m.n
         /\ f \in listed
         /\ \A g \in Fusionees : g # f => owed'[g] = owed[g] /\ InHand(g)' = InHand(g)
<1> DEFINE o == owed[f]
           I == DOMAIN o \ {i}
           u == RemoveAt(o, i)
<1>1. i \in DOMAIN o /\ o \in Seq(CallMessage) /\ Rising(o) /\ Ahead(o, messages[f])
  BY DEF MayAnswer, TypeInv, MatchInv, InTurn
<1>2. m \in CallMessage /\ m \in ToSet(o)
  BY <1>1, ElementOf DEF ToSet
<1>3. owed'[f] = u /\ \A g \in Fusionees : g # f => owed'[g] = owed[g]
  BY DEF Answered, TypeInv
<1>4. u \in Seq(CallMessage) /\ Picks(u, o, I) /\ I \in SUBSET DOMAIN o
  BY <1>1, RemovePicks
<1>5. m = o[i]
  OBVIOUS
<1> HIDE DEF o, u
<1>6. ToSet(u) = {o[j] : j \in I} /\ Rising(u)
  BY <1>1, <1>4, PicksToSet, RisingPicks
<1>7. ToSet(u) \in SUBSET ToSet(o) /\ \A k \in ToSet(o) : k \in ToSet(u) \/ k = m
  BY <1>5, <1>6 DEF ToSet
<1>8. Ahead(u, messages[f])
  BY <1>1, <1>7 DEF Ahead
<1>9. InHand(f) = ToSet(messages[f]) \cup ToSet(o) /\ InHand(f)' = ToSet(messages[f]) \cup ToSet(u)
  BY <1>3 DEF InHand, o
<1>10. ASSUME NEW k \in InHand(f)', k.id = m.id PROVE k.n # m.n
  <2>1. k \in InHand(f) /\ m \in InHand(f)
    BY <1>2, <1>7, <1>9
  <2>2. k.n \in Int /\ m.n \in Int
    BY <2>1, InHandTypes
  <2>3. CASE k \in ToSet(messages[f])
    <3>1. m.n < k.n
      BY <1>1, <1>2, <1>10, <2>3 DEF Ahead
    <3> QED
      BY <2>2, <3>1
  <2>4. CASE k \in ToSet(u)
    <3>1. PICK j \in DOMAIN o : j # i /\ k = o[j]
      BY <1>6, <2>4
    <3>2. j \in Int /\ i \in Int
      BY <1>1
    <3>3. CASE i < j
      <4>1. m.n < k.n
        BY <1>1, <1>5, <1>10, <3>1, <3>3 DEF Rising
      <4> QED
        BY <2>2, <4>1
    <3>4. CASE j < i
      <4>1. k.n < m.n
        BY <1>1, <1>5, <1>10, <3>1, <3>4 DEF Rising
      <4> QED
        BY <2>2, <4>1
    <3> QED
      BY <3>1, <3>2, <3>3, <3>4
  <2> QED
    BY <1>9, <1>10, <2>3, <2>4
<1>11. f \in listed
  <2> SUFFICES ASSUME f \notin listed PROVE FALSE
    OBVIOUS
  <2>1. o = <<>>
    BY DEF MatchInv, InTurn, o
  <2> QED
    BY <1>1, <2>1
<1>12. \A g \in Fusionees : g # f => InHand(g)' = InHand(g)
  BY <1>3 DEF InHand
<1> QED
  BY <1>1, <1>2, <1>3, <1>6, <1>7, <1>8, <1>9, <1>10, <1>11, <1>12 DEF o

(* What is left in hand is still in turn.                                  *)
LEMMA AnswerTurn ==
  ASSUME TypeInv, MatchInv, NEW t \in Threads, NEW i, MayAnswer(t, i), Answered(t, i),
         UNCHANGED <<messages, listed, state, owner, count, dev>>
  PROVE  InTurn'
<1>1. PICK f \in Fusionees : f = Fid[t]
  BY QueueAssumption
<1>2. PICK m : m = owed[f][i]
  OBVIOUS
<1>3. /\ Rising(owed'[f]) /\ Ahead(owed'[f], messages[f])
      /\ InHand(f)' \in SUBSET InHand(f) /\ f \in listed
      /\ \A g \in Fusionees : g # f => owed'[g] = owed[g] /\ InHand(g)' = InHand(g)
  BY <1>1, <1>2, AnswerMoves
<1> SUFFICES ASSUME NEW g \in Fusionees
             PROVE  /\ Rising(owed'[g]) /\ Rising(messages'[g]) /\ Ahead(owed'[g], messages'[g])
                    /\ \A k \in InHand(g)' :
                         /\ state'[k.id] # "unborn" /\ owner'[k.id] = g /\ k.n <= count'[k.id]
                         /\ "oneway" \notin dev'.env => k.serial # 0
                    /\ g \notin listed' => messages'[g] = <<>> /\ owed'[g] = <<>>
  BY DEF InTurn
<1>4. /\ Rising(owed[g]) /\ Rising(messages[g]) /\ Ahead(owed[g], messages[g])
      /\ \A k \in InHand(g) :
           /\ state[k.id] # "unborn" /\ owner[k.id] = g /\ k.n <= count[k.id]
           /\ "oneway" \notin dev.env => k.serial # 0
      /\ g \notin listed => messages[g] = <<>> /\ owed[g] = <<>>
  BY DEF MatchInv, InTurn
<1>5. CASE g = f
  BY <1>3, <1>4, <1>5
<1>6. CASE g # f
  BY <1>3, <1>4, <1>6
<1> QED
  BY <1>5, <1>6

(* A message that is answered before its call goes is that of an execution *)
(* on the list, which the search could take.                               *)
LEMMA AskedFor ==
  ASSUME TypeInv, FreeInv, MatchInv, Matched, NEW c \in Calls, owner[c] \in listed,
         NEW m \in InHand(owner[c]), m.id = c, m.serial # 0
  PROVE  /\ m.n \in ToSet(executions[c]) /\ exec[<<c, m.n>>].serial = m.serial
         /\ \E j \in Candidates(c, m.serial) : executions[c][j] = m.n
<1>1. m.n \in ToSet(executions[c]) /\ exec[<<c, m.n>>].serial = m.serial
  BY DEF MatchInv, Asked, Wants
<1>2. PICK j \in DOMAIN executions[c] : executions[c][j] = m.n
  BY <1>1 DEF ToSet
<1>3. ~ exec[<<c, m.n>>].executed
  BY <1>1, OnList
<1>4. j \in Candidates(c, m.serial)
  BY <1>1, <1>2, <1>3 DEF Candidates
<1> QED
  BY <1>1, <1>2, <1>4

(* A return finds the execution its message was sent for: since API 4 it   *)
(* has the serial of the message, before it is the oldest.                 *)
LEMMA OwnFound ==
  ASSUME TypeInv, FreeInv, MatchInv, Matched, NEW t \in Threads, NEW i, MayAnswer(t, i),
         NEW f \in Fusionees, f = Fid[t], NEW m, m = owed[f][i],
         NEW c, c = m.id, Candidates(c, m.serial) # {}
  PROVE  c \in Calls /\ owner[c] = f /\ f \in listed /\ Found(c, m.serial) = m.n
<1>1. i \in DOMAIN owed[f] /\ owed[f] \in Seq(CallMessage)
  BY DEF MayAnswer, TypeInv
<1>2. m \in ToSet(owed[f]) /\ m \in InHand(f)
  BY <1>1 DEF ToSet, InHand
<1>3. c \in Calls /\ m.n \in Int /\ m.n \in 1..MaxCount
  BY <1>2, InHandTypes
<1>4. owner[c] = f /\ ("oneway" \notin dev.env => m.serial # 0)
  BY <1>2 DEF MatchInv, InTurn
<1>5. f \in listed
  <2> SUFFICES ASSUME f \notin listed PROVE FALSE
    OBVIOUS
  <2>1. owed[f] = <<>>
    BY DEF MatchInv, InTurn
  <2> QED
    BY <1>1, <2>1
<1>6. PICK p \in DOMAIN executions[c] : p = FoundAt(c, m.serial)
  BY <1>3, FoundOldest
<1>7. PICK n \in 1..MaxCount : n = Found(c, m.serial) /\ n = executions[c][p]
  BY <1>3, <1>6, FoundOldest DEF Found
<1>8. p \in Candidates(c, m.serial) /\ \A j \in Candidates(c, m.serial) : j <= p
  BY <1>3, <1>6, FoundOldest
<1>9. n \in ToSet(executions[c]) /\ exec[<<c, n>>].serial # 0 /\ n \in Int
  <2>1. n \in ToSet(executions[c])
    BY <1>7 DEF ToSet
  <2> QED
    BY <1>3, <2>1, OnList
<1>10. dev.api >= 4 => exec[<<c, n>>].serial = m.serial
  BY <1>7, <1>8 DEF Candidates
<1>11. m.serial # 0
  <2>1. CASE dev.api >= 4
    BY <1>9, <1>10, <2>1
  <2>2. CASE ~ (dev.api >= 4)
    BY <1>4, <2>2 DEF Matched
  <2> QED
    BY <2>1, <2>2
<1>12. /\ m.n \in ToSet(executions[c]) /\ exec[<<c, m.n>>].serial = m.serial
       /\ \E j \in Candidates(c, m.serial) : executions[c][j] = m.n
  BY <1>2, <1>3, <1>4, <1>5, <1>11, AskedFor
<1>13. CASE dev.api >= 4
  <2>1. exec[<<c, n>>].serial = exec[<<c, m.n>>].serial
    BY <1>10, <1>12, <1>13
  <2>2. Distinct(c)
    BY <1>3 DEF FreeInv, Listed
  <2> QED
    BY <1>3, <1>4, <1>5, <1>7, <1>9, <1>12, <2>1, <2>2 DEF Distinct
<1>14. CASE ~ (dev.api >= 4)
  <2>1. i = 1
    <3>1. dev.api \in Int
      BY CallAssumption DEF TypeInv, LockTypes, Dev
    <3> QED
      BY <1>14, <3>1 DEF MayAnswer
  <2>2. n <= m.n
    <3>1. PICK j \in Candidates(c, m.serial) : executions[c][j] = m.n
      BY <1>12
    <3>2. j \in DOMAIN executions[c] /\ j <= p /\ j \in Int /\ p \in Int
      <4>1. executions[c] \in Seq(1..MaxCount) /\ j \in DOMAIN executions[c]
        BY <1>3 DEF Candidates, TypeInv, ListTypes
      <4> QED
        BY <1>6, <1>8, <4>1
    <3>3. CASE j = p
      <4>1. n = m.n
        BY <1>7, <3>1, <3>3
      <4>2. n \in Int
        BY <1>9
      <4> QED
        BY <4>1, <4>2
    <3>4. CASE j < p
      <4>1. executions[c][j] > executions[c][p]
        BY <1>3, <1>6, <3>2, <3>4, OnList DEF Falling
      <4>2. m.n > n
        BY <1>7, <3>1, <4>1
      <4>3. n \in Int /\ m.n \in Int
        BY <1>3, <1>9
      <4> QED
        BY <4>2, <4>3
    <3> QED
      BY <3>2, <3>3, <3>4
  <2>3. PICK k \in InHand(f) : k.id = c /\ k.n = n
    BY <1>3, <1>4, <1>5, <1>9 DEF MatchInv, Asked, Wants
  <2>4. m.n <= k.n
    <3>1. Rising(owed[f]) /\ Ahead(owed[f], messages[f])
      BY DEF MatchInv, InTurn
    <3>2. CASE k \in ToSet(messages[f])
      <4>1. m.n < k.n
        BY <1>2, <2>3, <3>1, <3>2 DEF Ahead
      <4> QED
        BY <1>3, <1>9, <2>3, <4>1
    <3>3. CASE k \in ToSet(owed[f])
      <4>1. PICK j \in DOMAIN owed[f] : k = owed[f][j]
        BY <3>3 DEF ToSet
      <4>2. j \in Int /\ (j = 1 \/ 1 < j)
        BY <1>1, <4>1
      <4>3. CASE j = 1
        BY <1>3, <2>1, <4>1, <4>3
      <4>4. CASE 1 < j
        <5>1. m.n < k.n
          BY <1>1, <2>1, <2>3, <3>1, <4>1, <4>4 DEF Rising
        <5> QED
          BY <1>3, <1>9, <2>3, <5>1
      <4> QED
        BY <4>2, <4>3, <4>4
    <3> QED
      BY <3>2, <3>3 DEF InHand
  <2>5. n = m.n
    BY <1>3, <1>9, <2>2, <2>3, <2>4
  <2> QED
    BY <1>3, <1>4, <1>5, <1>7, <2>5
<1> QED
  BY <1>13, <1>14

(* The message and its execution go together.                              *)
LEMMA UnlinkAsked ==
  ASSUME TypeInv, FreeInv, MatchInv, NEW t \in Threads, NEW i, MayAnswer(t, i), Answered(t, i),
         NEW m, m = owed[Fid[t]][i], NEW c \in Calls, c = m.id,
         Candidates(c, m.serial) # {}, Unlink(c, m.serial),
         UNCHANGED <<messages, listed, owner, dev>>,
         \A e \in Executions : exec'[e].serial = exec[e].serial
  PROVE  Asked'
<1>1. PICK f \in Fusionees : f = Fid[t]
  BY QueueAssumption
<1>2. m = owed[f][i]
  BY <1>1
<1>3. Matched' <=> Matched
  BY DEF Matched
<1> SUFFICES ASSUME Matched, NEW d \in Calls, owner[d] \in listed
             PROVE  /\ \A k \in InHand(owner[d])' : k.id = d /\ k.serial # 0 =>
                         k.n \in ToSet(executions'[d]) /\ Wants(k, d, k.n)'
                    /\ \A n \in ToSet(executions'[d]) :
                         \E k \in InHand(owner[d])' : Wants(k, d, n)'
  BY <1>3 DEF Asked, InHand
<1>4. owner[c] = f /\ Found(c, m.serial) = m.n
  BY <1>1, <1>2, OwnFound
<1>5. /\ m.n \in ToSet(executions[c])
      /\ ToSet(executions'[c]) = ToSet(executions[c]) \ {m.n}
      /\ \A g \in Calls : g # c => executions'[g] = executions[g]
  <2>1. PICK n : n = Found(c, m.serial)
    OBVIOUS
  <2>2. /\ n \in ToSet(executions[c])
        /\ ToSet(executions'[c]) = ToSet(executions[c]) \ {n}
        /\ \A g \in Calls : g # c => executions'[g] = executions[g]
    BY <2>1, Unlinked
  <2> QED
    BY <1>4, <2>1, <2>2
<1>6. /\ InHand(f)' \in SUBSET InHand(f)
      /\ \A k \in InHand(f) : k \in InHand(f)' \/ k = m
      /\ \A k \in InHand(f)' : k.id = m.id => k.n # m.n
      /\ \A g \in Fusionees : g # f => InHand(g)' = InHand(g)
  BY <1>1, <1>2, AnswerMoves
<1>7. /\ \A k \in InHand(owner[d]) : k.id = d /\ k.serial # 0 =>
           k.n \in ToSet(executions[d]) /\ Wants(k, d, k.n)
      /\ \A n \in ToSet(executions[d]) : \E k \in InHand(owner[d]) : Wants(k, d, n)
  BY DEF MatchInv, Asked
<1>8. PICK g \in Fusionees : g = owner[d]
  BY DEF TypeInv, Q!TypeOK
<1>9. InHand(owner[d])' = InHand(g)' /\ InHand(owner[d]) = InHand(g)
  BY <1>8 DEF InHand
<1>10. \A n \in ToSet(executions[d]) : \A k : Wants(k, d, n)' <=> Wants(k, d, n)
  <2> SUFFICES ASSUME NEW n \in ToSet(executions[d]) PROVE \A k : Wants(k, d, n)' <=> Wants(k, d, n)
    OBVIOUS
  <2>1. <<d, n>> \in Executions
    BY OnList
  <2>2. exec'[<<d, n>>].serial = exec[<<d, n>>].serial
    BY <2>1
  <2> QED
    BY <2>2 DEF Wants
<1>11. InHand(g)' \in SUBSET InHand(g) /\ (d # c => \A k \in InHand(g) : k.id = d => k \in InHand(g)')
  BY <1>6
<1>12. CASE d = c
  <2>1. g = f
    BY <1>4, <1>8, <1>12
  <2>2. ASSUME NEW k \in InHand(g)', k.id = d, k.serial # 0
        PROVE  k.n \in ToSet(executions'[d]) /\ Wants(k, d, k.n)'
    <3>1. k \in InHand(g) /\ k.n # m.n
      BY <1>6, <1>12, <2>1, <2>2
    <3>2. k.n \in ToSet(executions[d]) /\ Wants(k, d, k.n)
      BY <1>7, <1>9, <2>2, <3>1
    <3> QED
      BY <1>5, <1>10, <1>12, <3>1, <3>2
  <2>3. ASSUME NEW n \in ToSet(executions'[d]) PROVE \E k \in InHand(g)' : Wants(k, d, n)'
    <3>1. n \in ToSet(executions[d]) /\ n # m.n
      BY <1>5, <1>12, <2>3
    <3>2. PICK k \in InHand(g) : Wants(k, d, n)
      BY <1>7, <1>9, <3>1
    <3>3. k # m
      BY <3>1, <3>2 DEF Wants
    <3> QED
      BY <1>6, <1>10, <2>1, <3>1, <3>2, <3>3
  <2> QED
    BY <1>9, <2>2, <2>3
<1>13. CASE d # c
  <2>1. executions'[d] = executions[d]
    BY <1>5, <1>13
  <2>2. ASSUME NEW k \in InHand(g)', k.id = d, k.serial # 0
        PROVE  k.n \in ToSet(executions'[d]) /\ Wants(k, d, k.n)'
    <3>1. k \in InHand(g)
      BY <1>11, <2>2
    <3>2. k.n \in ToSet(executions[d]) /\ Wants(k, d, k.n)
      BY <1>7, <1>9, <2>2, <3>1
    <3> QED
      BY <1>10, <2>1, <3>2
  <2>3. ASSUME NEW n \in ToSet(executions'[d]) PROVE \E k \in InHand(g)' : Wants(k, d, n)'
    <3>1. PICK k \in InHand(g) : Wants(k, d, n)
      BY <1>7, <1>9, <2>1, <2>3
    <3>2. k \in InHand(g)'
      BY <1>11, <1>13, <3>1 DEF Wants
    <3> QED
      BY <1>10, <2>1, <2>3, <3>1, <3>2
  <2> QED
    BY <1>9, <2>2, <2>3
<1> QED
  BY <1>12, <1>13

LEMMA ReturnMatch ==
  ASSUME TypeInv, FreeInv, MatchInv, NEW t \in Threads, NEW i, Return(t, i)
  PROVE  MatchInv'
<1>1. PICK m : m = owed[Fid[t]][i]
  OBVIOUS
<1>2. MayAnswer(t, i) /\ Answered(t, i)
  BY DEF Return
<1>3. m \in CallMessage
  BY <1>1, <1>2, AnswerTypes
<1>4. PICK c \in Calls : c = m.id
  BY <1>3 DEF CallMessage
<1>5. /\ Candidates(c, m.serial) # {} /\ Unlink(c, m.serial)
      /\ exec' = [exec EXCEPT ![<<c, Found(c, m.serial)>>].ret = m.n,
                              ![<<c, Found(c, m.serial)>>].executed = TRUE]
      /\ UNCHANGED <<messages, listed, state, owner, count, dev>>
  BY <1>1, <1>4 DEF Return, msgVars, devVars
<1>6. PICK n \in 1..MaxCount : n = Found(c, m.serial) /\ <<c, n>> \in Executions
  BY <1>5, FoundOldest
<1>7. PICK e0 \in Executions : e0 = <<c, n>>
  BY <1>6
<1>8. exec' = [exec EXCEPT ![e0].ret = m.n, ![e0].executed = TRUE]
  BY <1>5, <1>6, <1>7
<1>9. \A e \in Executions : e # e0 => exec'[e] = exec[e]
  BY <1>8 DEF TypeInv, ExecTypes
<1>10. exec'[e0].ret = m.n /\ exec'[e0].serial = exec[e0].serial
  BY <1>8 DEF TypeInv, ExecTypes, ExecutionObject
<1>11. \A e \in Executions : exec'[e].serial = exec[e].serial
  BY <1>9, <1>10
<1>12. InTurn'
  BY <1>2, <1>5, AnswerTurn
<1>13. Asked'
  BY <1>1, <1>2, <1>4, <1>5, <1>11, UnlinkAsked
<1>14. ResultIsOwn'
  <2>1. Matched' <=> Matched
    BY <1>5 DEF Matched
  <2> SUFFICES ASSUME Matched, NEW e \in Executions, exec'[e].executed PROVE exec'[e].ret = e[2]
    BY <2>1 DEF ResultIsOwn
  <2>2. n = m.n
    <3>1. PICK f \in Fusionees : f = Fid[t]
      BY QueueAssumption
    <3>2. m = owed[f][i]
      BY <1>1, <3>1
    <3>3. c = m.id /\ Candidates(c, m.serial) # {} /\ MayAnswer(t, i)
      BY <1>2, <1>4, <1>5
    <3>4. Found(c, m.serial) = m.n
      BY <3>1, <3>2, <3>3, OwnFound
    <3> QED
      BY <1>6, <3>4
  <2>3. CASE e = e0
    BY <1>7, <1>10, <2>2, <2>3
  <2>4. CASE e # e0
    BY <1>9, <2>4 DEF MatchInv, ResultIsOwn
  <2> QED
    BY <2>3, <2>4
<1> QED
  BY <1>12, <1>13, <1>14 DEF MatchInv

LEMMA NobodyMatch ==
  ASSUME TypeInv, FreeInv, MatchInv, NEW t \in Threads, NEW i, ReturnToNobody(t, i)
  PROVE  MatchInv'
<1>1. PICK m : m = owed[Fid[t]][i]
  OBVIOUS
<1>2. MayAnswer(t, i) /\ Answered(t, i)
  BY DEF ReturnToNobody
<1>3. m \in CallMessage
  BY <1>1, <1>2, AnswerTypes
<1>4. PICK c \in Calls : c = m.id
  BY <1>3 DEF CallMessage
<1>5. /\ Candidates(c, m.serial) # {} /\ Unlink(c, m.serial)
      /\ exec' = [exec EXCEPT ![<<c, Found(c, m.serial)>>].frees = @ + 1]
      /\ UNCHANGED <<messages, listed, state, owner, count, dev>>
  BY <1>1, <1>4 DEF ReturnToNobody, msgVars, lockVars, devVars
<1>6. PICK e0 \in Executions : e0 = <<c, Found(c, m.serial)>>
  BY <1>5, FoundOldest
<1>7. exec' = [exec EXCEPT ![e0].frees = @ + 1]
  BY <1>5, <1>6
<1>8. ASSUME NEW e \in Executions
      PROVE  /\ exec'[e].serial = exec[e].serial
             /\ exec'[e].executed = exec[e].executed /\ exec'[e].ret = exec[e].ret
  <2>1. exec[e] \in ExecutionObject
    BY DEF TypeInv, ExecTypes
  <2>2. exec'[e] \in {exec[e], [exec[e] EXCEPT !.frees = @ + 1]}
    BY <1>7 DEF TypeInv, ExecTypes
  <2> QED
    BY <2>1, <2>2 DEF ExecutionObject
<1>9. InTurn'
  BY <1>2, <1>5, AnswerTurn
<1>10. \A e \in Executions : exec'[e].serial = exec[e].serial
  BY <1>8
<1>11. Asked'
  BY <1>1, <1>2, <1>4, <1>5, <1>10, UnlinkAsked
<1>12. ResultIsOwn'
  BY <1>5, <1>8 DEF MatchInv, ResultIsOwn, Matched
<1> QED
  BY <1>9, <1>11, <1>12 DEF MatchInv

(* A return that finds nothing was for a one-way message.                  *)
LEMMA FailsMatch ==
  ASSUME TypeInv, FreeInv, MatchInv, NEW t \in Threads, NEW i, ReturnFails(t, i)
  PROVE  MatchInv'
<1>1. PICK f \in Fusionees : f = Fid[t]
  BY QueueAssumption
<1>2. PICK m : m = owed[f][i]
  OBVIOUS
<1>3. /\ MayAnswer(t, i) /\ Answered(t, i)
      /\ state[m.id] = "gone" \/ Candidates(m.id, m.serial) = {}
      /\ UNCHANGED <<messages, listed, state, owner, count, executions, exec, dev>>
  BY <1>1, <1>2 DEF ReturnFails, msgVars, listVars, execVars, lockVars, devVars
<1>4. /\ m \in InHand(f) /\ m \in CallMessage
      /\ InHand(f)' \in SUBSET InHand(f) /\ f \in listed
      /\ \A k \in InHand(f) : k \in InHand(f)' \/ k = m
      /\ \A g \in Fusionees : g # f => InHand(g)' = InHand(g)
  BY <1>1, <1>2, <1>3, AnswerMoves
<1>5. PICK c \in Calls : c = m.id
  BY <1>4, InHandTypes
<1>6. Matched => m.serial = 0
  <2> SUFFICES ASSUME Matched, m.serial # 0 PROVE FALSE
    OBVIOUS
  <2>1. owner[c] = f
    BY <1>4, <1>5 DEF MatchInv, InTurn
  <2>2. m.n \in ToSet(executions[c]) /\ Candidates(c, m.serial) # {}
    <3>1. m \in InHand(owner[c]) /\ owner[c] \in listed /\ m.id = c
      BY <1>4, <1>5, <2>1
    <3>2. /\ m.n \in ToSet(executions[c])
          /\ \E j \in Candidates(c, m.serial) : executions[c][j] = m.n
      BY <3>1, AskedFor
    <3> QED
      BY <3>2
  <2>3. CASE state[c] = "gone"
    <3>1. executions[c] = <<>>
      BY <2>3 DEF FreeInv, Listed
    <3> QED
      BY <2>2, <3>1 DEF ToSet
  <2> QED
    BY <1>3, <1>5, <2>2, <2>3
<1>7. InTurn'
  BY <1>3, AnswerTurn
<1>8. Matched' <=> Matched
  BY <1>3 DEF Matched
<1>9. Asked'
  <2> SUFFICES ASSUME Matched, NEW d \in Calls, owner[d] \in listed
               PROVE  /\ \A k \in InHand(owner[d])' : k.id = d /\ k.serial # 0 =>
                           k.n \in ToSet(executions[d]) /\ Wants(k, d, k.n)
                      /\ \A n \in ToSet(executions[d]) :
                           \E k \in InHand(owner[d])' : Wants(k, d, n)
    BY <1>3, <1>8 DEF Asked, Wants, InHand
  <2>1. /\ \A k \in InHand(owner[d]) : k.id = d /\ k.serial # 0 =>
             k.n \in ToSet(executions[d]) /\ Wants(k, d, k.n)
        /\ \A n \in ToSet(executions[d]) : \E k \in InHand(owner[d]) : Wants(k, d, n)
    BY DEF MatchInv, Asked
  <2>2. PICK g \in Fusionees : g = owner[d]
    BY DEF TypeInv, Q!TypeOK
  <2>3. InHand(owner[d])' = InHand(g)' /\ InHand(owner[d]) = InHand(g)
    BY <1>3, <2>2 DEF InHand
  <2>4. InHand(g)' \in SUBSET InHand(g) /\ \A k \in InHand(g) : k \in InHand(g)' \/ k = m
    BY <1>4
  <2>5. \A n : ~ Wants(m, d, n)
    BY <1>6 DEF Wants
  <2> QED
    BY <2>1, <2>3, <2>4, <2>5
<1>10. ResultIsOwn'
  BY <1>3, <1>8 DEF MatchInv, ResultIsOwn
<1> QED
  BY <1>7, <1>9, <1>10 DEF MatchInv

LEMMA MatchInit ==
  ASSUME Init
  PROVE  MatchInv
<1>1. /\ messages = [f \in Fusionees |-> <<>>] /\ owed = [f \in Fusionees |-> <<>>]
      /\ executions = [c \in Calls |-> <<>>]
      /\ exec = [e \in Executions |-> NoExecution]
  BY DEF Init, Q!Init
<1>2. Rising(<<>>) /\ Ahead(<<>>, <<>>) /\ ToSet(<<>>) = {}
  BY DEF Rising, Ahead, ToSet
<1>3. \A f \in Fusionees : InHand(f) = {}
  BY <1>1, <1>2 DEF InHand
<1>4. InTurn
  BY <1>1, <1>2, <1>3 DEF InTurn
<1>5. Asked
  <2>1. listed = Fusionees
    BY DEF Init, Q!Init
  <2>2. \A c \in Calls : ToSet(executions[c]) = {}
    BY <1>1, <1>2
  <2> QED
    BY <1>3, <2>1, <2>2 DEF Asked
<1>6. ResultIsOwn
  BY <1>1 DEF ResultIsOwn, NoExecution
<1> QED
  BY <1>4, <1>5, <1>6 DEF MatchInv

LEMMA MatchStep ==
  ASSUME TypeInv, FreeInv, MatchInv, [Next]_vars
  PROVE  MatchInv'
<1>1. Callers \subseteq Threads /\ Owners \subseteq Threads
  BY CallAssumption
<1>2. ASSUME NEW t \in Callers, CallerStep(t) PROVE MatchInv'
  <2>1. t \in Threads
    BY <1>1
  <2>2. CASE \E c \in Calls : ExecuteSync(t, c)
    BY <2>1, <2>2, SyncMatch
  <2>3. CASE \E c \in Calls : ExecuteOneway(t, c)
    BY <2>1, <2>3, OnewayMatch
  <2>4. CASE CallerWoken(t) \/ CallerSignal(t)
    BY <2>1, <2>4, BackKept, KeptMatch
  <2>5. CASE ExecuteSleep(t) \/ LockGranted(t) \/ \E c \in Calls : ExecuteFails(t, c) \/ LockBlocks(t, c)
    BY <2>1, <2>5, StillCaller, StillKept, KeptMatch
  <2> QED
    BY <1>2, <2>2, <2>3, <2>4, <2>5 DEF CallerStep
<1>3. ASSUME NEW t \in Owners, OwnerStep(t) PROVE MatchInv'
  <2>1. t \in Threads
    BY <1>1
  <2>2. CASE \E c \in Calls : New(t, c)
    BY <2>1, <2>2, NewKept, KeptMatch
  <2>3. CASE ReturnWake(t) \/ DestroyLock(t) \/ DestroyWoken(t) \/ ProcessingWoken(t) \/ Interrupt(t)
               \/ \E c \in Calls : DestroyStart(t, c)
    BY <2>1, <2>3, StillOwner, StillKept, KeptMatch
  <2>4. CASE Dispatch(t)
    BY <2>1, <2>4, DispatchMatch
  <2>5. ASSUME NEW i, Return(t, i) PROVE MatchInv'
    BY <2>1, <2>5, ReturnMatch
  <2>6. ASSUME NEW i, ReturnToNobody(t, i) PROVE MatchInv'
    BY <2>1, <2>6, NobodyMatch
  <2>7. ASSUME NEW i, ReturnFails(t, i) PROVE MatchInv'
    BY <2>1, <2>7, FailsMatch
  <2>8. CASE DestroyFinish(t)
    BY <2>1, <2>8, FinishKept, KeptMatch
  <2> QED
    BY <1>3, <2>2, <2>3, <2>4, <2>5, <2>6, <2>7, <2>8 DEF OwnerStep
<1>4. ASSUME NEW f \in Fusionees, Leave(f) PROVE MatchInv'
  BY <1>4, LeaveKept, KeptMatch
<1>5. ASSUME NEW f \in Fusionees, DestroyAll(f) PROVE MatchInv'
  BY <1>5, DestroyAllKept, KeptMatch
<1>6. CASE UNCHANGED vars
  <2>1. Still
    BY <1>6 DEF Still, vars, msgVars, listVars, execVars, lockVars, devVars
  <2> QED
    BY <2>1, StillKept, KeptMatch
<1> QED
  BY <1>2, <1>3, <1>4, <1>5, <1>6 DEF Next

(* A caller is given the result its own message was answered with,         *)
(* whichever threads of the callee return in whatever order: since API 4   *)
(* because serials on a list differ, before because clients answer in the  *)
(* order of the messages and the oldest execution is taken.                *)
THEOREM ResultSafe == Spec => []ResultIsOwn
<1>1. Init => TypeInv /\ FreeInv /\ MatchInv
  BY FreeInit, MatchInit
<1>2. TypeInv /\ FreeInv /\ MatchInv /\ [Next]_vars => (TypeInv /\ FreeInv /\ MatchInv)'
  BY TypeStep, FreeStep, MatchStep
<1>3. MatchInv => ResultIsOwn
  BY DEF MatchInv
<1> QED
  BY <1>1, <1>2, <1>3, PTL DEF Spec

LEMMA InHandAll ==
  ASSUME TypeInv, NEW c \in Calls, owner[c] \in Fusionees
  PROVE  Unanswered(c) = {m \in InHand(owner[c]) : m.id = c /\ m.serial # 0}
<1>1. messages[owner[c]] \in Seq(CallMessage) /\ owed[owner[c]] \in Seq(CallMessage)
  BY DEF TypeInv, Q!TypeOK
<1>2. ToSet(messages[owner[c]] \o owed[owner[c]]) = InHand(owner[c])
  BY <1>1, ConcatSet DEF InHand
<1> QED
  BY <1>2 DEF Unanswered

(* The pending executions of a call are exactly those whose message its    *)
(* owner, as long as it is there, has not answered.                        *)
THEOREM PendingSafe == Spec => []PendingIsUnanswered
<1>1. Init => TypeInv /\ FreeInv /\ MatchInv
  BY FreeInit, MatchInit
<1>2. TypeInv /\ FreeInv /\ MatchInv /\ [Next]_vars => (TypeInv /\ FreeInv /\ MatchInv)'
  BY TypeStep, FreeStep, MatchStep
<1>3. TypeInv /\ FreeInv /\ MatchInv => PendingIsUnanswered
  <2> SUFFICES ASSUME TypeInv, FreeInv, MatchInv, Matched,
                      NEW c \in Calls, state[c] = "live", owner[c] \in listed
               PROVE  {<<executions[c][i], exec[<<c, executions[c][i]>>].serial>> : i \in DOMAIN executions[c]}
                        = {<<m.n, m.serial>> : m \in Unanswered(c)}
    BY DEF PendingIsUnanswered
  <2>1. owner[c] \in Fusionees
    BY DEF TypeInv, Q!TypeOK
  <2>2. Unanswered(c) = {m \in InHand(owner[c]) : m.id = c /\ m.serial # 0}
    BY <2>1, InHandAll
  <2>3. /\ \A m \in InHand(owner[c]) : m.id = c /\ m.serial # 0 =>
             m.n \in ToSet(executions[c]) /\ Wants(m, c, m.n)
        /\ \A n \in ToSet(executions[c]) : \E m \in InHand(owner[c]) : Wants(m, c, n)
    BY DEF MatchInv, Asked
  <2> DEFINE A == {<<executions[c][i], exec[<<c, executions[c][i]>>].serial>> : i \in DOMAIN executions[c]}
             B == {<<m.n, m.serial>> : m \in Unanswered(c)}
  <2>4. ASSUME NEW i \in DOMAIN executions[c]
        PROVE  \E m \in Unanswered(c) :
                 <<executions[c][i], exec[<<c, executions[c][i]>>].serial>> = <<m.n, m.serial>>
    <3>1. PICK n : n = executions[c][i] /\ n \in ToSet(executions[c])
      BY DEF ToSet
    <3>2. PICK m \in InHand(owner[c]) : Wants(m, c, n)
      BY <2>3, <3>1
    <3> QED
      BY <2>2, <3>1, <3>2 DEF Wants
  <2>5. ASSUME NEW m \in Unanswered(c)
        PROVE  \E i \in DOMAIN executions[c] :
                 <<executions[c][i], exec[<<c, executions[c][i]>>].serial>> = <<m.n, m.serial>>
    <3>1. m.n \in ToSet(executions[c]) /\ Wants(m, c, m.n)
      BY <2>2, <2>3
    <3>2. PICK i \in DOMAIN executions[c] : executions[c][i] = m.n
      BY <3>1 DEF ToSet
    <3> QED
      BY <3>1, <3>2 DEF Wants
  <2>6. \A x \in A : x \in B
    BY <2>4
  <2>7. \A x \in B : x \in A
    BY <2>5
  <2> HIDE DEF A, B
  <2>8. A = B
    BY <2>6, <2>7
  <2> QED
    BY <2>8 DEF A, B
<1> QED
  BY <1>1, <1>2, <1>3, PTL DEF Spec

(* When a call is gone its owner has no message left that wants an answer. *)
THEOREM DestroyedSafe == Spec => []DestroyedOwesNothing
<1>1. Init => TypeInv /\ FreeInv /\ MatchInv
  BY FreeInit, MatchInit
<1>2. TypeInv /\ FreeInv /\ MatchInv /\ [Next]_vars => (TypeInv /\ FreeInv /\ MatchInv)'
  BY TypeStep, FreeStep, MatchStep
<1>3. TypeInv /\ FreeInv /\ MatchInv => DestroyedOwesNothing
  <2> SUFFICES ASSUME TypeInv, FreeInv, MatchInv, Matched,
                      NEW c \in Calls, state[c] = "gone", owner[c] \in listed
               PROVE  Unanswered(c) = {}
    BY DEF DestroyedOwesNothing
  <2>1. owner[c] \in Fusionees
    BY DEF TypeInv, Q!TypeOK
  <2>2. Unanswered(c) = {m \in InHand(owner[c]) : m.id = c /\ m.serial # 0}
    BY <2>1, InHandAll
  <2>3. ToSet(executions[c]) = {}
    <3>1. executions[c] = <<>>
      BY DEF FreeInv, Listed
    <3> QED
      BY <3>1 DEF ToSet
  <2> QED
    BY <2>2, <2>3 DEF MatchInv, Asked
<1> QED
  BY <1>1, <1>2, <1>3, PTL DEF Spec


-----------------------------------------------------------------------------
(* Each step of a call is a step of the queues or leaves them alone.       *)
LEMMA SendUsesQueue ==
  ASSUME TypeInv, NEW t \in Threads, NEW c \in Calls, ExecuteSync(t, c) \/ ExecuteOneway(t, c)
  PROVE  Q!Next
<1>1. PICK sn \in 0..(SerialMod - 1) : Q!Send(owner[c], CallMsg(c, sn))
  <2>1. NextSerial(c) \in 0..(SerialMod - 1) /\ 0 \in 0..(SerialMod - 1)
    BY Serials, CallAssumption DEF TypeInv
  <2> QED
    BY <2>1 DEF ExecuteSync, ExecuteOneway
<1>2. owner[c] \in Fusionees /\ count[c] < MaxCount
  BY DEF ExecuteSync, ExecuteOneway, TypeInv, Q!TypeOK
<1>3. CallMsg(c, sn) \in CallMessage
  BY <1>2, MessageForms DEF TypeInv
<1> QED
  BY <1>1, <1>2, <1>3 DEF Q!Next

LEMMA StepUsesQueue ==
  ASSUME TypeInv, [Next]_vars
  PROVE  [Q!Next]_(Q!vars)
<1>1. ASSUME UNCHANGED msgVars PROVE [Q!Next]_(Q!vars)
  BY <1>1 DEF msgVars, Q!vars
<1>2. ASSUME NEW t \in Callers, CallerStep(t) PROVE [Q!Next]_(Q!vars)
  <2>1. t \in Threads
    BY CallAssumption
  <2>2. ASSUME NEW c \in Calls, ExecuteFails(t, c) \/ LockBlocks(t, c) PROVE UNCHANGED msgVars
    BY <2>2 DEF ExecuteFails, LockBlocks
  <2>3. ExecuteSleep(t) \/ CallerWoken(t) \/ CallerSignal(t) \/ LockGranted(t) => UNCHANGED msgVars
    BY DEF ExecuteSleep, CallerWoken, CallerSignal, LockGranted
  <2> QED
    BY <1>1, <1>2, <2>1, <2>2, <2>3, SendUsesQueue DEF CallerStep
<1>3. ASSUME NEW t \in Owners, OwnerStep(t) PROVE [Q!Next]_(Q!vars)
  <2>1. t \in Threads
    BY CallAssumption
  <2>2. ASSUME NEW c, Q!WaitProcessing(t, c) PROVE Q!Next
    <3>1. c \in Calls
      BY <2>2 DEF Q!WaitProcessing, Q!WaitKeys
    <3> QED
      BY <2>1, <2>2, <3>1 DEF Q!Next
  <2>3. ASSUME NEW c \in Calls, New(t, c) \/ DestroyStart(t, c) PROVE [Q!Next]_(Q!vars)
    BY <1>1, <2>2, <2>3 DEF New, DestroyStart, DestroyLoop
  <2>4. CASE Dispatch(t)
    BY <2>1, <2>4 DEF Dispatch, Q!Next
  <2>5. ASSUME NEW i, Return(t, i) \/ ReturnToNobody(t, i) \/ ReturnFails(t, i) PROVE UNCHANGED msgVars
    BY <2>5 DEF Return, ReturnToNobody, ReturnFails
  <2>6. ReturnWake(t) \/ DestroyLock(t) \/ DestroyFinish(t) => UNCHANGED msgVars
    BY DEF ReturnWake, DestroyLock, DestroyFinish
  <2>7. CASE DestroyWoken(t)
    BY <2>2, <2>7 DEF DestroyWoken, DestroyLoop
  <2>8. CASE ProcessingWoken(t) \/ Interrupt(t)
    BY <1>1, <2>1, <2>8 DEF ProcessingWoken, Interrupt, Q!Next
  <2> QED
    BY <1>1, <1>3, <2>3, <2>4, <2>5, <2>6, <2>7, <2>8 DEF OwnerStep
<1>4. ASSUME NEW f \in Fusionees, Leave(f) \/ DestroyAll(f) PROVE [Q!Next]_(Q!vars)
  BY <1>1, <1>4 DEF Leave, DestroyAll, Q!Next
<1>5. CASE UNCHANGED vars
  BY <1>1, <1>5 DEF vars
<1> QED
  BY <1>2, <1>3, <1>4, <1>5 DEF Next

(* Calls use the queues as they are meant to be, the waits of destroys and *)
(* the exits of owners included (call.c:205, 331; fusionee.c:652).         *)
THEOREM CallsUseQueues == Spec => Q!Spec
<1>1. Init => TypeInv /\ FreeInv
  BY FreeInit
<1>2. TypeInv /\ FreeInv /\ [Next]_vars => (TypeInv /\ FreeInv)'
  BY TypeStep, FreeStep
<1>3. Init => Q!Init
  BY DEF Init
<1>4. TypeInv /\ [Next]_vars => [Q!Next]_(Q!vars)
  BY StepUsesQueue
<1> QED
  BY <1>1, <1>2, <1>3, <1>4, PTL DEF Spec, Q!Spec
=============================================================================
