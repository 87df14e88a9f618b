----------------------- MODULE FusionBroadcast_proofs -----------------------
(***************************************************************************)
(* The safety of reactor and pools, for any number of fusionees, threads,  *)
(* channels and pools and for any bounds.  Each promise has an inductive   *)
(* invariant of its own, for the part of the state it is about.            *)
(* At the end, the queues they use: order, and the wait for a message.     *)
(***************************************************************************)
EXTENDS FusionBroadcast, Batches, Integers, SequencesExt, WellFoundedInduction,
        FiniteSetTheorems, TLAPS

-----------------------------------------------------------------------------
(* What Picked takes out of a batch, for every batch (as in the proofs     *)
(* about calls).                                                           *)

(* Induction, over a set of numbers.                                       *)
LEMMA Induction ==
  ASSUME NEW S \in SUBSET Nat, 0 \in S, \A n \in S : n + 1 \in S
  PROVE  S = Nat
<1> DEFINE T == Nat \ S
<1> SUFFICES ASSUME T # {} PROVE FALSE
  OBVIOUS
<1>1. PICK x \in T : \A y \in T : ~ (<<y, x>> \in OpToRel(<, Nat))
  BY WFMin, NatLessThanWellFounded
<1>2. \A y \in T : ~ (y < x)
  BY <1>1 DEF OpToRel
<1>3. x \in Nat /\ x # 0 /\ x \notin S
  OBVIOUS
<1>4. x - 1 \in Nat /\ (x - 1) + 1 = x
  BY <1>3
<1>5. x - 1 \notin T
  BY <1>2, <1>3
<1> QED
  BY <1>3, <1>4, <1>5

\* u has what s has at the places in I, in the order of s.
Picks(u, s, I) ==
  \E g \in [1..Len(u) -> I] : /\ \A j \in 1..Len(u) : u[j] = s[g[j]]
                              /\ \A j, k \in 1..Len(u) : j < k => g[j] < g[k]
                              /\ \A i \in I : \E j \in 1..Len(u) : g[j] = i

LEMMA PickOne ==
  ASSUME NEW S, NEW s \in Seq(S), NEW n \in Nat, n + 1 \in DOMAIN s,
         NEW I \in SUBSET (1..n), NEW u \in Seq(S), Picks(u, s, I)
  PROVE  Append(u, s[n + 1]) \in Seq(S) /\ Picks(Append(u, s[n + 1]), s, I \cup {n + 1})
<1> DEFINE m == Len(u)
           v == Append(u, s[n + 1])
<1>1. PICK g \in [1..m -> I] : /\ \A j \in 1..m : u[j] = s[g[j]]
                               /\ \A j, k \in 1..m : j < k => g[j] < g[k]
                               /\ \A i \in I : \E j \in 1..m : g[j] = i
  BY DEF Picks
<1>2. /\ m \in Nat /\ v \in Seq(S) /\ Len(v) = m + 1
      /\ v[m + 1] = s[n + 1] /\ \A j \in 1..m : v[j] = u[j]
  OBVIOUS
<1> DEFINE h == [j \in 1..(m + 1) |-> IF j = m + 1 THEN n + 1 ELSE g[j]]
<1>3. h \in [1..(m + 1) -> I \cup {n + 1}] /\ h[m + 1] = n + 1 /\ \A j \in 1..m : h[j] = g[j]
  BY <1>2
<1> HIDE DEF h, v, m
<1>4. \A j \in 1..(m + 1) : v[j] = s[h[j]]
  BY <1>1, <1>2, <1>3
<1>5. \A j, k \in 1..(m + 1) : j < k => h[j] < h[k]
  <2> SUFFICES ASSUME NEW j \in 1..(m + 1), NEW k \in 1..(m + 1), j < k PROVE h[j] < h[k]
    OBVIOUS
  <2>1. j \in 1..m
    BY <1>2
  <2>2. h[j] = g[j] /\ g[j] \in I
    BY <1>1, <1>3, <2>1
  <2>3. g[j] \in 1..n
    BY <2>2
  <2>4. CASE k = m + 1
    BY <1>3, <2>2, <2>3, <2>4
  <2>5. CASE k # m + 1
    <3>1. k \in 1..m
      BY <1>2, <2>5
    <3> QED
      BY <1>1, <1>3, <2>1, <2>2, <3>1
  <2> QED
    BY <2>4, <2>5
<1>6. \A i \in I \cup {n + 1} : \E j \in 1..(m + 1) : h[j] = i
  <2>1. m + 1 \in 1..(m + 1)
    BY <1>2
  <2>2. \A i \in I : \E j \in 1..m : h[j] = i
    BY <1>1, <1>3
  <2>3. \A j \in 1..m : j \in 1..(m + 1)
    BY <1>2
  <2> QED
    BY <1>3, <2>1, <2>2, <2>3
<1>7. Picks(v, s, I \cup {n + 1})
  <2>1. m + 1 = Len(v)
    BY <1>2
  <2>2. /\ h \in [1..Len(v) -> I \cup {n + 1}]
        /\ \A j \in 1..Len(v) : v[j] = s[h[j]]
        /\ \A j, k \in 1..Len(v) : j < k => h[j] < h[k]
        /\ \A i \in I \cup {n + 1} : \E j \in 1..Len(v) : h[j] = i
    BY ONLY <1>3, <1>4, <1>5, <1>6, <2>1
  <2> QED
    BY ONLY <2>2 DEF Picks
<1> QED
  BY <1>2, <1>7 DEF v

LEMMA PickedPicks ==
  ASSUME NEW S, NEW s \in Seq(S), NEW I \in SUBSET DOMAIN s
  PROVE  Picked(s, I) \in Seq(S) /\ Picks(Picked(s, I), s, I)
<1> DEFINE Step(F, i) == IF i = 0 THEN <<>>
                         ELSE IF i \in I THEN Append(F[i - 1], s[i]) ELSE F[i - 1]
           Def(F, n) == F = [i \in 0..n |-> Step(F, i)]
           U == CHOOSE F : Def(F, Len(s))
<1>1. Picked(s, I) = U[Len(s)]
  BY DEF Picked
<1>2. \A F, G, i : F[i - 1] = G[i - 1] => Step(F, i) = Step(G, i)
  OBVIOUS
<1>3. \A F, G : Step(F, 0) = Step(G, 0)
  OBVIOUS
<1>4. \A n \in Nat : \E F : Def(F, n)
  <2> DEFINE N == {n \in Nat : \E F : Def(F, n)}
  <2>1. 0 \in N
    <3>1. \A i \in 0..0 : Step([j \in 0..0 |-> <<>>], i) = <<>>
      OBVIOUS
    <3> HIDE DEF Step
    <3>2. [i \in 0..0 |-> <<>>] = [i \in 0..0 |-> Step([j \in 0..0 |-> <<>>], i)]
      BY <3>1
    <3> QED
      BY <3>2
  <2>2. ASSUME NEW n \in N PROVE n + 1 \in N
    <3>1. n \in Nat
      OBVIOUS
    <3>2. PICK F : F = [i \in 0..n |-> Step(F, i)]
      OBVIOUS
    <3> HIDE DEF Step
    <3> DEFINE G == [i \in 0..(n + 1) |-> IF i = n + 1 THEN Step(F, i) ELSE F[i]]
    <3>3. \A i \in 0..n : G[i] = F[i] /\ F[i] = Step(F, i)
      <4>1. ASSUME NEW i \in 0..n PROVE G[i] = F[i]
        BY <3>1
      <4> HIDE DEF G, N
      <4>2. ASSUME NEW i \in 0..n PROVE F[i] = Step(F, i)
        BY <3>2
      <4> QED
        BY <4>1, <4>2
    <3>4. G[n + 1] = Step(F, n + 1)
      BY <3>1
    <3>5. \A i \in 0..(n + 1) : G[i] = Step(G, i)
      <4> SUFFICES ASSUME NEW i \in 0..(n + 1) PROVE G[i] = Step(G, i)
        OBVIOUS
      <4> HIDE DEF G, N
      <4>1. CASE i = 0
        BY <3>1, <1>3, <3>3, <4>1
      <4>2. CASE i # 0
        <5>1. i - 1 \in 0..n
          BY <3>1, <4>2
        <5>2. G[i - 1] = F[i - 1]
          BY <3>3, <5>1
        <5>3. Step(G, i) = Step(F, i)
          BY <1>2, <5>2
        <5>4. G[i] = Step(F, i)
          BY <3>1, <3>3, <3>4
        <5> QED
          BY <5>3, <5>4
      <4> QED
        BY <4>1, <4>2
    <3>6. G = [i \in 0..(n + 1) |-> G[i]]
      OBVIOUS
    <3> HIDE DEF G, Step
    <3>7. [i \in 0..(n + 1) |-> G[i]] = [i \in 0..(n + 1) |-> Step(G, i)]
      BY <3>5
    <3>8. Def(G, n + 1)
      BY <3>6, <3>7
    <3> QED
      BY <3>8
  <2> HIDE DEF N
  <2>3. N = Nat
    <3>1. N \in SUBSET Nat
      BY DEF N
    <3> QED
      BY <2>1, <2>2, <3>1, Induction
  <2> QED
    BY <2>3 DEF N
<1>5. Len(s) \in Nat /\ DOMAIN s = 1..Len(s)
  OBVIOUS
<1> HIDE DEF Step
<1>6. Def(U, Len(s))
  BY <1>4, <1>5
<1> HIDE DEF U
<1>7. \A i \in 0..Len(s) : U[i] = Step(U, i)
  BY <1>6
<1> DEFINE Upto(n) == U[n] \in Seq(S) /\ Picks(U[n], s, I \cap (1..n))
           N == {n \in Nat : n <= Len(s) => Upto(n)}
<1>8. 0 \in N
  <2>1. U[0] = <<>>
    BY <1>5, <1>7 DEF Step
  <2>2. Picks(<<>>, s, {})
    <3>1. <<>> \in [1..Len(<<>>) -> {}]
      OBVIOUS
    <3> QED
      BY <3>1 DEF Picks
  <2>3. I \cap (1..0) = {}
    OBVIOUS
  <2>4. Upto(0)
    BY <2>1, <2>2, <2>3
  <2> QED
    BY <2>4
<1>9. ASSUME NEW n \in N PROVE n + 1 \in N
  <2> SUFFICES ASSUME n + 1 <= Len(s) PROVE Upto(n + 1)
    OBVIOUS
  <2>1. U[n] \in Seq(S) /\ Picks(U[n], s, I \cap (1..n)) /\ n \in Nat
    BY <1>5
  <2>2. n + 1 \in 0..Len(s) /\ n + 1 # 0 /\ (n + 1) - 1 = n /\ n + 1 \in DOMAIN s
    BY <1>5
  <2>3. U[n + 1] = IF n + 1 \in I THEN Append(U[n], s[n + 1]) ELSE U[n]
    BY <1>7, <2>2 DEF Step
  <2>4. CASE n + 1 \in I
    <3>1. I \cap (1..(n + 1)) = (I \cap (1..n)) \cup {n + 1}
      BY <2>4
    <3>2. I \cap (1..n) \in SUBSET (1..n)
      OBVIOUS
    <3>3. Append(U[n], s[n + 1]) \in Seq(S) /\ Picks(Append(U[n], s[n + 1]), s, (I \cap (1..n)) \cup {n + 1})
      BY <2>1, <2>2, <3>2, PickOne
    <3> QED
      BY <2>3, <2>4, <3>1, <3>3
  <2>5. CASE n + 1 \notin I
    <3>1. I \cap (1..(n + 1)) = I \cap (1..n)
      BY <2>5
    <3> QED
      BY <2>1, <2>3, <2>5, <3>1
  <2> QED
    BY <2>4, <2>5
<1> HIDE DEF N, Upto
<1>10. N = Nat
  <2>1. N \in SUBSET Nat
    BY DEF N
  <2> QED
    BY <1>8, <1>9, <2>1, Induction
<1>11. Upto(Len(s)) /\ I \cap (1..Len(s)) = I
  BY <1>5, <1>10 DEF N
<1> QED
  BY <1>1, <1>11 DEF Upto

-----------------------------------------------------------------------------
(* Every variable stays in its range; that a dispatch is executed at most  *)
(* once, which R!TypeOK says as well, is left to CallInv.                  *)
DispatchObject ==
  [st: {"unused", "none", "open", "freed"}, count: Int, executed: Nat, lost: Nat]

ReactorTypes ==
  /\ reactor \in {"unborn", "live", "gone"}
  /\ destroyed \in BOOLEAN /\ call_id \in BOOLEAN
  /\ DOMAIN nodes \subseteq Fusionees
  /\ \A f \in DOMAIN nodes : nodes[f] \in [Channels -> Int]
  /\ dispatch \in [1..MaxDispatch -> DispatchObject]
  /\ dispatch_count \in 0..MaxDispatch
  /\ rlock \in Threads \cup {None}

PoolTypes ==
  /\ pnodes = [p \in Pools |-> pnodes[p]]
  /\ \A p \in Pools : DOMAIN pnodes[p] \subseteq Fusionees
  /\ size \in [Pools -> Nat] /\ told \in [Pools -> [Fusionees -> Nat]]
  /\ crossed \in [Pools -> SUBSET Fusionees]
  /\ plock \in [Pools -> Threads \cup {None}]

\* Whose messages a thread sends.
PoolNamed == \A t \in Threads : op[t].at = "pool" => op[t].pool \in Pools

TypeInv ==
  /\ Q!TypeOK
  /\ ReactorTypes
  /\ PoolTypes
  /\ flushing \in [Fusionees -> Seq(Message)]
  /\ leaving \in [Fusionees -> Stages]
  /\ born \subseteq Fusionees
  /\ op \in [Threads -> Op] /\ PoolNamed
  /\ start \in Start

\* What is done with the queues until their fusionee leaves.
QueueUse ==
  \/ \E f \in Fusionees, m \in Message : Q!Send(f, m)
  \/ \E t \in Threads : \/ Q!ReadSleep(t) \/ Q!ReadNow(t) \/ Q!ReadWoken(t)
                        \/ Q!Poll(t) \/ Q!Interrupt(t)
  \/ UNCHANGED queueVars
QueueStep == QueueUse \/ \E f \in Fusionees : Leave(f)

(* The reactor and the pools send with the operators of the queues.        *)
LEMMA SendIsSend ==
  ASSUME NEW f, NEW m
  PROVE  /\ R!Q!Send(f, m) <=> Q!Send(f, m)
         /\ P!Q!Send(f, m) <=> Q!Send(f, m)
<1>1. R!Q!Send(f, m) <=> Q!Send(f, m)
  BY DEF R!Q!Send, Q!Send
<1>2. P!Q!Send(f, m) <=> Q!Send(f, m)
  BY DEF P!Q!Send, Q!Send
<1> QED
  BY <1>1, <1>2

(* A message is queued at its end, and its fusionee has received one more. *)
LEMMA SendTypes ==
  ASSUME Q!TypeOK, NEW f \in Fusionees, NEW m \in Message, Q!Send(f, m)
  PROVE  Q!TypeOK'
<1>1. messages' \in [Fusionees -> Seq(Message)]
  <2>1. Append(messages[f], m) \in Seq(Message)
    BY DEF Q!TypeOK
  <2> QED
    BY <2>1 DEF Q!TypeOK, Q!Send
<1>2. wait' \in [Fusionees -> SUBSET Threads]
  BY DEF Q!TypeOK, Q!Send
<1> QED
  BY <1>1, <1>2 DEF Q!TypeOK, Q!Send

(* What the queues pick out of a batch is what Picked picks.               *)
LEMMA QueuesPick ==
  ASSUME NEW s \in Seq(Message), NEW I \in SUBSET DOMAIN s
  PROVE  Q!Picked(s, I) \in Seq(Message) /\ Picks(Q!Picked(s, I), s, I)
<1>1. Q!Picked(s, I) = Picked(s, I)
  BY DEF Q!Picked, Picked
<1>2. Picked(s, I) \in Seq(Message) /\ Picks(Picked(s, I), s, I)
  BY PickedPicks
<1> QED
  BY <1>1, <1>2

(* A batch is a beginning of the queue, and its tracked messages are kept. *)
LEMMA BatchTypes ==
  ASSUME NEW s \in Seq(Message), NEW k \in 0..Len(s)
  PROVE  /\ SubSeq(s, 1, k) \in Seq(Message) /\ SubSeq(s, k + 1, Len(s)) \in Seq(Message)
         /\ Q!Tracked(SubSeq(s, 1, k)) \in Seq(Message)
<1>1. SubSeq(s, 1, k) \in Seq(Message) /\ SubSeq(s, k + 1, Len(s)) \in Seq(Message)
  OBVIOUS
<1> DEFINE b == SubSeq(s, 1, k)
           I == {i \in DOMAIN b : b[i].tracked}
<1>2. b \in Seq(Message) /\ I \in SUBSET DOMAIN b
  BY <1>1
<1> HIDE DEF b, I
<1>3. Q!Picked(b, I) \in Seq(Message)
  BY <1>2, QueuesPick
<1>4. Q!Tracked(b) = Q!Picked(b, I)
  BY DEF Q!Tracked, I
<1> QED
  BY <1>1, <1>3, <1>4 DEF b

LEMMA DeliverTypes ==
  ASSUME Q!TypeOK, NEW f \in Fusionees, NEW before \in Seq(Message),
         NEW k \in 0..Len(messages[f]), Q!Deliver(f, k, before)
  PROVE  /\ messages' \in [Fusionees -> Seq(Message)]
         /\ prev_msgs' \in [Fusionees -> Seq(Message)]
         /\ handling' \in [Fusionees -> Seq(Message)]
<1> DEFINE b == SubSeq(messages[f], 1, k)
           rest == SubSeq(messages[f], k + 1, Len(messages[f]))
           kept == before \o Q!Tracked(b)
<1>1. messages[f] \in Seq(Message)
  BY DEF Q!TypeOK
<1>2. b \in Seq(Message) /\ rest \in Seq(Message) /\ Q!Tracked(b) \in Seq(Message)
  BY <1>1, BatchTypes
<1>3. kept \in Seq(Message)
  BY <1>2
<1>4. /\ messages' = [messages EXCEPT ![f] = rest]
      /\ prev_msgs' = [prev_msgs EXCEPT ![f] = kept]
      /\ handling' = [handling EXCEPT ![f] = b]
  BY DEF Q!Deliver
<1> HIDE DEF b, rest, kept
<1> QED
  BY <1>2, <1>3, <1>4 DEF Q!TypeOK

LEMMA ReadTypes ==
  ASSUME Q!TypeOK, NEW t \in Threads,
         Q!ReadSleep(t) \/ Q!ReadNow(t) \/ Q!ReadWoken(t) \/ Q!Poll(t) \/ Q!Interrupt(t)
  PROVE  Q!TypeOK'
<1>1. Fid[t] \in Fusionees /\ <<>> \in Seq(Message)
  BY QueueAssumption
<1>2. Q!QAt("user") \in Q!QOp /\ Q!QAt("reading") \in Q!QOp
  BY DEF Q!QAt, Q!QOp
<1>3. CASE Q!ReadSleep(t) \/ Q!Poll(t) \/ Q!Interrupt(t)
  <2>1. CASE Q!ReadSleep(t)
    <3>1. qop' \in [Threads -> Q!QOp] /\ dispatcher_pid' \in [Fusionees -> Threads \cup {None}]
      BY <1>2, <2>1 DEF Q!TypeOK, Q!ReadSleep
    <3>2. prev_msgs' \in [Fusionees -> Seq(Message)] /\ handling' \in [Fusionees -> Seq(Message)]
      BY <1>1, <2>1 DEF Q!TypeOK, Q!ReadSleep
    <3>3. wait' \in [Fusionees -> SUBSET Threads]
      BY <2>1 DEF Q!TypeOK, Q!ReadSleep
    <3> QED
      BY <2>1, <3>1, <3>2, <3>3 DEF Q!TypeOK, Q!ReadSleep
  <2>2. CASE Q!Poll(t)
    BY <1>1, <2>2 DEF Q!TypeOK, Q!Poll
  <2>3. CASE Q!Interrupt(t)
    <3>1. qop' \in [Threads -> Q!QOp]
      BY <1>2, <2>3 DEF Q!TypeOK, Q!Interrupt
    <3>2. wait' \in [Fusionees -> SUBSET Threads]
      BY <1>1, <2>3 DEF Q!TypeOK, Q!Interrupt
    <3> QED
      BY <2>3, <3>1, <3>2 DEF Q!TypeOK, Q!Interrupt
  <2> QED
    BY <1>3, <2>1, <2>2, <2>3
<1>4. CASE Q!ReadNow(t)
  <2>1. PICK k \in 0..Len(messages[Fid[t]]) : Q!Deliver(Fid[t], k, <<>>)
    BY <1>4 DEF Q!ReadNow
  <2>2. /\ messages' \in [Fusionees -> Seq(Message)]
        /\ prev_msgs' \in [Fusionees -> Seq(Message)]
        /\ handling' \in [Fusionees -> Seq(Message)]
    BY <1>1, <2>1, DeliverTypes
  <2>3. /\ dispatcher_pid' \in [Fusionees -> Threads \cup {None}]
        /\ wait' \in [Fusionees -> SUBSET Threads]
    BY <1>1, <1>4 DEF Q!ReadNow, Q!TypeOK
  <2> QED
    BY <1>4, <2>2, <2>3 DEF Q!ReadNow, Q!TypeOK
<1>5. CASE Q!ReadWoken(t)
  <2> DEFINE f == Fid[t]
  <2>1. UNCHANGED <<listed, dispatcher_pid>>
    BY <1>5 DEF Q!ReadWoken
  <2>2. \/ /\ wait' = [wait EXCEPT ![f] = @ \cup {t}]
           /\ UNCHANGED <<messages, prev_msgs, handling, qop>>
        \/ /\ \E k \in 0..Len(messages[f]) : Q!Deliver(f, k, prev_msgs[f])
           /\ qop' = [qop EXCEPT ![t] = Q!QAt("user")] /\ wait' = wait
    BY <1>5 DEF Q!ReadWoken
  <2>3. CASE /\ wait' = [wait EXCEPT ![f] = @ \cup {t}]
             /\ UNCHANGED <<messages, prev_msgs, handling, qop>>
    <3>1. wait' \in [Fusionees -> SUBSET Threads]
      BY <1>1, <2>3 DEF Q!TypeOK
    <3> QED
      BY <2>1, <2>3, <3>1 DEF Q!TypeOK
  <2>4. CASE /\ \E k \in 0..Len(messages[f]) : Q!Deliver(f, k, prev_msgs[f])
             /\ qop' = [qop EXCEPT ![t] = Q!QAt("user")] /\ wait' = wait
    <3>1. PICK k \in 0..Len(messages[f]) : Q!Deliver(f, k, prev_msgs[f])
      BY <2>4
    <3>2. prev_msgs[f] \in Seq(Message)
      BY <1>1 DEF Q!TypeOK
    <3>3. /\ messages' \in [Fusionees -> Seq(Message)]
          /\ prev_msgs' \in [Fusionees -> Seq(Message)]
          /\ handling' \in [Fusionees -> Seq(Message)]
      BY <1>1, <3>1, <3>2, DeliverTypes
    <3>4. qop' \in [Threads -> Q!QOp]
      BY <1>2, <2>4 DEF Q!TypeOK
    <3> QED
      BY <2>1, <2>4, <3>3, <3>4 DEF Q!TypeOK
  <2> QED
    BY <2>2, <2>3, <2>4
<1> QED
  BY <1>3, <1>4, <1>5

LEMMA QueueTypes ==
  ASSUME Q!TypeOK, QueueStep
  PROVE  Q!TypeOK'
<1>1. ASSUME NEW f \in Fusionees, Leave(f) PROVE Q!TypeOK'
  <2>1. qop' \in [Threads -> Q!QOp]
    BY <1>1 DEF Leave, Q!TypeOK, Q!Release, Q!QAt, Q!QOp
  <2>2. <<>> \in Seq(Message)
    OBVIOUS
  <2> QED
    BY <1>1, <2>1, <2>2 DEF Leave, Q!TypeOK, Q!Release
<1>2. CASE UNCHANGED queueVars
  BY <1>2 DEF Q!TypeOK, queueVars
<1> QED
  BY <1>1, <1>2, SendTypes, ReadTypes DEF QueueStep, QueueUse

(* Where the ioctls put a thread.                                          *)
LEMMA OpForms ==
  ASSUME op \in [Threads -> Op], NEW t \in Threads, NEW n \in Nat, NEW todo \in SUBSET Fusionees
  PROVE  /\ \A p \in Pools : [op EXCEPT ![t] = [at |-> "pool", todo |-> todo, n |-> n, pool |-> p]]
                               \in [Threads -> Op]
         /\ [op EXCEPT ![t].at = "reactor", ![t].n = n, ![t].todo = todo] \in [Threads -> Op]
         /\ [op EXCEPT ![t].todo = todo] \in [Threads -> Op]
         /\ [op EXCEPT ![t].at = "user", ![t].n = n] \in [Threads -> Op]
         /\ [op EXCEPT ![t] = P!User] \in [Threads -> Op]
         /\ [op EXCEPT ![t].at = "fork"] \in [Threads -> Op]
<1>1. P!User \in Op
  BY DEF P!User, Op
<1>2. \A p \in Pools : [at |-> "pool", todo |-> todo, n |-> n, pool |-> p] \in Op
  BY DEF Op
<1>3. op[t] \in Op
  OBVIOUS
<1>4. [op EXCEPT ![t].at = "reactor", ![t].n = n, ![t].todo = todo] \in [Threads -> Op]
  BY DEF Op
<1>5. [op EXCEPT ![t].todo = todo] \in [Threads -> Op]
  BY DEF Op
<1>6. [op EXCEPT ![t].at = "user", ![t].n = n] \in [Threads -> Op]
  BY DEF Op
<1>7. [op EXCEPT ![t].at = "fork"] \in [Threads -> Op]
  BY DEF Op
<1> QED
  BY <1>1, <1>2, <1>4, <1>5, <1>6, <1>7

(* What becomes of a dispatch.                                             *)
LEMMA DispatchForms ==
  ASSUME ReactorTypes, NEW n \in 1..MaxDispatch
  PROVE  /\ \A st \in {"open", "none"} : R!NewDispatch(st) \in DispatchObject
         /\ \A k \in Int :
              /\ [dispatch[n] EXCEPT !.count = k] \in DispatchObject
              /\ [dispatch[n] EXCEPT !.count = k, !.lost = @ + 1] \in DispatchObject
              /\ [dispatch[n] EXCEPT !.count = k, !.st = "freed"] \in DispatchObject
              /\ R!Execute([dispatch[n] EXCEPT !.count = k]) \in DispatchObject
         /\ R!Execute(dispatch[n]) \in DispatchObject
<1>1. dispatch[n] \in DispatchObject
  BY DEF ReactorTypes
<1>2. \A st \in {"open", "none"} : R!NewDispatch(st) \in DispatchObject
  BY DEF R!NewDispatch, DispatchObject
<1>3. \A d \in DispatchObject : [d EXCEPT !.st = "freed"] \in DispatchObject
  BY DEF DispatchObject
<1>4. \A d \in DispatchObject : [d EXCEPT !.lost = @ + 1] \in DispatchObject
  BY DEF DispatchObject
<1>5. \A k \in Int : [dispatch[n] EXCEPT !.count = k] \in DispatchObject
  BY <1>1 DEF DispatchObject
<1>6. \A d \in DispatchObject : R!Execute(d) \in DispatchObject
  <2> SUFFICES ASSUME NEW d \in DispatchObject PROVE R!Execute(d) \in DispatchObject
    OBVIOUS
  <2>1. d.executed + 1 \in Nat
    BY DEF DispatchObject
  <2>2. [d EXCEPT !.executed = @ + 1] \in DispatchObject
    BY <2>1 DEF DispatchObject
  <2> QED
    BY <1>3, <2>2 DEF R!Execute
<1>7. ASSUME NEW k \in Int
      PROVE  /\ [dispatch[n] EXCEPT !.count = k, !.lost = @ + 1] \in DispatchObject
             /\ [dispatch[n] EXCEPT !.count = k, !.st = "freed"] \in DispatchObject
             /\ R!Execute([dispatch[n] EXCEPT !.count = k]) \in DispatchObject
  BY <1>3, <1>4, <1>5, <1>6
<1> QED
  BY <1>1, <1>2, <1>5, <1>6, <1>7

-----------------------------------------------------------------------------
(* The types of the reactor.                                               *)
LEMMA AttachTypes ==
  ASSUME ReactorTypes, NEW f \in Fusionees, NEW ch \in Channels, R!Attach(f, ch) \/ R!Detach(f, ch)
  PROVE  ReactorTypes'
<1>1. CASE R!Attach(f, ch)
  <2>1. DOMAIN nodes' \subseteq Fusionees /\ \A g \in DOMAIN nodes' : nodes'[g] \in [Channels -> Int]
    BY <1>1 DEF ReactorTypes, R!Attach
  <2> QED
    BY <1>1, <2>1 DEF ReactorTypes, R!Attach, R!dispVars
<1>2. CASE R!Detach(f, ch)
  <2> DEFINE less == [nodes EXCEPT ![f][ch] = @ - 1]
             rest == R!Without(f)
  <2>1. DOMAIN less \subseteq Fusionees /\ \A g \in DOMAIN less : less[g] \in [Channels -> Int]
    BY DEF ReactorTypes
  <2>2. DOMAIN rest \subseteq Fusionees /\ \A g \in DOMAIN rest : rest[g] \in [Channels -> Int]
    BY DEF ReactorTypes, R!Without, R!Restrict
  <2>3. nodes' \in {less, rest} /\ reactor' \in {"gone", reactor}
        /\ UNCHANGED <<destroyed, call_id, R!dispVars, rlock>>
    BY <1>2 DEF R!Detach, R!SetNodes
  <2> HIDE DEF less, rest
  <2> QED
    BY <2>1, <2>2, <2>3 DEF ReactorTypes, R!dispVars
<1> QED
  BY <1>1, <1>2

LEMMA CrowdTypes ==
  ASSUME ReactorTypes, NEW f \in Fusionees, NEW from, R!DetachAll(f) \/ R!ForkAll(f, from)
  PROVE  ReactorTypes'
<1>1. CASE R!DetachAll(f)
  <2> DEFINE rest == R!Without(f)
  <2>1. DOMAIN rest \subseteq Fusionees /\ \A g \in DOMAIN rest : rest[g] \in [Channels -> Int]
    BY DEF ReactorTypes, R!Without, R!Restrict
  <2>2. nodes' \in {nodes, rest} /\ reactor' \in {"gone", reactor}
        /\ UNCHANGED <<destroyed, call_id, R!dispVars, rlock>>
    BY <1>1 DEF R!DetachAll, R!SetNodes
  <2> HIDE DEF rest
  <2> QED
    BY <2>1, <2>2 DEF ReactorTypes, R!dispVars
<1>2. CASE R!ForkAll(f, from)
  <2>1. DOMAIN nodes' \subseteq Fusionees /\ \A g \in DOMAIN nodes' : nodes'[g] \in [Channels -> Int]
    BY <1>2 DEF ReactorTypes, R!ForkAll
  <2> QED
    BY <1>2, <2>1 DEF ReactorTypes, R!ForkAll, R!dispVars
<1> QED
  BY <1>1, <1>2

LEMMA ReactorEntryTypes ==
  ASSUME ReactorTypes, R!New \/ R!Destroy \/ R!SetDispatchCallback(~ call_id)
  PROVE  ReactorTypes'
BY DEF ReactorTypes, R!New, R!Destroy, R!SetDispatchCallback, R!dispVars

LEMMA CallbackTypes ==
  ASSUME ReactorTypes, NEW n \in Nat, R!Callback(n, start.alone)
  PROVE  ReactorTypes'
<1> DEFINE d == R!Counted(dispatch[n])
           new == IF reactor = "live" THEN IF d.count = 0 THEN R!Execute(d) ELSE d
                  ELSE IF ~ start.alone THEN dispatch[n]
                  ELSE IF d.count = 0 THEN [d EXCEPT !.st = "freed"] ELSE d
<1>1. dispatch' = [dispatch EXCEPT ![n] = new] /\ UNCHANGED <<R!nodeVars, dispatch_count, rlock>>
  BY DEF R!Callback
<1>2. n \in 1..MaxDispatch => new \in DispatchObject
  <2> SUFFICES ASSUME n \in 1..MaxDispatch PROVE new \in DispatchObject
    OBVIOUS
  <2>1. dispatch[n] \in DispatchObject /\ dispatch[n].count - 1 \in Int
    BY DEF ReactorTypes, DispatchObject
  <2>2. \A k \in Int : /\ [dispatch[n] EXCEPT !.count = k] \in DispatchObject
                       /\ [dispatch[n] EXCEPT !.count = k, !.st = "freed"] \in DispatchObject
                       /\ R!Execute([dispatch[n] EXCEPT !.count = k]) \in DispatchObject
    BY DispatchForms
  <2>3. d = [dispatch[n] EXCEPT !.count = dispatch[n].count - 1]
    BY DEF R!Counted
  <2>4. d \in DispatchObject /\ R!Execute(d) \in DispatchObject
    BY <2>1, <2>2, <2>3
  <2>5. [d EXCEPT !.st = "freed"] \in DispatchObject
    BY <2>4 DEF DispatchObject
  <2> HIDE DEF d
  <2> QED
    BY <2>1, <2>4, <2>5
<1> HIDE DEF new
<1>3. dispatch' \in [1..MaxDispatch -> DispatchObject]
  BY <1>1, <1>2 DEF ReactorTypes
<1> QED
  BY <1>1, <1>3 DEF ReactorTypes, R!nodeVars

LEMMA ReactorDispatchTypes ==
  ASSUME ReactorTypes, op \in [Threads -> Op], NEW t \in Threads, NEW f \in Fusionees,
         NEW ch, NEW self, NEW signal,
         R!DispatchBegin(t, ch, self) \/ R!DispatchSend(t, f, signal) \/ R!DispatchEnd(t)
  PROVE  ReactorTypes' /\ op' \in [Threads -> Op]
<1>1. CASE R!DispatchBegin(t, ch, self)
  <2> DEFINE todo == R!Recipients(IF self THEN None ELSE Fid[t], ch)
  <2>1. dispatch_count + 1 \in 1..MaxDispatch /\ dispatch_count + 1 \in Nat
    BY <1>1, ReactorAssumption DEF ReactorTypes, R!DispatchBegin
  <2>2. todo \in SUBSET Fusionees
    BY DEF ReactorTypes, R!Recipients
  <2>3. R!NewDispatch("open") \in DispatchObject /\ R!NewDispatch("none") \in DispatchObject
    BY <2>1, DispatchForms
  <2>4. dispatch' \in [1..MaxDispatch -> DispatchObject]
    BY <1>1, <2>3 DEF ReactorTypes, R!DispatchBegin
  <2>5. op' = [op EXCEPT ![t].at = "reactor", ![t].n = dispatch_count + 1, ![t].todo = todo]
    BY <1>1 DEF R!DispatchBegin
  <2> HIDE DEF todo
  <2>6. op' \in [Threads -> Op]
    BY <2>1, <2>2, <2>5, OpForms
  <2> QED
    BY <1>1, <2>1, <2>4, <2>6 DEF ReactorTypes, R!DispatchBegin, R!nodeVars
<1>2. CASE R!DispatchSend(t, f, signal)
  <2> DEFINE n == op[t].n
             k == dispatch[n].count + (IF dispatch[n].st = "open" THEN 1 ELSE 0)
  <2>1. /\ op' = [op EXCEPT ![t].todo = op[t].todo \ {f}]
        /\ \/ dispatch' = [dispatch EXCEPT ![n] = [dispatch[n] EXCEPT !.count = k]]
           \/ dispatch' = [dispatch EXCEPT ![n] = [dispatch[n] EXCEPT !.count = k, !.lost = @ + 1]]
        /\ UNCHANGED <<R!nodeVars, dispatch_count, rlock>>
    BY <1>2 DEF R!DispatchSend
  <2>2. op[t].todo \ {f} \in SUBSET Fusionees /\ n \in Nat
    BY DEF Op
  <2>3. op' \in [Threads -> Op]
    BY <2>1, <2>2, OpForms
  <2>4. n \in 1..MaxDispatch => k \in Int
    BY DEF ReactorTypes, DispatchObject
  <2> HIDE DEF n, k
  <2>5. n \in 1..MaxDispatch =>
          /\ [dispatch[n] EXCEPT !.count = k] \in DispatchObject
          /\ [dispatch[n] EXCEPT !.count = k, !.lost = @ + 1] \in DispatchObject
    BY <2>4, DispatchForms
  <2>6. dispatch' \in [1..MaxDispatch -> DispatchObject]
    BY <2>1, <2>5 DEF ReactorTypes
  <2> QED
    BY <2>1, <2>3, <2>6 DEF ReactorTypes, R!nodeVars
<1>3. CASE R!DispatchEnd(t)
  <2> DEFINE n == op[t].n
  <2>1. /\ op' = [op EXCEPT ![t].at = "user", ![t].n = 0]
        /\ \/ dispatch' = [dispatch EXCEPT ![n] = R!Execute(dispatch[n])]
           \/ dispatch' = dispatch
        /\ rlock' = None
        /\ UNCHANGED <<R!nodeVars, dispatch_count>>
    BY <1>3 DEF R!DispatchEnd
  <2>2. op' \in [Threads -> Op]
    BY <2>1, OpForms
  <2> HIDE DEF n
  <2>3. n \in 1..MaxDispatch => R!Execute(dispatch[n]) \in DispatchObject
    BY DispatchForms
  <2>4. dispatch' \in [1..MaxDispatch -> DispatchObject]
    BY <2>1, <2>3 DEF ReactorTypes
  <2> QED
    BY <2>1, <2>2, <2>4 DEF ReactorTypes, R!nodeVars
<1> QED
  BY <1>1, <1>2, <1>3

(* The types of the pools.                                                 *)
LEMMA GivenTypes ==
  ASSUME PoolTypes, NEW p \in Pools, NEW f \in Fusionees, NEW s \in Nat, P!Given(p, f, s)
  PROVE  told' \in [Pools -> [Fusionees -> Nat]] /\ crossed' \in [Pools -> SUBSET Fusionees]
<1>1. told' = [told EXCEPT ![p][f] = s]
      /\ crossed' \in {[crossed EXCEPT ![p] = @ \ {f}], [crossed EXCEPT ![p] = @ \cup {f}]}
  BY DEF P!Given
<1> QED
  BY <1>1 DEF PoolTypes

LEMMA PoolIoctlTypes ==
  ASSUME PoolTypes, NEW p \in Pools, NEW f \in Fusionees, NEW max,
         P!New(p, max) \/ P!Attach(p, f) \/ P!Detach(p, f) \/ P!Destroy(p)
  PROVE  PoolTypes'
<1>1. ASSUME NEW k, P!SetCount(p, f, k) \/ P!Remove(p, f)
      PROVE  /\ pnodes' = [q \in Pools |-> pnodes'[q]]
             /\ \A q \in Pools : DOMAIN pnodes'[q] \subseteq Fusionees
  BY <1>1 DEF PoolTypes, P!SetCount, P!Remove, P!Restrict
<1>2. CASE P!New(p, max)
  BY <1>2 DEF P!New, PoolTypes, P!sizeVars
<1>3. CASE P!Attach(p, f)
  <2>1. P!Given(p, f, size[p]) /\ size[p] \in Nat
    BY <1>3 DEF P!Attach, PoolTypes
  <2>2. told' \in [Pools -> [Fusionees -> Nat]] /\ crossed' \in [Pools -> SUBSET Fusionees]
    BY <2>1, GivenTypes
  <2> QED
    BY <1>1, <1>3, <2>2 DEF P!Attach, PoolTypes
<1>4. CASE P!Detach(p, f)
  BY <1>1, <1>4 DEF P!Detach, PoolTypes
<1>5. CASE P!Destroy(p)
  <2>1. DOMAIN <<>> = {}
    OBVIOUS
  <2>2. pnodes' = [pnodes EXCEPT ![p] = <<>>] /\ UNCHANGED <<size, told, crossed, plock>>
    BY <1>5 DEF P!Destroy
  <2> QED
    BY <2>1, <2>2 DEF PoolTypes
<1> QED
  BY <1>2, <1>3, <1>4, <1>5

LEMMA PoolCrowdTypes ==
  ASSUME PoolTypes, NEW f \in Fusionees, NEW from, P!DetachAll(f) \/ P!ForkAll(f, from)
  PROVE  PoolTypes'
<1>1. CASE P!DetachAll(f)
  BY <1>1 DEF P!DetachAll, PoolTypes, P!Restrict
<1>2. CASE P!ForkAll(f, from)
  BY <1>2 DEF P!ForkAll, PoolTypes
<1> QED
  BY <1>1, <1>2

LEMMA PoolDispatchTypes ==
  ASSUME PoolTypes, op \in [Threads -> Op], NEW t \in Threads, NEW f \in Fusionees,
         NEW signal,
         \/ \E p \in Pools, s \in Sizes : P!DispatchBegin(t, p, s)
         \/ P!DispatchSend(t, f, signal)
         \/ P!DispatchEnd(t)
  PROVE  PoolTypes' /\ op' \in [Threads -> Op]
<1>1. ASSUME NEW p \in Pools, NEW s \in Sizes, P!DispatchBegin(t, p, s)
      PROVE  PoolTypes' /\ op' \in [Threads -> Op]
  <2>1. s \in Nat /\ DOMAIN pnodes[p] \ {Fid[t]} \in SUBSET Fusionees
    BY PoolAssumption DEF PoolTypes
  <2>2. op' \in [Threads -> Op]
    BY <1>1, <2>1, OpForms DEF P!DispatchBegin
  <2>3. told' \in [Pools -> [Fusionees -> Nat]] /\ crossed' \in [Pools -> SUBSET Fusionees]
    BY <1>1, <2>1, GivenTypes, QueueAssumption DEF P!DispatchBegin
  <2> QED
    BY <1>1, <2>1, <2>2, <2>3 DEF P!DispatchBegin, PoolTypes
<1>2. CASE P!DispatchSend(t, f, signal)
  <2>1. op[t].todo \ {f} \in SUBSET Fusionees /\ op[t].n \in Nat
    BY DEF Op
  <2>2. op' \in [Threads -> Op]
    BY <1>2, <2>1, OpForms DEF P!DispatchSend
  <2>3. crossed' \in [Pools -> SUBSET Fusionees]
    <3>1. crossed' \in {crossed, [crossed EXCEPT ![op[t].pool] = @ \ {f}]}
      BY <1>2 DEF P!DispatchSend
    <3> QED
      BY <3>1 DEF PoolTypes
  <2> QED
    BY <1>2, <2>2, <2>3 DEF P!DispatchSend, PoolTypes
<1>3. CASE P!DispatchEnd(t)
  BY <1>3, OpForms DEF P!DispatchEnd, PoolTypes, P!sizeVars
<1> QED
  BY <1>1, <1>2, <1>3

-----------------------------------------------------------------------------
(* What a step of the whole does to each part.                             *)
LEMMA StepQueue ==
  ASSUME TypeInv, [Next]_vars
  PROVE  QueueStep
<1>1. ASSUME NEW t \in Threads, ReactorDispatch(t) PROVE QueueStep
  <2>1. ASSUME NEW f \in Fusionees, NEW signal, R!DispatchSend(t, f, signal) PROVE QueueStep
    <3>1. CASE UNCHANGED queueVars
      BY <3>1 DEF QueueStep, QueueUse
    <3>2. CASE R!Q!Send(f, R!ReactorMessage(op[t].n))
      <4> DEFINE m == R!ReactorMessage(op[t].n)
      <4>1. op[t].n \in Nat
        BY DEF TypeInv, Op
      <4>2. m \in Message
        BY <4>1 DEF R!ReactorMessage, Message, Keys
      <4>3. Q!Send(f, m)
        BY <3>2, SendIsSend
      <4> HIDE DEF m
      <4> QED
        BY <4>2, <4>3 DEF QueueStep, QueueUse
    <3> QED
      BY <2>1, <3>1, <3>2 DEF R!DispatchSend, R!queueVars, queueVars
  <2>2. CASE UNCHANGED queueVars
    BY <2>2 DEF QueueStep, QueueUse
  <2> QED
    BY <1>1, <2>1, <2>2 DEF ReactorDispatch, R!DispatchBegin, R!DispatchEnd, R!queueVars, queueVars
<1>2. ASSUME NEW t \in Threads, PoolDispatch(t) PROVE QueueStep
  <2>1. ASSUME NEW f \in Fusionees, NEW signal, P!DispatchSend(t, f, signal) PROVE QueueStep
    <3>1. CASE UNCHANGED queueVars
      BY <3>1 DEF QueueStep, QueueUse
    <3>2. CASE P!Q!Send(f, P!Remap(op[t].pool, op[t].n)) /\ op[t].pool \in Pools
      <4> DEFINE m == P!Remap(op[t].pool, op[t].n)
      <4>1. op[t].n \in Nat
        BY DEF TypeInv, Op
      <4>2. m \in Message
        BY <3>2, <4>1 DEF P!Remap, Message, Keys
      <4>3. Q!Send(f, m)
        BY <3>2, SendIsSend
      <4> HIDE DEF m
      <4> QED
        BY <4>2, <4>3 DEF QueueStep, QueueUse
    <3> QED
      BY <2>1, <3>1, <3>2 DEF P!DispatchSend, P!queueVars, queueVars, TypeInv, PoolNamed
  <2>2. CASE UNCHANGED queueVars
    BY <2>2 DEF QueueStep, QueueUse
  <2> QED
    BY <1>2, <2>1, <2>2 DEF PoolDispatch, P!DispatchBegin, P!DispatchEnd, P!queueVars, queueVars
<1>3. ASSUME NEW t \in Threads, Read(t) \/ ReadOn(t) PROVE QueueStep
  BY <1>3 DEF Read, ReadOn, QueueStep, QueueUse
<1>4. ASSUME NEW f \in Fusionees, Leave(f) PROVE QueueStep
  BY <1>4 DEF QueueStep
<1>5. CASE UNCHANGED queueVars
  BY <1>5 DEF QueueStep, QueueUse
<1>6. ASSUME NEW t \in Threads, Ioctl(t) \/ ForkPools(t) \/ ForkReactors(t) PROVE QueueStep
  BY <1>5, <1>6 DEF Ioctl, ForkPools, ForkReactors
<1>7. ASSUME NEW f \in Fusionees, Flush(f) \/ LeaveReactor(f) \/ LeavePools(f) PROVE QueueStep
  BY <1>5, <1>7 DEF Flush, LeaveReactor, LeavePools
<1>8. CASE UNCHANGED vars
  BY <1>5, <1>8 DEF vars
<1> QED
  BY <1>1, <1>2, <1>3, <1>4, <1>6, <1>7, <1>8 DEF Next

LEMMA StepReactor ==
  ASSUME TypeInv, [Next]_vars
  PROVE  ReactorTypes'
<1>1. ReactorTypes /\ op \in [Threads -> Op] /\ start \in Start
      /\ start.channels \subseteq Channels /\ Fid \in [Threads -> Fusionees]
  BY QueueAssumption DEF TypeInv, Start
<1>2. CASE UNCHANGED reactorVars
  BY <1>1, <1>2 DEF ReactorTypes, reactorVars
<1>3. ASSUME NEW t \in Threads, Ioctl(t) PROVE ReactorTypes'
  <2>1. CASE R!New \/ R!Destroy \/ R!SetDispatchCallback(~ call_id)
    BY <1>1, <2>1, ReactorEntryTypes
  <2>2. ASSUME NEW ch \in start.channels, R!Attach(Fid[t], ch) \/ R!Detach(Fid[t], ch)
        PROVE  ReactorTypes'
    BY <1>1, <2>2, AttachTypes
  <2> QED
    BY <1>2, <1>3, <2>1, <2>2 DEF Ioctl, ReactorIoctl
<1>4. ASSUME NEW t \in Threads, ReactorDispatch(t) PROVE ReactorTypes'
  <2>1. ASSUME NEW f \in Fusionees, NEW ch, NEW self, NEW signal,
               R!DispatchBegin(t, ch, self) \/ R!DispatchSend(t, f, signal) \/ R!DispatchEnd(t)
        PROVE  ReactorTypes'
    BY <1>1, <2>1, ReactorDispatchTypes
  <2>2. Fid[t] \in Fusionees
    BY <1>1
  <2> QED
    BY <1>4, <2>1, <2>2 DEF ReactorDispatch
<1>5. ASSUME NEW f \in Fusionees, Flush(f) PROVE ReactorTypes'
  <2>1. CASE Head(flushing[f]).tracked
    <3>1. flushing[f] \in Seq(Message) /\ flushing[f] # <<>>
      BY <1>5 DEF TypeInv, Flush
    <3>2. Head(flushing[f]) \in Message
      BY <3>1
    <3>3. Head(flushing[f]).n \in Nat
      BY <3>2 DEF Message
    <3>4. R!Callback(Head(flushing[f]).n, start.alone)
      BY <1>5, <2>1 DEF Flush
    <3> QED
      BY <1>1, <3>3, <3>4, CallbackTypes
  <2> QED
    BY <1>2, <1>5, <2>1 DEF Flush
<1>6. ASSUME NEW t \in Threads, ForkReactors(t) PROVE ReactorTypes'
  <2>1. R!ForkAll(Fid[t], start.parent[Fid[t]]) /\ Fid[t] \in Fusionees
    BY <1>1, <1>6 DEF ForkReactors
  <2> QED
    BY <1>1, <2>1, CrowdTypes
<1>7. ASSUME NEW f \in Fusionees, LeaveReactor(f) PROVE ReactorTypes'
  BY <1>1, <1>7, CrowdTypes DEF LeaveReactor
<1>8. ASSUME NEW t \in Threads, PoolDispatch(t) \/ Read(t) \/ ReadOn(t) \/ ForkPools(t)
      PROVE  ReactorTypes'
  BY <1>2, <1>8 DEF PoolDispatch, Read, ReadOn, ForkPools
<1>9. ASSUME NEW f \in Fusionees, Leave(f) \/ LeavePools(f) PROVE ReactorTypes'
  BY <1>2, <1>9 DEF Leave, LeavePools
<1>10. CASE UNCHANGED vars
  BY <1>2, <1>10 DEF vars
<1> QED
  BY <1>3, <1>4, <1>5, <1>6, <1>7, <1>8, <1>9, <1>10 DEF Next

(* The last of some places of a sequence.                                  *)
LEMMA MaxOfPlaces ==
  ASSUME NEW n \in Nat, NEW S \in SUBSET (1..n), S # {}
  PROVE  Max(S) \in S /\ \A y \in S : y <= Max(S)
<1> DEFINE T == {k \in Nat : \A y \in S : y <= k}
<1>1. n \in T /\ T \subseteq Nat
  OBVIOUS
<1>2. PICK x \in T : \A y \in T : ~ (<<y, x>> \in OpToRel(<, Nat))
  BY <1>1, WFMin, NatLessThanWellFounded
<1>3. \A y \in T : ~ (y < x)
  BY <1>1, <1>2 DEF OpToRel
<1>4. x \in S
  <2> SUFFICES ASSUME x \notin S PROVE FALSE
    OBVIOUS
  <2>1. \A y \in S : y \in Nat /\ y >= 1 /\ y <= x - 1
    OBVIOUS
  <2>2. x - 1 \in Nat
    <3>1. PICK y : y \in S
      OBVIOUS
    <3> QED
      BY <2>1, <3>1
  <2>3. x - 1 \in T
    BY <2>1, <2>2
  <2> QED
    BY <1>1, <1>3, <2>3
<1>5. \A y \in S : x >= y
  OBVIOUS
<1>6. Max(S) = CHOOSE z \in S : \A y \in S : z >= y
  BY DEF Max
<1>7. Max(S) \in S /\ \A y \in S : Max(S) >= y
  BY <1>4, <1>5, <1>6
<1> QED
  BY <1>7

(* A reading takes the first messages of its queue; the others keep theirs.*)
LEMMA ReadTakes ==
  ASSUME Q!TypeOK, NEW t \in Threads, Read(t) \/ ReadOn(t)
  PROVE  /\ \E k \in 0..Len(messages[Fid[t]]) :
               messages'[Fid[t]] = SubSeq(messages[Fid[t]], k + 1, Len(messages[Fid[t]]))
         /\ \A f \in Fusionees \ {Fid[t]} : messages'[f] = messages[f]
<1> DEFINE f == Fid[t]
<1>1. f \in Fusionees /\ messages \in [Fusionees -> Seq(Message)]
  BY QueueAssumption DEF Q!TypeOK
<1>2. \/ messages' = messages
      \/ \E k \in 0..Len(messages[f]) :
           messages' = [messages EXCEPT ![f] = SubSeq(@, k + 1, Len(@))]
  BY DEF Read, ReadOn, Q!ReadSleep, Q!ReadNow, Q!ReadWoken, Q!Poll, Q!Interrupt, Q!Deliver
<1>3. messages[f] = SubSeq(messages[f], 0 + 1, Len(messages[f])) /\ 0 \in 0..Len(messages[f])
  BY <1>1
<1> QED
  BY <1>1, <1>2, <1>3

LEMMA ReadLearns ==
  ASSUME Q!TypeOK, PoolTypes, NEW t \in Threads, Read(t) \/ ReadOn(t)
  PROVE  PoolTypes'
<1> DEFINE f == Fid[t]
           taken(p) == {i \in P!Unread(p, f) : i <= Len(messages[f]) - Len(messages'[f])}
<1>1. /\ told' = [p \in Pools |-> IF taken(p) = {} THEN told[p]
                 ELSE [told[p] EXCEPT ![f] = messages[f][Max(taken(p))].n]]
      /\ UNCHANGED <<tableVars, crossed>>
  BY DEF Read, ReadOn, P!Learn, P!Max, Max
<1>2. f \in Fusionees /\ messages[f] \in Seq(Message)
  BY QueueAssumption DEF Q!TypeOK
<1>3. ASSUME NEW p \in Pools, taken(p) # {} PROVE messages[f][Max(taken(p))].n \in Nat
  <2>1. taken(p) \in SUBSET (1..Len(messages[f])) /\ Len(messages[f]) \in Nat
    <3>1. Len(messages[f]) \in Nat /\ DOMAIN messages[f] = 1..Len(messages[f])
      BY <1>2
    <3>2. P!Unread(p, f) \subseteq DOMAIN messages[f]
      BY DEF P!Unread
    <3> QED
      BY <3>1, <3>2
  <2> HIDE DEF taken
  <2>2. Max(taken(p)) \in 1..Len(messages[f])
    BY <1>3, <2>1, MaxOfPlaces
  <2>3. messages[f][Max(taken(p))] \in Message
    BY <1>2, <2>2
  <2> QED
    BY <2>3 DEF Message
<1> HIDE DEF taken
<1>4. told' \in [Pools -> [Fusionees -> Nat]]
  BY <1>1, <1>2, <1>3 DEF PoolTypes
<1> QED
  BY <1>1, <1>4 DEF PoolTypes, tableVars

LEMMA StepPools ==
  ASSUME TypeInv, [Next]_vars
  PROVE  PoolTypes'
<1>1. PoolTypes /\ op \in [Threads -> Op] /\ Fid \in [Threads -> Fusionees]
  BY QueueAssumption DEF TypeInv
<1>2. CASE UNCHANGED poolVars
  BY <1>1, <1>2 DEF PoolTypes, poolVars, tableVars
<1>3. ASSUME NEW t \in Threads, Ioctl(t) PROVE PoolTypes'
  <2>1. ASSUME NEW p \in Pools, NEW max,
               P!New(p, max) \/ P!Attach(p, Fid[t]) \/ P!Detach(p, Fid[t]) \/ P!Destroy(p)
        PROVE  PoolTypes'
    BY <1>1, <2>1, PoolIoctlTypes
  <2> QED
    BY <1>2, <1>3, <2>1 DEF Ioctl, PoolIoctl
<1>4. ASSUME NEW t \in Threads, PoolDispatch(t) PROVE PoolTypes'
  <2>1. ASSUME NEW f \in Fusionees, NEW signal,
               \/ \E p \in Pools, s \in Sizes : P!DispatchBegin(t, p, s)
               \/ P!DispatchSend(t, f, signal)
               \/ P!DispatchEnd(t)
        PROVE  PoolTypes'
    BY <1>1, <2>1, PoolDispatchTypes
  <2>2. Fid[t] \in Fusionees
    BY <1>1
  <2> QED
    BY <1>4, <2>1, <2>2 DEF PoolDispatch
<1>5. ASSUME NEW t \in Threads, ForkPools(t) PROVE PoolTypes'
  <2>1. P!ForkAll(Fid[t], start.parent[Fid[t]]) /\ Fid[t] \in Fusionees
    BY <1>1, <1>5 DEF ForkPools
  <2> QED
    BY <1>1, <2>1, PoolCrowdTypes
<1>6. ASSUME NEW f \in Fusionees, LeavePools(f) PROVE PoolTypes'
  BY <1>1, <1>6, PoolCrowdTypes DEF LeavePools
<1>7. ASSUME NEW t \in Threads, ReactorDispatch(t) \/ ForkReactors(t) PROVE PoolTypes'
  BY <1>2, <1>7 DEF ReactorDispatch, ForkReactors
<1>8. ASSUME NEW t \in Threads, Read(t) \/ ReadOn(t) PROVE PoolTypes'
  BY <1>1, <1>8, ReadLearns DEF TypeInv
<1>9. ASSUME NEW f \in Fusionees, Flush(f) \/ Leave(f) \/ LeaveReactor(f) PROVE PoolTypes'
  BY <1>2, <1>9 DEF Flush, Leave, LeaveReactor
<1>10. CASE UNCHANGED vars
  BY <1>2, <1>10 DEF vars
<1> QED
  BY <1>3, <1>4, <1>5, <1>6, <1>7, <1>8, <1>9, <1>10 DEF Next

(* What the threads and the files are about.                               *)
LEMMA StepLife ==
  ASSUME TypeInv, [Next]_vars
  PROVE  /\ flushing' \in [Fusionees -> Seq(Message)]
         /\ leaving' \in [Fusionees -> Stages]
         /\ born' \subseteq Fusionees
         /\ op' \in [Threads -> Op]
         /\ start' \in Start
<1> DEFINE Goal == /\ flushing' \in [Fusionees -> Seq(Message)]
                   /\ leaving' \in [Fusionees -> Stages]
                   /\ born' \subseteq Fusionees
                   /\ op' \in [Threads -> Op]
                   /\ start' \in Start
<1>1. /\ flushing \in [Fusionees -> Seq(Message)] /\ leaving \in [Fusionees -> Stages]
      /\ born \subseteq Fusionees /\ op \in [Threads -> Op] /\ start \in Start
      /\ ReactorTypes /\ PoolTypes /\ Fid \in [Threads -> Fusionees]
      /\ messages \in [Fusionees -> Seq(Message)] /\ prev_msgs \in [Fusionees -> Seq(Message)]
  BY QueueAssumption DEF TypeInv, Q!TypeOK
<1>2. CASE UNCHANGED <<flushing, lifeVars, op, start>>
  BY <1>1, <1>2 DEF lifeVars
<1>3. ASSUME NEW t \in Threads, ReactorDispatch(t) PROVE Goal
  <2>1. ASSUME NEW f \in Fusionees, NEW ch, NEW self, NEW signal,
               R!DispatchBegin(t, ch, self) \/ R!DispatchSend(t, f, signal) \/ R!DispatchEnd(t)
        PROVE  op' \in [Threads -> Op]
    BY <1>1, <2>1, ReactorDispatchTypes
  <2>2. Fid[t] \in Fusionees
    BY <1>1
  <2>3. op' \in [Threads -> Op]
    BY <1>3, <2>1, <2>2 DEF ReactorDispatch
  <2> QED
    BY <1>1, <1>3, <2>3 DEF ReactorDispatch, lifeVars
<1>4. ASSUME NEW t \in Threads, PoolDispatch(t) PROVE Goal
  <2>1. ASSUME NEW f \in Fusionees, NEW signal,
               \/ \E p \in Pools, s \in Sizes : P!DispatchBegin(t, p, s)
               \/ P!DispatchSend(t, f, signal)
               \/ P!DispatchEnd(t)
        PROVE  op' \in [Threads -> Op]
    BY <1>1, <2>1, PoolDispatchTypes
  <2>2. Fid[t] \in Fusionees
    BY <1>1
  <2>3. op' \in [Threads -> Op]
    BY <1>4, <2>1, <2>2 DEF PoolDispatch
  <2> QED
    BY <1>1, <1>4, <2>3 DEF PoolDispatch, lifeVars
<1>5. ASSUME NEW t \in Threads, Read(t) PROVE Goal
  <2>1. flushing' = [flushing EXCEPT ![Fid[t]] = prev_msgs[Fid[t]]] /\ prev_msgs[Fid[t]] \in Seq(Message)
    BY <1>1, <1>5 DEF Read
  <2> QED
    BY <1>1, <1>5, <2>1 DEF Read, lifeVars
<1>6. ASSUME NEW f \in Fusionees, Flush(f) PROVE Goal
  <2>1. flushing' = [flushing EXCEPT ![f] = Tail(@)] /\ flushing[f] \in Seq(Message) /\ flushing[f] # <<>>
    BY <1>1, <1>6 DEF Flush
  <2>2. Tail(flushing[f]) \in Seq(Message)
    BY <2>1
  <2> QED
    BY <1>1, <1>6, <2>1, <2>2 DEF Flush, lifeVars
<1>7. ASSUME NEW f \in Fusionees, Leave(f) PROVE Goal
  <2>1. /\ flushing' = [flushing EXCEPT ![f] = prev_msgs[f] \o messages[f]]
        /\ leaving' = [leaving EXCEPT ![f] = "reactor"]
        /\ UNCHANGED <<op, born, start>>
    BY <1>7 DEF Leave
  <2>2. prev_msgs[f] \in Seq(Message) /\ messages[f] \in Seq(Message)
    BY <1>1
  <2>3. prev_msgs[f] \o messages[f] \in Seq(Message) /\ "reactor" \in Stages
    BY <2>2 DEF Stages
  <2> QED
    BY <1>1, <2>1, <2>3
<1>8. ASSUME NEW f \in Fusionees, LeaveReactor(f) \/ LeavePools(f) PROVE Goal
  BY <1>1, <1>8 DEF LeaveReactor, LeavePools, Stages
<1>9. ASSUME NEW t \in Threads, ForkPools(t) \/ ForkReactors(t) PROVE Goal
  <2>1. op' \in [Threads -> Op]
    <3>1. 0 \in Nat /\ {} \in SUBSET Fusionees
      OBVIOUS
    <3>2. [op EXCEPT ![t].at = "fork"] \in [Threads -> Op] /\ [op EXCEPT ![t] = P!User] \in [Threads -> Op]
      BY <1>1, <3>1, OpForms
    <3> QED
      BY <1>9, <3>2 DEF ForkPools, ForkReactors
  <2>2. flushing' = flushing /\ leaving' = leaving /\ start' = start
        /\ born' \in {born, born \cup {Fid[t]}}
    BY <1>9 DEF ForkPools, ForkReactors, lifeVars
  <2> QED
    BY <1>1, <2>1, <2>2
<1>10. ASSUME NEW t \in Threads, Ioctl(t) \/ ReadOn(t) PROVE Goal
  BY <1>2, <1>10 DEF Ioctl, ReadOn
<1>11. CASE UNCHANGED vars
  BY <1>2, <1>11 DEF vars
<1> QED
  BY <1>3, <1>4, <1>5, <1>6, <1>7, <1>8, <1>9, <1>10, <1>11 DEF Next

LEMMA ReactorDispatchOps ==
  ASSUME TypeInv, NEW t \in Threads, NEW f, NEW ch, NEW self, NEW signal,
         R!DispatchBegin(t, ch, self) \/ R!DispatchSend(t, f, signal) \/ R!DispatchEnd(t)
  PROVE  \A u \in Threads : op'[u] = op[u] \/ (op[u].at # "pool" /\ op'[u].at # "pool")
<1>1. \A u \in Threads \ {t} : op'[u] = op[u]
  BY DEF TypeInv, R!DispatchBegin, R!DispatchSend, R!DispatchEnd
<1>2. op[t].at # "pool" /\ op[t] \in Op
  BY DEF TypeInv, R!DispatchBegin, R!Idle, R!DispatchSend, R!DispatchEnd
<1>3. op'[t].at # "pool"
  <2>1. CASE R!DispatchBegin(t, ch, self)
    BY <1>2, <2>1 DEF TypeInv, Op, R!DispatchBegin
  <2>2. CASE R!DispatchSend(t, f, signal)
    BY <1>2, <2>2 DEF TypeInv, Op, R!DispatchSend
  <2>3. CASE R!DispatchEnd(t)
    BY <1>2, <2>3 DEF TypeInv, Op, R!DispatchEnd
  <2> QED
    BY <2>1, <2>2, <2>3
<1> QED
  BY <1>1, <1>2, <1>3

LEMMA StepNamed ==
  ASSUME TypeInv, [Next]_vars
  PROVE  PoolNamed'
<1>1. op \in [Threads -> Op] /\ PoolNamed
  BY DEF TypeInv
<1>2. CASE op' = op
  BY <1>1, <1>2 DEF PoolNamed
<1>3. ASSUME NEW t \in Threads, ReactorDispatch(t) PROVE PoolNamed'
  <2>1. \A u \in Threads : op'[u] = op[u] \/ (op[u].at # "pool" /\ op'[u].at # "pool")
    BY <1>3, ReactorDispatchOps DEF ReactorDispatch
  <2> QED
    BY <1>1, <2>1 DEF PoolNamed
<1>4. ASSUME NEW t \in Threads, PoolDispatch(t) PROVE PoolNamed'
  <2>1. ASSUME NEW p \in Pools, NEW s \in Sizes, P!DispatchBegin(t, p, s) PROVE PoolNamed'
    BY <1>1, <2>1 DEF P!DispatchBegin, PoolNamed
  <2>2. ASSUME NEW f \in Fusionees, NEW signal, P!DispatchSend(t, f, signal) PROVE PoolNamed'
    <3>1. op' = [op EXCEPT ![t].todo = @ \ {f}]
      BY <2>2 DEF P!DispatchSend
    <3>2. \A u \in Threads : op'[u].at = op[u].at /\ op'[u].pool = op[u].pool
      BY <1>1, <3>1 DEF Op
    <3> QED
      BY <1>1, <3>2 DEF PoolNamed
  <2>3. CASE P!DispatchEnd(t)
    BY <1>1, <2>3 DEF P!DispatchEnd, P!User, PoolNamed
  <2> QED
    BY <1>4, <2>1, <2>2, <2>3 DEF PoolDispatch
<1>5. ASSUME NEW t \in Threads, ForkPools(t) \/ ForkReactors(t) PROVE PoolNamed'
  <2>1. op' \in {[op EXCEPT ![t].at = "fork"], [op EXCEPT ![t] = P!User]}
    BY <1>5 DEF ForkPools, ForkReactors
  <2>2. op'[t].at # "pool" /\ \A u \in Threads \ {t} : op'[u] = op[u]
    BY <1>1, <2>1 DEF P!User, Op
  <2> QED
    BY <1>1, <2>2 DEF PoolNamed
<1>6. ASSUME NEW t \in Threads, Ioctl(t) \/ Read(t) \/ ReadOn(t) PROVE PoolNamed'
  BY <1>2, <1>6 DEF Ioctl, Read, ReadOn
<1>7. ASSUME NEW f \in Fusionees, Flush(f) \/ Leave(f) \/ LeaveReactor(f) \/ LeavePools(f)
      PROVE  PoolNamed'
  BY <1>2, <1>7 DEF Flush, Leave, LeaveReactor, LeavePools
<1>8. CASE UNCHANGED vars
  BY <1>2, <1>8 DEF vars
<1> QED
  BY <1>3, <1>4, <1>5, <1>6, <1>7, <1>8 DEF Next

LEMMA InitTypes == Init => TypeInv
<1> SUFFICES ASSUME Init PROVE TypeInv
  OBVIOUS
<1>1. start \in Start
  BY StartAssumption DEF Init
<1>2. Q!TypeOK
  BY <1>1 DEF Init, Q!Init, Q!TypeOK, Q!QAt, Q!QOp
<1>3. ReactorTypes
  <2>1. DOMAIN nodes = {}
    BY DEF Init, R!Init
  <2>2. R!NewDispatch("unused") \in DispatchObject
    BY DEF R!NewDispatch, DispatchObject
  <2>3. reactor \in {"unborn", "live", "gone"}
    BY <1>1 DEF Init, Start
  <2>4. dispatch \in [1..MaxDispatch -> DispatchObject]
    BY <2>2 DEF Init, R!Init
  <2>5. dispatch_count \in 0..MaxDispatch
    BY ReactorAssumption DEF Init, R!Init
  <2> QED
    BY <2>1, <2>3, <2>4, <2>5 DEF Init, R!Init, ReactorTypes
<1>4. PoolTypes
  <2>1. \A p \in Pools : DOMAIN pnodes[p] = {}
    BY DEF Init, P!Init
  <2> QED
    BY <2>1 DEF Init, P!Init, PoolTypes
<1>5. flushing \in [Fusionees -> Seq(Message)]
  BY DEF Init
<1>6. op \in [Threads -> Op] /\ PoolNamed
  BY DEF Init, P!User, Op, PoolNamed
<1> QED
  BY <1>1, <1>2, <1>3, <1>4, <1>5, <1>6 DEF Init, TypeInv, Stages

LEMMA NextTypes == TypeInv /\ [Next]_vars => TypeInv'
<1> SUFFICES ASSUME TypeInv, [Next]_vars PROVE TypeInv'
  OBVIOUS
<1>1. Q!TypeOK'
  BY StepQueue, QueueTypes DEF TypeInv
<1> QED
  BY <1>1, StepReactor, StepPools, StepLife, StepNamed DEF TypeInv

-----------------------------------------------------------------------------
(* The addresses of the pools.  A pool ends before the place the next one  *)
(* is to begin at, which is the part PoolsAreDisjoint does not say.        *)
AddrInv ==
  /\ addr_base \in Nat /\ addr_base >= ShmBase
  /\ pool \in [Pools -> {"unborn", "live", "gone"}]
  /\ pool_base \in [Pools -> Nat] /\ max_size \in [Pools -> Nat]
  /\ next_base \in [Pools -> Nat]
  /\ \A p \in P!Live :
       /\ pool_base[p] >= ShmBase
       /\ pool_base[p] + max_size[p] < ShmBase + ShmSize
       /\ pool_base[p] + max_size[p] + PageSize <= next_base[p]
       /\ next_base[p] <= addr_base
       /\ \A q \in P!Live \ {p} : \/ next_base[p] <= pool_base[q]
                                  \/ next_base[q] <= pool_base[p]

(* Rounding up loses nothing.                                              *)
LEMMA AlignUpIsAbove ==
  ASSUME NEW n \in Nat, NEW unit \in Nat \ {0}
  PROVE  P!AlignUp(n, unit) \in Nat /\ P!AlignUp(n, unit) >= n
<1>1. \E k \in Nat, r \in 0..(unit - 1) :
        n + unit - 1 = k * unit + r /\ (n + unit - 1) \div unit = k
  OBVIOUS
<1> QED
  BY <1>1 DEF P!AlignUp

LEMMA NextBaseIsAbove ==
  ASSUME AddrInv, NEW max \in Nat
  PROVE  P!NextBase(max) \in Nat /\ P!NextBase(max) >= addr_base + max + PageSize
<1>1. PageSize \in Nat \ {0} /\ Granule \in Nat \ {0} /\ addr_base \in Nat
  BY PoolAssumption DEF AddrInv
<1>2. P!AlignUp(max, PageSize) \in Nat /\ P!AlignUp(max, PageSize) >= max
  BY <1>1, AlignUpIsAbove
<1> DEFINE end == addr_base + P!AlignUp(max, PageSize) + PageSize
<1>3. end \in Nat /\ end >= addr_base + max + PageSize
  BY <1>1, <1>2
<1>4. P!NextBase(max) = P!AlignUp(end, Granule)
  BY DEF P!NextBase
<1> HIDE DEF end
<1>5. P!AlignUp(end, Granule) \in Nat /\ P!AlignUp(end, Granule) >= end
  BY <1>1, <1>3, AlignUpIsAbove
<1> QED
  BY <1>1, <1>3, <1>4, <1>5

(* The next pool begins behind all that are there.                         *)
LEMMA PoolNewAddr ==
  ASSUME AddrInv, NEW p \in Pools, NEW max \in MaxSizes, P!New(p, max)
  PROVE  AddrInv'
<1>1. max \in Nat /\ ShmBase \in Nat /\ ShmSize \in Nat /\ PageSize \in Nat
  BY PoolAssumption
<1>2. P!NextBase(max) \in Nat /\ P!NextBase(max) >= addr_base + max + PageSize
  BY <1>1, NextBaseIsAbove
<1> DEFINE nb == P!NextBase(max)
<1>3. /\ pool' = [pool EXCEPT ![p] = "live"] /\ pool_base' = [pool_base EXCEPT ![p] = addr_base]
      /\ max_size' = [max_size EXCEPT ![p] = max] /\ next_base' = [next_base EXCEPT ![p] = nb]
      /\ addr_base' = nb /\ addr_base + max < ShmBase + ShmSize /\ pool[p] = "unborn"
  BY DEF P!New
<1>4. P!Live' = P!Live \cup {p} /\ p \notin P!Live
  BY <1>3 DEF AddrInv, P!Live
<1> HIDE DEF nb
<1>5. /\ addr_base' \in Nat /\ addr_base' >= ShmBase
      /\ pool' \in [Pools -> {"unborn", "live", "gone"}]
      /\ pool_base' \in [Pools -> Nat] /\ max_size' \in [Pools -> Nat]
      /\ next_base' \in [Pools -> Nat]
  BY <1>1, <1>2, <1>3 DEF AddrInv, nb
<1>6. \A q \in P!Live : /\ pool_base'[q] = pool_base[q] /\ max_size'[q] = max_size[q]
                        /\ next_base'[q] = next_base[q] /\ q \in Pools
                        /\ next_base[q] <= addr_base
  BY <1>3, <1>4 DEF AddrInv, P!Live
<1>7. pool_base'[p] = addr_base /\ max_size'[p] = max /\ next_base'[p] = addr_base'
  BY <1>3 DEF AddrInv
<1>8. addr_base <= addr_base' /\ addr_base + max + PageSize <= addr_base'
  BY <1>1, <1>2, <1>3 DEF AddrInv, nb
<1>9. ASSUME NEW q \in P!Live'
      PROVE  /\ pool_base'[q] >= ShmBase
             /\ pool_base'[q] + max_size'[q] < ShmBase + ShmSize
             /\ pool_base'[q] + max_size'[q] + PageSize <= next_base'[q]
             /\ next_base'[q] <= addr_base'
             /\ \A r \in P!Live' \ {q} : \/ next_base'[q] <= pool_base'[r]
                                         \/ next_base'[r] <= pool_base'[q]
  <2>1. CASE q = p
    <3>1. \A r \in P!Live' \ {q} : next_base'[r] <= pool_base'[q]
      BY <1>4, <1>6, <1>7, <2>1
    <3> QED
      BY <1>1, <1>3, <1>5, <1>7, <1>8, <2>1, <3>1 DEF AddrInv
  <2>2. CASE q # p
    <3>1. q \in P!Live /\ q \in Pools
      BY <1>4, <1>6, <2>2
    <3>2. next_base'[q] <= pool_base'[p]
      BY <1>6, <1>7, <3>1
    <3>3. \A r \in P!Live \ {q} : \/ next_base'[q] <= pool_base'[r]
                                  \/ next_base'[r] <= pool_base'[q]
      BY <1>6, <3>1 DEF AddrInv
    <3>4. next_base'[q] <= addr_base'
      BY <1>3, <1>5, <1>6, <1>8, <3>1 DEF AddrInv
    <3>5. /\ pool_base'[q] >= ShmBase
          /\ pool_base'[q] + max_size'[q] < ShmBase + ShmSize
          /\ pool_base'[q] + max_size'[q] + PageSize <= next_base'[q]
      BY <1>6, <3>1 DEF AddrInv
    <3> QED
      BY <1>4, <3>2, <3>3, <3>4, <3>5
  <2> QED
    BY <2>1, <2>2
<1> QED
  BY <1>5, <1>9 DEF AddrInv

(* ... and behind all that are left.                                       *)
LEMMA PoolDestroyAddr ==
  ASSUME AddrInv, NEW p \in Pools, P!Destroy(p)
  PROVE  AddrInv'
<1>1. P!Live' = P!Live \ {p} /\ UNCHANGED <<pool_base, max_size, next_base>>
  BY DEF P!Destroy, P!Live, AddrInv
<1>2. pool' \in [Pools -> {"unborn", "live", "gone"}]
  BY DEF P!Destroy, AddrInv
<1>3. /\ addr_base' \in {ShmBase} \cup {next_base[q] : q \in P!Live \ {p}}
      /\ addr_base' >= ShmBase /\ \A q \in P!Live \ {p} : addr_base' >= next_base[q]
  BY DEF P!Destroy
<1>4. addr_base' \in Nat
  BY <1>3, PoolAssumption DEF AddrInv, P!Live
<1>5. \A q \in P!Live' : next_base'[q] <= addr_base'
  BY <1>1, <1>3, <1>4 DEF AddrInv, P!Live
<1> QED
  BY <1>1, <1>2, <1>3, <1>4, <1>5 DEF AddrInv

LEMMA NextAddr == AddrInv /\ [Next]_vars => AddrInv'
<1> SUFFICES ASSUME AddrInv, [Next]_vars PROVE AddrInv'
  OBVIOUS
<1>1. CASE UNCHANGED P!addrVars
  BY <1>1 DEF P!addrVars, AddrInv, P!Live
<1>2. ASSUME NEW t \in Threads, Ioctl(t)
      PROVE  AddrInv'
  <2>1. ASSUME NEW p \in Pools, P!Attach(p, Fid[t]) \/ P!Detach(p, Fid[t])
        PROVE  AddrInv'
    BY <1>1, <2>1 DEF P!Attach, P!Detach
  <2>2. CASE UNCHANGED poolVars
    BY <1>1, <2>2 DEF poolVars, tableVars, P!addrVars
  <2> QED
    BY <1>2, <2>1, <2>2, PoolNewAddr, PoolDestroyAddr DEF Ioctl, PoolIoctl
<1>3. ASSUME NEW t \in Threads,
             ReactorDispatch(t) \/ Read(t) \/ ReadOn(t) \/ ForkReactors(t)
      PROVE  AddrInv'
  BY <1>1, <1>3 DEF ReactorDispatch, Read, ReadOn, ForkReactors, poolVars, tableVars, P!addrVars
<1>4. ASSUME NEW t \in Threads, PoolDispatch(t) \/ ForkPools(t)
      PROVE  AddrInv'
  BY <1>1, <1>4 DEF PoolDispatch, P!DispatchBegin, P!DispatchSend, P!DispatchEnd, ForkPools, P!ForkAll
<1>5. ASSUME NEW f \in Fusionees, Flush(f) \/ Leave(f) \/ LeaveReactor(f) \/ LeavePools(f)
      PROVE  AddrInv'
  BY <1>1, <1>5 DEF Flush, Leave, LeaveReactor, LeavePools, P!DetachAll, poolVars, tableVars, P!addrVars
<1>6. CASE UNCHANGED vars
  BY <1>1, <1>6 DEF vars, poolVars, tableVars, P!addrVars
<1> QED
  BY <1>2, <1>3, <1>4, <1>5, <1>6 DEF Next

(* The address ranges of two pools never meet and lie within the region,   *)
(* whatever sizes pools are created with and in whatever order they are    *)
(* destroyed (shmpool.c:99-145).                                           *)
THEOREM PoolsSafe == Spec => []PoolsAreDisjoint
<1>1. Init => AddrInv
  BY PoolAssumption DEF Init, P!Init, AddrInv, P!Live
<1>2. AddrInv => PoolsAreDisjoint
  <2> SUFFICES ASSUME AddrInv, NEW p \in P!Live, NEW q \in P!Live \ {p}
               PROVE  \/ pool_base[p] + max_size[p] + PageSize <= pool_base[q]
                      \/ pool_base[q] + max_size[q] + PageSize <= pool_base[p]
    BY DEF AddrInv, PoolsAreDisjoint
  <2>1. p \in Pools /\ q \in Pools /\ q \in P!Live
    BY DEF P!Live
  <2> QED
    BY <2>1, PoolAssumption DEF AddrInv
<1> QED
  BY <1>1, <1>2, NextAddr, PTL DEF Spec

-----------------------------------------------------------------------------
(* Who has nodes.  A thread that forks is of a listed fusionee, since its  *)
(* exit would wait for it; a thread of one that has left makes no call.    *)
ForksAreListed == \A t \in Threads : op[t].at = "fork" => Fid[t] \in listed
GoneAreDead == \A t \in Threads : Fid[t] \in listed \/ qop[t].at = "dead"
ReactorNodes ==
  /\ \A f \in DOMAIN nodes : (f \in listed \/ leaving[f] = "reactor") /\ reactor = "live"
  /\ reactor = "live" /\ destroyed => DOMAIN nodes # {}
  /\ destroyed => reactor # "unborn"
PoolNodes ==
  \A p \in Pools : \A f \in DOMAIN pnodes[p] : f \in listed \/ leaving[f] \in {"reactor", "pool"}

NodeInv == ForksAreListed /\ GoneAreDead /\ ReactorNodes /\ PoolNodes

\* What may happen to the list: a fusionee leaves it, once, by Leave.
ListStep ==
  \/ UNCHANGED <<listed, leaving>>
  \/ \E f \in Fusionees : /\ listed' = listed \ {f}
                          /\ leaving' = [leaving EXCEPT ![f] = "reactor"]

LEMMA NodesKept ==
  ASSUME TypeInv, ReactorNodes, ListStep, UNCHANGED <<reactor, destroyed>>,
         DOMAIN nodes' = DOMAIN nodes
  PROVE  ReactorNodes'
BY DEF TypeInv, ReactorTypes, ReactorNodes, ListStep

LEMMA PoolNodesKept ==
  ASSUME TypeInv, PoolNodes, ListStep, \A p \in Pools : DOMAIN pnodes'[p] \subseteq DOMAIN pnodes[p]
  PROVE  PoolNodes'
BY DEF TypeInv, PoolTypes, PoolNodes, ListStep

LEMMA UseLists ==
  ASSUME TypeInv, QueueUse
  PROVE  /\ listed' = listed
         /\ GoneAreDead => GoneAreDead'
<1>1. ASSUME NEW f \in Fusionees, NEW m \in Message, Q!Send(f, m)
      PROVE  listed' = listed /\ (GoneAreDead => GoneAreDead')
  BY <1>1 DEF Q!Send, GoneAreDead
<1>2. ASSUME NEW t \in Threads,
             Q!ReadSleep(t) \/ Q!ReadNow(t) \/ Q!ReadWoken(t) \/ Q!Poll(t) \/ Q!Interrupt(t)
      PROVE  listed' = listed /\ (GoneAreDead => GoneAreDead')
  <2>1. listed' = listed
    BY <1>2 DEF Q!ReadSleep, Q!ReadNow, Q!ReadWoken, Q!Poll, Q!Interrupt
  <2>2. qop' = qop \/ qop[t].at # "dead"
    BY <1>2 DEF Q!ReadSleep, Q!ReadNow, Q!ReadWoken, Q!Poll, Q!Interrupt, Q!InUser
  <2>3. \A u \in Threads \ {t} : qop'[u] = qop[u]
    BY <1>2 DEF Q!ReadSleep, Q!ReadNow, Q!ReadWoken, Q!Poll, Q!Interrupt, TypeInv, Q!TypeOK
  <2> QED
    BY <2>1, <2>2, <2>3 DEF GoneAreDead
<1>3. CASE UNCHANGED queueVars
  BY <1>3 DEF queueVars, GoneAreDead
<1> QED
  BY <1>1, <1>2, <1>3 DEF QueueUse

LEMMA ReactorIoctlNodes ==
  ASSUME TypeInv, NodeInv, NEW t \in Threads, Ioctl(t)
  PROVE  ReactorNodes'
<1>1. UNCHANGED <<listed, leaving>> /\ Fid[t] \in listed
  BY DEF Ioctl, queueVars, lifeVars, Free, Q!InUser, NodeInv, GoneAreDead
<1>2. CASE UNCHANGED reactorVars
  BY <1>1, <1>2 DEF NodeInv, ReactorNodes, reactorVars
<1>3. ASSUME NEW ch \in Channels, R!Attach(Fid[t], ch) PROVE ReactorNodes'
  BY <1>1, <1>3 DEF R!Attach, R!Lockable, NodeInv, ReactorNodes
<1>4. ASSUME NEW ch \in Channels, R!Detach(Fid[t], ch) PROVE ReactorNodes'
  <2>1. DOMAIN nodes' \subseteq DOMAIN nodes
    BY <1>4 DEF R!Detach, R!SetNodes, R!Without, R!Restrict
  <2>2. reactor' = IF destroyed /\ DOMAIN nodes' = {} THEN "gone" ELSE reactor
    BY <1>4 DEF R!Detach, R!SetNodes
  <2>3. destroyed' = destroyed /\ reactor = "live" /\ DOMAIN nodes # {}
    BY <1>4 DEF R!Detach, R!Lockable
  <2>4. reactor' # "live" => DOMAIN nodes' = {}
    BY <2>2, <2>3
  <2> QED
    BY <1>1, <2>1, <2>2, <2>3, <2>4 DEF NodeInv, ReactorNodes
<1>5. CASE R!SetDispatchCallback(~ call_id)
  BY <1>1, <1>5 DEF R!SetDispatchCallback, NodeInv, ReactorNodes
<1>6. CASE R!Destroy
  BY <1>1, <1>6 DEF R!Destroy, R!Lockable, NodeInv, ReactorNodes
<1>7. CASE R!New
  BY <1>1, <1>7 DEF R!New, NodeInv, ReactorNodes
<1>8. start.channels \subseteq Channels
  BY DEF TypeInv, Start
<1> QED
  BY <1>2, <1>3, <1>4, <1>5, <1>6, <1>7, <1>8 DEF Ioctl, ReactorIoctl

LEMMA ReactorLeaveNodes ==
  ASSUME TypeInv, NodeInv, NEW f \in Fusionees, LeaveReactor(f)
  PROVE  ReactorNodes'
<1>1. /\ leaving' = [leaving EXCEPT ![f] = "pool"] /\ listed' = listed
      /\ R!DetachAll(f) /\ destroyed' = destroyed
  BY DEF LeaveReactor, R!DetachAll, queueVars
<1>2. CASE reactor = "live"
  <2>1. DOMAIN nodes' = DOMAIN nodes \ {f}
    BY <1>1, <1>2 DEF R!DetachAll, R!SetNodes, R!Without, R!Restrict
  <2>2. reactor' = IF destroyed /\ DOMAIN nodes' = {} THEN "gone" ELSE reactor
    BY <1>1, <1>2 DEF R!DetachAll, R!SetNodes
  <2>3. \A g \in DOMAIN nodes' : g \in listed' \/ leaving'[g] = "reactor"
    BY <1>1, <2>1 DEF TypeInv, ReactorTypes, NodeInv, ReactorNodes
  <2>4. reactor' # "live" => DOMAIN nodes' = {}
    BY <1>2, <2>2
  <2> QED
    BY <1>1, <1>2, <2>2, <2>3, <2>4 DEF ReactorNodes
<1>3. CASE reactor # "live"
  <2>1. UNCHANGED <<nodes, reactor>> /\ DOMAIN nodes = {}
    BY <1>1, <1>3 DEF R!DetachAll, NodeInv, ReactorNodes
  <2> QED
    BY <1>1, <1>3, <2>1 DEF NodeInv, ReactorNodes
<1> QED
  BY <1>2, <1>3

LEMMA PoolIoctlNodes ==
  ASSUME TypeInv, NodeInv, NEW t \in Threads, Ioctl(t)
  PROVE  PoolNodes'
<1>1. UNCHANGED <<listed, leaving>> /\ Fid[t] \in listed
  BY DEF Ioctl, queueVars, lifeVars, Free, Q!InUser, NodeInv, GoneAreDead
<1>2. \A p \in Pools : DOMAIN pnodes'[p] \subseteq DOMAIN pnodes[p] \cup {Fid[t]}
  <2>1. CASE UNCHANGED poolVars
    BY <2>1 DEF poolVars, tableVars
  <2>2. ASSUME NEW p \in Pools, P!Attach(p, Fid[t]) \/ P!Detach(p, Fid[t])
        PROVE  \A q \in Pools : DOMAIN pnodes'[q] \subseteq DOMAIN pnodes[q] \cup {Fid[t]}
    <3>1. CASE P!Remove(p, Fid[t])
      BY <3>1 DEF P!Remove, P!Restrict, TypeInv, PoolTypes
    <3>2. ASSUME NEW k, P!SetCount(p, Fid[t], k)
          PROVE  \A q \in Pools : DOMAIN pnodes'[q] \subseteq DOMAIN pnodes[q] \cup {Fid[t]}
      BY <3>2 DEF P!SetCount, TypeInv, PoolTypes
    <3> QED
      BY <2>2, <3>1, <3>2 DEF P!Attach, P!Detach
  <2>3. ASSUME NEW p \in Pools, NEW max, P!Destroy(p) \/ P!New(p, max)
        PROVE  \A q \in Pools : DOMAIN pnodes'[q] \subseteq DOMAIN pnodes[q] \cup {Fid[t]}
    <3>1. pnodes' = pnodes \/ pnodes' = [pnodes EXCEPT ![p] = <<>>]
      BY <2>3 DEF P!Destroy, P!New, P!sizeVars
    <3>2. DOMAIN <<>> = {}
      OBVIOUS
    <3> QED
      BY <3>1, <3>2 DEF TypeInv, PoolTypes
  <2> QED
    BY <2>1, <2>2, <2>3 DEF Ioctl, PoolIoctl
<1> QED
  BY <1>1, <1>2 DEF NodeInv, PoolNodes

LEMMA ForkNodes ==
  ASSUME TypeInv, NodeInv, NEW t \in Threads, ForkPools(t) \/ ForkReactors(t)
  PROVE  ReactorNodes' /\ PoolNodes'
<1>1. Fid[t] \in listed /\ UNCHANGED <<listed, leaving>>
  BY DEF ForkPools, ForkReactors, NodeInv, ForksAreListed, queueVars, lifeVars
<1>2. CASE ForkPools(t)
  <2>1. \A p \in Pools : DOMAIN pnodes'[p] \subseteq DOMAIN pnodes[p] \cup {Fid[t]}
    BY <1>2 DEF ForkPools, P!ForkAll
  <2>2. ReactorNodes'
    BY <1>1, <1>2 DEF ForkPools, reactorVars, NodeInv, ReactorNodes
  <2> QED
    BY <1>1, <2>1, <2>2 DEF NodeInv, PoolNodes
<1>3. CASE ForkReactors(t)
  <2>1. /\ DOMAIN nodes' \subseteq DOMAIN nodes \cup {Fid[t]} /\ DOMAIN nodes \subseteq DOMAIN nodes'
        /\ UNCHANGED <<reactor, destroyed>>
        /\ reactor # "live" => nodes' = nodes
    BY <1>3 DEF ForkReactors, R!ForkAll
  <2>2. PoolNodes'
    BY <1>1, <1>3 DEF ForkReactors, poolVars, tableVars, NodeInv, PoolNodes
  <2>3. reactor # "live" => DOMAIN nodes' = {}
    BY <2>1 DEF NodeInv, ReactorNodes
  <2>4. \A f \in DOMAIN nodes' : (f \in listed' \/ leaving'[f] = "reactor") /\ reactor' = "live"
    BY <1>1, <2>1, <2>3 DEF NodeInv, ReactorNodes
  <2>5. (reactor' = "live" /\ destroyed' => DOMAIN nodes' # {}) /\ (destroyed' => reactor' # "unborn")
    BY <2>1 DEF NodeInv, ReactorNodes
  <2> QED
    BY <2>2, <2>4, <2>5 DEF ReactorNodes
<1> QED
  BY <1>2, <1>3

LEMMA LeavePoolsNodes ==
  ASSUME TypeInv, NodeInv, NEW f \in Fusionees, LeavePools(f) \/ LeaveReactor(f)
  PROVE  PoolNodes'
<1>1. CASE LeavePools(f)
  <2>1. \A p \in Pools : DOMAIN pnodes'[p] = DOMAIN pnodes[p] \ {f}
    BY <1>1 DEF LeavePools, P!DetachAll, P!Restrict
  <2>2. leaving' = [leaving EXCEPT ![f] = "flush"] /\ listed' = listed
    BY <1>1 DEF LeavePools, queueVars
  <2> QED
    BY <2>1, <2>2 DEF TypeInv, PoolTypes, NodeInv, PoolNodes
<1>2. CASE LeaveReactor(f)
  <2>1. leaving' = [leaving EXCEPT ![f] = "pool"] /\ listed' = listed /\ pnodes' = pnodes
    BY <1>2 DEF LeaveReactor, queueVars, poolVars, tableVars
  <2> QED
    BY <2>1 DEF TypeInv, PoolTypes, NodeInv, PoolNodes
<1> QED
  BY <1>1, <1>2

(* A fusionee that leaves has no thread in an ioctl.                       *)
LEMMA LeaveLists ==
  ASSUME TypeInv, NodeInv, NEW f \in Fusionees, Leave(f)
  PROVE  NodeInv'
<1>1. /\ listed' = listed \ {f} /\ leaving' = [leaving EXCEPT ![f] = "reactor"]
      /\ qop' = [t \in Threads |-> IF Fid[t] = f THEN Q!QAt("dead") ELSE qop[t]]
      /\ \A t \in Threads : Fid[t] = f => op[t].at = "user"
      /\ UNCHANGED <<reactorVars, poolVars, op>>
  BY DEF Leave, Q!Release, P!Idle
<1>2. ListStep
  BY <1>1 DEF ListStep
<1>3. ReactorNodes' /\ PoolNodes'
  BY <1>1, <1>2, NodesKept, PoolNodesKept DEF NodeInv, reactorVars, poolVars, tableVars
<1>4. ForksAreListed' /\ GoneAreDead'
  BY <1>1 DEF NodeInv, ForksAreListed, GoneAreDead, Q!QAt
<1> QED
  BY <1>3, <1>4 DEF NodeInv

(* Only the first ioctl of a child is a fork.                              *)
LEMMA StepForks ==
  ASSUME TypeInv, NodeInv, [Next]_vars, listed' = listed
  PROVE  ForksAreListed'
<1>1. \A t \in Threads : op'[t].at = "fork" => op[t].at = "fork" \/ Fid[t] \in listed
  <2>1. CASE op' = op
    BY <2>1
  <2>2. ASSUME NEW u \in Threads, NEW f, NEW ch, NEW self, NEW signal, NEW p, NEW s,
               \/ R!DispatchBegin(u, ch, self) \/ R!DispatchSend(u, f, signal) \/ R!DispatchEnd(u)
               \/ P!DispatchBegin(u, p, s) \/ P!DispatchSend(u, f, signal) \/ P!DispatchEnd(u)
        PROVE  \A t \in Threads : op'[t].at = "fork" => op[t].at = "fork"
    <3>1. \A t \in Threads \ {u} : op'[t] = op[t]
      BY <2>2 DEF TypeInv, R!DispatchBegin, R!DispatchSend, R!DispatchEnd,
                  P!DispatchBegin, P!DispatchSend, P!DispatchEnd
    <3>2. op'[u].at \in {"reactor", "pool", "user", op[u].at}
      <4>1. op[u] \in Op
        BY DEF TypeInv
      <4>2. CASE R!DispatchBegin(u, ch, self)
        BY <4>1, <4>2 DEF TypeInv, Op, R!DispatchBegin
      <4>3. CASE R!DispatchSend(u, f, signal)
        BY <4>1, <4>3 DEF TypeInv, Op, R!DispatchSend
      <4>4. CASE R!DispatchEnd(u)
        BY <4>1, <4>4 DEF TypeInv, Op, R!DispatchEnd
      <4>5. CASE P!DispatchBegin(u, p, s)
        BY <4>5 DEF TypeInv, P!DispatchBegin
      <4>6. CASE P!DispatchSend(u, f, signal)
        BY <4>1, <4>6 DEF TypeInv, Op, P!DispatchSend
      <4>7. CASE P!DispatchEnd(u)
        BY <4>7 DEF TypeInv, P!DispatchEnd, P!User
      <4> QED
        BY <2>2, <4>2, <4>3, <4>4, <4>5, <4>6, <4>7
    <3> QED
      BY <2>2, <3>1, <3>2
  <2>3. ASSUME NEW u \in Threads, ForkPools(u) \/ ForkReactors(u)
        PROVE  \A t \in Threads : op'[t].at = "fork" => op[t].at = "fork" \/ Fid[t] \in listed
    BY <2>3 DEF TypeInv, Op, ForkPools, ForkReactors, P!User
  <2> QED
    BY <2>1, <2>2, <2>3 DEF Next, vars, Ioctl, ReactorDispatch, PoolDispatch, Read, ReadOn,
                            Flush, Leave, LeaveReactor, LeavePools
<1> QED
  BY <1>1 DEF NodeInv, ForksAreListed

LEMMA NextNodes == TypeInv /\ NodeInv /\ [Next]_vars => NodeInv'
<1> SUFFICES ASSUME TypeInv, NodeInv, [Next]_vars PROVE NodeInv'
  OBVIOUS
<1>1. CASE \E f \in Fusionees : Leave(f)
  BY <1>1, LeaveLists
<1>2. CASE QueueUse
  <2>1. listed' = listed /\ GoneAreDead'
    BY <1>2, UseLists DEF NodeInv
  <2>2. ForksAreListed'
    BY <2>1, StepForks
  <2>3. ReactorNodes' /\ PoolNodes'
    <3>1. ASSUME leaving' = leaving, UNCHANGED <<reactor, destroyed>>, DOMAIN nodes' = DOMAIN nodes
          PROVE  ReactorNodes'
      BY <2>1, <3>1, NodesKept DEF NodeInv, ListStep
    <3>2. ASSUME leaving' = leaving, pnodes' = pnodes PROVE PoolNodes'
      BY <2>1, <3>2, PoolNodesKept DEF NodeInv, ListStep
    <3>3. ASSUME NEW t \in Threads, Ioctl(t) PROVE ReactorNodes' /\ PoolNodes'
      BY <3>3, ReactorIoctlNodes, PoolIoctlNodes
    <3>4. ASSUME NEW t \in Threads, ReactorDispatch(t) PROVE ReactorNodes' /\ PoolNodes'
      BY <3>1, <3>2, <3>4 DEF ReactorDispatch, R!DispatchBegin, R!DispatchSend, R!DispatchEnd,
                              R!nodeVars, poolVars, tableVars, lifeVars
    <3>5. ASSUME NEW t \in Threads, PoolDispatch(t) PROVE ReactorNodes' /\ PoolNodes'
      BY <3>1, <3>2, <3>5 DEF PoolDispatch, P!DispatchBegin, P!DispatchSend, P!DispatchEnd,
                              P!sizeVars, reactorVars, lifeVars
    <3>6. ASSUME NEW t \in Threads, Read(t) \/ ReadOn(t) PROVE ReactorNodes' /\ PoolNodes'
      BY <3>1, <3>2, <3>6 DEF Read, ReadOn, reactorVars, poolVars, tableVars, lifeVars
    <3>7. ASSUME NEW t \in Threads, ForkPools(t) \/ ForkReactors(t) PROVE ReactorNodes' /\ PoolNodes'
      BY <3>7, ForkNodes
    <3>8. ASSUME NEW f \in Fusionees, Flush(f) PROVE ReactorNodes' /\ PoolNodes'
      BY <3>1, <3>2, <3>8 DEF Flush, R!Callback, R!nodeVars, reactorVars, poolVars, tableVars, lifeVars
    <3>9. ASSUME NEW f \in Fusionees, LeaveReactor(f) PROVE ReactorNodes' /\ PoolNodes'
      BY <3>9, ReactorLeaveNodes, LeavePoolsNodes
    <3>10. ASSUME NEW f \in Fusionees, LeavePools(f) PROVE ReactorNodes' /\ PoolNodes'
      <4>1. leaving' = [leaving EXCEPT ![f] = "flush"] /\ leaving[f] = "pool" /\ UNCHANGED reactorVars
        BY <3>10 DEF LeavePools
      <4>2. ReactorNodes'
        BY <2>1, <4>1 DEF NodeInv, ReactorNodes, reactorVars, TypeInv, ReactorTypes
      <4> QED
        BY <3>10, <4>2, LeavePoolsNodes
    <3>11. ASSUME NEW f \in Fusionees, Leave(f) PROVE ReactorNodes' /\ PoolNodes'
      BY <3>11, LeaveLists DEF NodeInv
    <3>12. CASE UNCHANGED vars
      BY <3>1, <3>2, <3>12 DEF vars, reactorVars, poolVars, tableVars, lifeVars
    <3> QED
      BY <3>3, <3>4, <3>5, <3>6, <3>7, <3>8, <3>9, <3>10, <3>11, <3>12 DEF Next
  <2> QED
    BY <2>1, <2>2, <2>3 DEF NodeInv
<1> QED
  BY <1>1, <1>2, StepQueue DEF QueueStep

(* Nobody who has left stays attached, and a reactor that was destroyed    *)
(* while fusionees were attached goes with the last of them, however they  *)
(* leave (reactor.c:249, 462).                                             *)
THEOREM NodesSafe == Spec => []NodesArePresent
<1>1. Init => NodeInv
  <2> SUFFICES ASSUME Init PROVE NodeInv
    OBVIOUS
  <2>1. DOMAIN nodes = {} /\ \A p \in Pools : DOMAIN pnodes[p] = {}
    BY DEF Init, R!Init, P!Init
  <2>2. ForksAreListed /\ GoneAreDead
    BY QueueAssumption DEF Init, Q!Init, P!User, ForksAreListed, GoneAreDead
  <2>3. destroyed = FALSE
    BY DEF Init, R!Init
  <2> QED
    BY <2>1, <2>2, <2>3 DEF NodeInv, ReactorNodes, PoolNodes
<1>2. NodeInv => NodesArePresent
  BY DEF NodeInv, ReactorNodes, PoolNodes, NodesArePresent
<1> QED
  BY <1>1, <1>2, InitTypes, NextTypes, NextNodes, PTL DEF Spec

-----------------------------------------------------------------------------
(* What the pools have told.  A thread that dispatches a size keeps its    *)
(* pool locked, so the size it sends is still that of the pool.            *)
PoolDispatching ==
  \A t \in Threads : op[t].at = "pool" =>
    op[t].pool \in Pools /\ plock[op[t].pool] = t /\ op[t].n = size[op[t].pool]
RootsAreBorn == \A f \in Fusionees : start.parent[f] = None => f \in born

ToldInv == PoolDispatching /\ RootsAreBorn /\ LastToldIsSize

\* Somebody still has to send f the size of p.
ToSend(p, f) == \E t \in Threads : op[t].at = "pool" /\ op[t].pool = p /\ f \in op[t].todo

(* What is queued and has been read says the last word together: a step    *)
(* that touches neither changes no last word,                              *)
LEMMA LastStays ==
  ASSUME told' = told, messages' = messages
  PROVE  \A p, f : LastTold(p, f)' = LastTold(p, f)
BY DEF LastTold, P!Unread

(* a message is the last word of its pool for the one it is sent to,       *)
LEMMA LastSent ==
  ASSUME TypeInv, NEW f \in Fusionees, NEW m \in Message, Q!Send(f, m), told' = told,
         NEW p, NEW g \in Fusionees
  PROVE  LastTold(p, g)' = IF g = f /\ m.id = p THEN m.n ELSE LastTold(p, g)
<1>1. messages \in [Fusionees -> Seq(Message)] /\ messages' = [messages EXCEPT ![f] = Append(@, m)]
  BY DEF TypeInv, Q!TypeOK, Q!Send
<1>2. CASE g # f
  BY <1>1, <1>2 DEF LastTold, P!Unread
<1>3. CASE g = f
  <2> DEFINE k == Len(messages[f])
             U == P!Unread(p, f)
  <2>1. /\ k \in Nat /\ DOMAIN messages[f] = 1..k /\ DOMAIN messages'[f] = 1..(k + 1)
        /\ messages'[f][k + 1] = m /\ \A i \in 1..k : messages'[f][i] = messages[f][i]
    BY <1>1
  <2> HIDE DEF k
  <2>2. P!Unread(p, f)' = IF m.id = p THEN U \cup {k + 1} ELSE U
    BY <2>1 DEF P!Unread
  <2>3. U \in SUBSET (1..k)
    BY <2>1 DEF P!Unread
  <2>4. CASE m.id = p
    <3> DEFINE V == U \cup {k + 1}
    <3>1. V \in SUBSET (1..(k + 1)) /\ V # {} /\ k + 1 \in Nat /\ k + 1 \in V
      BY <2>1, <2>3
    <3> HIDE DEF V
    <3>2. Max(V) \in V /\ \A y \in V : y <= Max(V)
      BY <3>1, MaxOfPlaces
    <3>3. Max(V) = k + 1
      <4>1. Max(V) \in 1..(k + 1) /\ k + 1 <= Max(V) /\ k \in Nat
        BY <2>1, <3>1, <3>2
      <4> QED
        BY ONLY <4>1
    <3>4. P!Unread(p, f)' = V
      BY <2>2, <2>4 DEF V
    <3>5. LastTold(p, f)' = IF V = {} THEN told'[p][f] ELSE messages'[f][Max(V)].n
      BY <3>4 DEF LastTold
    <3> QED
      BY <1>3, <2>1, <2>4, <3>1, <3>3, <3>5
  <2>5. CASE m.id # p
    <3>1. P!Unread(p, f)' = U
      BY <2>2, <2>5
    <3>2. LastTold(p, f)' = IF U = {} THEN told[p][f] ELSE messages'[f][Max(U)].n
      BY <3>1 DEF LastTold
    <3>3. LastTold(p, f) = IF U = {} THEN told[p][f] ELSE messages[f][Max(U)].n
      BY DEF LastTold
    <3> HIDE DEF U
    <3>4. U # {} => messages'[f][Max(U)] = messages[f][Max(U)]
      BY <2>1, <2>3, MaxOfPlaces
    <3> QED
      BY <1>3, <2>5, <3>2, <3>3, <3>4
  <2> QED
    BY <2>4, <2>5
<1> QED
  BY <1>2, <1>3

(* and a reading hands on the last words of what it takes, or leaves them  *)
(* in the queue.                                                           *)
LEMMA LastRead ==
  ASSUME TypeInv, NEW t \in Threads, Read(t) \/ ReadOn(t), NEW p \in Pools, NEW g \in Fusionees
  PROVE  LastTold(p, g)' = LastTold(p, g)
<1> DEFINE f == Fid[t]
           n == Len(messages[f])
           d == n - Len(messages'[f])
           U == P!Unread(p, f)
           W == P!Unread(p, f)'
           taken == {i \in U : i <= d}
<1>1. f \in Fusionees /\ messages[f] \in Seq(Message) /\ Q!TypeOK
  BY QueueAssumption DEF TypeInv, Q!TypeOK
<1>2. PICK k \in 0..n : messages'[f] = SubSeq(messages[f], k + 1, n)
  BY <1>1, ReadTakes
<1>3. \A h \in Fusionees \ {f} : messages'[h] = messages[h]
  BY <1>1, ReadTakes
<1>4. /\ n \in Nat /\ k \in Nat /\ k <= n /\ DOMAIN messages[f] = 1..n
      /\ DOMAIN messages'[f] = 1..(n - k) /\ Len(messages'[f]) = n - k
      /\ \A i \in 1..(n - k) : messages'[f][i] = messages[f][k + i]
  BY <1>1, <1>2
<1>5. d = k
  BY <1>4
<1>6. told'[p] = IF taken = {} THEN told[p]
                 ELSE [told[p] EXCEPT ![f] = messages[f][Max(taken)].n]
  BY DEF Read, ReadOn, P!Learn, P!Max, Max
<1>7. told[p] \in [Fusionees -> Nat]
  BY DEF TypeInv, PoolTypes
<1>8. CASE g # f
  <2>1. told'[p][g] = told[p][g] /\ messages'[g] = messages[g]
    BY <1>3, <1>6, <1>7, <1>8
  <2> QED
    BY <2>1 DEF LastTold, P!Unread
<1>9. CASE g = f
  <2>1. LastTold(p, f) = (IF U = {} THEN told[p][f] ELSE messages[f][Max(U)].n)
        /\ LastTold(p, f)' = (IF W = {} THEN told'[p][f] ELSE messages'[f][Max(W)].n)
    BY DEF LastTold
  <2>2. told'[p][f] = IF taken = {} THEN told[p][f] ELSE messages[f][Max(taken)].n
    BY <1>1, <1>6, <1>7
  <2>3. U \in SUBSET (1..n) /\ W \in SUBSET (1..(n - k)) /\ n - k \in Nat
    BY <1>4 DEF P!Unread
  <2>4. \A i \in 1..(n - k) : i \in W <=> k + i \in U
    <3> SUFFICES ASSUME NEW i \in 1..(n - k) PROVE i \in W <=> k + i \in U
      OBVIOUS
    <3>1. k + i \in 1..n /\ messages'[f][i] = messages[f][k + i]
      BY <1>4
    <3> QED
      BY <1>4, <3>1 DEF P!Unread
  <2>5. taken = {i \in U : i <= k}
    BY <1>5
  <2> HIDE DEF n, d, U, W, taken
  <2>6. U # {} => Max(U) \in U /\ \A y \in U : y <= Max(U)
    BY <1>4, <2>3, MaxOfPlaces
  <2>7. CASE U = {}
    <3>1. W = {} /\ taken = {}
      BY <2>3, <2>4, <2>5, <2>7
    <3> QED
      BY <1>9, <2>1, <2>2, <2>7, <3>1 DEF f
  <2>8. CASE U # {} /\ Max(U) <= k
    <3>1. taken = U
      BY <1>4, <2>3, <2>5, <2>6, <2>8
    <3>2. W = {}
      <4> SUFFICES ASSUME NEW i \in W PROVE FALSE
        OBVIOUS
      <4>1. i \in 1..(n - k) /\ k + i \in U
        BY <2>3, <2>4
      <4>2. k + i <= Max(U) /\ Max(U) \in 1..n
        BY <2>3, <2>6, <2>8, <4>1
      <4> QED
        BY <1>4, <2>8, <4>1, <4>2
    <3> QED
      BY <1>9, <2>1, <2>2, <2>8, <3>1, <3>2 DEF f
  <2>9. CASE U # {} /\ ~ (Max(U) <= k)
    <3> DEFINE M == Max(U)
    <3>1. M \in U /\ M \in 1..n /\ M > k
      <4>1. M \in U /\ M \in 1..n /\ ~ (M <= k) /\ k \in Nat /\ n \in Nat
        BY <1>4, <2>3, <2>6, <2>9
      <4> QED
        BY <4>1
    <3> HIDE DEF M
    <3>2. M - k \in 1..(n - k) /\ k + (M - k) = M
      BY <1>4, <3>1
    <3>3. M - k \in W
      BY <2>4, <3>1, <3>2
    <3>4. Max(W) \in W /\ \A y \in W : y <= Max(W)
      BY <2>3, <3>3, MaxOfPlaces
    <3>5. Max(W) \in 1..(n - k) /\ k + Max(W) \in U
      BY <2>3, <2>4, <3>4
    <3>6. k + Max(W) <= M
      BY <2>6, <3>1, <3>5 DEF M
    <3>7. Max(W) = M - k
      BY <1>4, <3>1, <3>2, <3>3, <3>4, <3>5, <3>6
    <3>8. messages'[f][Max(W)] = messages[f][M]
      BY <1>4, <3>2, <3>7
    <3> QED
      BY <1>9, <2>1, <2>9, <3>3, <3>8 DEF f, M
  <2> QED
    BY <2>7, <2>8, <2>9
<1> QED
  BY <1>8, <1>9

(* The steps that neither tell a size nor change one.                      *)
LEMMA ToldKept ==
  ASSUME TypeInv, ToldInv, UNCHANGED <<size, crossed, plock, start>>, listed' \subseteq listed,
         born \subseteq born',
         \A p \in Pools, f \in listed' : LastTold(p, f)' = LastTold(p, f),
         \A t \in Threads : op'[t] = op[t] \/ (op[t].at # "pool" /\ op'[t].at # "pool"),
         \A p \in Pools : \A f \in DOMAIN pnodes'[p] : f \in DOMAIN pnodes[p] \/ f \notin born
  PROVE  ToldInv'
<1>1. PoolDispatching'
  BY DEF ToldInv, PoolDispatching
<1>2. RootsAreBorn'
  BY DEF ToldInv, RootsAreBorn
<1>3. LastToldIsSize'
  <2> SUFFICES ASSUME "signal" \notin start.env, NEW p \in Pools,
                      NEW f \in DOMAIN pnodes'[p] \cap listed', start.parent[f] = None
               PROVE  LastTold(p, f)' = size[p] \/ ToSend(p, f)' \/ f \in crossed[p]
    BY DEF LastToldIsSize, ToSend
  <2>1. f \in Fusionees /\ f \in born /\ f \in DOMAIN pnodes[p] \cap listed
    BY DEF ToldInv, RootsAreBorn, TypeInv, Q!TypeOK
  <2>2. LastTold(p, f) = size[p] \/ ToSend(p, f) \/ f \in crossed[p]
    BY <2>1 DEF ToldInv, LastToldIsSize, ToSend
  <2>3. ToSend(p, f) => ToSend(p, f)'
    BY DEF ToSend
  <2>4. LastTold(p, f)' = LastTold(p, f)
    OBVIOUS
  <2> QED
    BY <2>2, <2>3, <2>4
<1> QED
  BY <1>1, <1>2, <1>3 DEF ToldInv

(* An ioctl that gives a size says the last word, or is crossed.           *)
LEMMA GivenLast ==
  ASSUME TypeInv, NEW p \in Pools, NEW f \in Fusionees, NEW s \in Nat, P!Given(p, f, s),
         messages' = messages
  PROVE  /\ LastTold(p, f)' = s \/ f \in crossed'[p]
         /\ \A q \in Pools, g \in Fusionees : q # p \/ g # f =>
              LastTold(q, g)' = LastTold(q, g) /\ (g \in crossed[q] => g \in crossed'[q])
<1>1. /\ told' = [told EXCEPT ![p][f] = s]
      /\ crossed' = [crossed EXCEPT ![p] = IF P!Unread(p, f) = {} THEN @ \ {f} ELSE @ \cup {f}]
      /\ told \in [Pools -> [Fusionees -> Nat]] /\ crossed \in [Pools -> SUBSET Fusionees]
  BY DEF P!Given, TypeInv, PoolTypes
<1>2. told'[p][f] = s /\ \A q \in Pools, g \in Fusionees : q # p \/ g # f => told'[q][g] = told[q][g]
  BY <1>1
<1>3. LastTold(p, f)' = s \/ f \in crossed'[p]
  <2>1. CASE P!Unread(p, f) = {}
    <3>1. P!Unread(p, f)' = {}
      BY <2>1 DEF P!Unread
    <3> QED
      BY <1>2, <3>1 DEF LastTold
  <2>2. CASE P!Unread(p, f) # {}
    BY <1>1, <2>2
  <2> QED
    BY <2>1, <2>2
<1>4. ASSUME NEW q \in Pools, NEW g \in Fusionees, q # p \/ g # f
      PROVE  LastTold(q, g)' = LastTold(q, g) /\ (g \in crossed[q] => g \in crossed'[q])
  <2>1. LastTold(q, g)' = LastTold(q, g)
    BY <1>2, <1>4 DEF LastTold, P!Unread
  <2>2. crossed'[q] \in {crossed[q], crossed[q] \ {f}, crossed[q] \cup {f}}
        /\ (q # p => crossed'[q] = crossed[q])
    BY <1>1
  <2> QED
    BY <1>4, <2>1, <2>2
<1> QED
  BY <1>3, <1>4

(* An attach returns the size.                                             *)
LEMMA AttachTells ==
  ASSUME TypeInv, ToldInv, NEW t \in Threads, NEW p \in Pools, Ioctl(t), P!Attach(p, Fid[t])
  PROVE  ToldInv'
<1>1. /\ UNCHANGED <<size, plock, op, listed, born, start, messages>>
      /\ P!Given(p, Fid[t], size[p])
  BY DEF Ioctl, P!Attach, queueVars, lifeVars
<1>2. \A q \in Pools : DOMAIN pnodes'[q] \subseteq DOMAIN pnodes[q] \cup (IF q = p THEN {Fid[t]} ELSE {})
  BY DEF P!Attach, P!SetCount, TypeInv, PoolTypes
<1>3. PoolDispatching' /\ RootsAreBorn'
  BY <1>1 DEF ToldInv, PoolDispatching, RootsAreBorn
<1>4. Fid[t] \in Fusionees /\ size[p] \in Nat
  BY QueueAssumption DEF TypeInv, PoolTypes
<1>5. /\ LastTold(p, Fid[t])' = size[p] \/ Fid[t] \in crossed'[p]
      /\ \A q \in Pools, g \in Fusionees : q # p \/ g # Fid[t] =>
           LastTold(q, g)' = LastTold(q, g) /\ (g \in crossed[q] => g \in crossed'[q])
  BY <1>1, <1>4, GivenLast
<1>6. LastToldIsSize'
  <2> SUFFICES ASSUME "signal" \notin start.env, NEW q \in Pools,
                      NEW f \in DOMAIN pnodes'[q] \cap listed, start.parent[f] = None
               PROVE  LastTold(q, f)' = size[q] \/ ToSend(q, f)' \/ f \in crossed'[q]
    BY <1>1 DEF LastToldIsSize, ToSend
  <2>1. CASE q = p /\ f = Fid[t]
    BY <1>5, <2>1
  <2>2. CASE q # p \/ f # Fid[t]
    <3>1. f \in Fusionees /\ f \in DOMAIN pnodes[q] \cap listed
      BY <1>2, <2>2 DEF TypeInv, Q!TypeOK
    <3>2. LastTold(q, f)' = LastTold(q, f) /\ (f \in crossed[q] => f \in crossed'[q])
      BY <1>5, <2>2, <3>1
    <3>3. LastTold(q, f) = size[q] \/ ToSend(q, f) \/ f \in crossed[q]
      BY <3>1 DEF ToldInv, LastToldIsSize, ToSend
    <3>4. ToSend(q, f)' <=> ToSend(q, f)
      BY <1>1 DEF ToSend
    <3> QED
      BY <3>2, <3>3, <3>4
  <2> QED
    BY <2>1, <2>2
<1> QED
  BY <1>3, <1>6 DEF ToldInv

(* A dispatch tells its own fusionee at once and has the others to do.     *)
LEMMA BeginTells ==
  ASSUME TypeInv, ToldInv, NEW t \in Threads, NEW p \in Pools, NEW s \in Sizes,
         PoolDispatch(t), P!DispatchBegin(t, p, s)
  PROVE  ToldInv'
<1>1. /\ size' = [size EXCEPT ![p] = s] /\ plock' = [plock EXCEPT ![p] = t]
      /\ P!Given(p, Fid[t], s) /\ plock[p] = None /\ op[t].at = "user"
      /\ op' = [op EXCEPT ![t] = [at |-> "pool", todo |-> DOMAIN pnodes[p] \ {Fid[t]},
                                  n |-> s, pool |-> p]]
      /\ UNCHANGED <<listed, pnodes, born, start, messages>>
  BY DEF PoolDispatch, P!DispatchBegin, P!Lockable, P!Idle, P!queueVars, lifeVars
<1>2. size'[p] = s /\ plock'[p] = t /\ \A q \in Pools \ {p} : size'[q] = size[q] /\ plock'[q] = plock[q]
  BY <1>1 DEF TypeInv, PoolTypes
<1>3. /\ op'[t].at = "pool" /\ op'[t].todo = DOMAIN pnodes[p] \ {Fid[t]}
      /\ op'[t].n = s /\ op'[t].pool = p
  BY <1>1 DEF TypeInv
<1>4. \A u \in Threads \ {t} : op'[u] = op[u]
  BY <1>1 DEF TypeInv
<1>5. PoolDispatching'
  <2> SUFFICES ASSUME NEW u \in Threads, op'[u].at = "pool"
               PROVE  op'[u].pool \in Pools /\ plock'[op'[u].pool] = u /\ op'[u].n = size'[op'[u].pool]
    BY DEF PoolDispatching
  <2>1. CASE u = t
    BY <1>2, <1>3, <2>1
  <2>2. CASE u # t
    <3>1. op'[u] = op[u] /\ op[u].pool \in Pools /\ plock[op[u].pool] = u /\ op[u].n = size[op[u].pool]
      BY <1>4, <2>2 DEF ToldInv, PoolDispatching
    <3>2. op[u].pool # p
      BY <1>1, <3>1, QueueAssumption
    <3> QED
      BY <1>2, <3>1, <3>2
  <2> QED
    BY <2>1, <2>2
<1>6. RootsAreBorn'
  BY <1>1 DEF ToldInv, RootsAreBorn
<1>7. Fid[t] \in Fusionees /\ s \in Nat
  BY QueueAssumption, PoolAssumption
<1>8. /\ LastTold(p, Fid[t])' = s \/ Fid[t] \in crossed'[p]
      /\ \A q \in Pools, g \in Fusionees : q # p \/ g # Fid[t] =>
           LastTold(q, g)' = LastTold(q, g) /\ (g \in crossed[q] => g \in crossed'[q])
  BY <1>1, <1>7, GivenLast
<1>9. LastToldIsSize'
  <2> SUFFICES ASSUME "signal" \notin start.env, NEW q \in Pools,
                      NEW f \in DOMAIN pnodes[q] \cap listed, start.parent[f] = None
               PROVE  LastTold(q, f)' = size'[q] \/ ToSend(q, f)' \/ f \in crossed'[q]
    BY <1>1 DEF LastToldIsSize, ToSend
  <2>1. CASE q = p /\ f = Fid[t]
    BY <1>2, <1>8, <2>1
  <2>2. CASE q = p /\ f # Fid[t]
    BY <1>3, <2>2 DEF ToSend
  <2>3. CASE q # p
    <3>1. f \in Fusionees /\ size'[q] = size[q]
      BY <1>2, <2>3 DEF TypeInv, Q!TypeOK
    <3>2. LastTold(q, f)' = LastTold(q, f) /\ (f \in crossed[q] => f \in crossed'[q])
      BY <1>8, <2>3, <3>1
    <3>3. LastTold(q, f) = size[q] \/ ToSend(q, f) \/ f \in crossed[q]
      BY DEF ToldInv, LastToldIsSize, ToSend
    <3>4. ASSUME NEW u \in Threads, op[u].at = "pool" /\ op[u].pool = q /\ f \in op[u].todo
          PROVE  op'[u].at = "pool" /\ op'[u].pool = q /\ f \in op'[u].todo
      BY <1>1, <1>4, <3>4
    <3>5. ToSend(q, f) => ToSend(q, f)'
      BY <3>4 DEF ToSend
    <3> QED
      BY <3>1, <3>2, <3>3, <3>5
  <2> QED
    BY <2>1, <2>2, <2>3
<1> QED
  BY <1>5, <1>6, <1>9 DEF ToldInv

(* What is sent is the size, and it is not sent only when nobody is there. *)
LEMMA SendTells ==
  ASSUME TypeInv, ToldInv, NEW t \in Threads, NEW f, PoolDispatch(t),
         P!DispatchSend(t, f, May("signal"))
  PROVE  ToldInv'
<1>0. PICK p : p = op[t].pool
  OBVIOUS
<1> DEFINE m == P!Remap(p, op[t].n)
<1>1. /\ op[t].at = "pool" /\ f \in op[t].todo /\ op' = [op EXCEPT ![t].todo = @ \ {f}]
      /\ UNCHANGED <<size, pnodes, plock, born, start, told>>
  BY DEF PoolDispatch, P!DispatchSend, lifeVars
<1>2. /\ p \in Pools /\ plock[p] = t /\ op[t].n = size[p] /\ f \in Fusionees
      /\ op[t].n \in Nat
  BY <1>0, <1>1 DEF ToldInv, PoolDispatching, TypeInv, Op
<1>3. m \in Message /\ m.id = p /\ m.n = size[p]
  BY <1>2 DEF P!Remap, Message, Keys
<1>4. /\ listed' = listed
      /\ \/ Q!Send(f, m) /\ crossed' = [crossed EXCEPT ![p] = @ \ {f}]
         \/ UNCHANGED <<messages, crossed>> /\ (f \notin listed \/ May("signal"))
  BY <1>0, SendIsSend DEF P!DispatchSend, P!queueVars, Q!Send
<1>5. /\ op'[t].at = "pool" /\ op'[t].pool = p /\ op'[t].n = op[t].n
      /\ op'[t].todo = op[t].todo \ {f}
      /\ \A u \in Threads \ {t} : op'[u] = op[u]
  BY <1>0, <1>1 DEF TypeInv, Op
<1> HIDE DEF m
<1>6. PoolDispatching'
  <2> SUFFICES ASSUME NEW u \in Threads, op'[u].at = "pool"
               PROVE  op'[u].pool \in Pools /\ plock[op'[u].pool] = u /\ op'[u].n = size[op'[u].pool]
    BY <1>1 DEF PoolDispatching
  <2>1. CASE u = t
    BY <1>2, <1>5, <2>1
  <2>2. CASE u # t
    BY <1>5, <2>2 DEF ToldInv, PoolDispatching
  <2> QED
    BY <2>1, <2>2
<1>7. RootsAreBorn'
  BY <1>1 DEF ToldInv, RootsAreBorn
<1>8. f \in listed /\ ~ May("signal") => LastTold(p, f)' = size[p]
  <2> SUFFICES ASSUME f \in listed, ~ May("signal") PROVE LastTold(p, f)' = size[p]
    OBVIOUS
  <2>1. Q!Send(f, m)
    BY <1>4
  <2> QED
    BY <1>1, <1>2, <1>3, <2>1, LastSent
<1>9. ASSUME NEW q \in Pools, NEW g \in Fusionees, q # p \/ g # f
      PROVE  LastTold(q, g)' = LastTold(q, g) /\ (g \in crossed[q] => g \in crossed'[q])
  <2>1. CASE UNCHANGED <<messages, crossed>>
    BY <1>1, <2>1, LastStays
  <2>2. CASE Q!Send(f, m) /\ crossed' = [crossed EXCEPT ![p] = @ \ {f}]
    <3>1. LastTold(q, g)' = LastTold(q, g)
      BY <1>1, <1>2, <1>3, <1>9, <2>2, LastSent
    <3>2. g \in crossed[q] => g \in crossed'[q]
      BY <1>2, <1>9, <2>2 DEF TypeInv, PoolTypes
    <3> QED
      BY <3>1, <3>2
  <2> QED
    BY <1>4, <2>1, <2>2
<1>10. LastToldIsSize'
  <2> SUFFICES ASSUME "signal" \notin start.env, NEW q \in Pools,
                      NEW g \in DOMAIN pnodes[q] \cap listed, start.parent[g] = None
               PROVE  LastTold(q, g)' = size[q] \/ ToSend(q, g)' \/ g \in crossed'[q]
    BY <1>1, <1>4 DEF LastToldIsSize, ToSend
  <2>1. CASE q = p /\ g = f
    BY <1>8, <2>1 DEF May
  <2>2. CASE q # p \/ g # f
    <3>1. g \in Fusionees
      BY DEF TypeInv, Q!TypeOK
    <3>2. LastTold(q, g)' = LastTold(q, g) /\ (g \in crossed[q] => g \in crossed'[q])
      BY <1>9, <2>2, <3>1
    <3>3. ASSUME NEW u \in Threads, op[u].at = "pool" /\ op[u].pool = q /\ g \in op[u].todo
          PROVE  op'[u].at = "pool" /\ op'[u].pool = q /\ g \in op'[u].todo
      <4>1. CASE u = t
        BY <1>0, <1>5, <2>2, <3>3, <4>1
      <4>2. CASE u # t
        BY <1>5, <3>3, <4>2
      <4> QED
        BY <4>1, <4>2
    <3>4. ToSend(q, g) => ToSend(q, g)'
      BY <3>3 DEF ToSend
    <3>5. LastTold(q, g) = size[q] \/ ToSend(q, g) \/ g \in crossed[q]
      BY DEF ToldInv, LastToldIsSize, ToSend
    <3> QED
      BY <3>2, <3>4, <3>5
  <2> QED
    BY <2>1, <2>2
<1> QED
  BY <1>6, <1>7, <1>10 DEF ToldInv

LEMMA EndTells ==
  ASSUME TypeInv, ToldInv, NEW t \in Threads, PoolDispatch(t), P!DispatchEnd(t)
  PROVE  ToldInv'
<1>1. /\ op[t].at = "pool" /\ op[t].todo = {} /\ op' = [op EXCEPT ![t] = P!User]
      /\ plock' = [plock EXCEPT ![op[t].pool] = None]
      /\ UNCHANGED <<size, told, crossed, pnodes, listed, born, start, messages>>
  BY DEF PoolDispatch, P!DispatchEnd, P!queueVars, P!sizeVars, lifeVars
<1>2. op'[t].at = "user" /\ \A u \in Threads \ {t} : op'[u] = op[u]
  BY <1>1 DEF TypeInv, P!User
<1>3. PoolDispatching'
  <2> SUFFICES ASSUME NEW u \in Threads, op'[u].at = "pool"
               PROVE  op'[u].pool \in Pools /\ plock'[op'[u].pool] = u /\ op'[u].n = size[op'[u].pool]
    BY <1>1 DEF PoolDispatching
  <2>1. /\ u # t /\ op'[u] = op[u] /\ op[u].pool \in Pools
        /\ plock[op[u].pool] = u /\ op[u].n = size[op[u].pool]
    BY <1>2 DEF ToldInv, PoolDispatching
  <2>2. plock[op[t].pool] = t
    BY <1>1 DEF ToldInv, PoolDispatching
  <2> QED
    BY <1>1, <2>1, <2>2 DEF TypeInv, PoolTypes
<1>4. RootsAreBorn'
  BY <1>1 DEF ToldInv, RootsAreBorn
<1>5. LastToldIsSize'
  <2> SUFFICES ASSUME "signal" \notin start.env, NEW q \in Pools,
                      NEW g \in DOMAIN pnodes[q] \cap listed, start.parent[g] = None
               PROVE  LastTold(q, g)' = size[q] \/ ToSend(q, g)' \/ g \in crossed[q]
    BY <1>1 DEF LastToldIsSize, ToSend
  <2>1. ASSUME NEW u \in Threads, op[u].at = "pool" /\ op[u].pool = q /\ g \in op[u].todo
        PROVE  op'[u].at = "pool" /\ op'[u].pool = q /\ g \in op'[u].todo
    BY <1>1, <1>2, <2>1
  <2>2. ToSend(q, g) => ToSend(q, g)'
    BY <2>1 DEF ToSend
  <2>3. LastTold(q, g) = size[q] \/ ToSend(q, g) \/ g \in crossed[q]
    BY DEF ToldInv, LastToldIsSize, ToSend
  <2>4. LastTold(q, g)' = LastTold(q, g)
    BY <1>1, LastStays
  <2> QED
    BY <2>2, <2>3, <2>4
<1> QED
  BY <1>3, <1>4, <1>5 DEF ToldInv

LEMMA NextTold == TypeInv /\ ToldInv /\ [Next]_vars => ToldInv'
<1> SUFFICES ASSUME TypeInv, ToldInv, [Next]_vars PROVE ToldInv'
  OBVIOUS
<1> DEFINE Nodes == \A p \in Pools : \A f \in DOMAIN pnodes'[p] : f \in DOMAIN pnodes[p] \/ f \notin born
           Said == \A p \in Pools, f \in listed' : LastTold(p, f)' = LastTold(p, f)
<1>1. ASSUME UNCHANGED <<size, crossed, plock, start>>, op' = op, listed' \subseteq listed,
             born' = born, Nodes, Said \/ UNCHANGED <<told, messages>>
      PROVE  ToldInv'
  BY <1>1, LastStays, ToldKept
<1> HIDE DEF Said
<1>2. ASSUME NEW t \in Threads, Ioctl(t) PROVE ToldInv'
  <2>1. UNCHANGED <<op, start, born, listed, messages>>
    BY <1>2 DEF Ioctl, lifeVars, queueVars
  <2>2. CASE UNCHANGED poolVars
    BY <1>1, <2>1, <2>2 DEF poolVars, tableVars
  <2>3. ASSUME NEW p \in Pools, NEW max, P!New(p, max) PROVE ToldInv'
    BY <1>1, <2>1, <2>3 DEF P!New, P!sizeVars
  <2>4. ASSUME NEW p \in Pools, P!Attach(p, Fid[t]) PROVE ToldInv'
    BY <1>2, <2>4, AttachTells
  <2>5. ASSUME NEW p \in Pools, P!Detach(p, Fid[t]) PROVE ToldInv'
    <3>1. Nodes
      <4>1. CASE P!Remove(p, Fid[t])
        BY <4>1 DEF P!Remove, P!Restrict, TypeInv, PoolTypes
      <4>2. ASSUME NEW k, Fid[t] \in DOMAIN pnodes[p], P!SetCount(p, Fid[t], k) PROVE Nodes
        BY <4>2 DEF P!SetCount, TypeInv, PoolTypes
      <4>3. Fid[t] \in DOMAIN pnodes[p]
        BY <2>5 DEF P!Detach, P!Count
      <4> QED
        BY <2>5, <4>1, <4>2, <4>3 DEF P!Detach
    <3> QED
      BY <1>1, <2>1, <2>5, <3>1 DEF P!Detach
  <2>6. ASSUME NEW p \in Pools, P!Destroy(p) PROVE ToldInv'
    <3>1. DOMAIN <<>> = {} /\ pnodes' = [pnodes EXCEPT ![p] = <<>>]
      BY <2>6 DEF P!Destroy
    <3>2. Nodes
      BY <3>1 DEF TypeInv, PoolTypes
    <3> QED
      BY <1>1, <2>1, <2>6, <3>2 DEF P!Destroy
  <2> QED
    BY <1>2, <2>2, <2>3, <2>4, <2>5, <2>6 DEF Ioctl, PoolIoctl
<1>3. ASSUME NEW t \in Threads, ReactorDispatch(t) PROVE ToldInv'
  <2>1. \A u \in Threads : op'[u] = op[u] \/ (op[u].at # "pool" /\ op'[u].at # "pool")
    BY <1>3, ReactorDispatchOps DEF ReactorDispatch
  <2>2. listed' = listed
    BY <1>3 DEF ReactorDispatch, R!DispatchBegin, R!DispatchSend, R!DispatchEnd, R!Q!Send, R!queueVars
  <2>3. UNCHANGED <<size, told, crossed, plock, start, born, pnodes>>
    BY <1>3 DEF ReactorDispatch, poolVars, tableVars, lifeVars
  <2>4. Said
    <3>1. CASE messages' = messages
      BY <2>3, <3>1, LastStays DEF Said
    <3>2. ASSUME NEW f \in Fusionees, R!Q!Send(f, R!ReactorMessage(op[t].n)) PROVE Said
      <4> DEFINE m == R!ReactorMessage(op[t].n)
      <4>1. op[t].n \in Nat
        BY DEF TypeInv, Op
      <4>2. m \in Message /\ m.id = "reactor"
        BY <4>1 DEF R!ReactorMessage, Message, Keys
      <4>3. Q!Send(f, m)
        BY <3>2, SendIsSend
      <4> HIDE DEF m
      <4>4. \A p \in Pools, g \in Fusionees : LastTold(p, g)' = LastTold(p, g)
        BY <2>3, <4>2, <4>3, LastSent, PoolAssumption
      <4> QED
        BY <2>2, <4>4 DEF Said, TypeInv, Q!TypeOK
    <3> QED
      BY <1>3, <3>1, <3>2
      DEF ReactorDispatch, R!DispatchBegin, R!DispatchSend, R!DispatchEnd, R!queueVars
  <2> QED
    BY <2>1, <2>2, <2>3, <2>4, ToldKept DEF Said
<1>4. ASSUME NEW t \in Threads, PoolDispatch(t) PROVE ToldInv'
  BY <1>4, BeginTells, SendTells, EndTells DEF PoolDispatch
<1>5. ASSUME NEW t \in Threads, Read(t) \/ ReadOn(t) PROVE ToldInv'
  <2>1. listed' = listed
    BY <1>5 DEF Read, ReadOn, Q!ReadSleep, Q!ReadNow, Q!ReadWoken, Q!Poll, Q!Interrupt
  <2>2. Said
    BY <1>5, <2>1, LastRead DEF Said, TypeInv, Q!TypeOK
  <2> QED
    BY <1>1, <1>5, <2>1, <2>2 DEF Read, ReadOn, tableVars, lifeVars
<1>6. ASSUME NEW t \in Threads, ForkPools(t) PROVE ToldInv'
  <2>1. op[t].at = "user" /\ op' = [op EXCEPT ![t].at = "fork"] /\ op[t] \in Op
    BY <1>6 DEF ForkPools, P!Idle, TypeInv
  <2>2. op'[t].at # "pool" /\ \A u \in Threads \ {t} : op'[u] = op[u]
    BY <2>1 DEF TypeInv, Op
  <2>3. Nodes
    BY <1>6 DEF ForkPools, P!ForkAll
  <2>4. UNCHANGED <<size, told, crossed, plock, start, born, listed, messages>>
    BY <1>6 DEF ForkPools, P!ForkAll, lifeVars, queueVars
  <2> QED
    BY <2>1, <2>2, <2>3, <2>4, LastStays, ToldKept
<1>7. ASSUME NEW t \in Threads, ForkReactors(t) PROVE ToldInv'
  <2>1. op[t].at = "fork" /\ op' = [op EXCEPT ![t] = P!User]
    BY <1>7 DEF ForkReactors
  <2>2. op'[t].at # "pool" /\ \A u \in Threads \ {t} : op'[u] = op[u]
    BY <2>1 DEF TypeInv, P!User
  <2>3. UNCHANGED <<size, told, crossed, plock, start, listed, pnodes, messages>> /\ born \subseteq born'
    BY <1>7 DEF ForkReactors, queueVars, poolVars, tableVars
  <2> QED
    BY <2>1, <2>2, <2>3, LastStays, ToldKept
<1>8. ASSUME NEW f \in Fusionees, Flush(f) \/ Leave(f) \/ LeaveReactor(f) PROVE ToldInv'
  <2>1. CASE Leave(f)
    <3>1. /\ listed' = listed \ {f} /\ told' = told
          /\ \A g \in Fusionees \ {f} : messages'[g] = messages[g]
      BY <2>1 DEF Leave, Q!Release, poolVars, TypeInv, Q!TypeOK
    <3>2. Said
      BY <3>1 DEF Said, LastTold, P!Unread, TypeInv, Q!TypeOK
    <3> QED
      BY <1>1, <2>1, <3>1, <3>2 DEF Leave, poolVars, tableVars
  <2>2. CASE Flush(f) \/ LeaveReactor(f)
    BY <1>1, <2>2 DEF Flush, LeaveReactor, poolVars, tableVars, queueVars, lifeVars
  <2> QED
    BY <1>8, <2>1, <2>2
<1>9. ASSUME NEW f \in Fusionees, LeavePools(f) PROVE ToldInv'
  <2>1. Nodes
    BY <1>9 DEF LeavePools, P!DetachAll, P!Restrict
  <2> QED
    BY <1>1, <1>9, <2>1 DEF LeavePools, P!DetachAll, lifeVars, queueVars
<1>10. CASE UNCHANGED vars
  BY <1>1, <1>10 DEF vars, poolVars, tableVars, lifeVars, queueVars
<1> QED
  BY <1>2, <1>3, <1>4, <1>5, <1>6, <1>7, <1>8, <1>9, <1>10 DEF Next

(* With its queue read an attached fusionee takes the size of its pool for *)
(* what it is, but for those a dispatch still has to send to and those an  *)
(* ioctl gave the size while messages of the pool were in their queue      *)
(* (shmpool.c:261-300, fusionee.c:340, 398-445).                           *)
THEOREM ToldSafe == Spec => []LastToldIsSize
<1>1. Init => ToldInv
  <2> SUFFICES ASSUME Init PROVE ToldInv
    OBVIOUS
  <2>1. \A p \in Pools : DOMAIN pnodes[p] = {}
    BY DEF Init, P!Init
  <2>2. PoolDispatching /\ RootsAreBorn
    BY DEF Init, P!User, PoolDispatching, RootsAreBorn
  <2> QED
    BY <2>1, <2>2 DEF ToldInv, LastToldIsSize
<1>2. ToldInv => LastToldIsSize
  BY DEF ToldInv
<1> QED
  BY <1>1, <1>2, InitTypes, NextTypes, NextTold, PTL DEF Spec

-----------------------------------------------------------------------------
(* The messages of the dispatches, in whatever hands they are.  A tracked  *)
(* message carries the number of its dispatch.                             *)
Has(s, n) == \E i \in DOMAIN s : s[i].tracked /\ s[i].n = n
Once(s) == \A i, j \in DOMAIN s : s[i].tracked /\ s[j].tracked /\ s[i].n = s[j].n => i = j
Apart(s, u) == \A n \in Nat : ~ (Has(s, n) /\ Has(u, n))

LEMMA HasAppend ==
  ASSUME NEW s \in Seq(Message), NEW m \in Message
  PROVE  /\ \A n \in Nat : Has(Append(s, m), n) <=> Has(s, n) \/ (m.tracked /\ m.n = n)
         /\ Once(s) /\ (m.tracked => ~ Has(s, m.n)) => Once(Append(s, m))
<1> DEFINE a == Append(s, m)
           k == Len(s)
<1>1. /\ k \in Nat /\ DOMAIN s = 1..k /\ DOMAIN a = 1..(k + 1)
      /\ a[k + 1] = m /\ \A i \in 1..k : a[i] = s[i]
  OBVIOUS
<1> HIDE DEF a, k
<1>2. \A n \in Nat : Has(a, n) <=> Has(s, n) \/ (m.tracked /\ m.n = n)
  <2> SUFFICES ASSUME NEW n \in Nat PROVE Has(a, n) <=> Has(s, n) \/ (m.tracked /\ m.n = n)
    OBVIOUS
  <2>1. k + 1 \in DOMAIN a /\ \A i \in DOMAIN s : i \in DOMAIN a /\ a[i] = s[i]
    BY <1>1
  <2>2. \A i \in DOMAIN a : i = k + 1 \/ i \in DOMAIN s
    BY <1>1
  <2> QED
    BY <1>1, <2>1, <2>2 DEF Has
<1>3. ASSUME Once(s), m.tracked => ~ Has(s, m.n) PROVE Once(a)
  <2> SUFFICES ASSUME NEW i \in DOMAIN a, NEW j \in DOMAIN a,
                      a[i].tracked, a[j].tracked, a[i].n = a[j].n
               PROVE  i = j
    BY DEF Once
  <2>1. \A l \in DOMAIN a : l = k + 1 \/ (l \in DOMAIN s /\ a[l] = s[l])
    BY <1>1
  <2>2. CASE i = k + 1
    BY <1>1, <1>3, <2>1, <2>2 DEF Has
  <2>3. CASE j = k + 1
    BY <1>1, <1>3, <2>1, <2>3 DEF Has
  <2>4. CASE i # k + 1 /\ j # k + 1
    BY <1>3, <2>1, <2>4 DEF Once
  <2> QED
    BY <2>2, <2>3, <2>4
<1> QED
  BY <1>2, <1>3 DEF a

LEMMA HasConcat ==
  ASSUME NEW s \in Seq(Message), NEW u \in Seq(Message)
  PROVE  /\ \A n \in Nat : Has(s \o u, n) <=> Has(s, n) \/ Has(u, n)
         /\ Once(s) /\ Once(u) /\ Apart(s, u) => Once(s \o u)
<1> DEFINE a == s \o u
           k == Len(s)
           l == Len(u)
<1>1. /\ k \in Nat /\ l \in Nat /\ DOMAIN s = 1..k /\ DOMAIN u = 1..l /\ DOMAIN a = 1..(k + l)
      /\ \A i \in 1..k : a[i] = s[i]
      /\ \A i \in 1..l : a[k + i] = u[i]
      /\ \A i \in 1..l : u[i] \in Message
  OBVIOUS
<1> HIDE DEF a, k, l
<1>2. \A i \in DOMAIN s : i \in DOMAIN a /\ a[i] = s[i]
  BY <1>1
<1>3. \A i \in DOMAIN u : k + i \in DOMAIN a /\ a[k + i] = u[i]
  BY <1>1
<1>4. \A i \in DOMAIN a : \/ i \in DOMAIN s /\ a[i] = s[i]
                          \/ i - k \in DOMAIN u /\ a[i] = u[i - k] /\ i \in Int
  <2> SUFFICES ASSUME NEW i \in DOMAIN a, i \notin DOMAIN s
               PROVE  i - k \in DOMAIN u /\ a[i] = u[i - k] /\ i \in Int
    BY <1>2
  <2>1. i \in Int /\ i - k \in 1..l /\ k + (i - k) = i
    BY <1>1
  <2> QED
    BY <1>1, <2>1
<1>5. \A n \in Nat : Has(a, n) <=> Has(s, n) \/ Has(u, n)
  <2> SUFFICES ASSUME NEW n \in Nat PROVE Has(a, n) <=> Has(s, n) \/ Has(u, n)
    OBVIOUS
  <2>1. Has(s, n) => Has(a, n)
    BY <1>2 DEF Has
  <2>2. Has(u, n) => Has(a, n)
    BY <1>3 DEF Has
  <2>3. Has(a, n) => Has(s, n) \/ Has(u, n)
    BY <1>4 DEF Has
  <2> QED
    BY <2>1, <2>2, <2>3
<1>6. ASSUME Once(s), Once(u), Apart(s, u) PROVE Once(a)
  <2> SUFFICES ASSUME NEW i \in DOMAIN a, NEW j \in DOMAIN a,
                      a[i].tracked, a[j].tracked, a[i].n = a[j].n
               PROVE  i = j
    BY DEF Once
  <2>1. CASE i \in DOMAIN s /\ a[i] = s[i] /\ j \in DOMAIN s /\ a[j] = s[j]
    BY <1>6, <2>1 DEF Once
  <2>2. CASE /\ i - k \in DOMAIN u /\ a[i] = u[i - k] /\ i \in Int
             /\ j - k \in DOMAIN u /\ a[j] = u[j - k] /\ j \in Int
    <3>1. i - k = j - k
      BY <1>6, <2>2 DEF Once
    <3> QED
      BY <1>1, <2>2, <3>1
  <2>3. ASSUME NEW x \in DOMAIN s, NEW y \in DOMAIN u,
               s[x].tracked, u[y].tracked, s[x].n = u[y].n
        PROVE  FALSE
    <3>1. u[y].n \in Nat
      BY <1>1 DEF Message
    <3>2. Has(s, u[y].n) /\ Has(u, u[y].n)
      BY <2>3 DEF Has
    <3> QED
      BY <1>6, <3>1, <3>2 DEF Apart
  <2> QED
    BY <1>4, <2>1, <2>2, <2>3
<1> QED
  BY <1>5, <1>6 DEF a

LEMMA HasSplit ==
  ASSUME NEW s \in Seq(Message), NEW k \in 0..Len(s)
  PROVE  /\ \A n \in Nat : Has(s, n) <=> Has(SubSeq(s, 1, k), n) \/ Has(SubSeq(s, k + 1, Len(s)), n)
         /\ Once(s) => /\ Once(SubSeq(s, 1, k)) /\ Once(SubSeq(s, k + 1, Len(s)))
                       /\ Apart(SubSeq(s, 1, k), SubSeq(s, k + 1, Len(s)))
<1> DEFINE l == Len(s)
           b == SubSeq(s, 1, k)
           r == SubSeq(s, k + 1, Len(s))
<1>1. /\ l \in Nat /\ k \in 0..l /\ DOMAIN s = 1..l /\ DOMAIN b = 1..k /\ DOMAIN r = 1..(l - k)
      /\ \A i \in 1..k : b[i] = s[i]
      /\ \A i \in 1..(l - k) : r[i] = s[k + i]
  <2>1. l \in Nat /\ k \in 0..l /\ DOMAIN s = 1..l
    OBVIOUS
  <2>2. DOMAIN b = 1..k /\ \A i \in 1..k : b[i] = s[i]
    OBVIOUS
  <2>3. Len(r) = l - k /\ r \in Seq(Message)
    OBVIOUS
  <2>4. DOMAIN r = 1..(l - k)
    BY <2>3
  <2>5. \A i \in 1..(l - k) : r[i] = s[k + i]
    BY <2>1
  <2> QED
    BY <2>1, <2>2, <2>4, <2>5
<1> HIDE DEF l, b, r
<1>2. \A i \in DOMAIN b : i \in DOMAIN s /\ b[i] = s[i] /\ i <= k /\ i \in Int
  BY <1>1
<1>3. \A i \in DOMAIN r : k + i \in DOMAIN s /\ r[i] = s[k + i] /\ k + i > k /\ i \in Int
  BY <1>1
<1>4. \A i \in DOMAIN s : i \in DOMAIN b \/ (i - k \in DOMAIN r /\ k + (i - k) = i)
  BY <1>1
<1>5. \A n \in Nat : Has(s, n) <=> Has(b, n) \/ Has(r, n)
  <2> SUFFICES ASSUME NEW n \in Nat PROVE Has(s, n) <=> Has(b, n) \/ Has(r, n)
    OBVIOUS
  <2>1. Has(b, n) => Has(s, n)
    BY <1>2 DEF Has
  <2>2. Has(r, n) => Has(s, n)
    BY <1>3 DEF Has
  <2>3. Has(s, n) => Has(b, n) \/ Has(r, n)
    <3> SUFFICES ASSUME NEW i \in DOMAIN s, s[i].tracked, s[i].n = n
                 PROVE  Has(b, n) \/ Has(r, n)
      BY DEF Has
    <3>1. CASE i \in DOMAIN b
      BY <1>2, <3>1 DEF Has
    <3>2. CASE i - k \in DOMAIN r /\ k + (i - k) = i
      <4>1. r[i - k] = s[i]
        BY <1>3, <3>2
      <4> QED
        BY <3>2, <4>1 DEF Has
    <3> QED
      BY <1>4, <3>1, <3>2
  <2> QED
    BY <2>1, <2>2, <2>3
<1>6. ASSUME Once(s) PROVE Once(b) /\ Once(r) /\ Apart(b, r)
  <2>1. Once(b)
    BY <1>2, <1>6 DEF Once
  <2>2. Once(r)
    <3> SUFFICES ASSUME NEW i \in DOMAIN r, NEW j \in DOMAIN r,
                        r[i].tracked, r[j].tracked, r[i].n = r[j].n
                 PROVE  i = j
      BY DEF Once
    <3>1. k + i = k + j
      BY <1>3, <1>6 DEF Once
    <3> QED
      BY <1>1, <1>3, <3>1
  <2>3. Apart(b, r)
    <3> SUFFICES ASSUME NEW i \in DOMAIN b, NEW j \in DOMAIN r,
                        b[i].tracked, r[j].tracked, b[i].n = r[j].n
                 PROVE  FALSE
      BY DEF Apart, Has
    <3>1. i = k + j
      BY <1>2, <1>3, <1>6 DEF Once
    <3> QED
      BY <1>1, <1>2, <1>3, <3>1
  <2> QED
    BY <2>1, <2>2, <2>3
<1> QED
  BY <1>5, <1>6 DEF b, r

LEMMA HasTail ==
  ASSUME NEW s \in Seq(Message), s # <<>>, NEW h, h = Head(s)
  PROVE  /\ \A n \in Nat : Has(s, n) <=> Has(Tail(s), n) \/ (h.tracked /\ h.n = n)
         /\ Once(s) => Once(Tail(s)) /\ (h.tracked => ~ Has(Tail(s), h.n))
<1> DEFINE r == Tail(s)
           k == Len(s)
<1>1. /\ k \in Nat \ {0} /\ DOMAIN s = 1..k /\ DOMAIN r = 1..(k - 1) /\ h = s[1]
      /\ \A i \in 1..(k - 1) : r[i] = s[i + 1]
  OBVIOUS
<1> HIDE DEF r, k
<1>2. \A i \in DOMAIN r : i + 1 \in DOMAIN s /\ r[i] = s[i + 1] /\ i \in Nat /\ i + 1 # 1
  BY <1>1
<1>3. 1 \in DOMAIN s /\ \A i \in DOMAIN s : i = 1 \/ (i - 1 \in DOMAIN r /\ (i - 1) + 1 = i)
  BY <1>1
<1>4. \A n \in Nat : Has(s, n) <=> Has(r, n) \/ (h.tracked /\ h.n = n)
  <2> SUFFICES ASSUME NEW n \in Nat PROVE Has(s, n) <=> Has(r, n) \/ (h.tracked /\ h.n = n)
    OBVIOUS
  <2>1. Has(r, n) => Has(s, n)
    BY <1>2 DEF Has
  <2>2. h.tracked /\ h.n = n => Has(s, n)
    BY <1>1, <1>3 DEF Has
  <2>3. Has(s, n) => Has(r, n) \/ (h.tracked /\ h.n = n)
    <3> SUFFICES ASSUME NEW i \in DOMAIN s, s[i].tracked, s[i].n = n, i # 1
                 PROVE  Has(r, n)
      BY <1>1 DEF Has
    <3>1. i - 1 \in DOMAIN r /\ r[i - 1] = s[i]
      BY <1>2, <1>3
    <3> QED
      BY <3>1 DEF Has
  <2> QED
    BY <2>1, <2>2, <2>3
<1>5. ASSUME Once(s) PROVE Once(r) /\ (h.tracked => ~ Has(r, h.n))
  <2>1. Once(r)
    <3> SUFFICES ASSUME NEW i \in DOMAIN r, NEW j \in DOMAIN r,
                        r[i].tracked, r[j].tracked, r[i].n = r[j].n
                 PROVE  i = j
      BY DEF Once
    <3>1. i + 1 = j + 1
      BY <1>2, <1>5 DEF Once
    <3> QED
      BY <1>2, <3>1
  <2>2. ASSUME h.tracked, NEW i \in DOMAIN r, r[i].tracked, r[i].n = h.n PROVE FALSE
    <3>1. /\ i + 1 \in DOMAIN s /\ s[i + 1].tracked /\ s[i + 1].n = h.n
          /\ 1 \in DOMAIN s /\ s[1].tracked /\ s[1].n = h.n
      BY <1>1, <1>2, <1>3, <2>2
    <3>2. i + 1 = 1
      BY <1>5, <3>1 DEF Once
    <3> QED
      BY <1>2, <3>2
  <2> QED
    BY <2>1, <2>2 DEF Has
<1> QED
  BY <1>4, <1>5 DEF r

(* What a read keeps of a batch are its tracked messages, each once.       *)
LEMMA HasTracked ==
  ASSUME NEW b \in Seq(Message)
  PROVE  /\ Q!Tracked(b) \in Seq(Message)
         /\ \A n \in Nat : Has(Q!Tracked(b), n) <=> Has(b, n)
         /\ Once(b) => Once(Q!Tracked(b))
<1> DEFINE I == {i \in DOMAIN b : b[i].tracked}
           u == Q!Tracked(b)
<1>1. I \in SUBSET DOMAIN b /\ \A i \in DOMAIN b : i \in I <=> b[i].tracked
  OBVIOUS
<1>2. u = Q!Picked(b, I)
  BY DEF Q!Tracked
<1> HIDE DEF I, u
<1>3. u \in Seq(Message) /\ Picks(u, b, I)
  BY <1>1, <1>2, QueuesPick
<1>4. DOMAIN u = 1..Len(u) /\ Len(u) \in Nat
  BY <1>3
<1>5. PICK g \in [1..Len(u) -> I] :
        /\ \A j \in 1..Len(u) : u[j] = b[g[j]]
        /\ \A j, k \in 1..Len(u) : j < k => g[j] < g[k]
        /\ \A i \in I : \E j \in 1..Len(u) : g[j] = i
  BY <1>3 DEF Picks
<1>6. \A j \in DOMAIN u : g[j] \in DOMAIN b /\ u[j] = b[g[j]]
  BY <1>1, <1>4, <1>5
<1>7. \A n \in Nat : Has(u, n) <=> Has(b, n)
  <2> SUFFICES ASSUME NEW n \in Nat PROVE Has(u, n) <=> Has(b, n)
    OBVIOUS
  <2>1. Has(u, n) => Has(b, n)
    BY <1>6 DEF Has
  <2>2. Has(b, n) => Has(u, n)
    <3> SUFFICES ASSUME NEW i \in DOMAIN b, b[i].tracked, b[i].n = n PROVE Has(u, n)
      BY DEF Has
    <3>1. PICK j \in DOMAIN u : g[j] = i
      BY <1>1, <1>4, <1>5
    <3> QED
      BY <1>6, <3>1 DEF Has
  <2> QED
    BY <2>1, <2>2
<1>8. ASSUME Once(b) PROVE Once(u)
  <2> SUFFICES ASSUME NEW i \in DOMAIN u, NEW j \in DOMAIN u,
                      u[i].tracked, u[j].tracked, u[i].n = u[j].n
               PROVE  i = j
    BY DEF Once
  <2>1. g[i] = g[j]
    BY <1>6, <1>8 DEF Once
  <2>2. i \in Nat /\ j \in Nat /\ g[i] \in Nat
    BY <1>4, <1>6
  <2>3. ~ (i < j) /\ ~ (j < i)
    BY <1>4, <1>5, <2>1, <2>2
  <2> QED
    BY <2>2, <2>3
<1> QED
  BY <1>3, <1>7, <1>8 DEF u

-----------------------------------------------------------------------------
(* The message of a dispatch is in one hand of each fusionee at a time:    *)
(* queued, with its reader, or taken out to be called back.  The count of  *)
(* a dispatch is that of its messages that are out, and of those it could  *)
(* not send.                                                               *)
Holds(f, n) == Has(messages[f], n) \/ Has(prev_msgs[f], n) \/ Has(flushing[f], n)
Out(n) == {f \in Fusionees : Holds(f, n)}

HeldOnce ==
  \A f \in Fusionees :
    /\ Once(messages[f]) /\ Once(prev_msgs[f]) /\ Once(flushing[f])
    /\ Apart(messages[f], prev_msgs[f]) /\ Apart(messages[f], flushing[f])
    /\ Apart(prev_msgs[f], flushing[f])
HandledIsKept == \A f \in Fusionees, n \in Nat : Has(handling[f], n) => Has(prev_msgs[f], n)
HeldIsDispatched ==
  /\ \A f \in Fusionees, n \in Nat : Holds(f, n) => n \in 1..dispatch_count
  /\ reactor = "unborn" => dispatch_count = 0

CountIsOut ==
  reactor = "live" => \A n \in 1..dispatch_count :
    /\ Out(n) # {} => dispatch[n].st = "open"
    /\ dispatch[n].st = "open" => dispatch[n].count = dispatch[n].lost + Cardinality(Out(n))
ExecutedIsDone ==
  \A n \in 1..dispatch_count : dispatch[n].executed > 0 =>
    dispatch[n].executed = 1 /\ dispatch[n].st = "freed" /\ Out(n) = {}
Dispatching ==
  \A t \in Threads : op[t].at = "reactor" =>
    /\ rlock = t /\ reactor = "live" /\ op[t].n = dispatch_count /\ dispatch_count > 0
    /\ dispatch[dispatch_count].executed = 0
    /\ dispatch[dispatch_count].st \in {"open", "none"}
    /\ \A f \in op[t].todo : ~ Holds(f, dispatch_count)

CallInv ==
  /\ HeldOnce /\ HandledIsKept /\ HeldIsDispatched
  /\ CountIsOut /\ ExecutedIsDone /\ Dispatching

(* The steps that move messages from hand to hand, or none.                *)
Moved == HeldOnce' /\ HandledIsKept' /\ \A f \in Fusionees, n \in Nat : Holds(f, n)' <=> Holds(f, n)

LEMMA OutIsFinite ==
  ASSUME NEW n
  PROVE  IsFiniteSet(Out(n)) /\ Cardinality(Out(n)) \in Nat
<1>1. Out(n) \in SUBSET Fusionees
  BY DEF Out
<1> QED
  BY <1>1, QueueAssumption, FS_Subset, FS_CardinalityType

LEMMA CallKept ==
  ASSUME TypeInv, CallInv, Moved, UNCHANGED <<dispatch, dispatch_count, rlock>>,
         \/ reactor' = reactor
         \/ rlock = None /\ reactor' = "gone"
         \/ dispatch_count = 0 /\ reactor' = "live",
         \A t \in Threads : op'[t] = op[t] \/ (op[t].at # "reactor" /\ op'[t].at # "reactor")
  PROVE  CallInv'
<1>1. dispatch_count \in Nat /\ \A n \in 1..dispatch_count : n \in Nat
  BY ReactorAssumption DEF TypeInv, ReactorTypes
<1>2. \A n \in Nat : Out(n)' = Out(n)
  BY DEF Moved, Out
<1>3. HeldOnce' /\ HandledIsKept' /\ HeldIsDispatched'
  BY DEF CallInv, HeldIsDispatched, Moved
<1>4. CountIsOut'
  <2> SUFFICES ASSUME reactor' = "live", NEW n \in 1..dispatch_count
               PROVE  /\ Out(n)' # {} => dispatch[n].st = "open"
                      /\ dispatch[n].st = "open"
                           => dispatch[n].count = dispatch[n].lost + Cardinality(Out(n)')
    BY DEF CountIsOut
  <2>1. reactor = "live" /\ Out(n)' = Out(n)
    BY <1>1, <1>2
  <2> QED
    BY <2>1 DEF CallInv, CountIsOut
<1>5. ExecutedIsDone'
  BY <1>1, <1>2 DEF CallInv, ExecutedIsDone
<1>6. Dispatching'
  <2> SUFFICES ASSUME NEW t \in Threads, op'[t].at = "reactor"
               PROVE  /\ rlock = t /\ reactor' = "live" /\ op'[t].n = dispatch_count
                      /\ dispatch_count > 0 /\ dispatch[dispatch_count].executed = 0
                      /\ dispatch[dispatch_count].st \in {"open", "none"}
                      /\ \A f \in op'[t].todo : ~ Holds(f, dispatch_count)'
    BY DEF Dispatching
  <2>1. op'[t] = op[t] /\ op[t].todo \in SUBSET Fusionees /\ t # None
    BY QueueAssumption DEF TypeInv, Op
  <2>2. /\ rlock = t /\ reactor = "live" /\ op[t].n = dispatch_count
        /\ dispatch_count > 0 /\ dispatch[dispatch_count].executed = 0
        /\ dispatch[dispatch_count].st \in {"open", "none"}
        /\ \A f \in op[t].todo : ~ Holds(f, dispatch_count)
    BY <2>1 DEF CallInv, Dispatching
  <2>3. \A f \in op[t].todo : ~ Holds(f, dispatch_count)'
    BY <1>1, <2>1, <2>2 DEF Moved
  <2>4. reactor' = "live"
    BY <2>1, <2>2
  <2> QED
    BY <2>1, <2>2, <2>3, <2>4
<1> QED
  BY <1>3, <1>4, <1>5, <1>6 DEF CallInv

LEMMA Still ==
  ASSUME CallInv, UNCHANGED <<messages, prev_msgs, handling, flushing>>
  PROVE  Moved
BY DEF CallInv, Moved, HeldOnce, HandledIsKept, Holds

(* What is sent is queued, and nothing else moves.                         *)
LEMMA SendHolds ==
  ASSUME TypeInv, CallInv, NEW f \in Fusionees, NEW m \in Message, Q!Send(f, m),
         flushing' = flushing, m.tracked => ~ Holds(f, m.n)
  PROVE  /\ HeldOnce' /\ HandledIsKept'
         /\ \A g \in Fusionees, n \in Nat :
              Holds(g, n)' <=> Holds(g, n) \/ (g = f /\ m.tracked /\ m.n = n)
<1>1. /\ messages' = [messages EXCEPT ![f] = Append(messages[f], m)]
      /\ UNCHANGED <<prev_msgs, handling>>
  BY DEF Q!Send
<1>2. messages[f] \in Seq(Message) /\ messages \in [Fusionees -> Seq(Message)] /\ m.n \in Nat
  BY DEF TypeInv, Q!TypeOK, Message
<1>3. /\ \A n \in Nat : Has(Append(messages[f], m), n) <=> Has(messages[f], n) \/ (m.tracked /\ m.n = n)
      /\ Once(messages[f]) /\ (m.tracked => ~ Has(messages[f], m.n)) => Once(Append(messages[f], m))
  BY <1>2, HasAppend
<1>4. messages'[f] = Append(messages[f], m) /\ \A g \in Fusionees \ {f} : messages'[g] = messages[g]
  BY <1>1, <1>2
<1>5. /\ \A n \in Nat : Has(messages'[f], n) <=> Has(messages[f], n) \/ (m.tracked /\ m.n = n)
      /\ Once(messages'[f])
  BY <1>3, <1>4 DEF CallInv, HeldOnce, Holds
<1>6. Apart(messages'[f], prev_msgs[f]) /\ Apart(messages'[f], flushing[f])
  BY <1>2, <1>5 DEF CallInv, HeldOnce, Apart, Holds
<1>7. HeldOnce'
  BY <1>1, <1>4, <1>5, <1>6 DEF CallInv, HeldOnce
<1>8. HandledIsKept'
  BY <1>1 DEF CallInv, HandledIsKept
<1>9. \A g \in Fusionees, n \in Nat : Holds(g, n)' <=> Holds(g, n) \/ (g = f /\ m.tracked /\ m.n = n)
  <2> SUFFICES ASSUME NEW g \in Fusionees, NEW n \in Nat
               PROVE  Holds(g, n)' <=> Holds(g, n) \/ (g = f /\ m.tracked /\ m.n = n)
    OBVIOUS
  <2>1. CASE g = f
    BY <1>1, <1>5, <2>1 DEF Holds
  <2>2. CASE g # f
    BY <1>1, <1>4, <2>2 DEF Holds
  <2> QED
    BY <2>1, <2>2
<1> QED
  BY <1>7, <1>8, <1>9

(* The hands of one fusionee change, and what they hold does not.          *)
LEMMA OneMoves ==
  ASSUME CallInv, NEW f \in Fusionees,
         \A g \in Fusionees \ {f} : /\ messages'[g] = messages[g] /\ prev_msgs'[g] = prev_msgs[g]
                                    /\ flushing'[g] = flushing[g] /\ handling'[g] = handling[g],
         Once(messages'[f]), Once(prev_msgs'[f]), Once(flushing'[f]),
         Apart(messages'[f], prev_msgs'[f]), Apart(messages'[f], flushing'[f]),
         Apart(prev_msgs'[f], flushing'[f]),
         \A n \in Nat : Has(handling'[f], n) => Has(prev_msgs'[f], n),
         \A n \in Nat : Has(messages'[f], n) \/ Has(prev_msgs'[f], n) \/ Has(flushing'[f], n)
                          <=> Holds(f, n)
  PROVE  Moved
<1>1. HeldOnce'
  BY DEF CallInv, HeldOnce
<1>2. HandledIsKept'
  BY DEF CallInv, HandledIsKept
<1>3. \A g \in Fusionees, n \in Nat : Holds(g, n)' <=> Holds(g, n)
  <2> SUFFICES ASSUME NEW g \in Fusionees, NEW n \in Nat PROVE Holds(g, n)' <=> Holds(g, n)
    OBVIOUS
  <2>1. CASE g = f
    BY <2>1 DEF Holds
  <2>2. CASE g # f
    BY <2>2 DEF Holds
  <2> QED
    BY <2>1, <2>2
<1> QED
  BY <1>1, <1>2, <1>3 DEF Moved

LEMMA HasNone ==
  /\ \A n : ~ Has(<<>>, n)
  /\ Once(<<>>) /\ <<>> \in Seq(Message)
  /\ \A s : Apart(s, <<>>) /\ Apart(<<>>, s)
<1>1. DOMAIN <<>> = {}
  OBVIOUS
<1>2. \A n : ~ Has(<<>>, n)
  BY <1>1 DEF Has
<1>3. Once(<<>>)
  BY <1>1 DEF Once
<1> QED
  BY <1>2, <1>3 DEF Apart

(* A batch that is delivered goes from the queue to its reader.  What the  *)
(* reader had before stays with it, or is taken out.                       *)
LEMMA DeliverMoves ==
  ASSUME TypeInv, CallInv, NEW f \in Fusionees, flushing[f] = <<>>,
         NEW k \in 0..Len(messages[f]), NEW before, NEW out,
         Q!Deliver(f, k, before), flushing' = [flushing EXCEPT ![f] = out],
         \/ before = <<>> /\ out = prev_msgs[f]
         \/ before = prev_msgs[f] /\ out = <<>>
  PROVE  Moved
<1> DEFINE s == messages[f]
           p == prev_msgs[f]
           b == SubSeq(s, 1, k)
           r == SubSeq(s, k + 1, Len(s))
           u == Q!Tracked(b)
<1>1. s \in Seq(Message) /\ p \in Seq(Message) /\ k \in 0..Len(s) /\ <<>> \in Seq(Message)
  BY DEF TypeInv, Q!TypeOK
<1>2. b \in Seq(Message) /\ r \in Seq(Message)
  BY <1>1, BatchTypes
<1>3. Once(s) /\ Once(p) /\ Apart(s, p) /\ Once(<<>>) /\ (\A n : ~ Has(<<>>, n))
  BY HasNone DEF CallInv, HeldOnce
<1>4. /\ \A n \in Nat : Has(s, n) <=> Has(b, n) \/ Has(r, n)
      /\ Once(b) /\ Once(r) /\ Apart(b, r)
  BY <1>1, <1>3, HasSplit
<1>5. /\ u \in Seq(Message) /\ Once(u)
      /\ \A n \in Nat : Has(u, n) <=> Has(b, n)
  BY <1>2, <1>4, HasTracked
<1>6. /\ messages' = [messages EXCEPT ![f] = r] /\ handling' = [handling EXCEPT ![f] = b]
      /\ prev_msgs' = [prev_msgs EXCEPT ![f] = before \o u]
  BY DEF Q!Deliver
<1>7. \A n \in Nat : Holds(f, n) <=> Has(s, n) \/ Has(p, n)
  BY <1>3 DEF Holds
<1> HIDE DEF s, p, b, r, u
<1>8. /\ before \in Seq(Message) /\ Once(before) /\ Apart(before, u)
      /\ Once(out) /\ Apart(r, out)
      /\ Apart(before, out) /\ Apart(u, out) /\ Apart(r, before)
  BY <1>1, <1>3, <1>4, <1>5 DEF Apart, p
<1>9. /\ \A n \in Nat : Has(before \o u, n) <=> Has(before, n) \/ Has(u, n)
      /\ Once(before \o u)
  BY <1>5, <1>8, HasConcat
<1>10. /\ messages'[f] = r /\ handling'[f] = b /\ prev_msgs'[f] = before \o u /\ flushing'[f] = out
       /\ \A g \in Fusionees \ {f} : /\ messages'[g] = messages[g] /\ prev_msgs'[g] = prev_msgs[g]
                                     /\ flushing'[g] = flushing[g] /\ handling'[g] = handling[g]
  BY <1>6 DEF TypeInv, Q!TypeOK
<1>11. Apart(r, before \o u) /\ Apart(before \o u, out)
  BY <1>4, <1>5, <1>8, <1>9 DEF Apart
<1>12. \A n \in Nat : Has(before, n) \/ Has(out, n) <=> Has(p, n)
  BY <1>3 DEF p
<1>13. \A n \in Nat : Has(r, n) \/ Has(before \o u, n) \/ Has(out, n) <=> Holds(f, n)
  BY <1>4, <1>5, <1>7, <1>9, <1>12
<1>14. \A n \in Nat : Has(b, n) => Has(before \o u, n)
  BY <1>5, <1>9
<1> QED
  BY <1>4, <1>8, <1>9, <1>10, <1>11, <1>13, <1>14, OneMoves

(* A reader that is done with its batch gives it back.                     *)
LEMMA DoneMoves ==
  ASSUME TypeInv, CallInv, NEW f \in Fusionees, flushing[f] = <<>>,
         flushing' = [flushing EXCEPT ![f] = prev_msgs[f]],
         prev_msgs' = [prev_msgs EXCEPT ![f] = <<>>], handling' = [handling EXCEPT ![f] = <<>>],
         messages' = messages
  PROVE  Moved
<1>1. /\ flushing'[f] = prev_msgs[f] /\ prev_msgs'[f] = <<>> /\ handling'[f] = <<>>
      /\ \A g \in Fusionees \ {f} : /\ messages'[g] = messages[g] /\ prev_msgs'[g] = prev_msgs[g]
                                    /\ flushing'[g] = flushing[g] /\ handling'[g] = handling[g]
  BY DEF TypeInv, Q!TypeOK
<1>2. Once(messages[f]) /\ Once(prev_msgs[f]) /\ Apart(messages[f], prev_msgs[f])
  BY DEF CallInv, HeldOnce
<1>3. (\A n : ~ Has(<<>>, n)) /\ Once(<<>>) /\ \A s : Apart(s, <<>>) /\ Apart(<<>>, s)
  BY HasNone
<1>4. \A n \in Nat : Has(messages[f], n) \/ Has(<<>>, n) \/ Has(prev_msgs[f], n) <=> Holds(f, n)
  BY <1>3 DEF Holds
<1> QED
  BY <1>1, <1>2, <1>3, <1>4, OneMoves

LEMMA ReadMoves ==
  ASSUME TypeInv, CallInv, NEW t \in Threads, Read(t) \/ ReadOn(t)
  PROVE  Moved
<1> DEFINE f == Fid[t]
<1>1. f \in Fusionees /\ flushing[f] = <<>>
  BY QueueAssumption DEF Read, ReadOn, Free
<1>2. CASE Read(t)
  <2>1. flushing' = [flushing EXCEPT ![f] = prev_msgs[f]]
    BY <1>2 DEF Read
  <2>2. CASE Q!ReadSleep(t) \/ Q!Poll(t)
    <3>1. /\ prev_msgs' = [prev_msgs EXCEPT ![f] = <<>>] /\ messages' = messages
          /\ handling' = [handling EXCEPT ![f] = <<>>]
      BY <2>2 DEF Q!ReadSleep, Q!Poll
    <3> HIDE DEF f
    <3> QED
      BY <1>1, <2>1, <3>1, DoneMoves
  <2>3. CASE Q!ReadNow(t)
    <3>1. PICK k \in 0..Len(messages[f]) : Q!Deliver(f, k, <<>>)
      BY <2>3 DEF Q!ReadNow
    <3> HIDE DEF f
    <3> QED
      BY <1>1, <2>1, <3>1, DeliverMoves
  <2> QED
    BY <1>2, <2>2, <2>3 DEF Read
<1>3. CASE ReadOn(t)
  <2>1. flushing' = flushing
    BY <1>3 DEF ReadOn
  <2>2. CASE UNCHANGED <<messages, prev_msgs, handling>>
    BY <2>1, <2>2, Still
  <2>3. CASE \E k \in 0..Len(messages[f]) : Q!Deliver(f, k, prev_msgs[f])
    <3>1. PICK k \in 0..Len(messages[f]) : Q!Deliver(f, k, prev_msgs[f])
      BY <2>3
    <3>2. flushing' = [flushing EXCEPT ![f] = <<>>]
      BY <1>1, <2>1 DEF TypeInv
    <3> HIDE DEF f
    <3> QED
      BY <1>1, <3>1, <3>2, DeliverMoves
  <2> QED
    BY <1>3, <2>2, <2>3 DEF ReadOn, Q!ReadWoken, Q!Interrupt
<1> QED
  BY <1>2, <1>3

LEMMA LeaveMoves ==
  ASSUME TypeInv, CallInv, NEW f \in Fusionees, Leave(f)
  PROVE  Moved
<1>1. /\ flushing[f] = <<>> /\ flushing' = [flushing EXCEPT ![f] = prev_msgs[f] \o messages[f]]
      /\ messages' = [messages EXCEPT ![f] = <<>>] /\ prev_msgs' = [prev_msgs EXCEPT ![f] = <<>>]
      /\ handling' = [handling EXCEPT ![f] = <<>>]
  BY DEF Leave, Q!Release
<1>2. messages[f] \in Seq(Message) /\ prev_msgs[f] \in Seq(Message)
  BY DEF TypeInv, Q!TypeOK
<1>3. Once(messages[f]) /\ Once(prev_msgs[f]) /\ Apart(prev_msgs[f], messages[f])
  BY DEF CallInv, HeldOnce, Apart
<1>4. /\ \A n \in Nat : Has(prev_msgs[f] \o messages[f], n) <=> Has(prev_msgs[f], n) \/ Has(messages[f], n)
      /\ Once(prev_msgs[f] \o messages[f])
  BY <1>2, <1>3, HasConcat
<1>5. (\A n : ~ Has(<<>>, n)) /\ Once(<<>>) /\ \A s : Apart(s, <<>>) /\ Apart(<<>>, s)
  BY HasNone
<1>6. /\ flushing'[f] = prev_msgs[f] \o messages[f] /\ messages'[f] = <<>> /\ prev_msgs'[f] = <<>>
      /\ handling'[f] = <<>>
      /\ \A g \in Fusionees \ {f} : /\ messages'[g] = messages[g] /\ prev_msgs'[g] = prev_msgs[g]
                                    /\ flushing'[g] = flushing[g] /\ handling'[g] = handling[g]
  BY <1>1 DEF TypeInv, Q!TypeOK
<1> DEFINE c == prev_msgs[f] \o messages[f]
<1>7. \A n \in Nat : Has(<<>>, n) \/ Has(<<>>, n) \/ Has(c, n) <=> Holds(f, n)
  BY <1>1, <1>4, <1>5 DEF Holds
<1> HIDE DEF c
<1>8. flushing'[f] = c /\ Once(c)
  BY <1>4, <1>6 DEF c
<1> QED
  BY <1>5, <1>6, <1>7, <1>8, OneMoves

(* The dispatch under way is the last, and nobody who has still to be sent *)
(* to holds a message of it.                                               *)
LEMMA UnderWay ==
  ASSUME TypeInv, CallInv, NEW t \in Threads, op[t].at = "reactor"
  PROVE  /\ rlock = t /\ reactor = "live" /\ op[t].n = dispatch_count
         /\ dispatch_count \in 1..MaxDispatch /\ dispatch[dispatch_count] \in DispatchObject
         /\ dispatch[dispatch_count].executed = 0
         /\ dispatch[dispatch_count].st \in {"open", "none"}
         /\ op[t].todo \in SUBSET Fusionees
         /\ \A f \in op[t].todo : ~ Holds(f, dispatch_count)
         /\ \A u \in Threads \ {t} : op[u].at # "reactor"
<1>1. /\ rlock = t /\ reactor = "live" /\ op[t].n = dispatch_count /\ dispatch_count > 0
      /\ dispatch[dispatch_count].executed = 0
      /\ dispatch[dispatch_count].st \in {"open", "none"}
      /\ \A f \in op[t].todo : ~ Holds(f, dispatch_count)
  BY DEF CallInv, Dispatching
<1>2. dispatch_count \in 1..MaxDispatch
  BY <1>1, ReactorAssumption DEF TypeInv, ReactorTypes
<1>3. dispatch[dispatch_count] \in DispatchObject /\ op[t].todo \in SUBSET Fusionees
  BY <1>2 DEF TypeInv, ReactorTypes, Op
<1>4. \A u \in Threads \ {t} : op[u].at # "reactor"
  BY <1>1 DEF CallInv, Dispatching
<1> QED
  BY <1>1, <1>2, <1>3, <1>4

(* The counts of all dispatches but one stay, and the one is right.        *)
LEMMA OneCounted ==
  ASSUME CallInv, NEW N \in Nat, NEW top \in Nat, dispatch_count' = top, reactor' = reactor,
         \A n \in 1..top : n # N =>
           n \in 1..dispatch_count /\ dispatch'[n] = dispatch[n] /\ Out(n)' = Out(n),
         reactor = "live" =>
           /\ Out(N)' # {} => dispatch'[N].st = "open"
           /\ dispatch'[N].st = "open"
                => dispatch'[N].count = dispatch'[N].lost + Cardinality(Out(N)'),
         dispatch'[N].executed > 0 =>
           dispatch'[N].executed = 1 /\ dispatch'[N].st = "freed" /\ Out(N)' = {}
  PROVE  CountIsOut' /\ ExecutedIsDone'
<1>1. CountIsOut'
  <2> SUFFICES ASSUME reactor' = "live", NEW n \in 1..top
               PROVE  /\ Out(n)' # {} => dispatch'[n].st = "open"
                      /\ dispatch'[n].st = "open"
                           => dispatch'[n].count = dispatch'[n].lost + Cardinality(Out(n)')
    BY DEF CountIsOut
  <2>1. CASE n # N
    <3>1. n \in 1..dispatch_count /\ dispatch'[n] = dispatch[n] /\ Out(n)' = Out(n)
      BY <2>1
    <3>2. /\ Out(n) # {} => dispatch[n].st = "open"
          /\ dispatch[n].st = "open" => dispatch[n].count = dispatch[n].lost + Cardinality(Out(n))
      BY <3>1 DEF CallInv, CountIsOut
    <3> QED
      BY <3>1, <3>2
  <2> QED
    BY <2>1
<1>2. ExecutedIsDone'
  <2> SUFFICES ASSUME NEW n \in 1..top, dispatch'[n].executed > 0
               PROVE  dispatch'[n].executed = 1 /\ dispatch'[n].st = "freed" /\ Out(n)' = {}
    BY DEF ExecutedIsDone
  <2>1. CASE n # N
    <3>1. n \in 1..dispatch_count /\ dispatch'[n] = dispatch[n] /\ Out(n)' = Out(n)
      BY <2>1
    <3>2. dispatch[n].executed > 0 => dispatch[n].executed = 1 /\ dispatch[n].st = "freed" /\ Out(n) = {}
      BY <3>1 DEF CallInv, ExecutedIsDone
    <3> QED
      BY <3>1, <3>2
  <2> QED
    BY <2>1
<1> QED
  BY <1>1, <1>2

LEMMA BeginCalls ==
  ASSUME TypeInv, CallInv, NEW t \in Threads, NEW ch, NEW self,
         R!DispatchBegin(t, ch, self), flushing' = flushing
  PROVE  CallInv'
<1>1. dispatch_count \in Nat /\ dispatch_count + 1 \in Nat
  BY ReactorAssumption DEF TypeInv, ReactorTypes
<1>2. PICK N \in Nat : N = dispatch_count + 1
  BY <1>1
<1>3. PICK todo : todo = R!Recipients(IF self THEN None ELSE Fid[t], ch)
  OBVIOUS
<1>4. PICK new : new = R!NewDispatch(IF call_id THEN "open" ELSE "none")
  OBVIOUS
<1>5. /\ reactor = "live" /\ rlock = None /\ rlock' = t /\ dispatch_count' = N
      /\ dispatch' = [dispatch EXCEPT ![N] = new]
      /\ op' = [op EXCEPT ![t].at = "reactor", ![t].n = N, ![t].todo = todo]
      /\ UNCHANGED <<messages, prev_msgs, handling, reactor>>
      /\ dispatch_count < MaxDispatch
  BY <1>2, <1>3, <1>4 DEF R!DispatchBegin, R!Lockable, R!queueVars, R!nodeVars
<1>6. /\ N \in 1..MaxDispatch /\ N \notin 1..dispatch_count
      /\ \A n \in 1..N : n # N => n \in 1..dispatch_count
      /\ \A n \in 1..dispatch_count : n \in 1..N /\ n \in Nat /\ n # N
  BY <1>1, <1>2, <1>5, ReactorAssumption
<1>7. op'[t].at = "reactor" /\ op'[t].n = N /\ op'[t].todo = todo
  BY <1>5 DEF TypeInv, Op
<1>8. \A u \in Threads \ {t} : op'[u] = op[u] /\ op[u].at # "reactor"
  BY <1>5, QueueAssumption DEF TypeInv, CallInv, Dispatching
<1>9. new.count = 0 /\ new.lost = 0 /\ new.executed = 0 /\ new.st \in {"open", "none"}
  BY <1>4 DEF R!NewDispatch
<1>10. dispatch'[N] = new /\ \A n \in 1..dispatch_count : dispatch'[n] = dispatch[n]
  BY <1>5, <1>6 DEF TypeInv, ReactorTypes
<1>11. Moved
  BY <1>5, Still
<1>12. \A n \in Nat : Out(n)' = Out(n)
  BY <1>11 DEF Moved, Out
<1>13. \A f \in Fusionees : ~ Holds(f, N) /\ ~ Holds(f, N)'
  BY <1>6, <1>11 DEF CallInv, HeldIsDispatched, Moved
<1>14. Out(N)' = {} /\ Cardinality({}) = 0
  BY <1>13, FS_EmptySet DEF Out
<1>15. HeldIsDispatched'
  <2>1. \A f \in Fusionees, n \in Nat : Holds(f, n)' => n \in 1..N
    BY <1>6, <1>11 DEF CallInv, HeldIsDispatched, Moved
  <2> QED
    BY <1>5, <2>1 DEF HeldIsDispatched
<1>16. CountIsOut' /\ ExecutedIsDone'
  <2>1. \A n \in 1..N : n # N =>
          n \in 1..dispatch_count /\ dispatch'[n] = dispatch[n] /\ Out(n)' = Out(n)
    BY <1>6, <1>10, <1>12
  <2>2. /\ Out(N)' # {} => dispatch'[N].st = "open"
        /\ dispatch'[N].st = "open"
             => dispatch'[N].count = dispatch'[N].lost + Cardinality(Out(N)')
        /\ ~ dispatch'[N].executed > 0
    BY <1>9, <1>10, <1>14
  <2> QED
    BY <1>5, <2>1, <2>2, OneCounted
<1>17. Dispatching'
  <2>1. todo \in SUBSET Fusionees
    BY <1>3 DEF R!Recipients, TypeInv, ReactorTypes
  <2>2. \A f \in todo : ~ Holds(f, N)'
    BY <1>13, <2>1
  <2>3. N > 0 /\ dispatch'[N].executed = 0 /\ dispatch'[N].st \in {"open", "none"}
    BY <1>6, <1>9, <1>10
  <2> SUFFICES ASSUME NEW u \in Threads, op'[u].at = "reactor"
               PROVE  /\ rlock' = u /\ reactor' = "live" /\ op'[u].n = N /\ N > 0
                      /\ dispatch'[N].executed = 0 /\ dispatch'[N].st \in {"open", "none"}
                      /\ \A f \in op'[u].todo : ~ Holds(f, N)'
    BY <1>5 DEF Dispatching
  <2>4. u = t
    BY <1>8
  <2> QED
    BY <1>5, <1>7, <2>2, <2>3, <2>4
<1> QED
  BY <1>11, <1>15, <1>16, <1>17 DEF CallInv, Moved

LEMMA SendCalls ==
  ASSUME TypeInv, CallInv, NEW t \in Threads, NEW f, NEW signal,
         R!DispatchSend(t, f, signal), flushing' = flushing
  PROVE  CallInv'
<1>1. op[t].at = "reactor"
  BY DEF R!DispatchSend
<1>2. dispatch_count \in 1..MaxDispatch /\ 1..MaxDispatch \subseteq Nat
  BY <1>1, UnderWay, ReactorAssumption
<1>3. PICK N \in Nat : N = dispatch_count
  BY <1>2
<1>4. PICK d : d = dispatch[N]
  OBVIOUS
<1>5. /\ rlock = t /\ reactor = "live" /\ op[t].n = N
      /\ N \in 1..MaxDispatch /\ d \in DispatchObject /\ d.executed = 0 /\ d.st \in {"open", "none"}
      /\ op[t].todo \in SUBSET Fusionees
      /\ \A g \in op[t].todo : ~ Holds(g, N)
      /\ \A u \in Threads \ {t} : op[u].at # "reactor"
  <2>1. /\ rlock = t /\ reactor = "live" /\ op[t].n = dispatch_count
        /\ dispatch[dispatch_count] \in DispatchObject /\ dispatch[dispatch_count].executed = 0
        /\ dispatch[dispatch_count].st \in {"open", "none"}
        /\ op[t].todo \in SUBSET Fusionees
        /\ \A g \in op[t].todo : ~ Holds(g, dispatch_count)
        /\ \A u \in Threads \ {t} : op[u].at # "reactor"
    BY <1>1, UnderWay
  <2> QED
    BY <1>2, <1>3, <1>4, <2>1
<1>6. d.count \in Int /\ d.lost \in Nat
  BY <1>5 DEF DispatchObject
<1>7. PICK k \in Int : k = d.count + (IF d.st = "open" THEN 1 ELSE 0)
  BY <1>6
<1>8. PICK m : m = R!ReactorMessage(N)
  OBVIOUS
<1>9. /\ f \in op[t].todo /\ op' = [op EXCEPT ![t].todo = op[t].todo \ {f}]
      /\ UNCHANGED <<reactor, dispatch_count, rlock>>
      /\ \/ R!Q!Send(f, m) /\ dispatch' = [dispatch EXCEPT ![N].count = k]
         \/ /\ dispatch' = [dispatch EXCEPT ![N].count = k, ![N].lost = @ + 1]
            /\ UNCHANGED <<messages, prev_msgs, handling>>
  BY <1>4, <1>5, <1>7, <1>8 DEF R!DispatchSend, R!nodeVars, R!queueVars
<1>10. /\ op'[t].at = "reactor" /\ op'[t].n = N /\ op'[t].todo = op[t].todo \ {f}
       /\ \A u \in Threads \ {t} : op'[u] = op[u]
  BY <1>1, <1>5, <1>9 DEF TypeInv, Op
<1>11. \A n \in 1..N : n \in Nat /\ n \in 1..MaxDispatch
  BY <1>5, ReactorAssumption
<1>12. f \in Fusionees /\ ~ Holds(f, N)
  BY <1>5, <1>9
<1>13. dispatch \in [1..MaxDispatch -> DispatchObject]
  BY DEF TypeInv, ReactorTypes
<1>14. /\ dispatch'[N].count = k /\ dispatch'[N].st = d.st /\ dispatch'[N].executed = 0
       /\ \A n \in 1..N : n # N => dispatch'[n] = dispatch[n]
       /\ \/ /\ dispatch'[N].lost = d.lost /\ HeldOnce' /\ HandledIsKept'
             /\ \A g \in Fusionees, n \in Nat :
                  Holds(g, n)' <=> Holds(g, n) \/ (g = f /\ d.st = "open" /\ n = N)
          \/ dispatch'[N].lost = d.lost + 1 /\ Moved
  <2>1. CASE R!Q!Send(f, m) /\ dispatch' = [dispatch EXCEPT ![N].count = k]
    <3>1. /\ dispatch'[N].count = k /\ dispatch'[N].st = d.st /\ dispatch'[N].executed = d.executed
          /\ dispatch'[N].lost = d.lost
          /\ \A n \in 1..N : n # N => dispatch'[n] = dispatch[n]
      BY <1>4, <1>5, <1>11, <1>13, <2>1 DEF DispatchObject
    <3>2. Q!Send(f, m) /\ m \in Message /\ m.n = N /\ (m.tracked <=> d.st = "open")
      <4>1. Q!Send(f, m)
        BY <2>1, SendIsSend
      <4>2. m = [id |-> "reactor", tracked |-> d.st = "open", n |-> N]
        BY <1>4, <1>8 DEF R!ReactorMessage
      <4>3. m \in Message /\ m.n = N /\ (m.tracked <=> d.st = "open")
        BY <1>3, <4>2 DEF Message, Keys
      <4> QED
        BY <4>1, <4>3
    <3>3. flushing' = flushing /\ (m.tracked => ~ Holds(f, m.n))
      BY <1>12, <3>2
    <3>4. /\ HeldOnce' /\ HandledIsKept'
          /\ \A g \in Fusionees, n \in Nat :
               Holds(g, n)' <=> Holds(g, n) \/ (g = f /\ m.tracked /\ m.n = n)
      BY <1>12, <3>2, <3>3, SendHolds
    <3> QED
      BY <1>5, <3>1, <3>2, <3>4
  <2>2. CASE /\ dispatch' = [dispatch EXCEPT ![N].count = k, ![N].lost = @ + 1]
             /\ UNCHANGED <<messages, prev_msgs, handling>>
    <3>1. /\ dispatch'[N].count = k /\ dispatch'[N].st = d.st /\ dispatch'[N].executed = d.executed
          /\ dispatch'[N].lost = d.lost + 1
          /\ \A n \in 1..N : n # N => dispatch'[n] = dispatch[n]
      BY <1>4, <1>5, <1>11, <1>13, <2>2 DEF DispatchObject
    <3>2. Moved
      BY <2>2, Still
    <3> QED
      BY <1>5, <3>1, <3>2
  <2> QED
    BY <1>9, <2>1, <2>2
<1>15. PICK l \in {d.lost, d.lost + 1} :
         /\ dispatch'[N].lost = l /\ HeldOnce' /\ HandledIsKept'
         /\ \A g \in Fusionees, n \in Nat :
              Holds(g, n)' <=> Holds(g, n) \/ (l = d.lost /\ g = f /\ d.st = "open" /\ n = N)
  <2>1. d.lost # d.lost + 1
    BY <1>6
  <2>2. CASE /\ dispatch'[N].lost = d.lost /\ HeldOnce' /\ HandledIsKept'
             /\ \A g \in Fusionees, n \in Nat :
                  Holds(g, n)' <=> Holds(g, n) \/ (g = f /\ d.st = "open" /\ n = N)
    BY <2>2
  <2>3. CASE dispatch'[N].lost = d.lost + 1 /\ Moved
    BY <2>1, <2>3 DEF Moved
  <2> QED
    BY <1>14, <2>2, <2>3
<1>16. f \notin Out(N)
  BY <1>12 DEF Out
<1>17. \A n \in Nat : n # N => Out(n)' = Out(n)
  BY <1>15 DEF Out
<1>18. Out(N)' = IF l = d.lost /\ d.st = "open" THEN Out(N) \cup {f} ELSE Out(N)
  BY <1>12, <1>15 DEF Out
<1>19. HeldIsDispatched'
  <2>1. N \in 1..N
    BY <1>5, ReactorAssumption
  <2>2. \A g \in Fusionees, n \in Nat : Holds(g, n)' => n \in 1..N
    BY <1>3, <1>15, <2>1 DEF CallInv, HeldIsDispatched
  <2> QED
    BY <1>3, <1>5, <1>9, <2>2 DEF HeldIsDispatched
<1>20. CountIsOut' /\ ExecutedIsDone'
  <2>1. \A n \in 1..N : n # N =>
          n \in 1..dispatch_count /\ dispatch'[n] = dispatch[n] /\ Out(n)' = Out(n)
    BY <1>3, <1>11, <1>14, <1>17
  <2>2. /\ Out(N) # {} => d.st = "open"
        /\ d.st = "open" => d.count = d.lost + Cardinality(Out(N))
    <3>1. N \in 1..dispatch_count
      BY <1>3, <1>5, ReactorAssumption
    <3> QED
      BY <1>4, <1>5, <3>1 DEF CallInv, CountIsOut
  <2>3. Out(N)' # {} => dispatch'[N].st = "open"
    BY <1>14, <1>18, <2>2
  <2>4. dispatch'[N].st = "open" => dispatch'[N].count = dispatch'[N].lost + Cardinality(Out(N)')
    <3> SUFFICES ASSUME d.st = "open" PROVE k = l + Cardinality(Out(N)')
      BY <1>14, <1>15
    <3>1. IsFiniteSet(Out(N)) /\ Cardinality(Out(N)) \in Nat
      BY OutIsFinite
    <3>2. Cardinality(Out(N) \cup {f}) = Cardinality(Out(N)) + 1
      BY <1>16, <3>1, FS_AddElement
    <3>3. d.count = d.lost + Cardinality(Out(N)) /\ k = d.count + 1
      BY <1>7, <2>2
    <3>4. CASE l = d.lost
      <4>1. Out(N)' = Out(N) \cup {f}
        BY <1>18, <3>4
      <4>2. Cardinality(Out(N)') = Cardinality(Out(N)) + 1
        BY <3>2, <4>1
      <4> QED
        BY <1>6, <3>1, <3>3, <3>4, <4>2
    <3>5. CASE l = d.lost + 1
      <4>1. Out(N)' = Out(N)
        BY <1>6, <1>18, <3>5
      <4>2. Cardinality(Out(N)') = Cardinality(Out(N))
        BY <4>1
      <4> QED
        BY <1>6, <3>1, <3>3, <3>5, <4>2
    <3> QED
      BY <3>4, <3>5
  <2>5. ~ dispatch'[N].executed > 0
    BY <1>14
  <2> QED
    BY <1>3, <1>9, <2>1, <2>3, <2>4, <2>5, OneCounted
<1>21. Dispatching'
  <2> SUFFICES ASSUME NEW u \in Threads, op'[u].at = "reactor"
               PROVE  /\ rlock' = u /\ reactor' = "live" /\ op'[u].n = N /\ N > 0
                      /\ dispatch'[N].executed = 0 /\ dispatch'[N].st \in {"open", "none"}
                      /\ \A g \in op'[u].todo : ~ Holds(g, N)'
    BY <1>3, <1>9 DEF Dispatching
  <2>1. u = t
    BY <1>5, <1>10
  <2>2. \A g \in op[t].todo \ {f} : ~ Holds(g, N)'
    BY <1>5, <1>15
  <2>3. N > 0 /\ rlock' = t /\ reactor' = "live"
    BY <1>5, <1>9, ReactorAssumption
  <2>4. op'[t].n = N /\ op'[t].todo = op[t].todo \ {f}
    BY <1>10
  <2>5. dispatch'[N].executed = 0 /\ dispatch'[N].st \in {"open", "none"}
    BY <1>5, <1>14
  <2> QED
    BY <2>1, <2>2, <2>3, <2>4, <2>5
<1> QED
  BY <1>15, <1>19, <1>20, <1>21 DEF CallInv

LEMMA EndCalls ==
  ASSUME TypeInv, CallInv, NEW t \in Threads, R!DispatchEnd(t), flushing' = flushing
  PROVE  CallInv'
<1>1. op[t].at = "reactor"
  BY DEF R!DispatchEnd
<1>2. dispatch_count \in 1..MaxDispatch /\ 1..MaxDispatch \subseteq Nat
  BY <1>1, UnderWay, ReactorAssumption
<1>3. PICK N \in Nat : N = dispatch_count
  BY <1>2
<1>4. PICK d : d = dispatch[N]
  OBVIOUS
<1>5. /\ reactor = "live" /\ op[t].n = N
      /\ N \in 1..MaxDispatch /\ d \in DispatchObject /\ d.executed = 0
      /\ \A u \in Threads \ {t} : op[u].at # "reactor"
  <2>1. /\ reactor = "live" /\ op[t].n = dispatch_count
        /\ dispatch[dispatch_count] \in DispatchObject /\ dispatch[dispatch_count].executed = 0
        /\ \A u \in Threads \ {t} : op[u].at # "reactor"
    BY <1>1, UnderWay
  <2> QED
    BY <1>2, <1>3, <1>4, <2>1
<1>6. /\ op' = [op EXCEPT ![t].at = "user", ![t].n = 0]
      /\ UNCHANGED <<reactor, dispatch_count, messages, prev_msgs, handling>>
      /\ \/ d.st = "open" /\ d.count = 0 /\ dispatch' = [dispatch EXCEPT ![N] = R!Execute(@)]
         \/ dispatch' = dispatch
  BY <1>4, <1>5 DEF R!DispatchEnd, R!nodeVars, R!queueVars
<1>7. \A u \in Threads : op'[u].at # "reactor"
  BY <1>5, <1>6 DEF TypeInv, Op
<1>8. \A n \in 1..N : n \in Nat /\ n \in 1..MaxDispatch
  BY <1>5, ReactorAssumption
<1>9. Moved
  BY <1>6, Still
<1>10. \A n \in Nat : Out(n)' = Out(n)
  BY <1>9 DEF Moved, Out
<1>11. Dispatching'
  BY <1>7 DEF Dispatching
<1>12. HeldIsDispatched'
  BY <1>6, <1>9 DEF CallInv, HeldIsDispatched, Moved
<1>13. /\ Out(N) # {} => d.st = "open"
       /\ d.st = "open" => d.count = d.lost + Cardinality(Out(N))
  <2>1. N \in 1..dispatch_count
    BY <1>3, <1>5, ReactorAssumption
  <2> QED
    BY <1>4, <1>5, <2>1 DEF CallInv, CountIsOut
<1>14. Out(N)' = Out(N)
  BY <1>10
<1>15. CASE dispatch' = dispatch
  <2>1. \A n \in 1..N : n # N =>
          n \in 1..dispatch_count /\ dispatch'[n] = dispatch[n] /\ Out(n)' = Out(n)
    BY <1>3, <1>8, <1>10, <1>15
  <2>2. dispatch'[N] = d /\ d.executed = 0
    BY <1>4, <1>5, <1>15
  <2>3. CountIsOut' /\ ExecutedIsDone'
    BY <1>3, <1>6, <1>13, <1>14, <2>1, <2>2, OneCounted
  <2> QED
    BY <1>9, <1>11, <1>12, <2>3 DEF CallInv, Moved
<1>16. CASE d.st = "open" /\ d.count = 0 /\ dispatch' = [dispatch EXCEPT ![N] = R!Execute(@)]
  <2>1. /\ dispatch'[N] = R!Execute(d)
        /\ \A n \in 1..N : n # N =>
             n \in 1..dispatch_count /\ dispatch'[n] = dispatch[n] /\ Out(n)' = Out(n)
    BY <1>3, <1>4, <1>5, <1>8, <1>10, <1>16 DEF TypeInv, ReactorTypes
  <2>2. dispatch'[N].executed = 1 /\ dispatch'[N].st = "freed"
    <3>1. dispatch'[N].executed = d.executed + 1 /\ dispatch'[N].st = "freed"
      BY <1>5, <2>1 DEF R!Execute, DispatchObject
    <3> QED
      BY <1>5, <3>1
  <2>3. Out(N) = {}
    <3>1. d.count = d.lost + Cardinality(Out(N)) /\ d.lost \in Nat
      BY <1>5, <1>13, <1>16 DEF DispatchObject
    <3>2. IsFiniteSet(Out(N)) /\ Cardinality(Out(N)) \in Nat
      BY OutIsFinite
    <3>3. Cardinality(Out(N)) = 0
      BY <1>16, <3>1, <3>2
    <3> QED
      BY <3>2, <3>3, FS_EmptySet
  <2>4. CountIsOut' /\ ExecutedIsDone'
    BY <1>3, <1>6, <1>14, <2>1, <2>2, <2>3, OneCounted
  <2> QED
    BY <1>9, <1>11, <1>12, <2>4 DEF CallInv, Moved
<1> QED
  BY <1>6, <1>15, <1>16

(* A message that is called back leaves the last hand it is in.            *)
LEMMA FlushHolds ==
  ASSUME TypeInv, CallInv, NEW f \in Fusionees, Flush(f), NEW m, m = Head(flushing[f])
  PROVE  /\ m \in Message /\ m.n \in Nat /\ HeldOnce' /\ HandledIsKept'
         /\ \A g \in Fusionees, n \in Nat :
              Holds(g, n)' <=> Holds(g, n) /\ ~ (g = f /\ m.tracked /\ m.n = n)
         /\ m.tracked => Holds(f, m.n)
<1>0. PICK s : s = flushing[f]
  OBVIOUS
<1> DEFINE r == Tail(s)
<1>1. s \in Seq(Message) /\ s # <<>> /\ m = Head(s)
  BY <1>0 DEF TypeInv, Flush
<1>2. /\ \A n \in Nat : Has(s, n) <=> Has(r, n) \/ (m.tracked /\ m.n = n)
      /\ Once(s) => Once(r) /\ (m.tracked => ~ Has(r, m.n))
  BY <1>1, HasTail
<1>3. m \in Message
  BY <1>1
<1>4. m.n \in Nat
  BY <1>3 DEF Message
<1>5. flushing' = [flushing EXCEPT ![f] = r] /\ UNCHANGED <<messages, prev_msgs, handling>>
  BY <1>0 DEF Flush, queueVars
<1>6. Once(s) /\ Apart(messages[f], s) /\ Apart(prev_msgs[f], s)
  BY <1>0 DEF CallInv, HeldOnce
<1>7. \A n \in Nat : Holds(f, n) <=> Has(messages[f], n) \/ Has(prev_msgs[f], n) \/ Has(s, n)
  BY <1>0 DEF Holds
<1> HIDE DEF r
<1>9. flushing'[f] = r /\ \A g \in Fusionees \ {f} : flushing'[g] = flushing[g]
  BY <1>5 DEF TypeInv
<1>10. Once(r) /\ Apart(messages[f], r) /\ Apart(prev_msgs[f], r)
  BY <1>2, <1>6 DEF Apart
<1>11. HeldOnce'
  BY <1>5, <1>9, <1>10 DEF CallInv, HeldOnce
<1>12. HandledIsKept'
  BY <1>5 DEF CallInv, HandledIsKept
<1>13. \A g \in Fusionees, n \in Nat : Holds(g, n)' <=> Holds(g, n) /\ ~ (g = f /\ m.tracked /\ m.n = n)
  <2> SUFFICES ASSUME NEW g \in Fusionees, NEW n \in Nat
               PROVE  Holds(g, n)' <=> Holds(g, n) /\ ~ (g = f /\ m.tracked /\ m.n = n)
    OBVIOUS
  <2>1. CASE g # f
    BY <1>5, <1>9, <2>1 DEF Holds
  <2>2. CASE g = f
    <3>1. Holds(f, n)' <=> Has(messages[f], n) \/ Has(prev_msgs[f], n) \/ Has(r, n)
      BY <1>5, <1>9 DEF Holds
    <3>2. m.tracked /\ m.n = n => /\ ~ Has(r, n) /\ ~ Has(messages[f], n)
                                  /\ ~ Has(prev_msgs[f], n)
      BY <1>2, <1>4, <1>6 DEF Apart
    <3> QED
      BY <1>2, <1>7, <2>2, <3>1, <3>2
  <2> QED
    BY <2>1, <2>2
<1>14. m.tracked => Holds(f, m.n)
  BY <1>2, <1>4, <1>7
<1> QED
  BY <1>3, <1>4, <1>11, <1>12, <1>13, <1>14

LEMMA FlushCalls ==
  ASSUME TypeInv, CallInv, NEW f \in Fusionees, Flush(f)
  PROVE  CallInv'
<1>1. PICK m : m = Head(flushing[f])
  OBVIOUS
<1>2. PICK N : N = m.n
  OBVIOUS
<1>3. /\ m \in Message /\ N \in Nat /\ HeldOnce' /\ HandledIsKept'
      /\ \A g \in Fusionees, n \in Nat :
           Holds(g, n)' <=> Holds(g, n) /\ ~ (g = f /\ m.tracked /\ N = n)
      /\ m.tracked => Holds(f, N)
  BY <1>1, <1>2, FlushHolds
<1>4. op' = op
  BY DEF Flush
<1>5. CASE ~ m.tracked
  <2>1. Moved
    BY <1>3, <1>5 DEF Moved
  <2>2. UNCHANGED <<dispatch, dispatch_count, rlock, reactor>>
    BY <1>1, <1>5 DEF Flush, reactorVars
  <2> QED
    BY <1>4, <2>1, <2>2, CallKept
<1>6. CASE m.tracked
  <2>1. /\ Holds(f, N) /\ N \in 1..dispatch_count /\ f \in Out(N)
        /\ dispatch_count \in Nat /\ \A n \in 1..dispatch_count : n \in Nat /\ n \in 1..MaxDispatch
    <3>1. Holds(f, N)
      BY <1>3, <1>6
    <3>2. N \in 1..dispatch_count
      BY <1>3, <3>1 DEF CallInv, HeldIsDispatched
    <3>3. dispatch_count \in Nat /\ \A n \in 1..dispatch_count : n \in Nat /\ n \in 1..MaxDispatch
      BY ReactorAssumption DEF TypeInv, ReactorTypes
    <3> QED
      BY <3>1, <3>2, <3>3 DEF Out
  <2>2. PICK d : d = dispatch[N]
    OBVIOUS
  <2>3. PICK c : c = R!Counted(d)
    OBVIOUS
  <2>4. PICK new : new = IF reactor = "live" THEN IF c.count = 0 THEN R!Execute(c) ELSE c
                         ELSE IF ~ start.alone THEN d
                         ELSE IF c.count = 0 THEN [c EXCEPT !.st = "freed"] ELSE c
    OBVIOUS
  <2>5. /\ reactor = "live" => rlock = None
        /\ dispatch' = [dispatch EXCEPT ![N] = new]
        /\ UNCHANGED <<reactor, dispatch_count, rlock>>
    <3>1. R!Callback(N, start.alone)
      BY <1>1, <1>2, <1>6 DEF Flush
    <3>2. /\ reactor = "live" => rlock = None
          /\ UNCHANGED <<reactor, dispatch_count, rlock>>
      BY <3>1 DEF R!Callback, R!nodeVars
    <3>3. dispatch' = [dispatch EXCEPT ![N] = new]
      BY <2>2, <2>3, <2>4, <3>1 DEF R!Callback
    <3> QED
      BY <3>2, <3>3
  <2>6. d \in DispatchObject /\ d.count \in Int /\ d.lost \in Nat /\ d.executed \in Nat
    <3>1. d \in DispatchObject
      BY <2>1, <2>2 DEF TypeInv, ReactorTypes
    <3> QED
      BY <3>1 DEF DispatchObject
  <2>7. d.executed = 0
    <3>1. ~ d.executed > 0
      BY <2>1, <2>2 DEF CallInv, ExecutedIsDone
    <3> QED
      BY <2>6, <3>1
  <2>8. /\ c \in DispatchObject /\ c.count = d.count - 1 /\ c.lost = d.lost /\ c.st = d.st
        /\ c.executed = 0
    <3>1. d.count - 1 \in Int /\ c = [d EXCEPT !.count = d.count - 1]
      BY <2>3, <2>6 DEF R!Counted
    <3>2. c.count = d.count - 1 /\ c.lost = d.lost /\ c.st = d.st /\ c.executed = d.executed
      BY <2>6, <3>1 DEF DispatchObject
    <3>3. c \in DispatchObject
      BY <2>6, <3>1 DEF DispatchObject
    <3> QED
      BY <2>7, <3>2, <3>3
  <2>9. dispatch'[N] = new /\ \A n \in 1..dispatch_count : n # N => dispatch'[n] = dispatch[n]
    BY <2>1, <2>5 DEF TypeInv, ReactorTypes
  <2>10. Dispatching'
    <3>1. \A u \in Threads : op[u].at # "reactor"
      BY <2>5, QueueAssumption DEF CallInv, Dispatching
    <3> QED
      BY <1>4, <3>1 DEF Dispatching
  <2>11. HeldIsDispatched'
    BY <1>3, <2>5 DEF CallInv, HeldIsDispatched
  <2>12. \A n \in Nat : n # N => Out(n)' = Out(n)
    BY <1>3 DEF Out
  <2>13. Out(N)' = Out(N) \ {f}
    BY <1>3, <1>6 DEF Out
  <2>14. \A n \in 1..dispatch_count : n # N =>
           n \in 1..dispatch_count /\ dispatch'[n] = dispatch[n] /\ Out(n)' = Out(n)
    BY <2>1, <2>9, <2>12
  <2>15. CountIsOut' /\ ExecutedIsDone'
    <3>1. CASE reactor = "live"
      <4>1. d.st = "open" /\ d.count = d.lost + Cardinality(Out(N))
        BY <2>1, <2>2, <3>1 DEF CallInv, CountIsOut
      <4>2. IsFiniteSet(Out(N)) /\ Cardinality(Out(N)) \in Nat
        BY OutIsFinite
      <4>3. /\ IsFiniteSet(Out(N) \ {f})
            /\ Cardinality(Out(N) \ {f}) = Cardinality(Out(N)) - 1
            /\ Cardinality(Out(N) \ {f}) \in Nat
        BY <2>1, <4>2, FS_RemoveElement, FS_CardinalityType
      <4>4. Cardinality(Out(N)') = Cardinality(Out(N)) - 1 /\ Cardinality(Out(N)') \in Nat
        BY <2>13, <4>3
      <4>5. c.count = c.lost + Cardinality(Out(N)')
        BY <2>6, <2>8, <4>1, <4>2, <4>4
      <4>6. CASE c.count = 0
        <5>1. new = R!Execute(c)
          BY <2>4, <3>1, <4>6
        <5>2. new.executed = c.executed + 1 /\ new.st = "freed"
          BY <2>8, <5>1 DEF R!Execute, DispatchObject
        <5>3. Cardinality(Out(N)') = 0
          <6>1. PICK z \in Nat : z = Cardinality(Out(N)')
            BY <4>4
          <6>2. c.lost \in Nat /\ 0 = c.lost + z
            BY <2>6, <2>8, <4>5, <4>6, <6>1
          <6> QED
            BY <6>1, <6>2
        <5>4. Out(N)' = {}
          BY <2>13, <4>3, <5>3, FS_EmptySet
        <5>5. dispatch'[N].executed = 1 /\ dispatch'[N].st = "freed"
          BY <2>8, <2>9, <5>2
        <5> QED
          BY <1>3, <2>1, <2>5, <2>14, <5>4, <5>5, OneCounted
      <4>7. CASE c.count # 0
        <5>1. dispatch'[N] = c
          BY <2>4, <2>9, <3>1, <4>7
        <5> QED
          BY <1>3, <2>1, <2>5, <2>8, <2>14, <4>1, <4>5, <5>1, OneCounted
      <4> QED
        BY <4>6, <4>7
    <3>2. CASE reactor # "live"
      <4>1. new \in {d, c, [c EXCEPT !.st = "freed"]}
        BY <2>4, <3>2
      <4>2. [c EXCEPT !.st = "freed"].executed = c.executed
        BY <2>8 DEF DispatchObject
      <4>3. dispatch'[N].executed = 0
        BY <2>7, <2>8, <2>9, <4>1, <4>2
      <4> QED
        BY <1>3, <2>1, <2>5, <2>14, <3>2, <4>3, OneCounted
    <3> QED
      BY <3>1, <3>2
  <2> QED
    BY <1>3, <2>10, <2>11, <2>15 DEF CallInv
<1> QED
  BY <1>5, <1>6

(* What a thread of the pools or of a fork does is not in a reactor.       *)
LEMMA PoolDispatchOps ==
  ASSUME TypeInv, NEW t \in Threads, NEW f, NEW p, NEW s, NEW signal,
         P!DispatchBegin(t, p, s) \/ P!DispatchSend(t, f, signal) \/ P!DispatchEnd(t)
  PROVE  \A u \in Threads : op'[u] = op[u] \/ (op[u].at # "reactor" /\ op'[u].at # "reactor")
<1>1. \A u \in Threads \ {t} : op'[u] = op[u]
  BY DEF TypeInv, P!DispatchBegin, P!DispatchSend, P!DispatchEnd
<1>2. op[t].at # "reactor" /\ op[t] \in Op
  BY DEF TypeInv, P!DispatchBegin, P!Idle, P!DispatchSend, P!DispatchEnd
<1>3. op'[t].at # "reactor"
  <2>1. CASE P!DispatchBegin(t, p, s)
    BY <1>2, <2>1 DEF TypeInv, Op, P!DispatchBegin
  <2>2. CASE P!DispatchSend(t, f, signal)
    BY <1>2, <2>2 DEF TypeInv, Op, P!DispatchSend
  <2>3. CASE P!DispatchEnd(t)
    BY <1>2, <2>3 DEF TypeInv, Op, P!DispatchEnd, P!User
  <2> QED
    BY <2>1, <2>2, <2>3
<1> QED
  BY <1>1, <1>2, <1>3

(* The messages of the pools are nobody's dispatch.                        *)
LEMMA PoolCalls ==
  ASSUME TypeInv, CallInv, NEW t \in Threads, PoolDispatch(t)
  PROVE  CallInv'
<1>1. /\ flushing' = flushing /\ UNCHANGED <<dispatch, dispatch_count, rlock>>
      /\ reactor' = reactor
  BY DEF PoolDispatch, reactorVars
<1>2. \A u \in Threads : op'[u] = op[u] \/ (op[u].at # "reactor" /\ op'[u].at # "reactor")
  BY PoolDispatchOps DEF PoolDispatch
<1>3. Moved
  <2>1. CASE UNCHANGED <<messages, prev_msgs, handling>>
    BY <1>1, <2>1, Still
  <2>2. ASSUME NEW f \in Fusionees, op[t].pool \in Pools,
               P!Q!Send(f, P!Remap(op[t].pool, op[t].n))
        PROVE  Moved
    <3>1. PICK m : m = P!Remap(op[t].pool, op[t].n)
      OBVIOUS
    <3>2. op[t].n \in Nat
      BY DEF TypeInv, Op
    <3>3. m \in Message /\ ~ m.tracked
      BY <2>2, <3>1, <3>2 DEF P!Remap, Message, Keys
    <3>4. Q!Send(f, m)
      BY <2>2, <3>1, SendIsSend
    <3>5. /\ HeldOnce' /\ HandledIsKept'
          /\ \A g \in Fusionees, n \in Nat :
               Holds(g, n)' <=> Holds(g, n) \/ (g = f /\ m.tracked /\ m.n = n)
      BY <1>1, <3>3, <3>4, SendHolds
    <3> QED
      BY <3>3, <3>5 DEF Moved
  <2>3. ASSUME NEW f \in Fusionees, P!DispatchSend(t, f, May("signal"))
        PROVE  \/ UNCHANGED <<messages, prev_msgs, handling>>
               \/ op[t].pool \in Pools /\ P!Q!Send(f, P!Remap(op[t].pool, op[t].n))
    BY <2>3 DEF P!DispatchSend, P!queueVars, TypeInv, PoolNamed
  <2> QED
    BY <2>1, <2>2, <2>3 DEF PoolDispatch, P!DispatchBegin, P!DispatchEnd, P!queueVars
<1> QED
  BY <1>1, <1>2, <1>3, CallKept

LEMMA IoctlCalls ==
  ASSUME TypeInv, CallInv, NEW t \in Threads, Ioctl(t)
  PROVE  CallInv'
<1>1. Moved /\ \A u \in Threads : op'[u] = op[u]
  BY Still DEF Ioctl, queueVars
<1>2. UNCHANGED <<dispatch, dispatch_count, rlock>>
  BY DEF Ioctl, ReactorIoctl, R!Attach, R!Detach, R!SetDispatchCallback, R!Destroy, R!New,
         R!dispVars, reactorVars
<1>3. \/ reactor' = reactor
      \/ rlock = None /\ reactor' = "gone"
      \/ dispatch_count = 0 /\ reactor' = "live"
  <2>1. CASE ReactorIoctl(t)
    BY <2>1 DEF ReactorIoctl, R!Attach, R!Detach, R!SetNodes, R!SetDispatchCallback, R!Destroy, R!Lockable
  <2>2. CASE R!New
    BY <2>2 DEF R!New, CallInv, HeldIsDispatched
  <2>3. CASE UNCHANGED reactorVars
    BY <2>3 DEF reactorVars
  <2> QED
    BY <2>1, <2>2, <2>3 DEF Ioctl
<1> QED
  BY <1>1, <1>2, <1>3, CallKept

(* A fork, or the exit of a fusionee, after it has left the list.          *)
LEMMA CrowdCalls ==
  ASSUME TypeInv, CallInv,
         \/ \E t \in Threads : ForkPools(t) \/ ForkReactors(t)
         \/ \E f \in Fusionees : LeaveReactor(f) \/ LeavePools(f)
  PROVE  CallInv'
<1> DEFINE Ops == \A u \in Threads : op'[u] = op[u] \/ (op[u].at # "reactor" /\ op'[u].at # "reactor")
<1>1. Moved
  BY Still DEF ForkPools, ForkReactors, LeaveReactor, LeavePools, queueVars
<1>2. /\ UNCHANGED <<dispatch, dispatch_count, rlock>>
      /\ reactor' = reactor \/ (rlock = None /\ reactor' = "gone")
  BY DEF ForkPools, ForkReactors, LeaveReactor, LeavePools, R!ForkAll, R!DetachAll, R!SetNodes,
         R!dispVars, reactorVars
<1>3. Ops
  <2>1. CASE op' = op
    BY <2>1
  <2>2. ASSUME NEW t \in Threads, ForkPools(t) PROVE Ops
    BY <2>2 DEF ForkPools, P!Idle, TypeInv, Op
  <2>3. ASSUME NEW t \in Threads, ForkReactors(t) PROVE Ops
    BY <2>3 DEF ForkReactors, P!User, TypeInv, Op
  <2> QED
    BY <2>1, <2>2, <2>3 DEF LeaveReactor, LeavePools
<1> QED
  BY <1>1, <1>2, <1>3, CallKept

LEMMA NextCalls == TypeInv /\ CallInv /\ [Next]_vars => CallInv'
<1> SUFFICES ASSUME TypeInv, CallInv, [Next]_vars PROVE CallInv'
  OBVIOUS
<1>1. ASSUME Moved, UNCHANGED <<dispatch, dispatch_count, rlock, reactor, op>> PROVE CallInv'
  BY <1>1, CallKept
<1>2. ASSUME NEW t \in Threads, Ioctl(t) PROVE CallInv'
  BY <1>2, IoctlCalls
<1>3. ASSUME NEW t \in Threads, ReactorDispatch(t) PROVE CallInv'
  <2>1. flushing' = flushing
    BY <1>3 DEF ReactorDispatch
  <2>2. ASSUME NEW ch, NEW self, R!DispatchBegin(t, ch, self) PROVE CallInv'
    BY <2>1, <2>2, BeginCalls
  <2>3. ASSUME NEW f, NEW signal, R!DispatchSend(t, f, signal) PROVE CallInv'
    BY <2>1, <2>3, SendCalls
  <2>4. CASE R!DispatchEnd(t)
    BY <2>1, <2>4, EndCalls
  <2> QED
    BY <1>3, <2>2, <2>3, <2>4 DEF ReactorDispatch
<1>4. ASSUME NEW t \in Threads, PoolDispatch(t) PROVE CallInv'
  BY <1>4, PoolCalls
<1>5. ASSUME NEW t \in Threads, Read(t) \/ ReadOn(t) PROVE CallInv'
  <2>1. Moved
    BY <1>5, ReadMoves
  <2> QED
    BY <1>1, <1>5, <2>1 DEF Read, ReadOn, reactorVars
<1>6. ASSUME NEW f \in Fusionees, Leave(f) PROVE CallInv'
  <2>1. Moved
    BY <1>6, LeaveMoves
  <2> QED
    BY <1>1, <1>6, <2>1 DEF Leave, reactorVars
<1>7. ASSUME NEW f \in Fusionees, Flush(f) PROVE CallInv'
  BY <1>7, FlushCalls
<1>8. CASE UNCHANGED vars
  <2>1. Moved
    BY <1>8, Still DEF vars, queueVars
  <2> QED
    BY <1>1, <1>8, <2>1 DEF vars, reactorVars
<1> QED
  BY <1>2, <1>3, <1>4, <1>5, <1>6, <1>7, <1>8, CrowdCalls DEF Next

(* "This will execute a single call after a dispatch has been performed on *)
(* this reactor and all attached fusionees have read the messages"         *)
(* (doc/fusion.tmpl:1096): a dispatch is executed once at most, not while  *)
(* its messages are being sent, and not while one of them is queued or in  *)
(* the hands of a reader.                                                  *)
THEOREM CalledSafe == Spec => []CalledAfterAll
<1>1. Init => CallInv
  <2> SUFFICES ASSUME Init PROVE CallInv
    OBVIOUS
  <2>1. /\ dispatch_count = 0 /\ rlock = None /\ \A t \in Threads : op[t].at = "user"
        /\ messages = [f \in Fusionees |-> <<>>] /\ prev_msgs = [f \in Fusionees |-> <<>>]
        /\ handling = [f \in Fusionees |-> <<>>] /\ flushing = [f \in Fusionees |-> <<>>]
    BY DEF Init, Q!Init, R!Init, P!User
  <2>2. (\A n : ~ Has(<<>>, n)) /\ Once(<<>>) /\ \A s : Apart(s, <<>>) /\ Apart(<<>>, s)
    BY HasNone
  <2>3. HeldOnce /\ HandledIsKept
    BY <2>1, <2>2 DEF HeldOnce, HandledIsKept
  <2>4. HeldIsDispatched
    BY <2>1, <2>2 DEF HeldIsDispatched, Holds
  <2>5. CountIsOut /\ ExecutedIsDone /\ Dispatching
    BY <2>1 DEF CountIsOut, ExecutedIsDone, Dispatching
  <2> QED
    BY <2>3, <2>4, <2>5 DEF CallInv
<1>2. TypeInv /\ CallInv => CalledAfterAll
  <2> SUFFICES ASSUME TypeInv, CallInv, NEW n \in 1..dispatch_count, dispatch[n].executed > 0
               PROVE  /\ dispatch[n].executed = 1
                      /\ \A f \in Fusionees : \A m \in ToSet(messages[f] \o handling[f]) :
                           ~ (m.tracked /\ m.n = n)
                      /\ \A t \in Threads : ~ (op[t].at = "reactor" /\ op[t].n = n)
    BY DEF CalledAfterAll
  <2>1. dispatch[n].executed = 1 /\ Out(n) = {} /\ n \in Nat
    BY DEF CallInv, ExecutedIsDone
  <2>2. ASSUME NEW f \in Fusionees, NEW m \in ToSet(messages[f] \o handling[f]), m.tracked, m.n = n
        PROVE  FALSE
    <3>1. messages[f] \in Seq(Message) /\ handling[f] \in Seq(Message)
      BY DEF TypeInv, Q!TypeOK
    <3>2. Has(messages[f] \o handling[f], n)
      BY <2>2 DEF ToSet, Has
    <3>3. Has(messages[f], n) \/ Has(handling[f], n)
      BY <2>1, <3>1, <3>2, HasConcat
    <3>4. Holds(f, n)
      BY <2>1, <3>3 DEF CallInv, HandledIsKept, Holds
    <3> QED
      BY <2>1, <3>4 DEF Out
  <2>3. ASSUME NEW t \in Threads, op[t].at = "reactor", op[t].n = n PROVE FALSE
    BY <2>3 DEF CallInv, Dispatching
  <2> QED
    BY <2>1, <2>2, <2>3
<1> QED
  BY <1>1, <1>2, InitTypes, NextTypes, NextCalls, PTL DEF Spec

-----------------------------------------------------------------------------
(* The queues themselves, whoever uses them: Q!Spec has sends from         *)
(* anywhere, any reader, and threads that wait for a message to be         *)
(* processed.  For the kernel a message is in work while it is in          *)
(* prev_msgs; what the dispatcher has in hand must be there if it is       *)
(* tracked.  A reader in the loop of a blocking read has nothing in hand.  *)
WorkIsKept ==
  \A f \in Fusionees : \A m \in Message :
    m.tracked /\ Contains(handling[f], m) => Contains(prev_msgs[f], m)

ReaderIsDone ==
  \A t \in Threads : qop[t].at = "reading" => t = Reader[Fid[t]] /\ handling[Fid[t]] = <<>>

QueueInv == Q!TypeOK /\ WorkIsKept /\ ReaderIsDone

\* A sequence after another, element by element.
LEMMA ConcatIs ==
  ASSUME NEW s \in Seq(Message), NEW u \in Seq(Message)
  PROVE  /\ s \o u \in Seq(Message) /\ Len(s \o u) = Len(s) + Len(u)
         /\ \A i \in 1..Len(s) : (s \o u)[i] = s[i]
         /\ \A i \in 1..Len(u) : (s \o u)[Len(s) + i] = u[i]
         /\ \A m \in Message : s \o Append(u, m) = Append(s \o u, m)
<1>1. s \o u \in Seq(Message) /\ Len(s \o u) = Len(s) + Len(u)
  OBVIOUS
<1>2. /\ \A i \in 1..Len(s) : (s \o u)[i] = s[i]
      /\ \A i \in 1..Len(u) : (s \o u)[Len(s) + i] = u[i]
  OBVIOUS
<1>3. ASSUME NEW m \in Message PROVE s \o Append(u, m) = Append(s \o u, m)
  OBVIOUS
<1> QED
  BY <1>1, <1>2, <1>3

LEMMA InConcat ==
  ASSUME NEW s \in Seq(Message), NEW u \in Seq(Message), NEW m
  PROVE  Contains(s \o u, m) <=> Contains(s, m) \/ Contains(u, m)
<1> DEFINE a == s \o u
<1>1. /\ Len(a) = Len(s) + Len(u) /\ DOMAIN a = 1..Len(a)
      /\ \A i \in 1..Len(s) : a[i] = s[i]
      /\ \A i \in 1..Len(u) : a[Len(s) + i] = u[i]
  OBVIOUS
<1>2. Len(s) \in Nat /\ Len(u) \in Nat /\ DOMAIN s = 1..Len(s) /\ DOMAIN u = 1..Len(u)
  OBVIOUS
<1> HIDE DEF a
<1>3. ASSUME NEW i \in DOMAIN a, a[i] = m PROVE Contains(s, m) \/ Contains(u, m)
  <2>1. CASE i <= Len(s)
    BY <1>1, <1>2, <1>3, <2>1 DEF Contains
  <2>2. CASE i > Len(s)
    <3>1. i - Len(s) \in 1..Len(u) /\ i = Len(s) + (i - Len(s))
      BY <1>1, <1>2, <1>3, <2>2
    <3> QED
      BY <1>1, <1>2, <1>3, <3>1 DEF Contains
  <2> QED
    BY <1>1, <1>2, <2>1, <2>2
<1>4. ASSUME Contains(s, m) PROVE Contains(a, m)
  BY <1>1, <1>2, <1>4 DEF Contains
<1>5. ASSUME Contains(u, m) PROVE Contains(a, m)
  <2>1. PICK i \in 1..Len(u) : u[i] = m
    BY <1>2, <1>5 DEF Contains
  <2>2. Len(s) + i \in DOMAIN a
    BY <1>1, <1>2
  <2> QED
    BY <1>1, <2>1, <2>2 DEF Contains
<1>6. Contains(a, m) <=> Contains(s, m) \/ Contains(u, m)
  BY <1>3, <1>4, <1>5 DEF Contains
<1> QED
  BY <1>6 DEF a

(* A read keeps each tracked message of its batch.                         *)
LEMMA TrackedIsKept ==
  ASSUME NEW b \in Seq(Message), NEW m, m.tracked, Contains(b, m)
  PROVE  Contains(Q!Tracked(b), m)
<1> DEFINE I == {i \in DOMAIN b : b[i].tracked}
<1>1. I \in SUBSET DOMAIN b
  OBVIOUS
<1>2. PICK i \in I : b[i] = m
  BY DEF Contains
<1> HIDE DEF I
<1>3. Q!Picked(b, I) \in Seq(Message) /\ Picks(Q!Picked(b, I), b, I)
  BY <1>1, QueuesPick
<1>4. Q!Tracked(b) = Q!Picked(b, I)
  BY DEF Q!Tracked, I
<1>5. PICK j \in 1..Len(Q!Picked(b, I)) : Q!Picked(b, I)[j] = b[i]
  BY <1>2, <1>3 DEF Picks
<1> QED
  BY <1>2, <1>3, <1>4, <1>5 DEF Contains

(* A batch and the rest are the queue.                                     *)
LEMMA BatchAndRest ==
  ASSUME NEW s \in Seq(Message), NEW k \in 0..Len(s)
  PROVE  SubSeq(s, 1, k) \o SubSeq(s, k + 1, Len(s)) = s
<1> DEFINE b == SubSeq(s, 1, k)
           r == SubSeq(s, k + 1, Len(s))
<1>1. /\ Len(s) \in Nat /\ Len(b) = k /\ Len(r) = Len(s) - k
      /\ \A i \in 1..k : b[i] = s[i]
      /\ \A i \in 1..(Len(s) - k) : r[i] = s[k + i]
      /\ b \in Seq(Message) /\ r \in Seq(Message)
  <2>1. Len(b) = k /\ \A i \in 1..k : b[i] = s[i]
    OBVIOUS
  <2>2. Len(r) = Len(s) - k /\ \A i \in 1..(Len(s) - k) : r[i] = s[k + i]
    OBVIOUS
  <2>3. Len(s) \in Nat /\ b \in Seq(Message) /\ r \in Seq(Message)
    OBVIOUS
  <2> QED
    BY <2>1, <2>2, <2>3
<1> HIDE DEF b, r
<1> DEFINE a == b \o r
<1>2. /\ a \in Seq(Message) /\ Len(a) = Len(s)
      /\ \A i \in 1..k : a[i] = b[i]
      /\ \A i \in 1..(Len(s) - k) : a[k + i] = r[i]
  <2>1. b \in Seq(Message) /\ r \in Seq(Message)
    BY <1>1
  <2>2. /\ a \in Seq(Message) /\ Len(a) = Len(b) + Len(r)
        /\ \A i \in 1..Len(b) : a[i] = b[i]
        /\ \A i \in 1..Len(r) : a[Len(b) + i] = r[i]
    BY <2>1, ConcatIs
  <2> HIDE DEF a
  <2> QED
    BY <1>1, <2>2
<1> HIDE DEF a
<1>3. ASSUME NEW i \in 1..Len(s) PROVE a[i] = s[i]
  <2>1. CASE i <= k
    BY <1>1, <1>2, <2>1
  <2>2. CASE i > k
    <3> DEFINE j == i - k
    <3>1. j \in 1..(Len(s) - k) /\ i = k + j
      BY <1>1, <2>2
    <3> HIDE DEF j
    <3>2. a[k + j] = r[j] /\ r[j] = s[k + j]
      BY <1>1, <1>2, <3>1
    <3> QED
      BY <3>1, <3>2
  <2> QED
    BY <1>1, <2>1, <2>2
<1>4. a = s
  BY <1>1, <1>2, <1>3
<1> QED
  BY <1>4 DEF a, b, r

(* Who waits for a message to be processed is a thread like any other.     *)
LEMMA WaitTypes ==
  ASSUME Q!TypeOK, NEW t \in Threads,
         (\E key \in Keys : Q!WaitProcessing(t, key)) \/ Q!ProcessingWoken(t)
  PROVE  Q!TypeOK'
<1>1. UNCHANGED <<listed, messages, prev_msgs, dispatcher_pid, handling>>
  BY DEF Q!WaitProcessing, Q!ProcessingWoken
<1>2. /\ wait' = wait \/ wait' = [wait EXCEPT ![Fid[t]] = @ \cup {t}]
      /\ \/ qop' = qop \/ qop' = [qop EXCEPT ![t] = Q!QAt("user")]
         \/ \E key \in Keys : qop' = [qop EXCEPT ![t] = [at |-> "processing", key |-> key]]
  BY DEF Q!WaitProcessing, Q!ProcessingWoken
<1>3. wait' \in [Fusionees -> SUBSET Threads]
  <2>1. Fid[t] \in Fusionees /\ wait \in [Fusionees -> SUBSET Threads]
    BY QueueAssumption DEF Q!TypeOK
  <2>2. CASE wait' = [wait EXCEPT ![Fid[t]] = @ \cup {t}]
    BY <2>1, <2>2
  <2> QED
    BY <1>2, <2>1, <2>2
<1>4. qop' \in [Threads -> Q!QOp]
  <2>1. Q!QAt("user") \in Q!QOp /\ \A key \in Keys : [at |-> "processing", key |-> key] \in Q!QOp
    BY DEF Q!QAt, Q!QOp
  <2> QED
    BY <1>2, <2>1 DEF Q!TypeOK
<1> QED
  BY <1>1, <1>3, <1>4 DEF Q!TypeOK

LEMMA ReleaseTypes ==
  ASSUME Q!TypeOK, NEW f \in Fusionees, Q!Release(f)
  PROVE  Q!TypeOK'
<1>1. qop' \in [Threads -> Q!QOp]
  BY DEF Q!TypeOK, Q!Release, Q!QAt, Q!QOp
<1>2. <<>> \in Seq(Message)
  OBVIOUS
<1> QED
  BY <1>1, <1>2 DEF Q!TypeOK, Q!Release

(* A read hands out the beginning of the queue, and leaves the rest.       *)
LEMMA DeliverKeeps ==
  ASSUME Q!TypeOK, NEW f \in Fusionees, NEW before \in Seq(Message),
         NEW k \in 0..Len(messages[f]), Q!Deliver(f, k, before)
  PROVE  /\ handling'[f] \o messages'[f] = messages[f]
         /\ \A m \in Message : m.tracked /\ Contains(handling'[f], m) => Contains(prev_msgs'[f], m)
         /\ \A g \in Fusionees \ {f} : /\ messages'[g] = messages[g]
                                       /\ handling'[g] = handling[g]
                                       /\ prev_msgs'[g] = prev_msgs[g]
<1> DEFINE b == SubSeq(messages[f], 1, k)
           rest == SubSeq(messages[f], k + 1, Len(messages[f]))
           kept == before \o Q!Tracked(b)
<1>1. messages[f] \in Seq(Message)
  BY DEF Q!TypeOK
<1>2. b \in Seq(Message) /\ Q!Tracked(b) \in Seq(Message)
  BY <1>1, BatchTypes
<1>3. b \o rest = messages[f]
  BY <1>1, BatchAndRest
<1>4. \A m \in Message : m.tracked /\ Contains(b, m) => Contains(kept, m)
  BY <1>2, TrackedIsKept, InConcat
<1>5. /\ messages' = [messages EXCEPT ![f] = rest]
      /\ prev_msgs' = [prev_msgs EXCEPT ![f] = kept]
      /\ handling' = [handling EXCEPT ![f] = b]
  BY DEF Q!Deliver
<1> HIDE DEF b, rest, kept
<1>6. messages'[f] = rest /\ handling'[f] = b /\ prev_msgs'[f] = kept
  BY <1>5 DEF Q!TypeOK
<1>7. \A g \in Fusionees \ {f} : /\ messages'[g] = messages[g]
                                /\ handling'[g] = handling[g]
                                /\ prev_msgs'[g] = prev_msgs[g]
  BY <1>5 DEF Q!TypeOK
<1> QED
  BY <1>3, <1>4, <1>6, <1>7

\* What a step may do to what is in work and in the queue of a fusionee.
InTurn(f) ==
  LET before == handling[f] \o messages[f]
      after  == handling'[f] \o messages'[f]
  IN \/ after \in {before, messages[f]}
     \/ \E m \in Message : after = Append(before, m)

\* A step hands out, drops what is done, or appends, and keeps what is in work.
Orderly ==
  /\ \A f \in listed' : InTurn(f)
  /\ WorkIsKept'

(* Nothing in hand, and the queue as it was.                               *)
LEMMA EmptyHands ==
  ASSUME NEW s \in Seq(Message)
  PROVE  <<>> \o s = s /\ \A m : ~ Contains(<<>>, m)
<1>1. <<>> \o s = s
  OBVIOUS
<1>2. \A m : ~ Contains(<<>>, m)
  BY DEF Contains
<1> QED
  BY <1>1, <1>2

LEMMA SendOrder ==
  ASSUME QueueInv, NEW f \in Fusionees, NEW m \in Message, Q!Send(f, m)
  PROVE  Orderly
<1>1. /\ messages' = [messages EXCEPT ![f] = Append(@, m)]
      /\ handling' = handling /\ prev_msgs' = prev_msgs /\ listed' = listed
  BY DEF Q!Send
<1>2. Q!TypeOK
  BY DEF QueueInv
<1>3. messages[f] \in Seq(Message) /\ handling[f] \in Seq(Message) /\ listed \subseteq Fusionees
  BY <1>2 DEF Q!TypeOK
<1>4. handling[f] \o Append(messages[f], m) = Append(handling[f] \o messages[f], m)
  BY <1>3, ConcatIs
<1>5. messages'[f] = Append(messages[f], m) /\ \A g \in Fusionees \ {f} : messages'[g] = messages[g]
  BY <1>1, <1>2 DEF Q!TypeOK
<1>6. \A g \in listed' : InTurn(g)
  BY <1>1, <1>3, <1>4, <1>5 DEF InTurn
<1>7. WorkIsKept'
  BY <1>1 DEF QueueInv, WorkIsKept
<1> QED
  BY <1>6, <1>7 DEF Orderly

LEMMA ReadOrder ==
  ASSUME QueueInv, NEW t \in Threads,
         Q!ReadSleep(t) \/ Q!ReadNow(t) \/ Q!ReadWoken(t) \/ Q!Poll(t)
  PROVE  Orderly
<1> DEFINE f == Fid[t]
<1>1. Q!TypeOK /\ f \in Fusionees
  BY QueueAssumption DEF QueueInv
<1>2. /\ messages[f] \in Seq(Message) /\ handling[f] \in Seq(Message)
      /\ prev_msgs[f] \in Seq(Message) /\ listed \subseteq Fusionees
  BY <1>1 DEF Q!TypeOK
<1>3. listed' = listed
  BY DEF Q!ReadSleep, Q!ReadNow, Q!ReadWoken, Q!Poll
<1>4. ASSUME messages' = messages, handling' = [handling EXCEPT ![f] = <<>>],
             prev_msgs' = [prev_msgs EXCEPT ![f] = <<>>]
      PROVE  Orderly
  <2>1. handling'[f] = <<>> /\ \A g \in Fusionees \ {f} : handling'[g] = handling[g]
                                                       /\ prev_msgs'[g] = prev_msgs[g]
    BY <1>1, <1>4 DEF Q!TypeOK
  <2>2. handling'[f] \o messages'[f] = messages[f]
    BY <1>2, <1>4, <2>1, EmptyHands
  <2>3. \A g \in listed' : InTurn(g)
    BY <1>2, <1>3, <1>4, <2>1, <2>2 DEF InTurn
  <2>4. \A m : ~ Contains(handling'[f], m)
    BY <2>1, EmptyHands, <1>2
  <2>5. WorkIsKept'
    BY <2>1, <2>4 DEF QueueInv, WorkIsKept, Contains
  <2> QED
    BY <2>3, <2>5 DEF Orderly
<1>5. ASSUME NEW before \in Seq(Message), NEW k \in 0..Len(messages[f]), Q!Deliver(f, k, before)
      PROVE  Orderly
  <2>1. /\ handling'[f] \o messages'[f] = messages[f]
        /\ \A m \in Message : m.tracked /\ Contains(handling'[f], m) => Contains(prev_msgs'[f], m)
        /\ \A g \in Fusionees \ {f} : /\ messages'[g] = messages[g]
                                      /\ handling'[g] = handling[g]
                                      /\ prev_msgs'[g] = prev_msgs[g]
    BY <1>1, <1>5, DeliverKeeps
  <2>2. \A g \in listed' : InTurn(g)
    BY <1>2, <1>3, <2>1 DEF InTurn
  <2>3. WorkIsKept'
    BY <2>1 DEF QueueInv, WorkIsKept
  <2> QED
    BY <2>2, <2>3 DEF Orderly
<1>6. ASSUME UNCHANGED <<messages, handling, prev_msgs>> PROVE Orderly
  BY <1>3, <1>6 DEF Orderly, InTurn, QueueInv, WorkIsKept, Contains
<1>7. CASE Q!ReadSleep(t) \/ Q!Poll(t)
  BY <1>4, <1>7 DEF Q!ReadSleep, Q!Poll
<1>8. CASE Q!ReadNow(t)
  <2>1. PICK k \in 0..Len(messages[f]) : Q!Deliver(f, k, <<>>)
    BY <1>8 DEF Q!ReadNow
  <2>2. <<>> \in Seq(Message)
    OBVIOUS
  <2> QED
    BY <1>5, <2>1, <2>2
<1>9. CASE Q!ReadWoken(t)
  <2>1. \/ UNCHANGED <<messages, handling, prev_msgs>>
        \/ \E k \in 0..Len(messages[f]) : Q!Deliver(f, k, prev_msgs[f])
    BY <1>9 DEF Q!ReadWoken
  <2> QED
    BY <1>2, <1>5, <1>6, <2>1
<1> QED
  BY <1>7, <1>8, <1>9

LEMMA QueueOrder ==
  ASSUME QueueInv, [Q!Next]_(Q!vars)
  PROVE  Orderly
<1>1. ASSUME UNCHANGED <<messages, handling, prev_msgs>> PROVE Orderly
  BY <1>1 DEF Orderly, InTurn, QueueInv, WorkIsKept, Contains
<1>2. ASSUME NEW f \in Fusionees, Q!Release(f) PROVE Orderly
  <2>1. /\ listed' = listed \ {f}
        /\ messages' = [messages EXCEPT ![f] = <<>>]
        /\ prev_msgs' = [prev_msgs EXCEPT ![f] = <<>>]
        /\ handling' = [handling EXCEPT ![f] = <<>>]
    BY <1>2 DEF Q!Release
  <2>2. Q!TypeOK
    BY DEF QueueInv
  <2>3. \A g \in Fusionees \ {f} : /\ messages'[g] = messages[g]
                                  /\ handling'[g] = handling[g]
                                  /\ prev_msgs'[g] = prev_msgs[g]
    BY <2>1, <2>2 DEF Q!TypeOK
  <2>4. \A g \in listed' : InTurn(g)
    BY <2>1, <2>2, <2>3 DEF InTurn, Q!TypeOK
  <2>5. handling'[f] = <<>>
    BY <2>1, <2>2 DEF Q!TypeOK
  <2>6. WorkIsKept'
    BY <2>3, <2>5 DEF QueueInv, WorkIsKept, Contains
  <2> QED
    BY <2>4, <2>6 DEF Orderly
<1>3. ASSUME NEW t \in Threads,
             Q!ProcessingWoken(t) \/ Q!Interrupt(t) \/ \E key \in Keys : Q!WaitProcessing(t, key)
      PROVE  Orderly
  BY <1>1, <1>3 DEF Q!ProcessingWoken, Q!Interrupt, Q!WaitProcessing
<1>4. CASE UNCHANGED Q!vars
  BY <1>1, <1>4 DEF Q!vars
<1> QED
  BY <1>2, <1>3, <1>4, SendOrder, ReadOrder DEF Q!Next

LEMMA QueueDone ==
  ASSUME QueueInv, [Q!Next]_(Q!vars)
  PROVE  ReaderIsDone'
<1>1. Q!TypeOK /\ \A u \in Threads : Fid[u] \in Fusionees
  BY QueueAssumption DEF QueueInv
<1> SUFFICES ASSUME NEW u \in Threads, qop'[u].at = "reading"
             PROVE  u = Reader[Fid[u]] /\ handling'[Fid[u]] = <<>>
  BY DEF ReaderIsDone
<1>2. ASSUME qop'[u] = qop[u], handling'[Fid[u]] = handling[Fid[u]] \/ handling'[Fid[u]] = <<>>
      PROVE  u = Reader[Fid[u]] /\ handling'[Fid[u]] = <<>>
  BY <1>2 DEF QueueInv, ReaderIsDone
<1>3. ASSUME NEW t \in Threads, Q!ReadSleep(t)
      PROVE  u = Reader[Fid[u]] /\ handling'[Fid[u]] = <<>>
  <2>1. CASE t = u
    BY <1>1, <1>3, <2>1 DEF Q!ReadSleep, Q!TypeOK
  <2>2. CASE t # u
    BY <1>1, <1>2, <1>3, <2>2 DEF Q!ReadSleep, Q!TypeOK
  <2> QED
    BY <2>1, <2>2
<1>4. ASSUME NEW t \in Threads, Q!ReadNow(t)
      PROVE  u = Reader[Fid[u]] /\ handling'[Fid[u]] = <<>>
  <2>1. qop' = qop /\ t = Reader[Fid[t]] /\ qop[t].at = "user"
    BY <1>4 DEF Q!ReadNow, Q!InUser
  <2>2. u = Reader[Fid[u]]
    BY <2>1 DEF QueueInv, ReaderIsDone
  <2>3. Fid[t] # Fid[u]
    BY <2>1, <2>2
  <2>4. PICK k : Q!Deliver(Fid[t], k, <<>>)
    BY <1>4 DEF Q!ReadNow
  <2>5. handling'[Fid[u]] = handling[Fid[u]]
    BY <1>1, <2>3, <2>4 DEF Q!Deliver, Q!TypeOK
  <2> QED
    BY <1>2, <2>1, <2>5
<1>5. ASSUME NEW t \in Threads, Q!ReadWoken(t)
      PROVE  u = Reader[Fid[u]] /\ handling'[Fid[u]] = <<>>
  <2>1. CASE handling' = handling /\ qop' = qop
    BY <1>2, <2>1
  <2>2. CASE /\ \E k \in 0..Len(messages[Fid[t]]) : Q!Deliver(Fid[t], k, prev_msgs[Fid[t]])
             /\ qop' = [qop EXCEPT ![t] = Q!QAt("user")]
    <3>1. u # t
      BY <1>1, <2>2 DEF Q!TypeOK, Q!QAt
    <3>2. qop'[u] = qop[u]
      BY <1>1, <2>2, <3>1 DEF Q!TypeOK
    <3>3. u = Reader[Fid[u]] /\ t = Reader[Fid[t]]
      BY <1>5, <3>2 DEF QueueInv, ReaderIsDone, Q!ReadWoken
    <3>4. Fid[t] # Fid[u]
      BY <3>1, <3>3
    <3>5. handling'[Fid[u]] = handling[Fid[u]]
      BY <1>1, <2>2, <3>4 DEF Q!Deliver, Q!TypeOK
    <3> QED
      BY <1>2, <3>2, <3>5
  <2> QED
    BY <1>5, <2>1, <2>2 DEF Q!ReadWoken
<1>6. ASSUME NEW t \in Threads, Q!Poll(t)
      PROVE  u = Reader[Fid[u]] /\ handling'[Fid[u]] = <<>>
  BY <1>1, <1>2, <1>6 DEF Q!Poll, Q!TypeOK
<1>7. ASSUME NEW t \in Threads,
             Q!ProcessingWoken(t) \/ Q!Interrupt(t) \/ \E key \in Keys : Q!WaitProcessing(t, key)
      PROVE  u = Reader[Fid[u]] /\ handling'[Fid[u]] = <<>>
  <2>1. /\ handling' = handling
        /\ \/ qop' = qop \/ qop' = [qop EXCEPT ![t] = Q!QAt("user")]
           \/ \E key \in Keys : qop' = [qop EXCEPT ![t] = [at |-> "processing", key |-> key]]
    BY <1>7 DEF Q!ProcessingWoken, Q!Interrupt, Q!WaitProcessing
  <2>2. qop'[u] = qop[u]
    BY <1>1, <2>1 DEF Q!TypeOK, Q!QAt
  <2> QED
    BY <1>2, <2>1, <2>2
<1>8. ASSUME NEW f \in Fusionees, Q!Release(f)
      PROVE  u = Reader[Fid[u]] /\ handling'[Fid[u]] = <<>>
  <2>1. /\ handling' = [handling EXCEPT ![f] = <<>>]
        /\ qop' = [t \in Threads |-> IF Fid[t] = f THEN Q!QAt("dead") ELSE qop[t]]
    BY <1>8 DEF Q!Release
  <2>2. qop'[u] = qop[u]
    BY <2>1 DEF Q!QAt
  <2>3. handling'[Fid[u]] = handling[Fid[u]] \/ handling'[Fid[u]] = <<>>
    BY <1>1, <2>1 DEF Q!TypeOK
  <2> QED
    BY <1>2, <2>2, <2>3
<1>9. ASSUME NEW f \in Fusionees, NEW m \in Message, Q!Send(f, m)
      PROVE  u = Reader[Fid[u]] /\ handling'[Fid[u]] = <<>>
  BY <1>2, <1>9 DEF Q!Send
<1>10. CASE UNCHANGED Q!vars
  BY <1>2, <1>10 DEF Q!vars
<1> QED
  BY <1>3, <1>4, <1>5, <1>6, <1>7, <1>8, <1>9, <1>10 DEF Q!Next

LEMMA QueuesKeep == QueueInv /\ [Q!Next]_(Q!vars) => QueueInv'
<1> SUFFICES ASSUME QueueInv, [Q!Next]_(Q!vars) PROVE QueueInv'
  OBVIOUS
<1>1. Q!TypeOK
  BY DEF QueueInv
<1>2. Q!TypeOK'
  <2>1. CASE UNCHANGED Q!vars
    BY <1>1, <2>1 DEF Q!vars, Q!TypeOK
  <2> QED
    BY <1>1, <2>1, SendTypes, ReadTypes, WaitTypes, ReleaseTypes DEF Q!Next
<1>3. WorkIsKept' /\ ReaderIsDone'
  BY QueueOrder, QueueDone DEF Orderly
<1> QED
  BY <1>2, <1>3 DEF QueueInv

LEMMA QueuesStart == Q!Init => QueueInv
<1> SUFFICES ASSUME Q!Init PROVE QueueInv
  OBVIOUS
<1>1. Q!QAt("user") \in Q!QOp /\ <<>> \in Seq(Message) /\ Q!QAt("user").at = "user"
  BY DEF Q!QAt, Q!QOp
<1>2. Q!TypeOK
  BY <1>1 DEF Q!Init, Q!TypeOK
<1>3. WorkIsKept /\ ReaderIsDone
  BY <1>1 DEF Q!Init, WorkIsKept, ReaderIsDone, Contains
<1> QED
  BY <1>2, <1>3 DEF QueueInv

LEMMA QueuesInv == Q!Spec => []QueueInv
  BY QueuesStart, QueuesKeep, PTL DEF Q!Spec

(* Every queue hands out its messages in the order they were sent and each *)
(* once, whoever sends, reads, is interrupted and leaves (fusionee.c:399-  *)
(* 446, fifo.c).                                                           *)
THEOREM QueuesInOrder == Q!Spec => Q!InOrder
<1>1. QueueInv /\ [Q!Next]_(Q!vars) => [\A f \in listed' : InTurn(f)]_(Q!vars)
  BY QueueOrder DEF Orderly
<1>2. Q!InOrder <=> [][\A f \in listed' : InTurn(f)]_(Q!vars)
  BY DEF Q!InOrder, InTurn
<1> QED
  BY <1>1, <1>2, QueuesInv, PTL DEF Q!Spec

\* A thread that comes back from wait_processing finds its messages done.
ComesOut(t) ==
  qop[t].at = "processing" /\ t \notin wait[Fid[t]] /\ Q!ProcessingWoken(t) /\ qop'[t].at = "user"
WaitedOut(t) ==
  ComesOut(t) => \A m \in ToSet(messages[Fid[t]] \o handling[Fid[t]]) : m.tracked => m.id # qop[t].key

LEMMA WaitsAreOver ==
  ASSUME QueueInv, NEW t \in Threads
  PROVE  WaitedOut(t)
<1> SUFFICES ASSUME ComesOut(t), NEW m \in ToSet(messages[Fid[t]] \o handling[Fid[t]]), m.tracked
             PROVE  m.id # qop[t].key
  BY DEF WaitedOut
<1>1. ~ Q!Pending(Fid[t], qop[t].key)
  BY DEF ComesOut, Q!ProcessingWoken
<1>2. /\ Fid[t] \in Fusionees
      /\ messages[Fid[t]] \in Seq(Message) /\ handling[Fid[t]] \in Seq(Message)
  BY QueueAssumption DEF QueueInv, Q!TypeOK
<1>3. Contains(messages[Fid[t]], m) \/ Contains(handling[Fid[t]], m)
  <2> DEFINE a == messages[Fid[t]] \o handling[Fid[t]]
  <2>1. a \in Seq(Message) /\ m \in ToSet(a)
    BY <1>2, ConcatIs
  <2> HIDE DEF a
  <2>2. Contains(a, m)
    BY <2>1 DEF ToSet, Contains
  <2> QED
    BY <1>2, <2>2, InConcat DEF a
<1>4. m \in Message
  BY <1>2, <1>3 DEF Contains
<1>5. Contains(messages[Fid[t]], m) \/ Contains(prev_msgs[Fid[t]], m)
  BY <1>2, <1>3, <1>4 DEF QueueInv, WorkIsKept
<1>6. m \in ToSet(messages[Fid[t]]) \cup ToSet(prev_msgs[Fid[t]])
  BY <1>5 DEF Contains, ToSet
<1> QED
  BY <1>1, <1>6 DEF Q!Pending, Q!ToSet, ToSet

(* A thread that waits until a message is processed comes back when it is  *)
(* neither unread nor in the hands of the dispatcher, though the kernel    *)
(* only knows of the read after it (fusionee.c:468-489).                   *)
THEOREM QueuesWaitOut == Q!Spec => Q!WaitsOut
<1>1. QueueInv => \A t \in Threads : WaitedOut(t)
  BY WaitsAreOver
<1>2. Q!WaitsOut <=> [][\A t \in Threads : WaitedOut(t)]_(Q!vars)
  BY DEF Q!WaitsOut, WaitedOut, ComesOut, Q!ToSet, ToSet
<1> QED
  BY <1>1, <1>2, QueuesInv, PTL

(* Reactors, pools, readers and exits use the queues as they are meant to  *)
(* be: each of their steps is one of the queues, or leaves them alone      *)
(* (reactor.c:357, 365, shmpool.c:292, fusionee.c:663).                    *)
THEOREM BroadcastUsesQueues == Spec => Q!Spec
<1>1. Init => Q!Init
  BY DEF Init
<1>2. TypeInv /\ [Next]_vars => [Q!Next]_(Q!vars)
  <2> SUFFICES ASSUME TypeInv, [Next]_vars PROVE [Q!Next]_(Q!vars)
    OBVIOUS
  <2>1. QueueStep
    BY StepQueue
  <2>2. CASE UNCHANGED queueVars
    BY <2>2 DEF queueVars, Q!vars
  <2>3. CASE \E f \in Fusionees : Leave(f)
    BY <2>3 DEF Leave, Q!Next
  <2> QED
    BY <2>1, <2>2, <2>3 DEF QueueStep, QueueUse, Q!Next
<1>3. Spec => []TypeInv
  BY InitTypes, NextTypes, PTL DEF Spec
<1> QED
  BY <1>1, <1>2, <1>3, PTL DEF Spec, Q!Spec

(* So nothing a reactor, a pool, a fork or an exit does disturbs the order *)
(* in which a fusionee is told of broadcasts (fusionee.c:399-446).         *)
THEOREM BroadcastInOrder == Spec => Q!InOrder
  BY BroadcastUsesQueues, QueuesInOrder
=============================================================================
