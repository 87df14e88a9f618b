------------------------ MODULE FusionWorld_proofs ------------------------
(***************************************************************************)
(* Calls and skirmishes together, for any threads, fusionees, calls and    *)
(* skirmishes: who may hold a skirmish that a call has lent, that the loan *)
(* comes back whole, and at whose cost: a reclaim may haul it from the     *)
(* dispatcher.  The clients do not wait for conditions, and fulfil the     *)
(* assertion the kernel makes before it lends (NotLentTwice).              *)
(***************************************************************************)
EXTENDS FusionWorld, TLAPS

-----------------------------------------------------------------------------
(* A thread that is inside a synchronous call has its place there, and its *)
(* call was created and has an owner.                                      *)
CopShape == cop = [t \in Threads |-> C!In(cop[t].at, cop[t].call, cop[t].n)]

CallersInv ==
  /\ CopShape
  /\ listed \subseteq Fusionees
  /\ state \in [Calls -> {"unborn", "live", "gone"}]
  /\ owner \in [Calls -> Fusionees \cup {None}]
  /\ \A t \in Threads : C!InExecute(t) =>
       /\ t \in Callers /\ cop[t].call \in Calls
       /\ state[cop[t].call] # "unborn" /\ owner[cop[t].call] \in Fusionees

\* Only the reader of a fusionee becomes its dispatcher.
DispatchersInv ==
  /\ dispatcher_pid \in [Fusionees -> Threads \cup {None}]
  /\ \A f \in Fusionees : dispatcher_pid[f] \in {None, Reader[f]}

(* Every variable of the skirmishes stays in its range, held in a wider    *)
(* one, as a signal may leave a loan with its caller and its borrower.     *)
LockTypes ==
  /\ skirmish \in [Skirmishes -> {"unborn", "live", "destroyed"}]
  /\ lock_fid \in [Skirmishes -> Fusionees \cup {None}]
  /\ lock_pid \in [Skirmishes -> Threads \cup {None}]
  /\ lock_count \in [Skirmishes -> Nat]
  /\ notify_count \in [Skirmishes -> Nat]
  /\ transfer \in [Skirmishes -> S!Transfer \cup {S!NoTransfer}]
  /\ wq \in [Skirmishes -> SUBSET Threads]
  /\ op \in [Threads -> S!Op]
  /\ held \in [Threads -> [Skirmishes -> Int]]

\* Nobody waits for a condition; who is on a queue prevails on its entry.
OpInv ==
  \A t \in Threads : \/ op[t].at = "user"
                     \/ op[t].at = "prevail" /\ op[t].id \in Skirmishes
QueuedInv == \A s \in Skirmishes : \A t \in wq[s] : op[t].at = "prevail" /\ op[t].id = s

OwnerInv ==
  \A s \in Skirmishes :
    /\ lock_pid[s] = None => lock_fid[s] = None
    /\ lock_pid[s] # None => /\ lock_fid[s] = Fid[lock_pid[s]]
                             /\ lock_count[s] > 0
                             /\ skirmish[s] = "live"

LoanInv ==
  \A s \in Skirmishes : Lent(s) =>
    /\ skirmish[s] = "live"
    /\ cop[transfer[s].pid].at = "execute" => lock_pid[s] # transfer[s].pid

\* How often a thread may dismiss a skirmish, now or when its call is over.
Claim(t, s) ==
  IF lock_pid[s] = t THEN lock_count[s]
  ELSE IF transfer[s].pid = t THEN transfer[s].count ELSE 0

\* What a client believes to hold it owns or has lent, unless it was hauled.
HeldInv ==
  \A s \in Skirmishes : \A t \in Threads \ hauled[s] :
    /\ held[t][s] <= Claim(t, s)
    /\ "signal" \notin dev.env => held[t][s] = Claim(t, s)

\* Only dispatchers are hauled, who have no claim then.
HauledInv ==
  /\ hauled \in [Skirmishes -> SUBSET Threads]
  /\ \A s \in Skirmishes : \A t \in hauled[s] :
       /\ skirmish[s] = "live" /\ t \notin {lock_pid[s], transfer[s].pid}
       /\ t = dispatcher_pid[Fid[t]]
       /\ "signal" \notin dev.env => held[t][s] \in Nat

CallsInv == CallersInv /\ DispatchersInv

LocksInv ==
  /\ LockTypes
  /\ OpInv
  /\ QueuedInv
  /\ OwnerInv
  /\ LentIsReserved
  /\ LoanInv
  /\ HeldInv
  /\ HauledInv
  /\ NoLostWakeup

(* The inductive invariant: who is in a call, who is a dispatcher, and how *)
(* locks, loans, queues and the clients' view of them fit together.        *)
IInv == CallsInv /\ LocksInv

(* A fresh world: no call, no skirmish.                                    *)
LEMMA InitIInv == Init => IInv
<1> SUFFICES ASSUME Init PROVE IInv
  OBVIOUS
<1> USE WorldAssumption DEF Init, C!Init, C!Q!Init, S!Init
<1>1. CallersInv
  BY DEF CallersInv, CopShape, C!User, C!In, C!InExecute
<1>2. DispatchersInv
  BY DEF DispatchersInv
<1>3. LockTypes
  BY DEF LockTypes, S!Op, S!At, S!Places, S!NoTransfer
<1>4. OpInv /\ QueuedInv /\ NoLostWakeup
  BY DEF OpInv, QueuedInv, NoLostWakeup, S!At
<1>5. OwnerInv
  BY DEF OwnerInv
<1>6. LentIsReserved /\ LoanInv
  BY DEF LentIsReserved, LoanInv, Lent, S!NoTransfer
<1>7. HeldInv
  BY DEF HeldInv, Claim, S!NoTransfer
<1>8. HauledInv
  BY DEF HauledInv
<1> QED
  BY <1>1, <1>2, <1>3, <1>4, <1>5, <1>6, <1>7, <1>8 DEF IInv, CallsInv, LocksInv

-----------------------------------------------------------------------------
(* What the properties need of the calls is not touched by skirmishes.     *)
LEMMA CallsKept ==
  ASSUME CallsInv, UNCHANGED callVars
  PROVE  CallsInv' /\ dev' = dev /\ cop' = cop /\ owner' = owner
         /\ dispatcher_pid' = dispatcher_pid
  BY DEF CallsInv, CallersInv, DispatchersInv, CopShape, C!In, C!InExecute, callVars

(* A new skirmish is free and nobody knows it.                             *)
LEMMA NewStep ==
  ASSUME IInv, NEW s \in Skirmishes, NewSkirmish(s)
  PROVE  IInv'
<1> USE WorldAssumption DEF S!New, S!lockVars
<1>1. S!New(s) /\ UNCHANGED callVars /\ hauled' = hauled /\ CallsInv /\ LocksInv
  BY DEF IInv, NewSkirmish
<1>2. CallsInv' /\ dev' = dev /\ cop' = cop /\ owner' = owner /\ dispatcher_pid' = dispatcher_pid
  BY <1>1, CallsKept
<1>3. LockTypes'
  BY <1>1 DEF LocksInv, LockTypes
<1>4. OpInv' /\ QueuedInv'
  BY <1>1 DEF LocksInv, OpInv, QueuedInv
<1>5. OwnerInv'
  BY <1>1 DEF LocksInv, LockTypes, OwnerInv
<1>6. LentIsReserved'
  BY <1>1, <1>2 DEF LocksInv, LentIsReserved, Lent
<1>7. LoanInv'
  BY <1>1, <1>2 DEF LocksInv, LoanInv, Lent, LockTypes
<1>8. HeldInv'
  BY <1>1, <1>2 DEF LocksInv, HeldInv, Claim
<1>9. NoLostWakeup'
  BY <1>1, <1>2 DEF LocksInv, NoLostWakeup, S!Blocked, S!TransferredAway, LockTypes
<1>10. HauledInv'
  BY <1>1, <1>2 DEF LocksInv, LockTypes, HauledInv
<1> QED
  BY <1>2, <1>3, <1>4, <1>5, <1>6, <1>7, <1>8, <1>9, <1>10 DEF IInv, LocksInv

-----------------------------------------------------------------------------
\* Who stops being hauled is the owner now, or the skirmish is gone.
Regained ==
  \A s \in Skirmishes : \A t \in hauled[s] \ hauled'[s] :
    lock_pid'[s] = t \/ skirmish'[s] # "live"

(* A step of a skirmish gives no loan to a hauled thread, and changes what *)
(* it believes only with its state.                                        *)
LEMMA StillHauled ==
  ASSUME HauledInv, HauledStill, UNCHANGED <<dispatcher_pid, dev>>,
         \A s \in Skirmishes : /\ transfer'[s] \in {transfer[s], S!NoTransfer}
                              /\ \A t \in hauled'[s] : held'[t][s] = held[t][s]
  PROVE  HauledInv' /\ Regained
<1> USE WorldAssumption
<1>1. \A s \in Skirmishes :
        hauled'[s] = {u \in hauled[s] : skirmish'[s] = "live" /\ lock_pid'[s] # u}
  BY DEF HauledStill
<1>2. hauled' \in [Skirmishes -> SUBSET Threads]
  BY DEF HauledStill, HauledInv
<1>3. ASSUME NEW s \in Skirmishes, NEW t \in hauled'[s]
      PROVE  /\ skirmish'[s] = "live" /\ t \notin {lock_pid'[s], transfer'[s].pid}
             /\ t = dispatcher_pid'[Fid[t]]
             /\ "signal" \notin dev'.env => held'[t][s] \in Nat
  <2>1. t \in hauled[s] /\ t \in Threads /\ skirmish'[s] = "live" /\ lock_pid'[s] # t
    BY <1>1, <1>2, <1>3
  <2>2. transfer'[s].pid # t
    BY <2>1 DEF HauledInv, S!NoTransfer
  <2> QED
    BY <1>3, <2>1, <2>2 DEF HauledInv
<1>4. HauledInv'
  BY <1>2, <1>3 DEF HauledInv
<1> QED
  BY <1>1, <1>4 DEF Regained

(* A recursive prevail deepens the ownership of the owner.                 *)
LEMMA PrevailAgainStep ==
  ASSUME IInv, NEW t \in Threads, NEW s \in Skirmishes, C!Free(t), UNCHANGED callVars, HauledStill,
         S!PrevailAgain(t, s)
  PROVE  LocksInv'
<1> USE WorldAssumption
<1>1. LocksInv /\ cop[t].at = "user"
  BY DEF IInv, C!Free
<1>2. dev' = dev /\ cop' = cop /\ owner' = owner /\ dispatcher_pid' = dispatcher_pid
  BY CallsKept DEF IInv
<1> USE DEF S!lockVars, S!InUser, S!Return, S!WakeAll, S!SetOwner, S!PrevailAgain
<1>3. LockTypes'
  BY <1>1 DEF LocksInv, LockTypes, OpInv, OwnerInv, S!Op, S!At, S!Places, S!NoTransfer
<1>4. OpInv'
  BY <1>1 DEF LocksInv, LockTypes, OpInv, S!Op, S!At
<1>5. QueuedInv'
  BY <1>1 DEF LocksInv, LockTypes, OpInv, QueuedInv, S!Op, S!At
<1>6. OwnerInv'
  BY <1>1 DEF LocksInv, LockTypes, OwnerInv, OpInv
<1>7. LentIsReserved'
  BY <1>1, <1>2 DEF LocksInv, LockTypes, OpInv, OwnerInv, LentIsReserved, Lent, S!Transfer, S!NoTransfer,
     S!Blocked, S!TransferredAway
<1>8. LoanInv'
  BY <1>1, <1>2 DEF LocksInv, LockTypes, OpInv, LentIsReserved, LoanInv, Lent, S!Transfer, S!NoTransfer
<1>9. HauledInv' /\ Regained
  <2>1. HauledInv /\ LockTypes
    BY <1>1 DEF LocksInv
  <2>2. \A z \in Skirmishes : hauled'[z] \subseteq {u \in Threads : lock_pid'[z] # u}
    BY <2>1 DEF HauledInv, HauledStill
  <2>3. \A z \in Skirmishes : \A u \in hauled'[z] : skirmish'[z] = "live" /\ held'[u][z] = held[u][z]
    BY <2>1, <2>2 DEF LockTypes, HauledStill
  <2>4. \A z \in Skirmishes : transfer'[z] \in {transfer[z], S!NoTransfer}
    BY <2>1 DEF LockTypes
  <2> QED
    BY <1>2, <2>1, <2>3, <2>4, StillHauled
<1>10. HeldInv'
  BY <1>1, <1>2, <1>9 DEF LocksInv, LockTypes, OpInv, OwnerInv, LentIsReserved, Lent, HeldInv, HauledInv, Regained,
     Claim, S!Transfer, S!NoTransfer
<1>11. NoLostWakeup'
  BY <1>1, <1>2 DEF LocksInv, LockTypes, OpInv, OwnerInv, QueuedInv, NoLostWakeup, S!Op, S!At,
     S!Blocked, S!TransferredAway
<1> QED
  BY <1>3, <1>4, <1>5, <1>6, <1>7, <1>8, <1>9, <1>10, <1>11 DEF LocksInv


(* A free skirmish goes to a thread it is not kept from.                   *)
LEMMA PrevailTakeStep ==
  ASSUME IInv, NEW t \in Threads, NEW s \in Skirmishes, C!Free(t), UNCHANGED callVars, HauledStill,
         S!PrevailTake(t, s, dispatcher_pid)
  PROVE  LocksInv'
<1> USE WorldAssumption
<1>1. LocksInv /\ cop[t].at = "user"
  BY DEF IInv, C!Free
<1>2. dev' = dev /\ cop' = cop /\ owner' = owner /\ dispatcher_pid' = dispatcher_pid
  BY CallsKept DEF IInv
<1> USE DEF S!lockVars, S!InUser, S!Return, S!WakeAll, S!SetOwner, S!PrevailTake, S!Blocked, S!TransferredAway
<1>3. LockTypes'
  BY <1>1 DEF LocksInv, LockTypes, OpInv, OwnerInv, S!Op, S!At, S!Places, S!NoTransfer
<1>4. OpInv'
  BY <1>1 DEF LocksInv, LockTypes, OpInv, S!Op, S!At
<1>5. QueuedInv'
  BY <1>1 DEF LocksInv, LockTypes, OpInv, QueuedInv, S!Op, S!At
<1>6. OwnerInv'
  BY <1>1 DEF LocksInv, LockTypes, OwnerInv, OpInv
<1>7. LentIsReserved'
  BY <1>1, <1>2 DEF LocksInv, LockTypes, OpInv, OwnerInv, LentIsReserved, Lent, S!Transfer, S!NoTransfer,
     S!Blocked, S!TransferredAway
<1>8. LoanInv'
  BY <1>1, <1>2 DEF LocksInv, LockTypes, OpInv, LentIsReserved, LoanInv, Lent, S!Transfer, S!NoTransfer
<1>9. HauledInv' /\ Regained
  <2>1. HauledInv /\ LockTypes
    BY <1>1 DEF LocksInv
  <2>2. \A z \in Skirmishes : hauled'[z] \subseteq {u \in Threads : lock_pid'[z] # u}
    BY <2>1 DEF HauledInv, HauledStill
  <2>3. \A z \in Skirmishes : \A u \in hauled'[z] : skirmish'[z] = "live" /\ held'[u][z] = held[u][z]
    BY <2>1, <2>2 DEF LockTypes, HauledStill
  <2>4. \A z \in Skirmishes : transfer'[z] \in {transfer[z], S!NoTransfer}
    BY <2>1 DEF LockTypes
  <2> QED
    BY <1>2, <2>1, <2>3, <2>4, StillHauled
<1>10. HeldInv'
  BY <1>1, <1>2, <1>9 DEF LocksInv, LockTypes, OpInv, OwnerInv, LentIsReserved, Lent, HeldInv, HauledInv, Regained,
     Claim, S!Transfer, S!NoTransfer
<1>11. NoLostWakeup'
  BY <1>1, <1>2 DEF LocksInv, LockTypes, OpInv, OwnerInv, QueuedInv, NoLostWakeup, S!Op, S!At,
     S!Blocked, S!TransferredAway
<1> QED
  BY <1>3, <1>4, <1>5, <1>6, <1>7, <1>8, <1>9, <1>10, <1>11 DEF LocksInv


(* A thread that has to wait is on the queue.                              *)
LEMMA PrevailSleepStep ==
  ASSUME IInv, NEW t \in Threads, NEW s \in Skirmishes, C!Free(t), UNCHANGED callVars, HauledStill,
         S!PrevailSleep(t, s, dispatcher_pid)
  PROVE  LocksInv'
<1> USE WorldAssumption
<1>1. LocksInv /\ cop[t].at = "user"
  BY DEF IInv, C!Free
<1>2. dev' = dev /\ cop' = cop /\ owner' = owner /\ dispatcher_pid' = dispatcher_pid
  BY CallsKept DEF IInv
<1> USE DEF S!lockVars, S!InUser, S!Return, S!WakeAll, S!SetOwner, S!PrevailSleep
<1>3. LockTypes'
  BY <1>1 DEF LocksInv, LockTypes, OpInv, OwnerInv, S!Op, S!At, S!Places, S!NoTransfer
<1>4. OpInv'
  BY <1>1 DEF LocksInv, LockTypes, OpInv, S!Op, S!At
<1>5. QueuedInv'
  BY <1>1 DEF LocksInv, LockTypes, OpInv, QueuedInv, S!Op, S!At
<1>6. OwnerInv'
  BY <1>1 DEF LocksInv, LockTypes, OwnerInv, OpInv
<1>7. LentIsReserved'
  BY <1>1, <1>2 DEF LocksInv, LockTypes, OpInv, OwnerInv, LentIsReserved, Lent, S!Transfer, S!NoTransfer,
     S!Blocked, S!TransferredAway
<1>8. LoanInv'
  BY <1>1, <1>2 DEF LocksInv, LockTypes, OpInv, LentIsReserved, LoanInv, Lent, S!Transfer, S!NoTransfer
<1>9. HauledInv' /\ Regained
  <2>1. HauledInv /\ LockTypes
    BY <1>1 DEF LocksInv
  <2>2. \A z \in Skirmishes : hauled'[z] \subseteq {u \in Threads : lock_pid'[z] # u}
    BY <2>1 DEF HauledInv, HauledStill
  <2>3. \A z \in Skirmishes : \A u \in hauled'[z] : skirmish'[z] = "live" /\ held'[u][z] = held[u][z]
    BY <2>1, <2>2 DEF LockTypes, HauledStill
  <2>4. \A z \in Skirmishes : transfer'[z] \in {transfer[z], S!NoTransfer}
    BY <2>1 DEF LockTypes
  <2> QED
    BY <1>2, <2>1, <2>3, <2>4, StillHauled
<1>10. HeldInv'
  BY <1>1, <1>2, <1>9 DEF LocksInv, LockTypes, OpInv, OwnerInv, LentIsReserved, Lent, HeldInv, HauledInv, Regained,
     Claim, S!Transfer, S!NoTransfer
<1>11. NoLostWakeup'
  BY <1>1, <1>2 DEF LocksInv, LockTypes, OpInv, OwnerInv, QueuedInv, NoLostWakeup, S!Op, S!At,
     S!Blocked, S!TransferredAway
<1> QED
  BY <1>3, <1>4, <1>5, <1>6, <1>7, <1>8, <1>9, <1>10, <1>11 DEF LocksInv


(* The same for a woken thread, which takes the skirmish or sleeps again.  *)
LEMMA PrevailWokenStep ==
  ASSUME IInv, NEW t \in Threads, C!Free(t), UNCHANGED callVars, HauledStill,
         S!PrevailWoken(t, dispatcher_pid)
  PROVE  LocksInv'
<1> USE WorldAssumption
<1> DEFINE s == op[t].id
<1>1. LocksInv /\ cop[t].at = "user"
  BY DEF IInv, C!Free
<1>2. dev' = dev /\ cop' = cop /\ owner' = owner /\ dispatcher_pid' = dispatcher_pid
  BY CallsKept DEF IInv
<1>3. /\ s \in Skirmishes /\ op[t].at = "prevail" /\ t \notin wq[s] /\ skirmish[s] = "live"
      /\ UNCHANGED <<skirmish, notify_count, transfer>>
  BY <1>1 DEF LocksInv, OpInv, S!PrevailWoken, S!Awake
<1>4. CASE ~ S!Blocked(t, s, dispatcher_pid)
  <2>1. /\ lock_pid[s] = None /\ (Lent(s) => dispatcher_pid[transfer[s].to] = t)
        /\ op' = [op EXCEPT ![t] = S!At("user")] /\ wq' = wq
        /\ lock_fid' = [lock_fid EXCEPT ![s] = Fid[t]]
        /\ lock_pid' = [lock_pid EXCEPT ![s] = t]
        /\ lock_count' = [lock_count EXCEPT ![s] = 1]
        /\ held' = [held EXCEPT ![t][s] = 1]
    BY <1>3, <1>4 DEF S!PrevailWoken, S!Blocked, S!TransferredAway, Lent, S!SetOwner, S!Return
  <2> HIDE DEF s
  <2>2. LockTypes'
    BY <1>1, <1>3, <2>1 DEF LocksInv, LockTypes, S!Op, S!At, S!Places
  <2>3. OpInv'
    BY <1>1, <1>3, <2>1 DEF LocksInv, LockTypes, OpInv, S!At
  <2>4. QueuedInv'
    <3>1. \A z \in Skirmishes : t \notin wq[z]
      BY <1>1, <1>3 DEF LocksInv, QueuedInv, s
    <3> QED
      BY <1>1, <1>3, <2>1, <3>1 DEF LocksInv, LockTypes, QueuedInv
  <2>5. OwnerInv'
    BY <1>1, <1>3, <2>1 DEF LocksInv, LockTypes, OwnerInv
  <2>6. LentIsReserved'
    BY <1>1, <1>2, <1>3, <2>1 DEF LocksInv, LockTypes, LentIsReserved, Lent
  <2>7. LoanInv'
    BY <1>1, <1>2, <1>3, <2>1 DEF LocksInv, LockTypes, LentIsReserved, LoanInv, Lent
  <2>8. HauledInv' /\ Regained
    <3>1. HauledInv /\ LockTypes
      BY <1>1 DEF LocksInv
    <3>2. \A z \in Skirmishes : \A u \in hauled'[z] : lock_pid'[z] # u /\ u \in Threads
      BY <3>1 DEF HauledInv, HauledStill
    <3>3. \A z \in Skirmishes : \A u \in hauled'[z] : held'[u][z] = held[u][z]
      BY <1>3, <2>1, <3>1, <3>2 DEF LockTypes
    <3> QED
      BY <1>2, <1>3, <3>1, <3>3, StillHauled
  <2>9. HeldInv'
    BY <1>1, <1>2, <1>3, <2>1, <2>8 DEF LocksInv, LockTypes, OwnerInv, LentIsReserved, Lent, HeldInv, HauledInv,
       Regained, Claim, S!Transfer, S!NoTransfer
  <2>10. NoLostWakeup'
    <3>1. \A z \in Skirmishes : t \notin wq[z]
      BY <1>1, <1>3 DEF LocksInv, QueuedInv, s
    <3> QED
      BY <1>1, <1>2, <1>3, <2>1, <3>1 DEF LocksInv, LockTypes, NoLostWakeup, S!Blocked, S!TransferredAway
  <2> QED
    BY <2>2, <2>3, <2>4, <2>5, <2>6, <2>7, <2>8, <2>10, <2>9 DEF LocksInv
<1>5. CASE S!Blocked(t, s, dispatcher_pid)
  <2>1. wq' = [wq EXCEPT ![s] = @ \cup {t}] /\ UNCHANGED <<lock_fid, lock_pid, lock_count, op, held>>
    BY <1>5 DEF S!PrevailWoken, S!lockVars
  <2>2. LockTypes' /\ OpInv' /\ OwnerInv'
    BY <1>1, <1>3, <2>1 DEF LocksInv, LockTypes, OpInv, OwnerInv
  <2>3. QueuedInv'
    BY <1>1, <1>3, <2>1 DEF LocksInv, LockTypes, QueuedInv
  <2>4. LentIsReserved' /\ LoanInv'
    BY <1>1, <1>2, <1>3, <2>1 DEF LocksInv, LentIsReserved, LoanInv, Lent
  <2>5. HauledInv' /\ Regained
    BY <1>1, <1>2, <1>3, <2>1, StillHauled DEF LocksInv
  <2>6. HeldInv'
    BY <1>1, <1>2, <1>3, <2>1, <2>5 DEF LocksInv, LockTypes, HeldInv, HauledInv, Regained, Claim
  <2>7. NoLostWakeup'
    BY <1>1, <1>2, <1>3, <1>5, <2>1 DEF LocksInv, LockTypes, NoLostWakeup, S!Blocked, S!TransferredAway
  <2> QED
    BY <2>2, <2>3, <2>4, <2>5, <2>7, <2>6 DEF LocksInv
<1> QED
  BY <1>4, <1>5

(* A swoop takes or deepens, and never waits.                              *)
LEMMA SwoopStep ==
  ASSUME IInv, NEW t \in Threads, NEW s \in Skirmishes, C!Free(t), UNCHANGED callVars, HauledStill,
         S!Swoop(t, s, dispatcher_pid)
  PROVE  LocksInv'
<1> USE WorldAssumption
<1>1. LocksInv /\ cop[t].at = "user"
  BY DEF IInv, C!Free
<1>2. dev' = dev /\ cop' = cop /\ owner' = owner /\ dispatcher_pid' = dispatcher_pid
  BY CallsKept DEF IInv
<1>3. PICK n \in Nat \ {0} :
        /\ lock_fid' = [lock_fid EXCEPT ![s] = Fid[t]]
        /\ lock_pid' = [lock_pid EXCEPT ![s] = t]
        /\ lock_count' = [lock_count EXCEPT ![s] = n]
        /\ held' = [held EXCEPT ![t][s] = n]
  <2>1. lock_count[s] \in Nat /\ lock_count[s] + 1 \in Nat \ {0}
    BY <1>1 DEF LocksInv, LockTypes
  <2>2. CASE S!SetOwner(t, s, 1)
    <3>1. 1 \in Nat \ {0}
      OBVIOUS
    <3> QED
      BY <2>2, <3>1 DEF S!SetOwner
  <2>3. CASE S!SetOwner(t, s, lock_count[s] + 1)
    <3> DEFINE n == lock_count[s] + 1
    <3>1. n \in Nat \ {0} /\ S!SetOwner(t, s, n)
      BY <2>1, <2>3
    <3> HIDE DEF n
    <3> QED
      BY <3>1 DEF S!SetOwner
  <2> QED
    BY <2>2, <2>3 DEF S!Swoop
<1>4. skirmish[s] = "live" /\ UNCHANGED <<skirmish, notify_count, transfer, wq, op>>
  BY DEF S!Swoop
<1>5. \/ lock_pid[s] = None /\ (Lent(s) => dispatcher_pid[transfer[s].to] = t)
      \/ lock_pid[s] = t
  BY <1>1 DEF S!Swoop, S!TransferredAway, Lent, LocksInv, LockTypes, OwnerInv
<1>6. LockTypes'
  <2>1. lock_count' \in [Skirmishes -> Nat] /\ held' \in [Threads -> [Skirmishes -> Int]]
    BY <1>1, <1>3 DEF LocksInv, LockTypes
  <2> QED
    BY <1>1, <1>3, <1>4, <2>1 DEF LocksInv, LockTypes
<1>7. OpInv' /\ QueuedInv'
  BY <1>1, <1>4 DEF LocksInv, OpInv, QueuedInv
<1>8. OwnerInv'
  BY <1>1, <1>3, <1>4 DEF LocksInv, LockTypes, OwnerInv
<1>9. LentIsReserved' /\ LoanInv'
  BY <1>1, <1>2, <1>3, <1>4, <1>5 DEF LocksInv, LockTypes, LentIsReserved, LoanInv, Lent
<1>10. HauledInv' /\ Regained
  <2>1. HauledInv /\ LockTypes
    BY <1>1 DEF LocksInv
  <2>2. \A z \in Skirmishes : \A u \in hauled'[z] : lock_pid'[z] # u /\ u \in Threads
    BY <2>1 DEF HauledInv, HauledStill
  <2>3. \A z \in Skirmishes : \A u \in hauled'[z] : held'[u][z] = held[u][z]
    BY <1>3, <2>1, <2>2 DEF LockTypes
  <2> QED
    BY <1>2, <1>4, <2>1, <2>3, StillHauled
<1>11. HeldInv'
  BY <1>1, <1>2, <1>3, <1>4, <1>5, <1>10 DEF LocksInv, LockTypes, OwnerInv, LentIsReserved, Lent, HeldInv,
     HauledInv, Regained, Claim, S!Transfer, S!NoTransfer
<1>12. NoLostWakeup'
  BY <1>1, <1>2, <1>3, <1>4 DEF LocksInv, LockTypes, NoLostWakeup, S!Blocked, S!TransferredAway
<1> QED
  BY <1>6, <1>7, <1>8, <1>9, <1>10, <1>12, <1>11 DEF LocksInv

(* The last dismiss frees and wakes.                                       *)
LEMMA DismissStep ==
  ASSUME IInv, NEW t \in Threads, NEW s \in Skirmishes, C!Free(t), UNCHANGED callVars, HauledStill,
         S!Dismiss(t, s)
  PROVE  LocksInv'
<1> USE WorldAssumption
<1>1. LocksInv /\ cop[t].at = "user"
  BY DEF IInv, C!Free
<1>2. dev' = dev /\ cop' = cop /\ owner' = owner /\ dispatcher_pid' = dispatcher_pid
  BY CallsKept DEF IInv
<1>3. /\ skirmish[s] = "live" /\ lock_pid[s] = t /\ lock_count[s] \in Nat /\ lock_count[s] > 0
      /\ lock_count' = [lock_count EXCEPT ![s] = lock_count[s] - 1]
      /\ held' = [held EXCEPT ![t][s] = held[t][s] - 1]
      /\ UNCHANGED <<skirmish, notify_count, transfer, op>>
  BY <1>1 DEF S!Dismiss, LocksInv, LockTypes, OwnerInv
<1>4. \/ /\ lock_count[s] = 1
         /\ lock_fid' = [lock_fid EXCEPT ![s] = None]
         /\ lock_pid' = [lock_pid EXCEPT ![s] = None]
         /\ wq' = [wq EXCEPT ![s] = {}]
      \/ /\ lock_count[s] > 1
         /\ UNCHANGED <<lock_fid, lock_pid, wq>>
  BY <1>3 DEF S!Dismiss, S!WakeAll
<1>5. LockTypes'
  <2>1. lock_count[s] - 1 \in Nat /\ held[t][s] - 1 \in Int
    BY <1>1, <1>3 DEF LocksInv, LockTypes
  <2>2. lock_count' \in [Skirmishes -> Nat] /\ held' \in [Threads -> [Skirmishes -> Int]]
    BY <1>1, <1>3, <2>1 DEF LocksInv, LockTypes
  <2>3. /\ lock_fid' \in [Skirmishes -> Fusionees \cup {None}]
        /\ lock_pid' \in [Skirmishes -> Threads \cup {None}]
        /\ wq' \in [Skirmishes -> SUBSET Threads]
    BY <1>1, <1>4 DEF LocksInv, LockTypes
  <2> QED
    BY <1>1, <1>3, <2>2, <2>3 DEF LocksInv, LockTypes
<1>6. OpInv' /\ QueuedInv'
  BY <1>1, <1>3, <1>4 DEF LocksInv, LockTypes, OpInv, QueuedInv
<1>7. OwnerInv'
  <2> SUFFICES ASSUME NEW z \in Skirmishes
               PROVE  /\ lock_pid'[z] = None => lock_fid'[z] = None
                      /\ lock_pid'[z] # None => /\ lock_fid'[z] = Fid[lock_pid'[z]]
                                                /\ lock_count'[z] > 0 /\ skirmish'[z] = "live"
    BY DEF OwnerInv
  <2>1. CASE z = s
    BY <1>1, <1>3, <1>4, <2>1 DEF LocksInv, LockTypes, OwnerInv
  <2>2. CASE z # s
    BY <1>1, <1>3, <1>4, <2>2 DEF LocksInv, LockTypes, OwnerInv
  <2> QED
    BY <2>1, <2>2
<1>8. LentIsReserved' /\ LoanInv'
  <2>1. \A z \in Skirmishes : lock_pid'[z] \in {lock_pid[z], None}
    BY <1>1, <1>4 DEF LocksInv, LockTypes
  <2>2. \A z \in Skirmishes : Lent(z) => transfer[z].pid \in Threads
    BY <1>1 DEF LocksInv, LockTypes, Lent, S!Transfer, S!NoTransfer
  <2> QED
    BY <1>1, <1>2, <1>3, <2>1, <2>2 DEF LocksInv, LentIsReserved, LoanInv, Lent
<1>9. HauledInv' /\ Regained
  <2>1. HauledInv /\ LockTypes
    BY <1>1 DEF LocksInv
  <2>2. \A z \in Skirmishes : \A u \in hauled'[z] : u \in hauled[z] /\ u \in Threads
    BY <2>1 DEF HauledInv, HauledStill
  <2>3. \A z \in Skirmishes : \A u \in hauled'[z] : held'[u][z] = held[u][z]
    BY <1>3, <2>1, <2>2 DEF LockTypes, HauledInv
  <2> QED
    BY <1>2, <1>3, <2>1, <2>3, StillHauled
<1>10. HeldInv'
  <2> SUFFICES ASSUME NEW z \in Skirmishes, NEW u \in Threads \ hauled'[z]
               PROVE  /\ held'[u][z] <= Claim(u, z)'
                      /\ "signal" \notin dev'.env => held'[u][z] = Claim(u, z)'
    BY DEF HeldInv
  <2>1. u \notin hauled[z]
    <3>1. lock_pid'[z] \in {lock_pid[z], None} /\ skirmish'[z] = skirmish[z]
      BY <1>1, <1>3, <1>4 DEF LocksInv, LockTypes
    <3> QED
      BY <1>1, <1>9, <3>1 DEF LocksInv, HauledInv, Regained
  <2>2. held[u][z] \in Int /\ held[u][z] <= Claim(u, z) /\ ("signal" \notin dev.env => held[u][z] = Claim(u, z))
    BY <1>1, <2>1 DEF LocksInv, LockTypes, HeldInv
  <2>3. CASE z # s \/ u # t
    <3>1. held'[u][z] = held[u][z]
      BY <1>1, <1>3, <2>3 DEF LocksInv, LockTypes
    <3>2. Claim(u, z)' = Claim(u, z)
      BY <1>1, <1>3, <1>4, <2>3 DEF LocksInv, LockTypes, Claim
    <3> QED
      BY <1>2, <2>2, <3>1, <3>2
  <2>4. CASE z = s /\ u = t
    <3>1. held'[t][s] = held[t][s] - 1 /\ Claim(t, s) = lock_count[s]
      BY <1>1, <1>3 DEF LocksInv, LockTypes, Claim
    <3>2. Claim(t, s)' \in Nat
      BY <1>5 DEF LockTypes, Claim, S!Transfer, S!NoTransfer
    <3>3. CASE lock_count[s] = 1
      <4>1. lock_pid'[s] = None /\ transfer'[s] = transfer[s]
        BY <1>1, <1>3, <1>4, <3>3 DEF LocksInv, LockTypes
      <4>2. "signal" \notin dev.env => Claim(t, s)' = 0
        <5>1. transfer[s].pid = t => Lent(s)
          BY <1>1 DEF LocksInv, LockTypes, Lent, S!Transfer, S!NoTransfer
        <5>2. "signal" \notin dev.env => transfer[s].pid # t
          BY <1>1, <5>1 DEF LocksInv, LentIsReserved
        <5> QED
          BY <4>1, <5>2 DEF Claim
      <4> QED
        BY <1>2, <2>2, <2>4, <3>1, <3>2, <3>3, <4>2
    <3>4. CASE lock_count[s] > 1
      <4>1. Claim(t, s)' = lock_count[s] - 1
        BY <1>1, <1>3, <1>4, <3>4 DEF LocksInv, LockTypes, Claim
      <4> QED
        BY <1>2, <1>3, <2>2, <2>4, <3>1, <4>1
    <3> QED
      BY <1>4, <3>3, <3>4
  <2> QED
    BY <2>3, <2>4
<1>11. NoLostWakeup'
  <2> SUFFICES ASSUME NEW z \in Skirmishes, NEW u \in wq'[z]
               PROVE  /\ skirmish'[z] = "live"
                      /\ op'[u].at = "prevail" => S!Blocked(u, z, dispatcher_pid)'
    BY DEF NoLostWakeup
  <2>1. CASE z = s
    BY <1>1, <1>2, <1>3, <1>4, <2>1 DEF LocksInv, LockTypes, NoLostWakeup, S!Blocked, S!TransferredAway
  <2>2. CASE z # s
    BY <1>1, <1>2, <1>3, <1>4, <2>2 DEF LocksInv, LockTypes, NoLostWakeup, S!Blocked, S!TransferredAway
  <2> QED
    BY <2>1, <2>2
<1> QED
  BY <1>5, <1>6, <1>7, <1>8, <1>10, <1>11, <1>9 DEF LocksInv

(* A notification changes its count and wakes.                             *)
LEMMA NotifyStep ==
  ASSUME IInv, NEW t \in Threads, NEW s \in Skirmishes, C!Free(t), UNCHANGED callVars, HauledStill,
         S!Notify(t, s)
  PROVE  LocksInv'
<1> USE WorldAssumption
<1>1. LocksInv /\ cop[t].at = "user"
  BY DEF IInv, C!Free
<1>2. dev' = dev /\ cop' = cop /\ owner' = owner /\ dispatcher_pid' = dispatcher_pid
  BY CallsKept DEF IInv
<1> USE DEF S!lockVars, S!InUser, S!Return, S!WakeAll, S!SetOwner, S!Notify
<1>3. LockTypes'
  BY <1>1 DEF LocksInv, LockTypes, OpInv, OwnerInv, S!Op, S!At, S!Places, S!NoTransfer
<1>4. OpInv'
  BY <1>1 DEF LocksInv, LockTypes, OpInv, S!Op, S!At
<1>5. QueuedInv'
  BY <1>1 DEF LocksInv, LockTypes, OpInv, QueuedInv, S!Op, S!At
<1>6. OwnerInv'
  BY <1>1 DEF LocksInv, LockTypes, OwnerInv, OpInv
<1>7. LentIsReserved'
  BY <1>1, <1>2 DEF LocksInv, LockTypes, OpInv, OwnerInv, LentIsReserved, Lent, S!Transfer, S!NoTransfer,
     S!Blocked, S!TransferredAway
<1>8. LoanInv'
  BY <1>1, <1>2 DEF LocksInv, LockTypes, OpInv, LentIsReserved, LoanInv, Lent, S!Transfer, S!NoTransfer
<1>9. HauledInv' /\ Regained
  <2>1. HauledInv /\ LockTypes
    BY <1>1 DEF LocksInv
  <2>2. \A z \in Skirmishes : hauled'[z] \subseteq {u \in Threads : lock_pid'[z] # u}
    BY <2>1 DEF HauledInv, HauledStill
  <2>3. \A z \in Skirmishes : \A u \in hauled'[z] : skirmish'[z] = "live" /\ held'[u][z] = held[u][z]
    BY <2>1, <2>2 DEF LockTypes, HauledStill
  <2>4. \A z \in Skirmishes : transfer'[z] \in {transfer[z], S!NoTransfer}
    BY <2>1 DEF LockTypes
  <2> QED
    BY <1>2, <2>1, <2>3, <2>4, StillHauled
<1>10. HeldInv'
  BY <1>1, <1>2, <1>9 DEF LocksInv, LockTypes, OpInv, OwnerInv, LentIsReserved, Lent, HeldInv, HauledInv, Regained,
     Claim, S!Transfer, S!NoTransfer
<1>11. NoLostWakeup'
  BY <1>1, <1>2 DEF LocksInv, LockTypes, OpInv, OwnerInv, QueuedInv, NoLostWakeup, S!Op, S!At,
     S!Blocked, S!TransferredAway
<1> QED
  BY <1>3, <1>4, <1>5, <1>6, <1>7, <1>8, <1>9, <1>10, <1>11 DEF LocksInv


(* A destroyed skirmish is nobody's, and no loan.                          *)
LEMMA DestroyStep ==
  ASSUME IInv, NEW t \in Threads, NEW s \in Skirmishes, C!Free(t), UNCHANGED callVars, HauledStill,
         S!Destroy(t, s)
  PROVE  LocksInv'
<1> USE WorldAssumption
<1>1. LocksInv /\ cop[t].at = "user"
  BY DEF IInv, C!Free
<1>2. dev' = dev /\ cop' = cop /\ owner' = owner /\ dispatcher_pid' = dispatcher_pid
  BY CallsKept DEF IInv
<1> USE DEF S!lockVars, S!InUser, S!Return, S!WakeAll, S!SetOwner, S!Destroy
<1>3. LockTypes'
  BY <1>1 DEF LocksInv, LockTypes, OpInv, OwnerInv, S!Op, S!At, S!Places, S!NoTransfer
<1>4. OpInv'
  BY <1>1 DEF LocksInv, LockTypes, OpInv, S!Op, S!At
<1>5. QueuedInv'
  BY <1>1 DEF LocksInv, LockTypes, OpInv, QueuedInv, S!Op, S!At
<1>6. OwnerInv'
  BY <1>1 DEF LocksInv, LockTypes, OwnerInv, OpInv
<1>7. LentIsReserved'
  BY <1>1, <1>2 DEF LocksInv, LockTypes, OpInv, OwnerInv, LentIsReserved, Lent, S!Transfer, S!NoTransfer,
     S!Blocked, S!TransferredAway
<1>8. LoanInv'
  BY <1>1, <1>2 DEF LocksInv, LockTypes, OpInv, LentIsReserved, LoanInv, Lent, S!Transfer, S!NoTransfer
<1>9. HauledInv' /\ Regained
  <2>1. HauledInv /\ LockTypes
    BY <1>1 DEF LocksInv
  <2>2. \A z \in Skirmishes : hauled'[z] \subseteq {u \in Threads : lock_pid'[z] # u}
    BY <2>1 DEF HauledInv, HauledStill
  <2>3. \A z \in Skirmishes : \A u \in hauled'[z] : skirmish'[z] = "live" /\ held'[u][z] = held[u][z]
    BY <2>1, <2>2 DEF LockTypes, HauledStill
  <2>4. \A z \in Skirmishes : transfer'[z] \in {transfer[z], S!NoTransfer}
    BY <2>1 DEF LockTypes
  <2> QED
    BY <1>2, <2>1, <2>3, <2>4, StillHauled
<1>10. HeldInv'
  BY <1>1, <1>2, <1>9 DEF LocksInv, LockTypes, OpInv, OwnerInv, LentIsReserved, Lent, HeldInv, HauledInv, Regained,
     Claim, S!Transfer, S!NoTransfer
<1>11. NoLostWakeup'
  BY <1>1, <1>2 DEF LocksInv, LockTypes, OpInv, OwnerInv, QueuedInv, NoLostWakeup, S!Op, S!At,
     S!Blocked, S!TransferredAway
<1> QED
  BY <1>3, <1>4, <1>5, <1>6, <1>7, <1>8, <1>9, <1>10, <1>11 DEF LocksInv


(* A thread returns that finds its skirmish gone.                          *)
LEMMA FindGoneStep ==
  ASSUME IInv, NEW t \in Threads, C!Free(t), UNCHANGED callVars, HauledStill,
         S!FindGone(t)
  PROVE  LocksInv'
<1> USE WorldAssumption
<1>1. LocksInv /\ cop[t].at = "user"
  BY DEF IInv, C!Free
<1>2. dev' = dev /\ cop' = cop /\ owner' = owner /\ dispatcher_pid' = dispatcher_pid
  BY CallsKept DEF IInv
<1> USE DEF S!lockVars, S!InUser, S!Return, S!WakeAll, S!SetOwner, S!FindGone, S!Awake
<1>3. LockTypes'
  BY <1>1 DEF LocksInv, LockTypes, OpInv, OwnerInv, S!Op, S!At, S!Places, S!NoTransfer
<1>4. OpInv'
  BY <1>1 DEF LocksInv, LockTypes, OpInv, S!Op, S!At
<1>5. QueuedInv'
  BY <1>1 DEF LocksInv, LockTypes, OpInv, QueuedInv, S!Op, S!At
<1>6. OwnerInv'
  BY <1>1 DEF LocksInv, LockTypes, OwnerInv, OpInv
<1>7. LentIsReserved'
  BY <1>1, <1>2 DEF LocksInv, LockTypes, OpInv, OwnerInv, LentIsReserved, Lent, S!Transfer, S!NoTransfer,
     S!Blocked, S!TransferredAway
<1>8. LoanInv'
  BY <1>1, <1>2 DEF LocksInv, LockTypes, OpInv, LentIsReserved, LoanInv, Lent, S!Transfer, S!NoTransfer
<1>9. HauledInv' /\ Regained
  <2>1. HauledInv /\ LockTypes
    BY <1>1 DEF LocksInv
  <2>2. \A z \in Skirmishes : hauled'[z] \subseteq {u \in Threads : lock_pid'[z] # u}
    BY <2>1 DEF HauledInv, HauledStill
  <2>3. \A z \in Skirmishes : \A u \in hauled'[z] : skirmish'[z] = "live" /\ held'[u][z] = held[u][z]
    BY <2>1, <2>2 DEF LockTypes, HauledStill
  <2>4. \A z \in Skirmishes : transfer'[z] \in {transfer[z], S!NoTransfer}
    BY <2>1 DEF LockTypes
  <2> QED
    BY <1>2, <2>1, <2>3, <2>4, StillHauled
<1>10. HeldInv'
  BY <1>1, <1>2, <1>9 DEF LocksInv, LockTypes, OpInv, OwnerInv, LentIsReserved, Lent, HeldInv, HauledInv, Regained,
     Claim, S!Transfer, S!NoTransfer
<1>11. NoLostWakeup'
  BY <1>1, <1>2 DEF LocksInv, LockTypes, OpInv, OwnerInv, QueuedInv, NoLostWakeup, S!Op, S!At,
     S!Blocked, S!TransferredAway
<1> QED
  BY <1>3, <1>4, <1>5, <1>6, <1>7, <1>8, <1>9, <1>10, <1>11 DEF LocksInv


(* A signal ends a prevail.                                                *)
LEMMA InterruptStep ==
  ASSUME IInv, NEW t \in Threads, C!Free(t), UNCHANGED callVars, HauledStill,
         S!Interrupt(t)
  PROVE  LocksInv'
<1> USE WorldAssumption
<1> DEFINE s == op[t].id
<1>1. LocksInv /\ cop[t].at = "user"
  BY DEF IInv, C!Free
<1>2. dev' = dev /\ cop' = cop /\ owner' = owner /\ dispatcher_pid' = dispatcher_pid
  BY CallsKept DEF IInv
<1>3. /\ s \in Skirmishes /\ op' = [op EXCEPT ![t] = S!At("user")]
      /\ wq' = [wq EXCEPT ![s] = @ \ {t}]
      /\ UNCHANGED <<skirmish, lock_fid, lock_pid, lock_count, notify_count, transfer, held>>
  BY <1>1 DEF LocksInv, OpInv, S!Interrupt, S!Return, S!lockVars
<1>4. \A z \in Skirmishes : t \notin wq'[z]
  BY <1>1, <1>3 DEF LocksInv, LockTypes, QueuedInv
<1> HIDE DEF s
<1>5. LockTypes'
  BY <1>1, <1>3 DEF LocksInv, LockTypes, S!Op, S!At, S!Places
<1>6. OpInv'
  BY <1>1, <1>3 DEF LocksInv, LockTypes, OpInv, S!At
<1>7. QueuedInv'
  BY <1>1, <1>3, <1>4 DEF LocksInv, LockTypes, QueuedInv
<1>8. OwnerInv'
  BY <1>1, <1>3 DEF LocksInv, OwnerInv
<1>9. LentIsReserved' /\ LoanInv'
  BY <1>1, <1>2, <1>3 DEF LocksInv, LentIsReserved, LoanInv, Lent
<1>10. HauledInv' /\ Regained
  BY <1>1, <1>2, <1>3, StillHauled DEF LocksInv
<1>11. HeldInv'
  BY <1>1, <1>2, <1>3, <1>10 DEF LocksInv, LockTypes, HeldInv, HauledInv, Regained, Claim
<1>12. NoLostWakeup'
  BY <1>1, <1>2, <1>3, <1>4 DEF LocksInv, LockTypes, NoLostWakeup, S!Blocked, S!TransferredAway
<1> QED
  BY <1>5, <1>6, <1>7, <1>8, <1>9, <1>11, <1>12, <1>10 DEF LocksInv

(* Every step of the skirmishes.                                           *)
LEMMA SkirmishStepKeeps ==
  ASSUME ~ UseWait, IInv, NEW t \in Threads, SkirmishStep(t)
  PROVE  IInv'
<1>1. C!Free(t) /\ UNCHANGED callVars /\ HauledStill
  BY DEF SkirmishStep
<1>2. CallsInv'
  BY <1>1, CallsKept DEF IInv
<1>3. op \in [Threads -> S!Op] /\ op[t].at \in {"user", "prevail"}
  BY DEF IInv, LocksInv, LockTypes, OpInv
<1>4. ASSUME NEW s \in Skirmishes, S!Wait(t, s) PROVE op'[t].at = "wait"
  BY <1>3, <1>4 DEF S!Wait
<1>5. ASSUME NEW s \in Skirmishes, S!Ioctl(t, s, dispatcher_pid), op'[t].at # "wait" PROVE LocksInv'
  BY <1>1, <1>4, <1>5, PrevailAgainStep, PrevailTakeStep, PrevailSleepStep, SwoopStep, DismissStep,
     NotifyStep, DestroyStep DEF S!Ioctl
<1>6. ASSUME S!Continue(t, dispatcher_pid) PROVE LocksInv'
  BY <1>1, <1>3, <1>6, PrevailWokenStep, FindGoneStep DEF S!Continue, S!WaitWoken, S!RelockWoken, S!Awake
<1>7. ~ S!WaitResume(t) /\ ~ S!WaitTimeout(t)
  BY <1>3 DEF S!WaitResume, S!WaitTimeout
<1>8. ASSUME S!Interrupt(t) PROVE LocksInv'
  BY <1>1, <1>8, InterruptStep
<1>9. LocksInv'
  BY <1>5, <1>6, <1>7, <1>8 DEF SkirmishStep
<1> QED
  BY <1>2, <1>9 DEF IInv

-----------------------------------------------------------------------------
(* A step of the calls that enters or leaves no sleep in a call, except by *)
(* a signal, and makes at most its own thread the dispatcher.              *)
Aside(t) ==
  /\ CopShape'
  /\ \A u \in Threads \ {t} : cop'[u] = cop[u]
  /\ \/ cop'[t] = cop[t]
     \/ /\ cop[t].at = "execute" => "signal" \in dev.env
        /\ ~ C!InExecute(t)'
     \/ /\ cop[t].at # "execute" /\ cop'[t].at = "transfer"
        /\ t \in Callers /\ cop'[t].call \in Calls
        /\ state[cop'[t].call] # "unborn" /\ owner[cop'[t].call] \in Fusionees
  /\ state' \in [Calls -> {"unborn", "live", "gone"}]
  /\ owner' \in [Calls -> Fusionees \cup {None}]
  /\ \A c \in Calls : state[c] # "unborn" => state'[c] # "unborn" /\ owner'[c] = owner[c]
  /\ listed' = listed /\ dev' = dev
  /\ \/ dispatcher_pid' = dispatcher_pid
     \/ t = Reader[Fid[t]] /\ dispatcher_pid' = [dispatcher_pid EXCEPT ![Fid[t]] = t]

\* t goes to a place outside a synchronous call.
Elsewhere == {"user", "return", "processing", "pending", "destroy", "lookup"}
Goes(t) == \E p \in Elsewhere : \E c, n : cop' = [cop EXCEPT ![t] = C!In(p, c, n)]

(* A thread goes somewhere else, and nothing else changes.                 *)
LEMMA MoveIsAside ==
  ASSUME CallsInv, NEW t \in Threads, Goes(t), cop[t].at = "execute" => "signal" \in dev.env,
         UNCHANGED <<state, owner, listed, dispatcher_pid, dev>>
  PROVE  Aside(t)
<1> PICK p, c, n : p \in Elsewhere /\ cop' = [cop EXCEPT ![t] = C!In(p, c, n)]
  BY DEF Goes
<1>1. CallersInv
  BY DEF CallsInv
<1>2. CopShape'
  BY <1>1 DEF CallersInv, CopShape, C!In
<1>3. cop'[t].at = p /\ \A u \in Threads \ {t} : cop'[u] = cop[u]
  BY <1>1 DEF CallersInv, CopShape, C!In
<1>4. ~ C!InExecute(t)'
  BY <1>3 DEF C!InExecute, Elsewhere
<1> QED
  BY <1>1, <1>2, <1>3, <1>4 DEF Aside, CallersInv

(* No thread moves, and nothing else changes but perhaps a dispatcher.     *)
LEMMA StayIsAside ==
  ASSUME CallsInv, NEW t \in Threads, UNCHANGED <<cop, state, owner, listed, dev>>,
         \/ UNCHANGED dispatcher_pid
         \/ t = Reader[Fid[t]] /\ dispatcher_pid' = [dispatcher_pid EXCEPT ![Fid[t]] = t]
  PROVE  Aside(t)
<1>1. CallersInv
  BY DEF CallsInv
<1>2. CopShape'
  BY <1>1 DEF CallersInv, CopShape
<1> QED
  BY <1>1, <1>2 DEF Aside, CallersInv

LEMMA ExecuteIsAside ==
  ASSUME CallsInv, NEW t \in Callers, NEW c \in Calls, C!ExecuteSync(t, c)
  PROVE  Aside(t)
<1> USE WorldAssumption
<1>1. /\ cop' = [cop EXCEPT ![t] = C!In("transfer", c, count[c] + 1)] /\ cop[t].at = "user"
      /\ state[c] = "live" /\ owner[c] \in listed
      /\ UNCHANGED <<state, owner, listed, dispatcher_pid, dev>>
  BY DEF C!ExecuteSync, C!Free, C!Lockable, C!Q!Send, C!devVars
<1>2. CallersInv /\ t \in Threads
  BY DEF CallsInv
<1> DEFINE n == count[c] + 1
<1> HIDE DEF n
<1>3. cop' = [cop EXCEPT ![t] = C!In("transfer", c, n)]
  BY <1>1 DEF n
<1>4. CopShape'
  BY <1>2, <1>3 DEF CallersInv, CopShape, C!In
<1>5. cop'[t] = C!In("transfer", c, n) /\ \A u \in Threads \ {t} : cop'[u] = cop[u]
  BY <1>2, <1>3 DEF CallersInv, CopShape
<1>6. cop'[t].at = "transfer" /\ cop'[t].call = c
  BY <1>5 DEF C!In
<1>7. owner[c] \in Fusionees /\ state[c] # "unborn"
  BY <1>1, <1>2 DEF CallersInv
<1> QED
  BY <1>1, <1>2, <1>4, <1>5, <1>6, <1>7 DEF Aside, CallersInv

(* The callers' other steps.                                               *)
LEMMA CallerIsAside ==
  ASSUME CallsInv, NEW t \in Callers,
         \/ \E c \in Calls : C!ExecuteOneway(t, c) \/ C!LockBlocks(t, c)
         \/ C!CallerSignal(t)
         \/ C!LockGranted(t)
  PROVE  Aside(t)
<1> USE WorldAssumption DEF C!msgVars, C!listVars, C!lockVars, C!devVars
<1>1. C!User = C!In("user", None, 0)
  BY DEF C!User, C!In
<1>2. ASSUME NEW c \in Calls, C!ExecuteOneway(t, c) PROVE Aside(t)
  <2>1. UNCHANGED <<cop, state, owner, listed, dev, dispatcher_pid>>
    BY <1>2 DEF C!ExecuteOneway, C!Q!Send
  <2> QED
    BY <2>1, StayIsAside
<1>3. ASSUME NEW c \in Calls, C!LockBlocks(t, c) PROVE Aside(t)
  <2>1. /\ cop' = [cop EXCEPT ![t] = C!In("lookup", c, 0)] /\ cop[t].at = "user"
        /\ UNCHANGED <<state, owner, listed, dispatcher_pid, dev>>
    BY <1>3 DEF C!LockBlocks, C!Free
  <2> QED
    BY <2>1, MoveIsAside DEF Goes, Elsewhere
<1>4. ASSUME C!CallerSignal(t) PROVE Aside(t)
  <2>1. /\ cop' = [cop EXCEPT ![t] = C!In("user", None, 0)] /\ "signal" \in dev.env
        /\ UNCHANGED <<state, owner, listed, dispatcher_pid, dev>>
    BY <1>1, <1>4 DEF C!CallerSignal
  <2> QED
    BY <2>1, MoveIsAside DEF Goes, Elsewhere
<1>5. ASSUME C!LockGranted(t) PROVE Aside(t)
  <2>1. /\ cop' = [cop EXCEPT ![t] = C!In("user", None, 0)] /\ cop[t].at = "lookup"
        /\ UNCHANGED <<state, owner, listed, dispatcher_pid, dev>>
    BY <1>1, <1>5 DEF C!LockGranted
  <2> QED
    BY <2>1, MoveIsAside DEF Goes, Elsewhere
<1> QED
  BY <1>2, <1>3, <1>4, <1>5

(* A new call is one that nobody was in, and a destroyed one still had an  *)
(* owner.                                                                  *)
LEMMA NewIsAside ==
  ASSUME CallsInv, NEW t \in Owners, NEW c \in Calls, C!New(t, c)
  PROVE  Aside(t)
<1>1. /\ state[c] = "unborn" /\ state' = [state EXCEPT ![c] = "live"]
      /\ owner' = [owner EXCEPT ![c] = Fid[t]]
      /\ UNCHANGED <<cop, listed, dispatcher_pid, dev>>
  BY DEF C!New, C!msgVars, C!lockVars, C!devVars
<1>2. CallersInv /\ t \in Threads /\ Fid[t] \in Fusionees
  BY WorldAssumption DEF CallsInv
<1>3. CopShape'
  BY <1>1, <1>2 DEF CallersInv, CopShape
<1> QED
  BY <1>1, <1>2, <1>3 DEF Aside, CallersInv

LEMMA FinishIsAside ==
  ASSUME CallsInv, NEW t \in Owners, C!DestroyFinish(t)
  PROVE  Aside(t)
<1>1. /\ cop[t].at = "destroy" /\ cop' = [cop EXCEPT ![t] = C!In("user", None, 0)]
      /\ state' = [c \in Calls |-> IF c \in {cop[t].call} THEN "gone" ELSE state[c]]
      /\ UNCHANGED <<owner, listed, dispatcher_pid, dev>>
  BY DEF C!DestroyFinish, C!DestroyCalls, C!msgVars, C!devVars, C!User, C!In
<1>2. CallersInv /\ t \in Threads
  BY WorldAssumption DEF CallsInv
<1>3. CopShape'
  BY <1>1, <1>2 DEF CallersInv, CopShape, C!In
<1>4. cop'[t].at = "user" /\ \A u \in Threads \ {t} : cop'[u] = cop[u]
  BY <1>1, <1>2 DEF CallersInv, CopShape, C!In
<1>5. state' \in [Calls -> {"unborn", "live", "gone"}]
      /\ \A c \in Calls : state[c] # "unborn" => state'[c] # "unborn"
  BY <1>1, <1>2 DEF CallersInv
<1> QED
  BY <1>1, <1>2, <1>3, <1>4, <1>5 DEF Aside, CallersInv, C!InExecute

(* The owners' steps.                                                      *)
LEMMA OwnerIsAside ==
  ASSUME CallsInv, NEW t \in Owners, C!OwnerStep(t)
  PROVE  Aside(t)
<1> USE WorldAssumption DEF C!msgVars, C!listVars, C!lockVars, C!devVars
<1> DEFINE Others == UNCHANGED <<state, owner, listed, dispatcher_pid, dev>>
<1>1. C!User = C!In("user", None, 0)
  BY DEF C!User, C!In
<1>2. ASSUME NEW c, C!DestroyLoop(t, c), cop[t].at # "execute" PROVE Aside(t)
  <2>1. cop' = [cop EXCEPT ![t] = C!In("processing", c, 0)] /\ Others
    BY <1>2 DEF C!DestroyLoop, C!Q!WaitProcessing
  <2> QED
    BY <1>2, <2>1, MoveIsAside DEF Goes, Elsewhere
<1>3. ASSUME C!Dispatch(t) PROVE Aside(t)
  <2>1. /\ UNCHANGED <<cop, state, owner, listed, dev>>
        /\ \/ UNCHANGED dispatcher_pid
           \/ t = Reader[Fid[t]] /\ dispatcher_pid' = [dispatcher_pid EXCEPT ![Fid[t]] = t]
    BY <1>3 DEF C!Dispatch, C!Q!ReadSleep, C!Q!ReadNow, C!Q!ReadWoken
  <2> QED
    BY <2>1, StayIsAside
<1>4. ASSUME NEW i, C!Return(t, i) PROVE Aside(t)
  <2>1. PICK c, n : cop' = [cop EXCEPT ![t] = C!In("return", c, n)]
    BY <1>4 DEF C!Return
  <2>2. cop[t].at = "user" /\ Others
    BY <1>4 DEF C!Return, C!Free
  <2> QED
    BY <2>1, <2>2, MoveIsAside DEF Goes, Elsewhere
<1>5. ASSUME NEW i, C!ReturnToNobody(t, i) \/ C!ReturnFails(t, i) PROVE Aside(t)
  <2>1. UNCHANGED cop /\ Others
    BY <1>5 DEF C!ReturnToNobody, C!ReturnFails
  <2> QED
    BY <2>1, StayIsAside
<1>6. ASSUME C!ReturnWake(t) PROVE Aside(t)
  <2>1. cop[t].at = "return" /\ cop' = [cop EXCEPT ![t] = C!In("user", None, 0)] /\ Others
    BY <1>1, <1>6 DEF C!ReturnWake
  <2> QED
    BY <2>1, MoveIsAside DEF Goes, Elsewhere
<1>7. ASSUME C!ProcessingWoken(t) PROVE Aside(t)
  <2>1. UNCHANGED cop /\ Others
    BY <1>7 DEF C!ProcessingWoken, C!Q!ProcessingWoken
  <2> QED
    BY <2>1, StayIsAside
<1>8. ASSUME C!Interrupt(t) PROVE Aside(t)
  <2>1. "signal" \in dev.env /\ cop' = [cop EXCEPT ![t] = C!In("user", None, 0)] /\ Others
    BY <1>1, <1>8 DEF C!Interrupt, C!Q!Interrupt
  <2> QED
    BY <2>1, MoveIsAside DEF Goes, Elsewhere
<1>9. ASSUME C!DestroyLock(t) PROVE Aside(t)
  <2>1. \E p, c, n : /\ p \in {"user", "destroy", "pending"}
                     /\ cop' = [cop EXCEPT ![t] = C!In(p, c, n)]
    BY ONLY <1>1, <1>9 DEF C!DestroyLock
  <2>2. cop[t].at = "processing" /\ Others
    BY <1>9 DEF C!DestroyLock
  <2> QED
    BY <2>1, <2>2, MoveIsAside DEF Goes, Elsewhere
<1>10. ASSUME C!DestroyFinish(t) PROVE Aside(t)
  BY <1>10, FinishIsAside
<1>11. ASSUME NEW c \in Calls, C!New(t, c) \/ C!DestroyStart(t, c) PROVE Aside(t)
  BY <1>2, <1>11, NewIsAside DEF C!DestroyStart, C!Free
<1>12. ASSUME C!DestroyWoken(t) PROVE Aside(t)
  BY <1>2, <1>12 DEF C!DestroyWoken
<1> QED
  BY <1>3, <1>4, <1>5, <1>6, <1>7, <1>8, <1>9, <1>10, <1>11, <1>12 DEF C!OwnerStep

(* Such a step changes nothing for the skirmishes: if its thread becomes a *)
(* dispatcher, it sleeps on no skirmish, and nobody else was one.          *)
LEMMA AsideKeeps ==
  ASSUME IInv, NEW t \in Threads, Aside(t), S!InUser(t), UNCHANGED skirmishVars
  PROVE  IInv'
<1> USE WorldAssumption DEF skirmishVars
<1>1. CallersInv /\ DispatchersInv /\ LocksInv
  BY DEF IInv, CallsInv
<1>2. \A u \in Threads : C!InExecute(u)' => (C!InExecute(u) /\ cop'[u] = cop[u]) \/ u = t
  BY DEF Aside, C!InExecute
<1>3. CallersInv'
  <2> SUFFICES ASSUME NEW u \in Threads, C!InExecute(u)'
               PROVE  /\ u \in Callers /\ cop'[u].call \in Calls
                      /\ state'[cop'[u].call] # "unborn" /\ owner'[cop'[u].call] \in Fusionees
    BY <1>1 DEF Aside, CallersInv
  <2>1. CASE cop'[u] = cop[u]
    <3>1. C!InExecute(u)
      BY <2>1 DEF C!InExecute
    <3> QED
      BY <1>1, <2>1, <3>1 DEF Aside, CallersInv
  <2>2. CASE cop'[u] # cop[u]
    <3>1. u = t
      BY <2>2 DEF Aside
    <3> QED
      BY <2>2, <3>1 DEF Aside, C!InExecute
  <2> QED
    BY <2>1, <2>2
<1>4. DispatchersInv'
  BY <1>1 DEF Aside, DispatchersInv
<1>5. \A f \in Fusionees : \/ dispatcher_pid'[f] = dispatcher_pid[f]
                           \/ dispatcher_pid[f] = None /\ dispatcher_pid'[f] = t
  BY <1>1 DEF Aside, DispatchersInv
<1>6. \A u \in Threads : cop[u].at = "execute" /\ "signal" \notin dev.env => cop'[u] = cop[u]
  BY DEF Aside, C!InExecute
<1>7. \A u \in Threads : cop'[u].at = "execute" => cop'[u] = cop[u]
  BY DEF Aside, C!InExecute
<1>8. /\ LockTypes' /\ OpInv' /\ QueuedInv' /\ OwnerInv'
      /\ \A s \in Skirmishes : Lent(s)' <=> Lent(s)
  BY <1>1 DEF LocksInv, LockTypes, OpInv, QueuedInv, OwnerInv, Lent
<1>9. \A s \in Skirmishes : Lent(s) => transfer[s].pid \in Threads /\ transfer[s].to \in Fusionees
  BY <1>1 DEF LocksInv, LockTypes, Lent, S!Transfer, S!NoTransfer
<1>10. LentIsReserved'
  <2> SUFFICES ASSUME NEW s \in Skirmishes, Lent(s)
               PROVE  /\ lock_pid[s] \in {None, dispatcher_pid'[transfer[s].to]}
                      /\ transfer[s].from = Fid[transfer[s].pid]
                      /\ "signal" \notin dev.env =>
                           /\ cop'[transfer[s].pid].at = "execute"
                           /\ transfer[s].to = owner'[cop'[transfer[s].pid].call]
    BY <1>8 DEF Aside, LentIsReserved
  <2> DEFINE p == transfer[s].pid
  <2>1. /\ lock_pid[s] \in {None, dispatcher_pid[transfer[s].to]}
        /\ transfer[s].from = Fid[p]
        /\ "signal" \notin dev.env => cop[p].at = "execute" /\ transfer[s].to = owner[cop[p].call]
    BY <1>1 DEF LocksInv, LentIsReserved
  <2>2. lock_pid[s] \in {None, dispatcher_pid'[transfer[s].to]}
    BY <1>5, <1>9, <2>1
  <2>3. "signal" \notin dev.env => cop'[p].at = "execute" /\ transfer[s].to = owner'[cop'[p].call]
    <3> SUFFICES ASSUME "signal" \notin dev.env PROVE cop'[p].at = "execute" /\ transfer[s].to = owner'[cop'[p].call]
      OBVIOUS
    <3>1. p \in Threads /\ cop'[p] = cop[p] /\ C!InExecute(p)
      BY <1>6, <1>9, <2>1 DEF C!InExecute
    <3>2. cop[p].call \in Calls /\ owner'[cop[p].call] = owner[cop[p].call]
      BY <1>1, <3>1 DEF CallersInv, Aside
    <3> QED
      BY <2>1, <3>1, <3>2
  <2> QED
    BY <2>1, <2>2, <2>3
<1>11. LoanInv'
  BY <1>1, <1>7, <1>8, <1>9 DEF LocksInv, LoanInv
<1>12. HeldInv' /\ HauledInv'
  <2>1. HauledInv'
    BY <1>1, <1>5 DEF LocksInv, HauledInv, Aside
  <2> QED
    BY <1>1, <2>1 DEF LocksInv, HeldInv, Claim, Aside
<1>13. NoLostWakeup'
  <2> SUFFICES ASSUME NEW s \in Skirmishes, NEW u \in wq[s]
               PROVE  /\ skirmish[s] = "live"
                      /\ op[u].at = "prevail" => S!Blocked(u, s, dispatcher_pid')
    BY DEF NoLostWakeup, S!Blocked, S!TransferredAway
  <2>1. skirmish[s] = "live" /\ op[u].at = "prevail" /\ S!Blocked(u, s, dispatcher_pid) /\ u # t
    BY <1>1 DEF LocksInv, NoLostWakeup, QueuedInv, S!InUser
  <2>2. S!TransferredAway(u, s, dispatcher_pid) => S!TransferredAway(u, s, dispatcher_pid')
    BY <1>5, <1>9, <2>1 DEF S!TransferredAway, Lent
  <2> QED
    BY <2>1, <2>2 DEF S!Blocked
<1> QED
  BY <1>3, <1>4, <1>8, <1>10, <1>11, <1>12, <1>13 DEF IInv, CallsInv, LocksInv

LEMMA CallStepKeeps ==
  ASSUME IInv, NEW t \in Threads, CallStep(t)
  PROVE  IInv'
<1>1. CallsInv /\ S!InUser(t) /\ UNCHANGED skirmishVars
  BY DEF IInv, CallStep
<1>2. Aside(t)
  BY <1>1, ExecuteIsAside, CallerIsAside, OwnerIsAside DEF CallStep
<1> QED
  BY <1>1, <1>2, AsideKeeps

-----------------------------------------------------------------------------
(* The thread that goes to sleep in its call, or comes back.               *)
LEMMA LendCalls ==
  ASSUME CallsInv, NEW t \in Callers, C!ExecuteSleep(t)
  PROVE  /\ CallsInv' /\ t \in Threads /\ cop[t].at = "transfer"
         /\ cop'[t].at = "execute" /\ cop'[t].call = cop[t].call
         /\ \A u \in Threads \ {t} : cop'[u] = cop[u]
         /\ owner[cop[t].call] \in Fusionees
         /\ UNCHANGED <<owner, dispatcher_pid, dev>>
<1> USE WorldAssumption
<1>1. /\ cop[t].at = "transfer" /\ cop' = [cop EXCEPT ![t].at = "execute"]
      /\ UNCHANGED <<state, owner, listed, dispatcher_pid, dev>>
  BY DEF C!ExecuteSleep, C!msgVars, C!listVars, C!devVars
<1>2. CallersInv /\ DispatchersInv /\ t \in Threads /\ C!InExecute(t)
  BY <1>1 DEF CallsInv, C!InExecute
<1>3. cop[t] = C!In(cop[t].at, cop[t].call, cop[t].n)
  BY <1>2 DEF CallersInv, CopShape
<1>4. cop'[t] = C!In("execute", cop[t].call, cop[t].n)
  BY <1>1, <1>2, <1>3 DEF CallersInv, CopShape, C!In
<1>5. \A u \in Threads \ {t} : cop'[u] = cop[u]
  BY <1>1, <1>2 DEF CallersInv, CopShape
<1>6. CopShape'
  BY <1>1, <1>2 DEF CallersInv, CopShape, C!In
<1>7. cop'[t].at = "execute" /\ cop'[t].call = cop[t].call
  BY <1>4 DEF C!In
<1>8. CallersInv'
  BY <1>1, <1>2, <1>5, <1>6, <1>7 DEF CallersInv, C!InExecute
<1>9. DispatchersInv'
  BY <1>1, <1>2 DEF DispatchersInv
<1>10. owner[cop[t].call] \in Fusionees
  BY <1>2 DEF CallersInv
<1> QED
  BY <1>1, <1>2, <1>5, <1>7, <1>8, <1>9, <1>10 DEF CallsInv

LEMMA ReclaimCalls ==
  ASSUME CallsInv, NEW t \in Callers, C!CallerWoken(t)
  PROVE  /\ CallsInv' /\ t \in Threads /\ cop[t].at = "execute" /\ cop'[t].at = "user"
         /\ \A u \in Threads \ {t} : cop'[u] = cop[u]
         /\ UNCHANGED <<owner, dispatcher_pid, dev>>
<1> USE WorldAssumption
<1>1. /\ cop[t].at = "execute" /\ cop' = [cop EXCEPT ![t] = C!In("user", None, 0)]
      /\ UNCHANGED <<state, owner, listed, dispatcher_pid, dev>>
  BY DEF C!CallerWoken, C!msgVars, C!listVars, C!lockVars, C!devVars, C!User, C!In
<1>2. CallersInv /\ DispatchersInv /\ t \in Threads
  BY DEF CallsInv
<1>3. cop'[t] = C!In("user", None, 0) /\ \A u \in Threads \ {t} : cop'[u] = cop[u]
  BY <1>1, <1>2 DEF CallersInv, CopShape
<1>4. CopShape'
  BY <1>1, <1>2 DEF CallersInv, CopShape, C!In
<1>5. cop'[t].at = "user"
  BY <1>3 DEF C!In
<1>6. CallersInv'
  BY <1>1, <1>2, <1>3, <1>4, <1>5 DEF CallersInv, C!InExecute
<1>7. DispatchersInv'
  BY <1>1, <1>2 DEF DispatchersInv
<1> QED
  BY <1>1, <1>2, <1>3, <1>5, <1>6, <1>7 DEF CallsInv

(* What a thread lends has not been lent: it owns it no longer, its        *)
(* sleepers are woken, and its claim becomes the transfer's count.         *)
LEMMA LendStep ==
  ASSUME IInv, NotLentTwice, NEW t \in Callers, Lend(t)
  PROVE  IInv'
<1> USE WorldAssumption
<1> DEFINE Own == {s \in Skirmishes : lock_pid[s] = t}
           to == owner[cop[t].call]
           Loan(s) == [to |-> to, from |-> Fid[t], pid |-> t, count |-> lock_count[s]]
<1>1. /\ CallsInv' /\ t \in Threads /\ cop[t].at = "transfer"
      /\ cop'[t].at = "execute" /\ cop'[t].call = cop[t].call
      /\ \A u \in Threads \ {t} : cop'[u] = cop[u]
      /\ to \in Fusionees
      /\ UNCHANGED <<owner, dispatcher_pid, dev>>
  BY LendCalls DEF IInv, Lend
<1>2. /\ transfer' = [s \in Skirmishes |-> IF s \in Own THEN Loan(s) ELSE transfer[s]]
      /\ lock_fid' = [s \in Skirmishes |-> IF s \in Own THEN None ELSE lock_fid[s]]
      /\ lock_pid' = [s \in Skirmishes |-> IF s \in Own THEN None ELSE lock_pid[s]]
      /\ lock_count' = [s \in Skirmishes |-> IF s \in Own THEN 0 ELSE lock_count[s]]
      /\ wq' = [s \in Skirmishes |-> IF s \in Own THEN {} ELSE wq[s]]
      /\ UNCHANGED <<skirmish, notify_count, op, held, hauled>>
  BY DEF Lend, S!TransferAll
<1>3. LocksInv /\ \A s \in Own : ~ Lent(s)
  BY <1>1 DEF IInv, NotLentTwice
<1>4. \A s \in Own : Loan(s) \in S!Transfer /\ skirmish[s] = "live"
  <2> SUFFICES ASSUME NEW s \in Own PROVE Loan(s) \in S!Transfer /\ skirmish[s] = "live"
    OBVIOUS
  <2>1. s \in Skirmishes /\ lock_pid[s] # None
    BY <1>1
  <2>2. lock_count[s] \in Nat /\ lock_count[s] > 0 /\ skirmish[s] = "live"
    BY <1>3, <2>1 DEF LocksInv, LockTypes, OwnerInv
  <2>3. lock_count[s] \in Nat \ {0} /\ Fid[t] \in Fusionees
    BY <1>1, <2>2
  <2> QED
    BY <1>1, <2>2, <2>3 DEF S!Transfer
<1>5. \A s \in Own : /\ transfer'[s].to = to /\ transfer'[s].from = Fid[t] /\ transfer'[s].pid = t
                   /\ transfer'[s].count = lock_count[s]
                   /\ lock_pid'[s] = None /\ lock_fid'[s] = None /\ wq'[s] = {} /\ lock_pid[s] = t
  BY <1>2
<1>6. \A s \in Skirmishes \ Own : /\ transfer'[s] = transfer[s] /\ lock_pid'[s] = lock_pid[s]
                                /\ lock_fid'[s] = lock_fid[s] /\ lock_count'[s] = lock_count[s]
                                /\ wq'[s] = wq[s] /\ lock_pid[s] # t
  BY <1>2
<1>7. LockTypes'
  BY <1>2, <1>3, <1>4 DEF LocksInv, LockTypes
<1> HIDE DEF Own, to
<1>8. Own \subseteq Skirmishes
  BY DEF Own
<1>9. \A s \in Skirmishes : Lent(s) => transfer[s].pid \in Threads
  BY <1>3 DEF LocksInv, LockTypes, Lent, S!Transfer, S!NoTransfer
<1>10. OpInv' /\ QueuedInv'
  BY <1>2, <1>3, <1>5, <1>6 DEF LocksInv, OpInv, QueuedInv
<1>11. OwnerInv'
  BY <1>2, <1>3, <1>5, <1>6 DEF LocksInv, OwnerInv
<1>12. LentIsReserved'
  <2> SUFFICES ASSUME NEW s \in Skirmishes, Lent(s)'
               PROVE  /\ lock_pid'[s] \in {None, dispatcher_pid'[transfer'[s].to]}
                      /\ transfer'[s].from = Fid[transfer'[s].pid]
                      /\ "signal" \notin dev'.env =>
                           /\ cop'[transfer'[s].pid].at = "execute"
                           /\ transfer'[s].to = owner'[cop'[transfer'[s].pid].call]
    BY DEF LentIsReserved
  <2>1. CASE s \in Own
    BY <1>1, <1>5, <2>1 DEF to
  <2>2. CASE s \notin Own
    <3>1. Lent(s) /\ transfer'[s] = transfer[s] /\ lock_pid'[s] = lock_pid[s]
      BY <1>6, <2>2 DEF Lent
    <3>2. "signal" \notin dev.env => transfer[s].pid # t
      BY <1>1, <1>3, <3>1 DEF LocksInv, LentIsReserved
    <3> QED
      BY <1>1, <1>3, <1>9, <3>1, <3>2 DEF LocksInv, LentIsReserved
  <2> QED
    BY <2>1, <2>2
<1>13. LoanInv'
  <2> SUFFICES ASSUME NEW s \in Skirmishes, Lent(s)'
               PROVE  /\ skirmish'[s] = "live"
                      /\ cop'[transfer'[s].pid].at = "execute" => lock_pid'[s] # transfer'[s].pid
    BY DEF LoanInv
  <2>1. CASE s \in Own
    BY <1>1, <1>2, <1>4, <1>5, <2>1
  <2>2. CASE s \notin Own
    <3>1. Lent(s) /\ transfer'[s] = transfer[s] /\ lock_pid'[s] = lock_pid[s] /\ lock_pid[s] # t
      BY <1>6, <2>2 DEF Lent
    <3> QED
      BY <1>1, <1>2, <1>3, <1>9, <3>1 DEF LocksInv, LoanInv
  <2> QED
    BY <2>1, <2>2
<1>14. HeldInv'
  <2> SUFFICES ASSUME NEW u \in Threads, NEW s \in Skirmishes PROVE Claim(u, s)' = Claim(u, s)
    BY <1>1, <1>2, <1>3 DEF LocksInv, HeldInv
  <2>1. CASE s \in Own
    <3>1. transfer[s].pid = None
      BY <1>3, <1>8, <2>1 DEF LocksInv, LockTypes, Lent, S!Transfer, S!NoTransfer
    <3> QED
      BY <1>5, <2>1, <3>1 DEF Claim
  <2>2. CASE s \notin Own
    BY <1>6, <2>2 DEF Claim
  <2> QED
    BY <2>1, <2>2
<1>15. NoLostWakeup'
  BY <1>1, <1>2, <1>3, <1>5, <1>6 DEF LocksInv, NoLostWakeup, S!Blocked, S!TransferredAway
<1>16. HauledInv'
  <2> SUFFICES ASSUME NEW s \in Skirmishes, NEW u \in hauled[s]
               PROVE  u \notin {lock_pid'[s], transfer'[s].pid}
    BY <1>1, <1>2, <1>3 DEF LocksInv, HauledInv
  <2>1. u \in Threads /\ u \notin {lock_pid[s], transfer[s].pid}
    BY <1>3 DEF LocksInv, HauledInv
  <2>2. CASE s \in Own
    BY <1>5, <2>1, <2>2
  <2>3. CASE s \notin Own
    BY <1>6, <2>1, <2>3
  <2> QED
    BY <2>2, <2>3
<1> QED
  BY <1>1, <1>7, <1>10, <1>11, <1>12, <1>13, <1>14, <1>15, <1>16 DEF IInv, LocksInv

(* What comes back is the caller's again, at the depth it lent it.  Who    *)
(* still has it then is the dispatcher of the callee, and is hauled.       *)
LEMMA ReclaimStep ==
  ASSUME IInv, NEW t \in Callers, Reclaim(t)
  PROVE  IInv'
<1> USE WorldAssumption
<1> DEFINE Back == {s \in Skirmishes : transfer[s].pid = t}
<1>1. /\ CallsInv' /\ t \in Threads /\ cop[t].at = "execute" /\ cop'[t].at = "user"
      /\ \A u \in Threads \ {t} : cop'[u] = cop[u]
      /\ UNCHANGED <<owner, dispatcher_pid, dev>>
  BY ReclaimCalls DEF IInv, Reclaim
<1>2. /\ transfer' = [s \in Skirmishes |-> IF s \in Back THEN S!NoTransfer ELSE transfer[s]]
      /\ lock_fid' = [s \in Skirmishes |-> IF s \in Back THEN transfer[s].from ELSE lock_fid[s]]
      /\ lock_pid' = [s \in Skirmishes |-> IF s \in Back THEN t ELSE lock_pid[s]]
      /\ lock_count' = [s \in Skirmishes |-> IF s \in Back THEN transfer[s].count ELSE lock_count[s]]
      /\ hauled' = [s \in Skirmishes |->
           IF s \in Back THEN hauled[s] \cup ({lock_pid[s]} \ {None, t}) ELSE hauled[s]]
      /\ UNCHANGED <<skirmish, notify_count, wq, op, held>>
  BY DEF Reclaim, S!ReclaimAll
<1>3. LocksInv
  BY DEF IInv
<1>4. \A s \in Back : /\ Lent(s) /\ transfer[s] \in S!Transfer /\ transfer[s].pid = t
                   /\ transfer[s].count \in Nat /\ transfer[s].count > 0
                   /\ transfer[s].from \in Fusionees
  BY <1>1, <1>3 DEF LocksInv, LockTypes, Lent, S!Transfer, S!NoTransfer
<1>5. \A s \in Back : /\ transfer[s].from = Fid[t] /\ skirmish[s] = "live" /\ lock_pid[s] # t
                   /\ lock_pid[s] \in {None, dispatcher_pid[transfer[s].to]}
  BY <1>1, <1>3, <1>4 DEF LocksInv, LentIsReserved, LoanInv
<1>6. \A s \in Back : /\ transfer'[s] = S!NoTransfer /\ lock_pid'[s] = t
                   /\ lock_fid'[s] = Fid[t] /\ lock_count'[s] = transfer[s].count
  BY <1>2, <1>5
<1>7. \A s \in Skirmishes \ Back : /\ transfer'[s] = transfer[s] /\ lock_pid'[s] = lock_pid[s]
                                /\ lock_fid'[s] = lock_fid[s] /\ lock_count'[s] = lock_count[s]
                                /\ transfer[s].pid # t
  BY <1>2
<1>8. /\ \A s \in Back : hauled'[s] = hauled[s] \cup ({lock_pid[s]} \ {None, t})
      /\ \A s \in Skirmishes \ Back : hauled'[s] = hauled[s]
  BY <1>2
<1>9. LockTypes'
  BY <1>1, <1>2, <1>3, <1>4 DEF LocksInv, LockTypes
<1>10. hauled' \in [Skirmishes -> SUBSET Threads]
  <2>1. \A s \in Skirmishes : lock_pid[s] \in Threads \cup {None} /\ hauled[s] \subseteq Threads
    BY <1>3 DEF LocksInv, LockTypes, HauledInv
  <2> QED
    BY <1>2, <2>1
<1> HIDE DEF Back
<1>11. Back \subseteq Skirmishes /\ \A s \in Skirmishes : s \in Back <=> transfer[s].pid = t
  BY DEF Back
<1>12. \A s \in Skirmishes : Lent(s)' => s \notin Back /\ Lent(s) /\ transfer[s].pid \in Threads \ {t}
  BY <1>3, <1>6, <1>7 DEF LocksInv, LockTypes, Lent, S!Transfer, S!NoTransfer
<1>13. OpInv' /\ QueuedInv'
  BY <1>2, <1>3 DEF LocksInv, OpInv, QueuedInv
<1>14. OwnerInv'
  <2> SUFFICES ASSUME NEW s \in Skirmishes
               PROVE  /\ lock_pid'[s] = None => lock_fid'[s] = None
                      /\ lock_pid'[s] # None => /\ lock_fid'[s] = Fid[lock_pid'[s]]
                                                /\ lock_count'[s] > 0 /\ skirmish'[s] = "live"
    BY DEF OwnerInv
  <2>1. CASE s \in Back
    BY <1>1, <1>2, <1>4, <1>5, <1>6, <2>1
  <2>2. CASE s \notin Back
    BY <1>2, <1>3, <1>7, <2>2 DEF LocksInv, OwnerInv
  <2> QED
    BY <2>1, <2>2
<1>15. LentIsReserved' /\ LoanInv'
  BY <1>1, <1>2, <1>3, <1>7, <1>12 DEF LocksInv, LentIsReserved, LoanInv, Lent
<1>16. HeldInv'
  <2> SUFFICES ASSUME NEW s \in Skirmishes, NEW u \in Threads \ hauled'[s]
               PROVE  Claim(u, s)' = Claim(u, s) /\ u \notin hauled[s]
    BY <1>1, <1>2, <1>3 DEF LocksInv, HeldInv
  <2>1. u \notin hauled[s]
    BY <1>8, <1>11
  <2>2. CASE s \notin Back
    BY <1>7, <2>1, <2>2 DEF Claim
  <2>3. CASE s \in Back /\ u = t
    <3>1. Claim(t, s)' = transfer[s].count /\ Claim(t, s) = transfer[s].count
      BY <1>4, <1>5, <1>6, <2>3 DEF Claim
    <3> QED
      BY <2>1, <2>3, <3>1
  <2>4. CASE s \in Back /\ u # t
    <3>1. lock_pid'[s] = t /\ transfer'[s].pid = None /\ transfer[s].pid = t
      BY <1>4, <1>6, <2>4 DEF S!NoTransfer
    <3>2. lock_pid[s] # u
      BY <1>8, <2>4
    <3> QED
      BY <2>1, <2>4, <3>1, <3>2 DEF Claim
  <2> QED
    BY <2>2, <2>3, <2>4
<1>17. HauledInv'
  <2> SUFFICES ASSUME NEW s \in Skirmishes, NEW u \in hauled'[s]
               PROVE  /\ skirmish[s] = "live" /\ u \notin {lock_pid'[s], transfer'[s].pid}
                      /\ u = dispatcher_pid[Fid[u]]
                      /\ "signal" \notin dev.env => held[u][s] \in Nat
    BY <1>1, <1>2, <1>10 DEF HauledInv
  <2>1. u \in Threads
    BY <1>10
  <2>2. CASE u \in hauled[s]
    <3>1. /\ skirmish[s] = "live" /\ u \notin {lock_pid[s], transfer[s].pid}
          /\ u = dispatcher_pid[Fid[u]]
          /\ "signal" \notin dev.env => held[u][s] \in Nat
      BY <1>3, <2>2 DEF LocksInv, HauledInv
    <3>2. CASE s \in Back
      BY <1>4, <1>6, <2>1, <3>1, <3>2 DEF S!NoTransfer
    <3>3. CASE s \notin Back
      BY <1>7, <3>1, <3>3
    <3> QED
      BY <3>2, <3>3
  <2>3. CASE u \notin hauled[s]
    <3>1. s \in Back /\ u = lock_pid[s] /\ u # t
      BY <1>8, <2>3
    <3>2. /\ skirmish[s] = "live" /\ lock_pid'[s] = t /\ transfer'[s].pid = None
          /\ transfer[s].to \in Fusionees /\ u = dispatcher_pid[transfer[s].to]
      BY <1>4, <1>5, <1>6, <2>1, <3>1 DEF S!NoTransfer, S!Transfer
    <3>3. u = dispatcher_pid[Fid[u]]
      BY <2>1, <3>2 DEF IInv, CallsInv, DispatchersInv
    <3>4. "signal" \notin dev.env => held[u][s] \in Nat
      <4>1. Claim(u, s) = lock_count[s] /\ lock_count[s] \in Nat
        BY <1>3, <3>1 DEF Claim, LocksInv, LockTypes
      <4> QED
        BY <1>3, <2>1, <2>3, <4>1 DEF LocksInv, HeldInv
    <3> QED
      BY <2>1, <3>1, <3>2, <3>3, <3>4
  <2> QED
    BY <2>2, <2>3
<1>18. NoLostWakeup'
  <2> SUFFICES ASSUME NEW s \in Skirmishes, NEW u \in wq[s]
               PROVE  /\ skirmish[s] = "live"
                      /\ op[u].at = "prevail" => S!Blocked(u, s, dispatcher_pid)'
    BY <1>2 DEF NoLostWakeup
  <2>1. skirmish[s] = "live" /\ (op[u].at = "prevail" => S!Blocked(u, s, dispatcher_pid))
    BY <1>3 DEF LocksInv, NoLostWakeup
  <2>2. CASE s \in Back
    BY <1>1, <1>6, <2>1, <2>2 DEF S!Blocked
  <2>3. CASE s \notin Back
    BY <1>1, <1>7, <2>1, <2>3 DEF S!Blocked, S!TransferredAway
  <2> QED
    BY <2>2, <2>3
<1> QED
  BY <1>1, <1>9, <1>13, <1>14, <1>15, <1>16, <1>18, <1>17 DEF IInv, LocksInv

-----------------------------------------------------------------------------
LEMMA StutterKeeps ==
  ASSUME IInv, UNCHANGED vars
  PROVE  IInv'
<1>1. UNCHANGED callVars /\ UNCHANGED skirmishVars
  BY DEF vars
<1>2. CallsInv' /\ dev' = dev /\ cop' = cop /\ owner' = owner /\ dispatcher_pid' = dispatcher_pid
  BY <1>1, CallsKept DEF IInv
<1>3. LocksInv
  BY DEF IInv
<1>4. LockTypes' /\ OpInv' /\ QueuedInv' /\ OwnerInv'
  BY <1>1, <1>3 DEF LocksInv, LockTypes, OpInv, QueuedInv, OwnerInv, skirmishVars
<1>5. LentIsReserved' /\ LoanInv' /\ HeldInv' /\ HauledInv'
  BY <1>1, <1>2, <1>3 DEF LocksInv, LentIsReserved, LoanInv, Lent, HeldInv, Claim, HauledInv, skirmishVars
<1>6. NoLostWakeup'
  BY <1>1, <1>2, <1>3 DEF LocksInv, NoLostWakeup, S!Blocked, S!TransferredAway, skirmishVars
<1> QED
  BY <1>2, <1>4, <1>5, <1>6 DEF IInv, LocksInv

LEMMA NextKeeps ==
  ASSUME ~ UseWait, IInv, NotLentTwice, [Next]_vars
  PROVE  IInv'
<1>1. ASSUME NEW t \in Threads, CallStep(t) PROVE IInv'
  BY <1>1, CallStepKeeps
<1>2. ASSUME NEW t \in Threads, SkirmishStep(t) PROVE IInv'
  BY <1>2, SkirmishStepKeeps
<1>3. ASSUME NEW t \in Callers, Lend(t) PROVE IInv'
  BY <1>3, LendStep
<1>4. ASSUME NEW t \in Callers, Reclaim(t) PROVE IInv'
  BY <1>4, ReclaimStep
<1>5. ASSUME NEW s \in Skirmishes, NewSkirmish(s) PROVE IInv'
  BY <1>5, NewStep
<1> QED
  BY <1>1, <1>2, <1>3, <1>4, <1>5, StutterKeeps DEF Next

LEMMA InvImpliesShared ==
  ASSUME IInv
  PROVE  SharedOnlyByLoan
<1> SUFFICES ASSUME NEW s \in Skirmishes, NEW t \in Threads, NEW u \in Threads,
                    held[t][s] > 0, held[u][s] > 0, t # u, {t, u} \cap hauled[s] = {}
             PROVE  Lent(s) /\ {t, u} = {transfer[s].pid, dispatcher_pid[transfer[s].to]}
  BY DEF SharedOnlyByLoan
<1> USE WorldAssumption
<1>1. \A v \in {t, u} : held[v][s] \in Int /\ held[v][s] <= Claim(v, s)
  <2>1. \A v \in {t, u} : v \in Threads \ hauled[s]
    OBVIOUS
  <2> QED
    BY <2>1 DEF IInv, LocksInv, LockTypes, HeldInv
<1>2. \A v \in {t, u} : v \in {lock_pid[s], transfer[s].pid}
  <2> SUFFICES ASSUME NEW v \in {t, u}, v # lock_pid[s], v # transfer[s].pid PROVE FALSE
    OBVIOUS
  <2>1. Claim(v, s) = 0
    BY DEF Claim
  <2> QED
    BY <1>1, <2>1
<1>3. {t, u} = {lock_pid[s], transfer[s].pid}
  BY <1>2
<1>4. transfer[s].pid \in Threads /\ lock_pid[s] # None
  BY <1>3
<1>5. Lent(s)
  BY <1>4 DEF IInv, LocksInv, LockTypes, Lent, S!Transfer, S!NoTransfer
<1>6. lock_pid[s] = dispatcher_pid[transfer[s].to]
  BY <1>4, <1>5 DEF IInv, LocksInv, LentIsReserved
<1> QED
  BY <1>3, <1>5, <1>6

LEMMA InvImpliesKept ==
  ASSUME IInv
  PROVE  CallKeepsLocks
<1> SUFFICES ASSUME "signal" \notin dev.env, NEW t \in Threads, NEW s \in Skirmishes,
                    cop[t].at # "execute"
             PROVE  \/ held[t][s] = S!LockCount(t, s)
                    \/ t \in hauled[s] /\ t = dispatcher_pid[Fid[t]] /\ S!LockCount(t, s) = 0
  BY DEF CallKeepsLocks
<1>1. CASE t \in hauled[s]
  BY <1>1 DEF IInv, LocksInv, HauledInv, S!LockCount
<1>2. held[t][s] = Claim(t, s) \/ t \in hauled[s]
  BY DEF IInv, LocksInv, HeldInv
<1>3. transfer[s].pid # t
  <2>1. transfer[s].pid = t => Lent(s)
    BY WorldAssumption DEF IInv, LocksInv, LockTypes, Lent, S!Transfer, S!NoTransfer
  <2> QED
    BY <2>1 DEF IInv, LocksInv, LentIsReserved
<1>4. lock_pid[s] = t => lock_fid[s] = Fid[t]
  BY WorldAssumption DEF IInv, LocksInv, OwnerInv
<1> QED
  BY <1>2, <1>3, <1>4, <1>1 DEF Claim, S!LockCount

LEMMA InvImpliesTypes ==
  ASSUME IInv, "signal" \notin dev.env
  PROVE  S!TypeOK
<1>1. LockTypes
  BY DEF IInv, LocksInv
<1>2. held \in [Threads -> [Skirmishes -> Nat]]
  <2> SUFFICES ASSUME NEW t \in Threads, NEW s \in Skirmishes PROVE held[t][s] \in Nat
    BY <1>1 DEF LockTypes
  <2>1. held[t][s] = Claim(t, s) \/ held[t][s] \in Nat
    BY DEF IInv, LocksInv, HeldInv, HauledInv
  <2> QED
    BY <1>1, <2>1 DEF LockTypes, Claim, S!Transfer, S!NoTransfer
<1> QED
  BY <1>1, <1>2 DEF LockTypes, S!TypeOK

(* A dispatcher that makes no calls of its own never lends what it has     *)
(* borrowed: that is enough for the assertion at skirmish.c:682 to hold.   *)
LEMMA InvImpliesOnce ==
  ASSUME IInv, \A f \in Fusionees : Reader[f] \notin Callers
  PROVE  NotLentTwice
<1> SUFFICES ASSUME NEW t \in Threads, cop[t].at = "transfer",
                    NEW s \in Skirmishes, lock_pid[s] = t, Lent(s)
             PROVE  FALSE
  BY DEF NotLentTwice
<1> USE WorldAssumption
<1>1. t \in Callers
  BY DEF IInv, CallsInv, CallersInv, C!InExecute
<1>2. transfer[s].to \in Fusionees /\ t = dispatcher_pid[transfer[s].to]
  BY DEF IInv, LocksInv, LockTypes, LentIsReserved, Lent, S!Transfer, S!NoTransfer
<1>3. t = Reader[transfer[s].to]
  BY <1>2 DEF IInv, CallsInv, DispatchersInv
<1> QED
  BY <1>1, <1>2, <1>3

-----------------------------------------------------------------------------
(* The calls of the world are calls: a step of theirs, next to a sleep or  *)
(* not, is one of FusionCall, and skirmishes leave them alone.             *)
THEOREM WorldUsesCalls == Spec => C!Spec
<1>1. Init => C!Init
  BY DEF Init
<1>2. [Next]_vars => [C!Next]_(C!vars)
  <2> SUFFICES ASSUME [Next]_vars PROVE [C!Next]_(C!vars)
    OBVIOUS
  <2>1. ASSUME UNCHANGED callVars PROVE UNCHANGED C!vars
    BY <2>1 DEF callVars, C!vars, C!msgVars, C!listVars, C!execVars, C!lockVars, C!devVars
  <2>2. ASSUME NEW t \in Threads, CallStep(t) PROVE C!Next
    BY <2>2 DEF CallStep, C!Next, C!CallerStep
  <2>3. ASSUME NEW t \in Threads, SkirmishStep(t) PROVE UNCHANGED C!vars
    BY <2>1, <2>3 DEF SkirmishStep
  <2>4. ASSUME NEW t \in Callers, Lend(t) \/ Reclaim(t) PROVE C!Next
    BY <2>4 DEF Lend, Reclaim, C!Next, C!CallerStep
  <2>5. ASSUME NEW s \in Skirmishes, NewSkirmish(s) PROVE UNCHANGED C!vars
    BY <2>1, <2>5 DEF NewSkirmish
  <2>6. ASSUME UNCHANGED vars PROVE UNCHANGED C!vars
    BY <2>1, <2>6 DEF vars
  <2> QED
    BY <2>2, <2>3, <2>4, <2>5, <2>6 DEF Next
<1> QED
  BY <1>1, <1>2, PTL DEF Spec, C!Spec

(* The inductive invariant holds as long as nobody lends what he has       *)
(* borrowed, which the kernel asserts (skirmish.c:682).                    *)
THEOREM WorldInvariant == ~ UseWait => (Spec /\ []NotLentTwice => []IInv)
<1> SUFFICES ASSUME ~ UseWait PROVE Spec /\ []NotLentTwice => []IInv
  OBVIOUS
<1>1. IInv /\ NotLentTwice /\ [Next]_vars => IInv'
  BY NextKeeps
<1> QED
  BY <1>1, InitIInv, PTL DEF Spec

(* Only the dispatcher of the callee can take what a call has lent         *)
(* (skirmish.c:246-256, 285-296).                                          *)
THEOREM LoansReserved == ~ UseWait => (Spec /\ []NotLentTwice => []LentIsReserved)
<1>1. IInv => LentIsReserved
  BY DEF IInv, LocksInv
<1> QED
  BY <1>1, WorldInvariant, PTL

(* Two clients believe to hold the same skirmish only while one lends it   *)
(* to the other (call.c:217-242), or when a reclaim has hauled it from one *)
(* of them, who has not taken it again (skirmish.c:717-725).               *)
THEOREM SharedSafe == ~ UseWait => (Spec /\ []NotLentTwice => []SharedOnlyByLoan)
<1>1. IInv => SharedOnlyByLoan
  BY InvImpliesShared
<1> QED
  BY <1>1, WorldInvariant, PTL

(* Without signals a call gives back what it has lent, at its depth        *)
(* (skirmish.c:706-737), and only a dispatcher that kept what it borrowed  *)
(* beyond the call can lose what it holds.                                 *)
THEOREM LoansComeBack == ~ UseWait => (Spec /\ []NotLentTwice => []CallKeepsLocks)
<1>1. IInv => CallKeepsLocks
  BY InvImpliesKept
<1> QED
  BY <1>1, WorldInvariant, PTL

(* Nobody sleeps on a skirmish that is free for him, whoever becomes a     *)
(* dispatcher and whatever is lent meanwhile (skirmish.c:246-256).         *)
THEOREM WorldNoLostWakeup == ~ UseWait => (Spec /\ []NotLentTwice => []NoLostWakeup)
<1>1. IInv => NoLostWakeup
  BY DEF IInv, LocksInv
<1> QED
  BY <1>1, WorldInvariant, PTL

(* Without signals every variable of the skirmishes stays in its range.    *)
THEOREM WorldLockTypes ==
  ~ UseWait => (Spec /\ []NotLentTwice => []("signal" \notin dev.env => S!TypeOK))
<1>1. IInv => ("signal" \notin dev.env => S!TypeOK)
  BY InvImpliesTypes
<1> QED
  BY <1>1, WorldInvariant, PTL

(* Where dispatchers make no synchronous calls, nobody ever lends what he  *)
(* has borrowed, ...                                                       *)
THEOREM AssertionHolds ==
  ~ UseWait /\ (\A f \in Fusionees : Reader[f] \notin Callers) => (Spec => []NotLentTwice)
<1> SUFFICES ASSUME ~ UseWait, \A f \in Fusionees : Reader[f] \notin Callers
             PROVE  Spec => []NotLentTwice
  OBVIOUS
<1>1. IInv => NotLentTwice
  BY InvImpliesOnce
<1>2. IInv /\ NotLentTwice /\ [Next]_vars => IInv'
  BY NextKeeps
<1> QED
  BY <1>1, <1>2, InitIInv, PTL DEF Spec

(* ... so that all of the above holds without a condition on behaviours.   *)
THEOREM WorldSafe ==
  ~ UseWait /\ (\A f \in Fusionees : Reader[f] \notin Callers) =>
    (Spec => [](LentIsReserved /\ SharedOnlyByLoan /\ CallKeepsLocks /\ NoLostWakeup))
BY AssertionHolds, LoansReserved, SharedSafe, LoansComeBack, WorldNoLostWakeup, PTL
=============================================================================
