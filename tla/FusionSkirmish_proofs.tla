----------------------- MODULE FusionSkirmish_proofs -----------------------
(***************************************************************************)
(* The skirmish in a world without calls: IInv is an inductive invariant   *)
(* of Spec, for any number of threads, fusionees and skirmishes and for    *)
(* any bounds.  One lemma per action, one step per conjunct of IInv.       *)
(* From it follows that Spec implements the abstract recursive lock: every *)
(* step is one of its steps, or changes nothing it sees.                   *)
(***************************************************************************)
EXTENDS FusionSkirmish, TLAPS

(* A fresh world: no skirmish, nobody inside an ioctl.                     *)
LEMMA InitIInv == Init => IInv
  BY FidAssumption, NoneAssumption
  DEF Init, IInv, TypeOK, OwnerCoherent, HeldCoherent, OpCoherent, QueueCoherent,
      NothingLent, NoLostWakeup, Op, At, Places, Alive

-----------------------------------------------------------------------------
(* A new skirmish is free and nobody knows it.                             *)
LEMMA NewStep ==
  ASSUME IInv, NEW s \in Skirmishes, New(s)
  PROVE  IInv'
<1> USE DEF IInv, New, lockVars
<1>1. TypeOK'
  BY DEF TypeOK
<1>2. OwnerCoherent'
  BY DEF TypeOK, OwnerCoherent
<1>3. HeldCoherent'
  BY DEF HeldCoherent, Alive
<1>4. OpCoherent'
  BY DEF TypeOK, OpCoherent
<1>5. QueueCoherent'
  BY DEF QueueCoherent
<1>6. NothingLent'
  BY DEF NothingLent, NoTransfer
<1>7. NoLostWakeup'
  BY DEF TypeOK, NoLostWakeup
<1> QED
  BY <1>1, <1>2, <1>3, <1>4, <1>5, <1>6, <1>7

(* A recursive prevail deepens the ownership of the owner.                 *)
LEMMA PrevailAgainStep ==
  ASSUME IInv, NEW t \in Threads, NEW s \in Skirmishes, PrevailAgain(t, s)
  PROVE  IInv'
<1> USE FidAssumption, NoneAssumption DEF IInv, lockVars, PrevailAgain, InUser, Alive
<1>1. TypeOK'
  BY DEF TypeOK, OwnerCoherent, HeldCoherent, OpCoherent, Op, Places, Transfer, NoTransfer
<1>2. OwnerCoherent'
  BY DEF TypeOK, OwnerCoherent, OpCoherent, Op
<1>3. HeldCoherent'
  BY DEF TypeOK, OwnerCoherent, HeldCoherent, OpCoherent, Op
<1>4. OpCoherent'
  BY DEF TypeOK, OpCoherent, OwnerCoherent, Op
<1>5. QueueCoherent'
  BY DEF TypeOK, QueueCoherent, OpCoherent, Op
<1>6. NothingLent'
  BY DEF NothingLent, NoTransfer
<1>7. NoLostWakeup'
  BY DEF TypeOK, NoLostWakeup, QueueCoherent, OpCoherent, OwnerCoherent, Op
<1> QED
  BY <1>1, <1>2, <1>3, <1>4, <1>5, <1>6, <1>7

(* An uncontended prevail takes a free skirmish.                           *)
LEMMA PrevailTakeStep ==
  ASSUME IInv, NEW t \in Threads, NEW s \in Skirmishes, PrevailTake(t, s, NoDispatcher)
  PROVE  IInv'
<1> USE FidAssumption, NoneAssumption DEF IInv, lockVars, PrevailTake, InUser, Alive, SetOwner, Blocked
<1>1. TypeOK'
  BY DEF TypeOK, OwnerCoherent, HeldCoherent, OpCoherent, Op, Places, Transfer, NoTransfer
<1>2. OwnerCoherent'
  BY DEF TypeOK, OwnerCoherent, OpCoherent, Op
<1>3. HeldCoherent'
  BY DEF TypeOK, OwnerCoherent, HeldCoherent, OpCoherent, Op
<1>4. OpCoherent'
  BY DEF TypeOK, OpCoherent, OwnerCoherent, Op
<1>5. QueueCoherent'
  BY DEF TypeOK, QueueCoherent, OpCoherent, Op
<1>6. NothingLent'
  BY DEF NothingLent, NoTransfer
<1>7. NoLostWakeup'
  BY DEF TypeOK, NoLostWakeup, QueueCoherent, OpCoherent, OwnerCoherent, Op
<1> QED
  BY <1>1, <1>2, <1>3, <1>4, <1>5, <1>6, <1>7

(* A contended prevail queues up behind an owner.                          *)
LEMMA PrevailSleepStep ==
  ASSUME IInv, NEW t \in Threads, NEW s \in Skirmishes, PrevailSleep(t, s, NoDispatcher)
  PROVE  IInv'
<1> USE FidAssumption, NoneAssumption DEF IInv, lockVars, PrevailSleep, InUser, Alive, Blocked, TransferredAway, At, NothingLent, NoTransfer
<1>1. TypeOK'
  <2>1. [At("prevail") EXCEPT !.id = s] \in Op
    BY DEF Op, Places
  <2>2. op' \in [Threads -> Op]
    BY <2>1 DEF TypeOK
  <2>3. wq' \in [Skirmishes -> SUBSET Threads]
    BY DEF TypeOK
  <2> QED
    BY <2>2, <2>3 DEF TypeOK
<1>2. OwnerCoherent'
  BY DEF TypeOK, OwnerCoherent, OpCoherent, Op
<1>3. HeldCoherent'
  BY DEF TypeOK, OwnerCoherent, HeldCoherent, OpCoherent, Op
<1>4. OpCoherent'
  BY DEF TypeOK, OpCoherent, OwnerCoherent, Op
<1>5. QueueCoherent'
  BY DEF TypeOK, QueueCoherent, OpCoherent, Op
<1>6. NothingLent'
  BY DEF NothingLent, NoTransfer
<1>7. NoLostWakeup'
  BY DEF TypeOK, NoLostWakeup, QueueCoherent, OpCoherent, OwnerCoherent, Op
<1> QED
  BY <1>1, <1>2, <1>3, <1>4, <1>5, <1>6, <1>7

(* A successful swoop is an uncontended or a recursive prevail.            *)
LEMMA SwoopStep ==
  ASSUME IInv, NEW t \in Threads, NEW s \in Skirmishes, Swoop(t, s, NoDispatcher)
  PROVE  IInv'
<1>1. ~ TransferredAway(t, s, NoDispatcher)
  BY DEF TransferredAway, IInv, NothingLent, NoTransfer
<1>2. CASE lock_fid[s] = None
  <2>1. lock_pid[s] = None
    BY <1>2, FidAssumption, NoneAssumption DEF IInv, TypeOK, OwnerCoherent
  <2> QED
    BY <1>1, <1>2, <2>1, PrevailTakeStep DEF Swoop, PrevailTake, Blocked
<1>3. CASE lock_fid[s] # None
  <2>1. /\ lock_count[s] \in Nat \ {0} /\ held[t][s] = lock_count[s]
        /\ lock_fid[s] = Fid[t]
    BY <1>1, <1>3, NoneAssumption
    DEF Swoop, InUser, Alive, IInv, TypeOK, OwnerCoherent, HeldCoherent
  <2>2. /\ lock_fid' = lock_fid /\ lock_pid' = lock_pid
        /\ lock_count' = [lock_count EXCEPT ![s] = @ + 1]
        /\ held' = [held EXCEPT ![t][s] = @ + 1]
    BY <1>1, <1>3, <2>1 DEF Swoop, SetOwner, IInv, TypeOK
  <2> QED
    BY <1>1, <1>3, <2>2, PrevailAgainStep DEF Swoop, PrevailAgain
<1> QED
  BY <1>2, <1>3

(* A dismiss keeps the depths equal, and the last one wakes all sleepers.  *)
LEMMA DismissStep ==
  ASSUME IInv, NEW t \in Threads, NEW s \in Skirmishes, Dismiss(t, s)
  PROVE  IInv'
<1>1. lock_pid[s] = t /\ t # None /\ Alive(t)
  BY NoneAssumption DEF Dismiss, InUser, Alive
<1>2. lock_count[s] \in Nat /\ lock_count[s] > 0 /\ held[t][s] = lock_count[s]
  BY <1>1 DEF IInv, TypeOK, OwnerCoherent, HeldCoherent
<1>3. TypeOK'
  <2>1. /\ lock_count' = [lock_count EXCEPT ![s] = lock_count[s] - 1]
        /\ held' = [held EXCEPT ![t][s] = held[t][s] - 1]
    BY DEF Dismiss
  <2>2. lock_count' \in [Skirmishes -> Nat]
    BY <1>2, <2>1 DEF IInv, TypeOK
  <2>3. held' \in [Threads -> [Skirmishes -> Nat]]
    BY <1>2, <2>1 DEF IInv, TypeOK
  <2>4. /\ lock_fid' \in [Skirmishes -> Fusionees \cup {None}]
        /\ lock_pid' \in [Skirmishes -> Threads \cup {None}]
        /\ wq' \in [Skirmishes -> SUBSET Threads]
    <3>1. \/ /\ lock_fid' = [lock_fid EXCEPT ![s] = None]
             /\ lock_pid' = [lock_pid EXCEPT ![s] = None]
             /\ wq' = [wq EXCEPT ![s] = {}]
          \/ lock_fid' = lock_fid /\ lock_pid' = lock_pid /\ wq' = wq
      BY DEF Dismiss, WakeAll
    <3>2. /\ lock_fid \in [Skirmishes -> Fusionees \cup {None}]
          /\ lock_pid \in [Skirmishes -> Threads \cup {None}]
          /\ wq \in [Skirmishes -> SUBSET Threads]
      BY DEF IInv, TypeOK
    <3> QED
      BY ONLY <3>1, <3>2
  <2>5. /\ state' \in [Skirmishes -> {"unborn", "live", "destroyed"}]
        /\ notify_count' \in [Skirmishes -> Nat]
        /\ transfer' \in [Skirmishes -> Transfer \cup {NoTransfer}]
        /\ op' \in [Threads -> Op]
    BY DEF Dismiss, IInv, TypeOK
  <2> QED
    BY <2>2, <2>3, <2>4, <2>5 DEF TypeOK
<1>4. OwnerCoherent'
  <2>1. CASE lock_count[s] = 1
    BY <2>1 DEF Dismiss, IInv, TypeOK, OwnerCoherent
  <2>2. CASE lock_count[s] # 1
    BY <1>2, <2>2 DEF Dismiss, IInv, TypeOK, OwnerCoherent
  <2> QED
    BY <2>1, <2>2
<1>5. HeldCoherent'
  BY <1>1, <1>2, NoneAssumption DEF Dismiss, IInv, TypeOK, OwnerCoherent, HeldCoherent, Alive
<1>6. OpCoherent'
  BY <1>1, NoneAssumption DEF Dismiss, IInv, TypeOK, OpCoherent
<1>7. QueueCoherent'
  BY DEF Dismiss, WakeAll, IInv, TypeOK, QueueCoherent
<1>8. NothingLent'
  BY DEF Dismiss, IInv, NothingLent, NoTransfer
<1>9. NoLostWakeup'
  <2>1. CASE lock_count[s] = 1
    BY <2>1 DEF Dismiss, WakeAll, IInv, TypeOK, NoLostWakeup
  <2>2. CASE lock_count[s] # 1
    BY <2>2 DEF Dismiss, IInv, NoLostWakeup
  <2> QED
    BY <2>1, <2>2
<1> QED
  BY <1>3, <1>4, <1>5, <1>6, <1>7, <1>8, <1>9 DEF IInv

(* A new wait parks the owner and wakes all the others.                    *)
LEMMA WaitStep ==
  ASSUME IInv, NEW t \in Threads, NEW s \in Skirmishes, Wait(t, s)
  PROVE  IInv'
<1> USE FidAssumption, NoneAssumption DEF IInv, lockVars, Wait, InUser, Alive
<1>1. TypeOK'
  BY DEF TypeOK, OwnerCoherent, HeldCoherent, OpCoherent, Op, Places, Transfer, NoTransfer
<1>2. OwnerCoherent'
  BY DEF TypeOK, OwnerCoherent, OpCoherent, Op
<1>3. HeldCoherent'
  BY DEF TypeOK, OwnerCoherent, HeldCoherent, OpCoherent, Op
<1>4. OpCoherent'
  BY DEF TypeOK, OpCoherent, OwnerCoherent, Op
<1>5. QueueCoherent'
  BY DEF TypeOK, QueueCoherent, OpCoherent, Op
<1>6. NothingLent'
  BY DEF NothingLent, NoTransfer
<1>7. NoLostWakeup'
  BY DEF TypeOK, NoLostWakeup, QueueCoherent, OpCoherent, OwnerCoherent, Op
<1> QED
  BY <1>1, <1>2, <1>3, <1>4, <1>5, <1>6, <1>7

(* A thread on no queue takes a free skirmish at depth n and returns: the  *)
(* end of a contended prevail and of a wait.                               *)
LEMMA TakeStep ==
  ASSUME IInv,
         NEW t \in Threads, NEW s \in Skirmishes, NEW n \in Nat \ {0},
         Alive(t), state[s] = "live", lock_pid[s] = None,
         \A x \in Skirmishes : t \notin wq[x],
         SetOwner(t, s, n), Return(t),
         UNCHANGED <<state, notify_count, transfer, wq>>
  PROVE  IInv'
<1> USE FidAssumption, NoneAssumption DEF IInv, SetOwner, Return, At, Alive
<1>1. TypeOK'
  <2>1. op' \in [Threads -> Op]
    BY DEF TypeOK, Op, Places
  <2>2. held' \in [Threads -> [Skirmishes -> Nat]]
    BY DEF TypeOK
  <2> QED
    BY <2>1, <2>2 DEF TypeOK
<1>2. OwnerCoherent'
  BY DEF TypeOK, OwnerCoherent
<1>3. HeldCoherent'
  BY DEF TypeOK, HeldCoherent
<1>4. OpCoherent'
  BY DEF TypeOK, OpCoherent
<1>5. QueueCoherent'
  BY DEF TypeOK, QueueCoherent
<1>6. NothingLent'
  BY DEF NothingLent, NoTransfer
<1>7. NoLostWakeup'
  BY DEF TypeOK, NoLostWakeup
<1> QED
  BY <1>1, <1>2, <1>3, <1>4, <1>5, <1>6, <1>7

(* A thread inside a loop sleeps (again) while the loop tells it to.       *)
LEMMA SleepStep ==
  ASSUME IInv,
         NEW t \in Threads, NEW s \in Skirmishes,
         NEW place \in {"prevail", "wait", "relock"},
         op[t].at \in {"prevail", "wait", "relock", "eintr"},
         op[t].id = s, state[s] = "live",
         place # "prevail" => op[t].count > 0,
         place = "wait" => op[t].notify = notify_count[s],
         place \in {"prevail", "relock"} => lock_pid[s] # None,
         op' = [op EXCEPT ![t].at = place],
         wq' = [wq EXCEPT ![s] = @ \cup {t}],
         UNCHANGED <<state, lock_fid, lock_pid, lock_count, notify_count, transfer, held>>
  PROVE  IInv'
<1> USE FidAssumption, NoneAssumption DEF IInv
<1>1. TypeOK'
  BY DEF TypeOK, Op, Places
<1>2. OwnerCoherent'
  BY DEF OwnerCoherent
<1>3. HeldCoherent'
  BY DEF TypeOK, Op, HeldCoherent, Alive
<1>4. OpCoherent'
  BY DEF TypeOK, Op, OpCoherent
<1>5. QueueCoherent'
  BY DEF TypeOK, Op, QueueCoherent
<1>6. NothingLent'
  BY DEF NothingLent, NoTransfer
<1>7. NoLostWakeup'
  BY DEF TypeOK, Op, NoLostWakeup, QueueCoherent
<1> QED
  BY <1>1, <1>2, <1>3, <1>4, <1>5, <1>6, <1>7

(* The relock loop of a wait: sleep behind the owner, or take.             *)
LEMMA RelockStep ==
  ASSUME IInv, NEW t \in Threads, NEW s \in Skirmishes,
         op[t].at \in {"wait", "relock", "eintr"}, op[t].id = s,
         state[s] = "live", t \notin wq[s],
         Relock(t, s), UNCHANGED <<state, notify_count, transfer>>
  PROVE  IInv'
<1>1. op[t].count \in Nat \ {0} /\ Alive(t)
  BY DEF IInv, TypeOK, Op, OpCoherent, Alive
<1>2. \A x \in Skirmishes : t \notin wq[x]
  BY DEF IInv, QueueCoherent
<1>3. CASE lock_pid[s] # None
  BY <1>1, <1>3, SleepStep DEF Relock, lockVars
<1>4. CASE lock_pid[s] = None
  BY <1>1, <1>2, <1>4, TakeStep DEF Relock
<1> QED
  BY <1>3, <1>4

(* The notification loop of a wait, then the relock loop.                  *)
LEMMA AwaitNotifyStep ==
  ASSUME IInv, NEW t \in Threads, NEW s \in Skirmishes,
         op[t].at \in {"wait", "eintr"}, op[t].id = s,
         state[s] = "live", t \notin wq[s],
         AwaitNotify(t, s), UNCHANGED <<state, notify_count, transfer>>
  PROVE  IInv'
<1>1. op[t].count > 0
  BY DEF IInv, OpCoherent
<1>2. CASE op[t].notify = notify_count[s]
  BY <1>1, <1>2, SleepStep DEF AwaitNotify, lockVars
<1>3. CASE op[t].notify # notify_count[s]
  BY <1>3, RelockStep DEF AwaitNotify
<1> QED
  BY <1>2, <1>3

(* A woken prevail takes the skirmish or sleeps again.                     *)
LEMMA PrevailWokenStep ==
  ASSUME IInv, NEW t \in Threads, PrevailWoken(t, NoDispatcher)
  PROVE  IInv'
<1> DEFINE s == op[t].id
<1>1. s \in Skirmishes /\ state[s] = "live" /\ op[t].at = "prevail"
  BY DEF PrevailWoken, Awake, IInv, OpCoherent
<1>2. Alive(t) /\ \A x \in Skirmishes : t \notin wq[x]
  BY DEF PrevailWoken, Awake, IInv, QueueCoherent, Alive
<1>3. Blocked(t, s, NoDispatcher) <=> lock_pid[s] # None
  BY <1>1 DEF Blocked, TransferredAway, IInv, NothingLent, NoTransfer
<1>4. CASE lock_pid[s] = None
  BY <1>1, <1>2, <1>3, <1>4, TakeStep DEF PrevailWoken
<1>5. CASE lock_pid[s] # None
  <2>1. op' = [op EXCEPT ![t].at = "prevail"]
    BY <1>1, <1>3, <1>5 DEF PrevailWoken, IInv, TypeOK, Op
  <2> QED
    BY <1>1, <1>3, <1>5, <2>1, SleepStep DEF PrevailWoken, lockVars
<1> QED
  BY <1>4, <1>5

(* A woken waiter looks at the notification counter.                       *)
LEMMA WaitWokenStep ==
  ASSUME IInv, NEW t \in Threads, WaitWoken(t)
  PROVE  IInv'
<1>1. op[t].id \in Skirmishes
  BY DEF WaitWoken, Awake, IInv, OpCoherent
<1> QED
  BY <1>1, AwaitNotifyStep DEF WaitWoken, Awake

(* A wait called again after a signal does the same.                       *)
LEMMA WaitResumeStep ==
  ASSUME IInv, NEW t \in Threads, WaitResume(t)
  PROVE  IInv'
<1>1. op[t].id \in Skirmishes
  BY DEF WaitResume, IInv, OpCoherent
<1>2. t \notin wq[op[t].id]
  BY <1>1 DEF WaitResume, IInv, QueueCoherent
<1> QED
  BY <1>1, <1>2, AwaitNotifyStep DEF WaitResume

(* A woken relocker looks at the owner.                                    *)
LEMMA RelockWokenStep ==
  ASSUME IInv, NEW t \in Threads, RelockWoken(t)
  PROVE  IInv'
<1>1. op[t].id \in Skirmishes
  BY DEF RelockWoken, Awake, IInv, OpCoherent
<1> QED
  BY <1>1, RelockStep DEF RelockWoken, Awake

(* A timeout takes the waiter off the queue.                               *)
LEMMA WaitTimeoutStep ==
  ASSUME IInv, NEW t \in Threads, WaitTimeout(t)
  PROVE  IInv'
<1> USE DEF IInv, WaitTimeout, lockVars
<1>1. TypeOK'
  <2>1. op[t].id \in Skirmishes /\ op[t] \in Op
    BY DEF TypeOK, OpCoherent
  <2>2. op' \in [Threads -> Op]
    BY <2>1 DEF TypeOK, Op, Places
  <2> QED
    BY <2>1, <2>2 DEF TypeOK
<1>2. OwnerCoherent'
  BY DEF OwnerCoherent
<1>3. HeldCoherent'
  BY DEF TypeOK, HeldCoherent, Op, Alive
<1>4. OpCoherent'
  BY DEF TypeOK, OpCoherent, Op
<1>5. QueueCoherent'
  BY DEF TypeOK, QueueCoherent, OpCoherent, Op
<1>6. NothingLent'
  BY DEF NothingLent, NoTransfer
<1>7. NoLostWakeup'
  BY DEF TypeOK, NoLostWakeup, QueueCoherent, OpCoherent, Op
<1> QED
  BY <1>1, <1>2, <1>3, <1>4, <1>5, <1>6, <1>7

(* A notification leaves nobody asleep.                                    *)
LEMMA NotifyStep ==
  ASSUME IInv, NEW t \in Threads, NEW s \in Skirmishes, Notify(t, s)
  PROVE  IInv'
<1> USE FidAssumption, NoneAssumption DEF IInv, lockVars, Notify, InUser, Alive, WakeAll
<1>1. TypeOK'
  BY DEF TypeOK, OwnerCoherent, HeldCoherent, OpCoherent, Op, Places, Transfer, NoTransfer
<1>2. OwnerCoherent'
  BY DEF TypeOK, OwnerCoherent, OpCoherent, Op
<1>3. HeldCoherent'
  BY DEF TypeOK, OwnerCoherent, HeldCoherent, OpCoherent, Op
<1>4. OpCoherent'
  BY DEF TypeOK, OpCoherent, OwnerCoherent, Op
<1>5. QueueCoherent'
  BY DEF TypeOK, QueueCoherent, OpCoherent, Op
<1>6. NothingLent'
  BY DEF NothingLent, NoTransfer
<1>7. NoLostWakeup'
  BY DEF TypeOK, NoLostWakeup, QueueCoherent, OpCoherent, OwnerCoherent, Op
<1> QED
  BY <1>1, <1>2, <1>3, <1>4, <1>5, <1>6, <1>7

(* A destroyed skirmish has neither owner nor sleepers.                    *)
LEMMA DestroyStep ==
  ASSUME IInv, NEW t \in Threads, NEW s \in Skirmishes, Destroy(t, s)
  PROVE  IInv'
<1> USE FidAssumption, NoneAssumption DEF IInv, lockVars, Destroy, InUser, Alive, WakeAll
<1>1. TypeOK'
  BY DEF TypeOK, OwnerCoherent, HeldCoherent, OpCoherent, Op, Places, Transfer, NoTransfer
<1>2. OwnerCoherent'
  BY DEF TypeOK, OwnerCoherent, OpCoherent, Op
<1>3. HeldCoherent'
  BY DEF TypeOK, OwnerCoherent, HeldCoherent, OpCoherent, Op
<1>4. OpCoherent'
  BY DEF TypeOK, OpCoherent, OwnerCoherent, Op
<1>5. QueueCoherent'
  BY DEF TypeOK, QueueCoherent, OpCoherent, Op
<1>6. NothingLent'
  BY DEF NothingLent, NoTransfer
<1>7. NoLostWakeup'
  BY DEF TypeOK, NoLostWakeup, QueueCoherent, OpCoherent, OwnerCoherent, Op
<1> QED
  BY <1>1, <1>2, <1>3, <1>4, <1>5, <1>6, <1>7

(* A thread whose skirmish is gone returns without it.                     *)
LEMMA FindGoneStep ==
  ASSUME IInv, NEW t \in Threads, FindGone(t)
  PROVE  IInv'
<1> USE FidAssumption, NoneAssumption DEF IInv, lockVars, FindGone, Awake, Alive, Return, At
<1>1. TypeOK'
  BY DEF TypeOK, OwnerCoherent, HeldCoherent, OpCoherent, Op, Places, Transfer, NoTransfer
<1>2. OwnerCoherent'
  BY DEF TypeOK, OwnerCoherent, OpCoherent, Op
<1>3. HeldCoherent'
  BY DEF TypeOK, OwnerCoherent, HeldCoherent, OpCoherent, Op
<1>4. OpCoherent'
  BY DEF TypeOK, OpCoherent, OwnerCoherent, Op
<1>5. QueueCoherent'
  BY DEF TypeOK, QueueCoherent, OpCoherent, Op
<1>6. NothingLent'
  BY DEF NothingLent, NoTransfer
<1>7. NoLostWakeup'
  BY DEF TypeOK, NoLostWakeup, QueueCoherent, OpCoherent, OwnerCoherent, Op
<1> QED
  BY <1>1, <1>2, <1>3, <1>4, <1>5, <1>6, <1>7

(* A signal takes the thread off the queue.                                *)
LEMMA InterruptStep ==
  ASSUME IInv, NEW t \in Threads, Interrupt(t)
  PROVE  IInv'
<1> USE DEF IInv, Interrupt, lockVars
<1>1. /\ op[t].id \in Skirmishes /\ op[t] \in Op
      /\ op'[t] = IF op[t].at = "prevail" THEN At("user")
                  ELSE [op[t] EXCEPT !.at = "eintr"]
      /\ op' = [op EXCEPT ![t] = op'[t]]
  BY DEF TypeOK, OpCoherent, Return
<1>2. op'[t] \in Op
  BY <1>1 DEF Op, Places, At
<1>3. TypeOK'
  BY <1>1, <1>2 DEF TypeOK
<1>4. OwnerCoherent'
  BY DEF OwnerCoherent
<1>5. HeldCoherent'
  BY <1>1 DEF TypeOK, HeldCoherent, Op, At, Alive
<1>6. OpCoherent'
  <2>1. ASSUME NEW u \in Threads, u # t
        PROVE  op'[u] = op[u]
    BY <1>1, <2>1 DEF TypeOK
  <2> QED
    BY <1>1, <2>1 DEF OpCoherent, Op, At
<1>7. QueueCoherent'
  BY <1>1 DEF TypeOK, QueueCoherent
<1>8. NothingLent'
  BY DEF NothingLent, NoTransfer
<1>9. NoLostWakeup'
  BY <1>1 DEF TypeOK, NoLostWakeup, QueueCoherent
<1> QED
  BY <1>3, <1>4, <1>5, <1>6, <1>7, <1>8, <1>9

(* A thread that ends without cleanup leaves its locks to the dead.        *)
LEMMA ThreadExitStep ==
  ASSUME IInv, NEW t \in Threads, ThreadExit(t)
  PROVE  IInv'
<1> USE FidAssumption, NoneAssumption DEF IInv, lockVars, ThreadExit, Alive, Die, At
<1>1. TypeOK'
  BY DEF TypeOK, OwnerCoherent, HeldCoherent, OpCoherent, Op, Places, Transfer, NoTransfer
<1>2. OwnerCoherent'
  BY DEF TypeOK, OwnerCoherent, OpCoherent, Op
<1>3. HeldCoherent'
  BY DEF TypeOK, OwnerCoherent, HeldCoherent, OpCoherent, Op
<1>4. OpCoherent'
  BY DEF TypeOK, OpCoherent, OwnerCoherent, Op
<1>5. QueueCoherent'
  BY DEF TypeOK, QueueCoherent, OpCoherent, Op
<1>6. NothingLent'
  BY DEF NothingLent, NoTransfer
<1>7. NoLostWakeup'
  BY DEF TypeOK, NoLostWakeup, QueueCoherent, OpCoherent, OwnerCoherent, Op
<1> QED
  BY <1>1, <1>2, <1>3, <1>4, <1>5, <1>6, <1>7

(* An exiting task frees what it owns, and wakes.                          *)
LEMMA FlushExitStep ==
  ASSUME IInv, NEW t \in Threads, FlushExit(t)
  PROVE  IInv'
<1> USE FidAssumption, NoneAssumption DEF IInv, lockVars, FlushExit, Alive, Die, At, DismissAllFromPid, DismissSets, Clear
<1>1. TypeOK'
  BY DEF TypeOK, OwnerCoherent, HeldCoherent, OpCoherent, Op, Places, Transfer, NoTransfer
<1>2. OwnerCoherent'
  BY DEF TypeOK, OwnerCoherent, OpCoherent, Op
<1>3. HeldCoherent'
  BY DEF TypeOK, OwnerCoherent, HeldCoherent, OpCoherent, Op
<1>4. OpCoherent'
  BY DEF TypeOK, OpCoherent, OwnerCoherent, Op
<1>5. QueueCoherent'
  BY DEF TypeOK, QueueCoherent, OpCoherent, Op
<1>6. NothingLent'
  BY DEF NothingLent, NoTransfer
<1>7. NoLostWakeup'
  BY DEF TypeOK, NoLostWakeup, QueueCoherent, OpCoherent, OwnerCoherent, Op
<1> QED
  BY <1>1, <1>2, <1>3, <1>4, <1>5, <1>6, <1>7

(* A released file frees what its dead threads still own, and wakes.       *)
LEMMA ReleaseStep ==
  ASSUME IInv, NEW f \in Fusionees, Release(f)
  PROVE  IInv'
<1> USE FidAssumption, NoneAssumption DEF IInv, lockVars, Release, Alive, DismissAll, DismissSets, Clear
<1>1. TypeOK'
  BY DEF TypeOK, OwnerCoherent, HeldCoherent, OpCoherent, Op, Places, Transfer, NoTransfer
<1>2. OwnerCoherent'
  BY DEF TypeOK, OwnerCoherent, OpCoherent, Op
<1>3. HeldCoherent'
  BY DEF TypeOK, OwnerCoherent, HeldCoherent, OpCoherent, Op
<1>4. OpCoherent'
  BY DEF TypeOK, OpCoherent, OwnerCoherent, Op
<1>5. QueueCoherent'
  BY DEF TypeOK, QueueCoherent, OpCoherent, Op
<1>6. NothingLent'
  BY DEF NothingLent, NoTransfer
<1>7. NoLostWakeup'
  BY DEF TypeOK, NoLostWakeup, QueueCoherent, OpCoherent, OwnerCoherent, Op
<1> QED
  BY <1>1, <1>2, <1>3, <1>4, <1>5, <1>6, <1>7

-----------------------------------------------------------------------------
(* Every step, stuttering ones included, preserves the invariant.          *)
LEMMA NextIInv == IInv /\ [Next]_vars => IInv'
<1> SUFFICES ASSUME IInv, [Next]_vars PROVE IInv'
  OBVIOUS
<1>1. ASSUME NEW s \in Skirmishes, New(s) PROVE IInv'
  BY <1>1, NewStep
<1>2. ASSUME NEW t \in Threads, NEW s \in Skirmishes, Ioctl(t, s, NoDispatcher)
      PROVE  IInv'
  BY <1>2, PrevailAgainStep, PrevailTakeStep, PrevailSleepStep, SwoopStep,
     DismissStep, WaitStep, NotifyStep, DestroyStep DEF Ioctl
<1>3. ASSUME NEW t \in Threads, Continue(t, NoDispatcher) PROVE IInv'
  BY <1>3, PrevailWokenStep, WaitWokenStep, RelockWokenStep, FindGoneStep DEF Continue
<1>4. ASSUME NEW t \in Threads, Disturb(t) PROVE IInv'
  BY <1>4, WaitResumeStep, WaitTimeoutStep, InterruptStep, ThreadExitStep,
     FlushExitStep DEF Disturb
<1>5. ASSUME NEW f \in Fusionees, Release(f) PROVE IInv'
  BY <1>5, ReleaseStep
<1>6. CASE UNCHANGED vars
  BY <1>6 DEF vars, IInv, TypeOK, OwnerCoherent, HeldCoherent, OpCoherent,
              QueueCoherent, NothingLent, NoLostWakeup, Alive
<1> QED
  BY <1>1, <1>2, <1>3, <1>4, <1>5, <1>6 DEF Next

(* The invariant holds in every reachable state of a world without calls.  *)
THEOREM SkirmishInvariant == Spec => []IInv
<1>1. Init => IInv
  BY InitIInv
<1>2. IInv /\ [Next]_vars => IInv'
  BY NextIInv
<1> QED
  BY <1>1, <1>2, PTL DEF Spec

(* All fields keep their types: in particular no count goes negative.      *)
THEOREM SkirmishTypeCorrect == Spec => []TypeOK
<1>1. IInv => TypeOK
  BY DEF IInv
<1> QED
  BY <1>1, SkirmishInvariant, PTL

(* Two threads never both believe that they hold one skirmish.             *)
THEOREM SkirmishMutualExclusion == Spec => []MutualExclusion
<1>1. IInv => MutualExclusion
  BY DEF IInv, TypeOK, HeldCoherent, MutualExclusion
<1> QED
  BY <1>1, SkirmishInvariant, PTL

(* The count that the kernel reports is the client's own count.            *)
THEOREM SkirmishLockCount == Spec => []LockCountIsHeld
<1>1. IInv => LockCountIsHeld
  <2> SUFFICES ASSUME IInv, NEW t \in Threads, NEW s \in Skirmishes, Alive(t)
               PROVE  held[t][s] = LockCount(t, s)
    BY DEF LockCountIsHeld
  <2>1. lock_pid[s] = t => lock_fid[s] = Fid[t]
    BY NoneAssumption DEF IInv, OwnerCoherent
  <2> QED
    BY <2>1 DEF IInv, HeldCoherent, LockCount
<1> QED
  BY <1>1, SkirmishInvariant, PTL

(* Nobody sleeps on a queue although its loop condition has become false.  *)
THEOREM SkirmishNoLostWakeup == Spec => []NoLostWakeup
<1>1. IInv => NoLostWakeup
  BY DEF IInv
<1> QED
  BY <1>1, SkirmishInvariant, PTL
-----------------------------------------------------------------------------
(* The refinement: the skirmish as the abstract lock sees it.              *)
Depth == [s \in Skirmishes |-> IF lock_pid[s] = None THEN 0 ELSE lock_count[s]]
ParkedAt == [t \in Threads |-> [s \in Skirmishes |-> Parked(t, s)]]
Gone == {s \in Skirmishes : state[s] = "destroyed"}
Dead == {t \in Threads : ~ Alive(t)}

ParkPlaces == {"wait", "relock", "eintr"}

(* When one thread goes to another place, the others stay where they are.  *)
LEMMA OpEffect ==
  ASSUME TypeOK, NEW t \in Threads, NEW o \in Op, op' = [op EXCEPT ![t] = o]
  PROVE  /\ \A u \in Threads, s \in Skirmishes : u # t => Parked(u, s)' = Parked(u, s)
         /\ \A s \in Skirmishes :
              Parked(t, s)' = IF o.at \in ParkPlaces /\ o.id = s THEN o.count ELSE 0
         /\ \A u \in Threads : u # t => (Alive(u)' <=> Alive(u))
         /\ Alive(t)' <=> o.at # "dead"
<1>1. op'[t] = o /\ \A u \in Threads : u # t => op'[u] = op[u]
  BY DEF TypeOK
<1> QED
  BY <1>1 DEF Parked, ParkPlaces, Alive

(* Steps that change nothing the abstract lock sees.                       *)
LEMMA Stutter ==
  ASSUME UNCHANGED <<lock_pid, lock_count>>, Gone' = Gone, Dead' = Dead,
         ParkedAt' = ParkedAt
  PROVE  UNCHANGED Abstract!vars
  BY DEF Abstract!vars, Gone, Dead, ParkedAt

(* The same place, or another one with the same parked depth.              *)
LEMMA MoveKeepsParked ==
  ASSUME TypeOK, NEW t \in Threads, NEW o \in Op, op' = [op EXCEPT ![t] = o],
         Alive(t), o.at # "dead",
         \A s \in Skirmishes :
           Parked(t, s) = IF o.at \in ParkPlaces /\ o.id = s THEN o.count ELSE 0
  PROVE  ParkedAt' = ParkedAt /\ Dead' = Dead
<1>1. \A u \in Threads, s \in Skirmishes : Parked(u, s)' = Parked(u, s)
  BY OpEffect
<1>2. \A u \in Threads : Alive(u)' <=> Alive(u)
  BY OpEffect
<1>3. ParkedAt' = ParkedAt
  BY <1>1 DEF ParkedAt
<1>4. Dead' = Dead
  BY <1>2 DEF Dead
<1> QED
  BY <1>3, <1>4

(* A step that leaves every thread where it is.                            *)
LEMMA OpUnchanged ==
  ASSUME UNCHANGED op
  PROVE  ParkedAt' = ParkedAt /\ Dead' = Dead
  BY DEF ParkedAt, Dead, Parked, Alive

(* A free skirmish is acquired by a thread that is parked nowhere, ...     *)
LEMMA AcquireRefines ==
  ASSUME IInv, NEW t \in Threads, NEW s \in Skirmishes,
         op[t].at \in {"user", "prevail"}, state[s] = "live", lock_pid[s] = None,
         SetOwner(t, s, 1), op' = op \/ Return(t), UNCHANGED state
  PROVE  Abstract!Next
<1>1. t # None /\ lock_pid' = [lock_pid EXCEPT ![s] = t]
  BY NoneAssumption DEF SetOwner
<1>2. Depth' = [Depth EXCEPT ![s] = 1]
  BY <1>1 DEF SetOwner, Depth, IInv, TypeOK
<1>3. s \notin Gone /\ Gone' = Gone
  BY DEF Gone
<1>4. \A q \in Skirmishes : Parked(t, q) = 0
  BY DEF Parked
<1>5. ParkedAt' = ParkedAt /\ Dead' = Dead
  <2>1. CASE op' = op
    BY <2>1, OpUnchanged
  <2>2. CASE Return(t)
    <3>1. At("user") \in Op /\ At("user").at = "user"
      BY DEF At, Op, Places
    <3>2. Alive(t)
      BY DEF Alive
    <3> QED
      BY <1>4, <2>2, <3>1, <3>2, MoveKeepsParked DEF Return, IInv, ParkPlaces
  <2> QED
    BY <2>1, <2>2
<1>6. t \notin Dead /\ ParkedAt[t][s] = 0
  BY <1>4 DEF Dead, Alive, ParkedAt
<1>7. Abstract!Acquire(t, s)
  BY <1>1, <1>2, <1>3, <1>5, <1>6
  DEF Abstract!Acquire, Abstract!Give, Depth, Gone, Dead, ParkedAt
<1> QED
  BY <1>7 DEF Abstract!Next

(* ... entered again by its owner, ...                                     *)
LEMMA EnterRefines ==
  ASSUME IInv, NEW t \in Threads, NEW s \in Skirmishes, Alive(t), lock_pid[s] = t,
         lock_count' = [lock_count EXCEPT ![s] = @ + 1], UNCHANGED <<state, lock_pid, op>>
  PROVE  Abstract!Next
<1>1. t # None
  BY NoneAssumption
<1>2. Depth' = [Depth EXCEPT ![s] = @ + 1]
  BY <1>1 DEF Depth, IInv, TypeOK
<1>3. Gone' = Gone /\ t \notin Dead
  BY DEF Gone, Dead
<1>4. Abstract!Enter(t, s)
  BY <1>2, <1>3, OpUnchanged DEF Abstract!Enter, Depth, Gone, Dead, ParkedAt
<1> QED
  BY <1>4 DEF Abstract!Next

(* ... by a prevail or by a swoop, ...                                     *)
LEMMA SwoopRefines ==
  ASSUME IInv, NEW t \in Threads, NEW s \in Skirmishes, Swoop(t, s, NoDispatcher)
  PROVE  Abstract!Next
<1>1. ~ TransferredAway(t, s, NoDispatcher)
  BY DEF TransferredAway, IInv, NothingLent, NoTransfer
<1>2. CASE lock_fid[s] = None
  <2>1. lock_pid[s] = None
    BY <1>2, FidAssumption, NoneAssumption DEF IInv, TypeOK, OwnerCoherent
  <2> QED
    BY <1>1, <1>2, <2>1, AcquireRefines DEF Swoop, InUser
<1>3. CASE lock_fid[s] # None
  <2>1. lock_pid[s] = t /\ SetOwner(t, s, lock_count[s] + 1) /\ UNCHANGED <<state, op>>
    BY <1>1, <1>3 DEF Swoop
  <2>2. lock_pid' = lock_pid /\ lock_count' = [lock_count EXCEPT ![s] = @ + 1]
    BY <2>1 DEF SetOwner, IInv, TypeOK
  <2> QED
    BY <2>1, <2>2, EnterRefines DEF Swoop, InUser, Alive
<1> QED
  BY <1>2, <1>3

(* ... left by its owner, ...                                              *)
LEMMA DismissRefines ==
  ASSUME IInv, NEW t \in Threads, NEW s \in Skirmishes, Dismiss(t, s)
  PROVE  Abstract!Next
<1>1. lock_pid[s] = t /\ t # None /\ UNCHANGED <<state, op>>
  BY NoneAssumption DEF Dismiss
<1>2. lock_count[s] \in Nat /\ lock_count[s] > 0 /\ Depth[s] = lock_count[s]
  BY <1>1 DEF IInv, TypeOK, OwnerCoherent, Depth
<1>3. t \notin Dead /\ Dead' = Dead /\ ParkedAt' = ParkedAt /\ Gone' = Gone
  BY <1>1, OpUnchanged DEF Dead, Gone, Dismiss, InUser, Alive
<1>4. CASE lock_count[s] = 1
  <2>1. lock_pid' = [q \in Skirmishes |-> IF q \in {s} THEN None ELSE lock_pid[q]]
    BY <1>4 DEF Dismiss, IInv, TypeOK
  <2>2. Depth' = [q \in Skirmishes |-> IF q \in {s} THEN 0 ELSE Depth[q]]
    BY <1>1, <2>1 DEF Depth, Dismiss, IInv, TypeOK
  <2>3. Abstract!Leave(t, s)
    BY <1>1, <1>2, <1>3, <1>4, <2>1, <2>2
    DEF Abstract!Leave, Abstract!Free, Depth, Dead, Gone, ParkedAt
  <2> QED
    BY <2>3 DEF Abstract!Next
<1>5. CASE lock_count[s] # 1
  <2>1. UNCHANGED lock_pid
    BY <1>5 DEF Dismiss
  <2>2. Depth' = [Depth EXCEPT ![s] = @ - 1]
    BY <1>1, <2>1 DEF Depth, Dismiss, IInv, TypeOK
  <2>3. Abstract!Leave(t, s)
    BY <1>1, <1>2, <1>3, <1>5, <2>1, <2>2
    DEF Abstract!Leave, Depth, Dead, Gone, ParkedAt
  <2> QED
    BY <2>3 DEF Abstract!Next
<1> QED
  BY <1>4, <1>5

(* ... parked on by its owner with the whole depth, ...                    *)
LEMMA WaitRefines ==
  ASSUME IInv, NEW t \in Threads, NEW s \in Skirmishes, Wait(t, s)
  PROVE  Abstract!Next
<1> DEFINE o == [at |-> "wait", id |-> s,
                 count |-> lock_count[s], notify |-> notify_count[s]]
<1>1. o \in Op /\ op' = [op EXCEPT ![t] = o] /\ TypeOK
  BY DEF Wait, Op, Places, IInv, TypeOK
<1>2. lock_pid[s] = t /\ t # None
  BY NoneAssumption DEF Wait
<1>3. lock_pid' = [q \in Skirmishes |-> IF q \in {s} THEN None ELSE lock_pid[q]]
  BY DEF Wait, IInv, TypeOK
<1>4. Depth[s] = lock_count[s]
  BY <1>2 DEF Depth
<1>5. Depth' = [q \in Skirmishes |-> IF q \in {s} THEN 0 ELSE Depth[q]]
  BY <1>3 DEF Depth, Wait
<1>6. \A q \in Skirmishes : Parked(t, q) = 0
  BY DEF Wait, InUser, Parked
<1>7. ParkedAt' = [ParkedAt EXCEPT ![t][s] = Depth[s]]
  <2>1. \A u \in Threads, q \in Skirmishes :
          Parked(u, q)' = IF u = t THEN (IF q = s THEN lock_count[s] ELSE 0)
                          ELSE Parked(u, q)
    BY <1>1, OpEffect DEF ParkPlaces
  <2> QED
    BY <1>4, <1>6, <2>1 DEF ParkedAt
<1>8. t \notin Dead /\ Dead' = Dead
  BY <1>1, OpEffect DEF Dead, Wait, InUser, Alive
<1>9. Gone' = Gone
  BY DEF Gone, Wait
<1>10. Abstract!Park(t, s)
  BY <1>2, <1>3, <1>5, <1>7, <1>8, <1>9
  DEF Abstract!Park, Abstract!Free, Depth, Dead, Gone, ParkedAt
<1> QED
  BY <1>10 DEF Abstract!Next

(* ... and taken back at that depth.                                       *)
LEMMA RelockRefines ==
  ASSUME IInv, NEW t \in Threads, op[t].at \in ParkPlaces,
         state[op[t].id] = "live", UNCHANGED <<state, notify_count, transfer>>,
         AwaitNotify(t, op[t].id) \/ Relock(t, op[t].id)
  PROVE  [Abstract!Next]_Abstract!vars
<1> DEFINE s == op[t].id
<1>1. s \in Skirmishes /\ op[t] \in Op /\ op[t].count > 0 /\ Alive(t) /\ TypeOK
  BY DEF IInv, TypeOK, OpCoherent, ParkPlaces, Alive
<1>2. \A q \in Skirmishes : Parked(t, q) = IF q = s THEN op[t].count ELSE 0
  BY DEF Parked, ParkPlaces
<1>3. Gone' = Gone /\ s \notin Gone /\ t \notin Dead
  BY <1>1 DEF Gone, Dead
<1>4. ASSUME NEW place \in {"wait", "relock"}, op' = [op EXCEPT ![t].at = place],
             UNCHANGED <<lockVars, held>>
      PROVE  UNCHANGED Abstract!vars
  <2> DEFINE o == [op[t] EXCEPT !.at = place]
  <2>1. o \in Op /\ o.at = place /\ o.id = s /\ o.count = op[t].count
    BY <1>1 DEF Op, Places
  <2>2. op' = [op EXCEPT ![t] = o]
    BY <1>4
  <2>3. ParkedAt' = ParkedAt /\ Dead' = Dead
    BY <1>1, <1>2, <2>1, <2>2, MoveKeepsParked DEF ParkPlaces
  <2> QED
    BY <1>3, <1>4, <2>3, Stutter DEF lockVars
<1>5. ASSUME lock_pid[s] = None, SetOwner(t, s, op[t].count), Return(t)
      PROVE  Abstract!Next
  <2>1. At("user") \in Op /\ At("user").at = "user"
    BY DEF At, Op, Places
  <2>2. ParkedAt' = [ParkedAt EXCEPT ![t][s] = 0] /\ Dead' = Dead
    <3> DEFINE o == At("user")
    <3>1. op' = [op EXCEPT ![t] = o] /\ o \in Op /\ o.at = "user" /\ o.at \notin ParkPlaces
      BY <1>5, <2>1 DEF Return, ParkPlaces
    <3> HIDE DEF o
    <3>2. /\ \A u \in Threads, q \in Skirmishes : u # t => Parked(u, q)' = Parked(u, q)
          /\ \A q \in Skirmishes : Parked(t, q)' = 0
          /\ \A u \in Threads : u # t => (Alive(u)' <=> Alive(u))
          /\ Alive(t)'
      BY <1>1, <3>1, OpEffect
    <3>3. ParkedAt' = [ParkedAt EXCEPT ![t][s] = 0]
      BY <1>1, <1>2, <3>2 DEF ParkedAt
    <3>4. \A u \in Threads : Alive(u)' <=> Alive(u)
      BY <1>1, <3>2
    <3> QED
      BY <3>3, <3>4 DEF Dead
  <2>3. ParkedAt[t][s] = op[t].count /\ op[t].count \in Nat
    BY <1>1, <1>2 DEF ParkedAt, Op
  <2>4. lock_pid' = [lock_pid EXCEPT ![s] = t] /\ t # None
    BY <1>5, NoneAssumption DEF SetOwner
  <2>5. Depth' = [Depth EXCEPT ![s] = op[t].count]
    BY <1>1, <1>5, <2>4 DEF Depth, SetOwner, TypeOK
  <2>6. Abstract!Unpark(t, s)
    BY <1>1, <1>3, <1>5, <2>2, <2>3, <2>4, <2>5
    DEF Abstract!Unpark, Abstract!Give, Depth, Gone, Dead, ParkedAt
  <2> QED
    BY <1>1, <2>6 DEF Abstract!Next
<1> QED
  BY <1>4, <1>5 DEF AwaitNotify, Relock

(* A destroyed skirmish is gone, and its waiters find that out.            *)
LEMMA DestroyRefines ==
  ASSUME IInv, NEW t \in Threads, NEW s \in Skirmishes, Destroy(t, s)
  PROVE  Abstract!Next
<1>1. lock_pid' = [q \in Skirmishes |-> IF q \in {s} THEN None ELSE lock_pid[q]]
  BY DEF Destroy, IInv, TypeOK
<1>2. Depth' = [q \in Skirmishes |-> IF q \in {s} THEN 0 ELSE Depth[q]]
  BY <1>1 DEF Depth, Destroy, IInv, TypeOK
<1>3. s \notin Gone /\ Gone' = Gone \cup {s}
  BY DEF Gone, Destroy, IInv, TypeOK
<1>4. ParkedAt' = ParkedAt /\ Dead' = Dead
  BY OpUnchanged DEF Destroy
<1>5. Abstract!DestroyLock(s)
  BY <1>1, <1>2, <1>3, <1>4
  DEF Abstract!DestroyLock, Abstract!Free, Depth, Dead, Gone, ParkedAt
<1> QED
  BY <1>5 DEF Abstract!Next

(* Whoever waits for a skirmish that is gone gives up what he has parked.  *)
LEMMA FindGoneRefines ==
  ASSUME IInv, NEW t \in Threads, FindGone(t)
  PROVE  Abstract!Next
<1> DEFINE s == op[t].id
<1>1. op[t].at \in {"prevail", "wait", "relock", "eintr"}
  BY DEF FindGone, Awake
<1>2. s \in Skirmishes /\ s \in Gone /\ TypeOK
  BY <1>1 DEF FindGone, IInv, TypeOK, OpCoherent, Gone
<1>3. At("user") \in Op /\ At("user").at = "user"
  BY DEF At, Op, Places
<1>4. \A u \in Threads, q \in Skirmishes :
        Parked(u, q)' = IF u = t THEN 0 ELSE Parked(u, q)
  BY <1>2, <1>3, OpEffect DEF FindGone, Return, ParkPlaces
<1>5. \A q \in Skirmishes : q # s => Parked(t, q) = 0
  BY DEF Parked
<1>6. ParkedAt' = [ParkedAt EXCEPT ![t][s] = 0]
  BY <1>2, <1>4, <1>5 DEF ParkedAt
<1>7. \A u \in Threads : Alive(u)' <=> Alive(u)
  BY <1>1, <1>2, <1>3, OpEffect DEF FindGone, Return, Alive
<1>8. Dead' = Dead
  BY <1>7 DEF Dead
<1>9. Gone' = Gone /\ UNCHANGED <<lock_pid, lock_count>>
  BY DEF Gone, FindGone, lockVars
<1>10. Abstract!GiveUp(t, s)
  BY <1>2, <1>6, <1>8, <1>9
  DEF Abstract!GiveUp, Gone, Dead, ParkedAt
<1> QED
  BY <1>2, <1>10 DEF Abstract!Next

(* A thread dies, and some or all of its skirmishes are freed.             *)
LEMMA DieRefines ==
  ASSUME IInv, NEW t \in Threads, Alive(t), Die(t), UNCHANGED state,
         NEW L \in SUBSET Skirmishes, \A s \in L : lock_pid[s] = t,
         lock_pid' = [s \in Skirmishes |-> IF s \in L THEN None ELSE lock_pid[s]],
         \A s \in Skirmishes : s \notin L => lock_count'[s] = lock_count[s]
  PROVE  Abstract!Next
<1>1. At("dead") \in Op /\ At("dead").at = "dead" /\ TypeOK
  BY DEF At, Op, Places, IInv
<1>2. \A u \in Threads, q \in Skirmishes :
        Parked(u, q)' = IF u = t THEN 0 ELSE Parked(u, q)
  BY <1>1, OpEffect DEF Die, ParkPlaces
<1>3. ParkedAt' = [ParkedAt EXCEPT ![t] = [q \in Skirmishes |-> 0]]
  BY <1>2 DEF ParkedAt
<1>4. \A u \in Threads : Alive(u)' <=> Alive(u) /\ u # t
  BY <1>1, OpEffect DEF Die
<1>5. t \notin Dead /\ Dead' = Dead \cup {t}
  BY <1>4 DEF Dead
<1>6. Depth' = [s \in Skirmishes |-> IF s \in L THEN 0 ELSE Depth[s]]
  BY DEF Depth
<1>7. Gone' = Gone
  BY DEF Gone
<1>8. Abstract!ThreadDies(t, L)
  BY <1>3, <1>5, <1>6, <1>7
  DEF Abstract!ThreadDies, Abstract!Free, Depth, Dead, Gone, ParkedAt
<1> QED
  BY <1>8 DEF Abstract!Next

(* A thread that ends while others keep the file frees nothing.            *)
LEMMA ThreadExitRefines ==
  ASSUME IInv, NEW t \in Threads, ThreadExit(t)
  PROVE  Abstract!Next
<1> SUFFICES ASSUME NEW L, L = {}
             PROVE  Abstract!Next
  OBVIOUS
<1>1. Alive(t) /\ Die(t) /\ UNCHANGED <<state, lock_pid, lock_count>>
  BY DEF ThreadExit, Alive, lockVars
<1>2. lock_pid' = [s \in Skirmishes |-> IF s \in L THEN None ELSE lock_pid[s]]
  BY <1>1 DEF IInv, TypeOK
<1>3. L \in SUBSET Skirmishes /\ \A s \in L : lock_pid[s] = t
  OBVIOUS
<1>4. \A s \in Skirmishes : s \notin L => lock_count'[s] = lock_count[s]
  BY <1>1
<1> QED
  BY <1>1, <1>2, <1>3, <1>4, DieRefines

(* A thread that closes the file frees all its skirmishes.                 *)
LEMMA FlushExitRefines ==
  ASSUME IInv, NEW t \in Threads, FlushExit(t)
  PROVE  Abstract!Next
<1> SUFFICES ASSUME NEW L, L = {s \in Skirmishes : lock_pid[s] = t}
             PROVE  Abstract!Next
  OBVIOUS
<1>1. Alive(t) /\ Die(t) /\ UNCHANGED state
  BY DEF FlushExit, Alive
<1>2. lock_pid' = [s \in Skirmishes |-> IF s \in L THEN None ELSE lock_pid[s]]
  BY DEF FlushExit, DismissAllFromPid, DismissSets, Clear
<1>3. \A s \in Skirmishes : s \notin L => lock_count'[s] = lock_count[s]
  BY DEF FlushExit, DismissAllFromPid, DismissSets, Clear
<1>4. L \in SUBSET Skirmishes /\ \A s \in L : lock_pid[s] = t
  OBVIOUS
<1> QED
  BY <1>1, <1>2, <1>3, <1>4, DieRefines

(* A release finds only skirmishes of the dead.                            *)
LEMMA ReleaseRefines ==
  ASSUME IInv, NEW f \in Fusionees, Release(f)
  PROVE  Abstract!Next
<1> SUFFICES ASSUME NEW L, L = {s \in Skirmishes : lock_fid[s] = f}
             PROVE  Abstract!Next
  OBVIOUS
<1>1. \A s \in L : lock_pid[s] \in Dead
  <2> SUFFICES ASSUME NEW s \in L PROVE lock_pid[s] \in Dead
    OBVIOUS
  <2>1. lock_pid[s] # None
    BY NoneAssumption DEF IInv, OwnerCoherent
  <2>2. lock_pid[s] \in Threads /\ Fid[lock_pid[s]] = f
    BY <2>1 DEF IInv, TypeOK, OwnerCoherent
  <2> QED
    BY <2>2 DEF Release, Dead
<1>2. lock_pid' = [s \in Skirmishes |-> IF s \in L THEN None ELSE lock_pid[s]]
  BY DEF Release, DismissAll, DismissSets, Clear
<1>3. \A s \in Skirmishes : s \notin L => lock_count'[s] = lock_count[s]
  BY DEF Release, DismissAll, DismissSets, Clear
<1>4. Depth' = [s \in Skirmishes |-> IF s \in L THEN 0 ELSE Depth[s]]
  BY <1>2, <1>3 DEF Depth
<1>5. Gone' = Gone /\ ParkedAt' = ParkedAt /\ Dead' = Dead
  BY OpUnchanged DEF Gone, Release
<1>6. Abstract!CleanUp(L)
  BY <1>1, <1>2, <1>4, <1>5
  DEF Abstract!CleanUp, Abstract!Free, Depth, Dead, Gone, ParkedAt
<1>7. L \in SUBSET Skirmishes
  OBVIOUS
<1> QED
  BY <1>6, <1>7 DEF Abstract!Next

-----------------------------------------------------------------------------
(* The ioctls, ...                                                         *)
LEMMA IoctlRefines ==
  ASSUME IInv, NEW t \in Threads, NEW s \in Skirmishes, Ioctl(t, s, NoDispatcher)
  PROVE  [Abstract!Next]_Abstract!vars
<1>1. CASE PrevailAgain(t, s)
  BY <1>1, EnterRefines DEF PrevailAgain, InUser, Alive
<1>2. CASE PrevailTake(t, s, NoDispatcher)
  BY <1>2, AcquireRefines DEF PrevailTake, Blocked, InUser
<1>3. CASE PrevailSleep(t, s, NoDispatcher)
  <2> DEFINE o == [At("prevail") EXCEPT !.id = s]
  <2>1. o \in Op /\ o.at = "prevail" /\ op' = [op EXCEPT ![t] = o]
    BY <1>3 DEF PrevailSleep, At, Op, Places
  <2>2. Alive(t) /\ TypeOK /\ \A q \in Skirmishes : Parked(t, q) = 0
    BY <1>3 DEF PrevailSleep, InUser, Alive, Parked, IInv
  <2>3. ParkedAt' = ParkedAt /\ Dead' = Dead
    BY <2>1, <2>2, MoveKeepsParked DEF ParkPlaces
  <2>4. Gone' = Gone /\ UNCHANGED <<lock_pid, lock_count>>
    BY <1>3 DEF PrevailSleep, Gone, lockVars
  <2> QED
    BY <2>3, <2>4, Stutter
<1>4. CASE Notify(t, s)
  <2>1. Gone' = Gone /\ UNCHANGED <<lock_pid, lock_count, op>>
    BY <1>4 DEF Notify, Gone, lockVars
  <2> QED
    BY <2>1, OpUnchanged, Stutter
<1> QED
  BY <1>1, <1>2, <1>3, <1>4, SwoopRefines, DismissRefines, WaitRefines, DestroyRefines
  DEF Ioctl

(* ... the wake-ups, ...                                                   *)
LEMMA ContinueRefines ==
  ASSUME IInv, NEW t \in Threads, Continue(t, NoDispatcher)
  PROVE  [Abstract!Next]_Abstract!vars
<1>1. CASE PrevailWoken(t, NoDispatcher)
  <2> DEFINE s == op[t].id
  <2>1. s \in Skirmishes /\ op[t].at = "prevail" /\ state[s] = "live" /\ UNCHANGED state
    BY <1>1 DEF PrevailWoken, Awake, IInv, OpCoherent
  <2>2. CASE ~ Blocked(t, s, NoDispatcher)
    BY <1>1, <2>1, <2>2, AcquireRefines DEF PrevailWoken, Blocked
  <2>3. CASE Blocked(t, s, NoDispatcher)
    <3>1. Gone' = Gone /\ UNCHANGED <<lock_pid, lock_count, op>>
      BY <1>1, <2>1, <2>3 DEF PrevailWoken, Gone, lockVars
    <3> QED
      BY <3>1, OpUnchanged, Stutter
  <2> QED
    BY <2>2, <2>3
<1>2. CASE WaitWoken(t)
  BY <1>2, RelockRefines DEF WaitWoken, Awake, ParkPlaces
<1>3. CASE RelockWoken(t)
  BY <1>3, RelockRefines DEF RelockWoken, Awake, ParkPlaces
<1> QED
  BY <1>1, <1>2, <1>3, FindGoneRefines DEF Continue

(* ... and what signals, timers and exits do.                              *)
LEMMA DisturbRefines ==
  ASSUME IInv, NEW t \in Threads, Disturb(t)
  PROVE  [Abstract!Next]_Abstract!vars
<1>1. CASE WaitResume(t)
  BY <1>1, RelockRefines DEF WaitResume, ParkPlaces
<1>2. op[t] \in Op /\ TypeOK
  BY DEF IInv, TypeOK
<1>3. ASSUME NEW place \in {"relock", "eintr"}, op[t].at \in {"wait", "relock"},
             op' = [op EXCEPT ![t].at = place], UNCHANGED <<state, lockVars>>
      PROVE  UNCHANGED Abstract!vars
  <2> DEFINE o == [op[t] EXCEPT !.at = place]
  <2>1. o \in Op /\ o.at = place /\ o.id = op[t].id /\ o.count = op[t].count
    BY <1>2 DEF Op, Places
  <2>2. op' = [op EXCEPT ![t] = o] /\ Alive(t)
    BY <1>3 DEF Alive
  <2>3. ParkedAt' = ParkedAt /\ Dead' = Dead
    BY <1>2, <1>3, <2>1, <2>2, MoveKeepsParked DEF ParkPlaces, Parked
  <2>4. Gone' = Gone
    BY <1>3 DEF Gone
  <2> QED
    BY <1>3, <2>3, <2>4, Stutter DEF lockVars
<1>4. CASE WaitTimeout(t)
  BY <1>3, <1>4 DEF WaitTimeout
<1>5. CASE Interrupt(t) /\ op[t].at # "prevail"
  BY <1>3, <1>5 DEF Interrupt
<1>6. CASE Interrupt(t) /\ op[t].at = "prevail"
  <2>1. At("user") \in Op /\ At("user").at = "user"
    BY DEF At, Op, Places
  <2>2. Alive(t) /\ \A q \in Skirmishes : Parked(t, q) = 0
    BY <1>6 DEF Alive, Parked
  <2>3. ParkedAt' = ParkedAt /\ Dead' = Dead
    BY <1>2, <1>6, <2>1, <2>2, MoveKeepsParked DEF Interrupt, Return, ParkPlaces
  <2>4. Gone' = Gone /\ UNCHANGED <<lock_pid, lock_count>>
    BY <1>6 DEF Interrupt, Gone, lockVars
  <2> QED
    BY <2>3, <2>4, Stutter
<1> QED
  BY <1>1, <1>4, <1>5, <1>6, ThreadExitRefines, FlushExitRefines DEF Disturb

(* Every step of the skirmish is one of the abstract lock, or none.        *)
LEMMA NextRefines == IInv /\ [Next]_vars => [Abstract!Next]_Abstract!vars
<1> SUFFICES ASSUME IInv, [Next]_vars PROVE [Abstract!Next]_Abstract!vars
  OBVIOUS
<1>1. ASSUME NEW s \in Skirmishes, New(s) PROVE UNCHANGED Abstract!vars
  <2>1. Gone' = Gone /\ UNCHANGED <<lock_pid, lock_count, op>>
    BY <1>1 DEF New, Gone, lockVars, IInv, TypeOK
  <2> QED
    BY <2>1, OpUnchanged, Stutter
<1>2. ASSUME UNCHANGED vars PROVE UNCHANGED Abstract!vars
  <2>1. Gone' = Gone /\ UNCHANGED <<lock_pid, lock_count, op>>
    BY <1>2 DEF vars, lockVars, Gone
  <2> QED
    BY <2>1, OpUnchanged, Stutter
<1> QED
  BY <1>1, <1>2, IoctlRefines, ContinueRefines, DisturbRefines, ReleaseRefines DEF Next

(* The skirmish implements the recursive lock with parking: ownership      *)
(* changes hands only through free, and a wait gives back the depth it     *)
(* took, whatever signals, timeouts, deaths and destructions intervene.    *)
THEOREM SkirmishIsRecursiveLock == Spec => IsRecursiveLock
<1>1. Init => Abstract!Init
  BY DEF Init, Abstract!Init, At, Alive, Parked
<1>2. IInv /\ [Next]_vars => [Abstract!Next]_Abstract!vars
  BY NextRefines
<1> QED
  BY <1>1, <1>2, SkirmishInvariant, PTL DEF Spec, IsRecursiveLock, Abstract!Spec
=============================================================================
