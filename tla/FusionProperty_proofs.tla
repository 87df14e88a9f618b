----------------------- MODULE FusionProperty_proofs -----------------------
(***************************************************************************)
(* The property: IInv is an inductive invariant of Spec, for any number of *)
(* threads, fusionees and properties and for any bound on the count, and  *)
(* from it every step of Spec is a step of the abstract recursive lock.   *)
(***************************************************************************)
EXTENDS FusionProperty, TLAPS

(* A fresh world: no property, nobody inside an ioctl.                    *)
LEMMA InitIInv == Init => IInv
  BY FidAssumption, NoneAssumption
  DEF Init, IInv, TypeOK, OwnerCoherent, HeldIsLocked, WaitCoherent, NoLostWakeup,
      Op, At, Alive, Waits, WaitsFor, Fresh, Old, Modes

-----------------------------------------------------------------------------
(* A new property is free and nobody knows it.                              *)
LEMMA NewStep ==
  ASSUME IInv, NEW p \in Properties, New(p)
  PROVE  IInv'
<1> USE FidAssumption, NoneAssumption
    DEF IInv, New, InUser, Alive, Waits, lockVars
<1>1. TypeOK'
  BY DEF TypeOK, OwnerCoherent, WaitCoherent, Op, Modes, Fresh, Recent, Old
<1>2. OwnerCoherent'
  BY DEF TypeOK, OwnerCoherent, Modes
<1>3. HeldIsLocked'
  BY DEF TypeOK, OwnerCoherent, HeldIsLocked, WaitCoherent, Op, Modes
<1>4. WaitCoherent'
  BY DEF TypeOK, OwnerCoherent, WaitCoherent, WaitsFor, Op, Modes
<1>5. NoLostWakeup'
  BY DEF TypeOK, OwnerCoherent, WaitCoherent, NoLostWakeup, WaitsFor, Op, Modes
<1> QED
  BY <1>1, <1>2, <1>3, <1>4, <1>5

(* Time changes the age of a purchase only.                                 *)
LEMMA TickStep ==
  ASSUME IInv, NEW p \in Properties, Tick(p)
  PROVE  IInv'
<1> USE FidAssumption, NoneAssumption
    DEF IInv, Tick, InUser, Alive, Waits, lockVars
<1>1. TypeOK'
  BY DEF TypeOK, OwnerCoherent, WaitCoherent, Op, Modes, Fresh, Recent, Old
<1>2. OwnerCoherent'
  BY DEF TypeOK, OwnerCoherent, Modes
<1>3. HeldIsLocked'
  BY DEF TypeOK, OwnerCoherent, HeldIsLocked, WaitCoherent, Op, Modes
<1>4. WaitCoherent'
  BY DEF TypeOK, OwnerCoherent, WaitCoherent, WaitsFor, Op, Modes
<1>5. NoLostWakeup'
  BY DEF TypeOK, OwnerCoherent, WaitCoherent, NoLostWakeup, WaitsFor, Op, Modes
<1> QED
  BY <1>1, <1>2, <1>3, <1>4, <1>5

(* A thread that is awake and does not own a free property gets it.         *)
LEMMA TakeStep ==
  ASSUME IInv, NEW t \in Threads, NEW p \in Properties, NEW mode \in Modes,
         entry[p] = "live", Alive(t), \A q \in Properties : t \notin wq[q],
         Take(t, p, mode), UNCHANGED <<entry, doomed>>
  PROVE  IInv'
<1> USE FidAssumption, NoneAssumption
    DEF IInv, Take, Return, At, InUser, Alive, Waits, lockVars
<1>a. lock_pid[p] = None /\ t # None
  BY DEF OwnerCoherent, Modes, TypeOK
<1>b. \A u \in Threads : Alive(u) => held[u][p] = 0
  BY <1>a DEF HeldIsLocked
<1>c. held' \in [Threads -> [Properties -> Nat]] /\ count' \in [Properties -> Nat]
  BY DEF TypeOK
<1>d. age' \in [Properties -> Fresh..Old] /\ wq' \in [Properties -> SUBSET Threads]
  <2>1. Fresh \in Fresh..Old
    BY DEF Fresh, Old
  <2>2. CASE mode = "purchased"
    <3>1. age' = [age EXCEPT ![p] = Fresh] /\ wq' = [wq EXCEPT ![p] = {}]
      BY <2>2
    <3>2. age' \in [Properties -> Fresh..Old]
      BY <2>1, <3>1 DEF TypeOK
    <3>3. wq' \in [Properties -> SUBSET Threads]
      BY <3>1 DEF TypeOK
    <3> QED
      BY <3>2, <3>3
  <2>3. CASE mode # "purchased"
    BY <2>3 DEF TypeOK
  <2> QED
    BY <2>2, <2>3
<1>e. op' \in [Threads -> Op]
  BY DEF TypeOK, Op
<1>1. TypeOK'
  BY <1>c, <1>d, <1>e DEF TypeOK, Modes
<1>2. OwnerCoherent'
  BY DEF TypeOK, OwnerCoherent, Modes
<1>3. HeldIsLocked'
  BY <1>a, <1>b DEF TypeOK, HeldIsLocked
<1>4. WaitCoherent'
  BY DEF TypeOK, OwnerCoherent, WaitCoherent, WaitsFor, Op, Modes
<1>5. NoLostWakeup'
  BY DEF TypeOK, OwnerCoherent, WaitCoherent, NoLostWakeup, WaitsFor, Op, Modes
<1> QED
  BY <1>1, <1>2, <1>3, <1>4, <1>5

(* A thread that does not own a held property queues up.                    *)
LEMMA SleepStep ==
  ASSUME IInv, NEW t \in Threads, NEW p \in Properties, NEW mode \in Modes,
         NEW timeout \in BOOLEAN, entry[p] = "live", Alive(t), lock_pid[p] # t,
         \A q \in Properties : t \notin wq[q],
         Sleep(t, p, mode, timeout), UNCHANGED <<entry, doomed>>
  PROVE  IInv'
<1> USE FidAssumption, NoneAssumption
    DEF IInv, Sleep, InUser, Alive, Waits, lockVars
<1>a. state[p] \in Modes
  BY DEF TypeOK
<1>b. op' \in [Threads -> Op] /\ op'[t].at = mode /\ op'[t].id = p /\ op'[t].saw = state[p]
  BY <1>a DEF TypeOK, Op
<1>c. state[p] = "purchased" => op'[t].timeout
  BY DEF TypeOK
<1>d. \A u \in Threads : u # t => op'[u] = op[u]
  BY DEF TypeOK
<1>1. TypeOK'
  BY <1>b DEF TypeOK
<1>2. OwnerCoherent'
  BY DEF TypeOK, OwnerCoherent, Modes
<1>3. HeldIsLocked'
  BY DEF TypeOK, OwnerCoherent, HeldIsLocked, WaitCoherent, Op, Modes
<1>4. WaitCoherent'
  BY <1>a, <1>b, <1>c, <1>d DEF TypeOK, WaitCoherent, WaitsFor
<1>5. NoLostWakeup'
  BY <1>a, <1>b, <1>d DEF TypeOK, NoLostWakeup, OwnerCoherent
<1> QED
  BY <1>1, <1>2, <1>3, <1>4, <1>5

(* A thread leaves its ioctl without the property, whatever the reason.     *)
LEMMA ReturnStep ==
  ASSUME IInv, NEW t \in Threads, Alive(t), Return(t),
         wq' \in [Properties -> SUBSET Threads],
         \A p \in Properties : wq'[p] \subseteq wq[p] \ {t},
         UNCHANGED <<entry, lockVars, age, held, doomed>>
  PROVE  IInv'
<1> USE FidAssumption, NoneAssumption
    DEF IInv, Return, At, InUser, Alive, Waits, lockVars
<1>1. TypeOK'
  BY DEF TypeOK, OwnerCoherent, WaitCoherent, Op, Modes, Fresh, Recent, Old
<1>2. OwnerCoherent'
  BY DEF TypeOK, OwnerCoherent, Modes
<1>3. HeldIsLocked'
  BY DEF TypeOK, OwnerCoherent, HeldIsLocked, WaitCoherent, Op, Modes
<1>4. WaitCoherent'
  BY DEF TypeOK, OwnerCoherent, WaitCoherent, WaitsFor, Op, Modes
<1>5. NoLostWakeup'
  BY DEF TypeOK, OwnerCoherent, WaitCoherent, NoLostWakeup, WaitsFor, Op, Modes
<1> QED
  BY <1>1, <1>2, <1>3, <1>4, <1>5

(* Its owner takes a property once more.                                    *)
LEMMA AgainStep ==
  ASSUME IInv, NEW t \in Threads, NEW p \in Properties, NEW mode \in Modes,
         Again(t, p, mode)
  PROVE  IInv'
<1> USE FidAssumption, NoneAssumption
    DEF IInv, Again, InUser, Alive, Waits, lockVars
<1>1. TypeOK'
  BY DEF TypeOK, OwnerCoherent, WaitCoherent, Op, Modes, Fresh, Recent, Old
<1>2. OwnerCoherent'
  BY DEF TypeOK, OwnerCoherent, Modes
<1>3. HeldIsLocked'
  BY DEF TypeOK, OwnerCoherent, HeldIsLocked, WaitCoherent, Op, Modes
<1>4. WaitCoherent'
  BY DEF TypeOK, OwnerCoherent, WaitCoherent, WaitsFor, Op, Modes
<1>5. NoLostWakeup'
  BY DEF TypeOK, OwnerCoherent, WaitCoherent, NoLostWakeup, WaitsFor, Op, Modes
<1> QED
  BY <1>1, <1>2, <1>3, <1>4, <1>5

(* A cede keeps the depths equal, and the last one wakes all sleepers.      *)
LEMMA CedeStep ==
  ASSUME IInv, NEW t \in Threads, NEW p \in Properties, Cede(t, p)
  PROVE  IInv'
<1> USE FidAssumption, NoneAssumption
    DEF IInv, Cede, Free, InUser, Alive, Waits, lockVars
<1>a. lock_pid[p] = t /\ t # None /\ Alive(t)
  BY DEF HeldIsLocked
<1>b. count[p] \in Nat /\ count[p] > 0 /\ held[t][p] = count[p]
  BY <1>a DEF TypeOK, OwnerCoherent, HeldIsLocked
<1>c. /\ count' = [count EXCEPT ![p] = count[p] - 1]
      /\ held' = [held EXCEPT ![t][p] = count[p] - 1]
  BY <1>b
<1>d. count[p] - 1 \in Nat
  BY <1>b
<1>e. count' \in [Properties -> Nat] /\ held' \in [Threads -> [Properties -> Nat]]
  BY <1>c, <1>d DEF TypeOK
<1>f. CASE count[p] = 1
  <2>1. /\ state' = [state EXCEPT ![p] = "available"]
        /\ fusion_id' = [fusion_id EXCEPT ![p] = None]
        /\ lock_pid' = [lock_pid EXCEPT ![p] = None]
        /\ wq' = [wq EXCEPT ![p] = {}]
    BY <1>f DEF TypeOK
  <2>2. TypeOK'
    BY <1>e, <2>1, <1>f DEF TypeOK
  <2>3. OwnerCoherent'
    BY <1>a, <1>b, <1>c, <2>1, <1>f DEF TypeOK, OwnerCoherent, Modes
  <2>4. HeldIsLocked'
    BY <1>a, <1>b, <1>c, <2>1, <1>f DEF TypeOK, HeldIsLocked
  <2>5. WaitCoherent'
    BY <1>a, <1>c, <2>1, <1>f DEF TypeOK, OwnerCoherent, WaitCoherent, WaitsFor
  <2>6. NoLostWakeup'
    BY <1>a, <1>c, <2>1, <1>f DEF TypeOK, OwnerCoherent, NoLostWakeup, WaitCoherent, WaitsFor
  <2> QED
    BY <2>2, <2>3, <2>4, <2>5, <2>6
<1>g. CASE count[p] # 1
  <2>2. TypeOK'
    BY <1>e, <1>g DEF TypeOK
  <2>3. OwnerCoherent'
    BY <1>a, <1>b, <1>c, <1>g DEF TypeOK, OwnerCoherent, Modes
  <2>4. HeldIsLocked'
    BY <1>a, <1>b, <1>c, <1>g DEF TypeOK, HeldIsLocked
  <2>5. WaitCoherent'
    BY <1>a, <1>c, <1>g DEF TypeOK, OwnerCoherent, WaitCoherent, WaitsFor
  <2>6. NoLostWakeup'
    BY <1>a, <1>c, <1>g DEF TypeOK, OwnerCoherent, NoLostWakeup, WaitCoherent, WaitsFor
  <2> QED
    BY <2>2, <2>3, <2>4, <2>5, <2>6
<1> QED
  BY <1>f, <1>g

(* A holdup only condemns.                                                  *)
LEMMA HoldupStep ==
  ASSUME IInv, NEW t \in Threads, NEW p \in Properties, Holdup(t, p)
  PROVE  IInv'
<1> USE FidAssumption, NoneAssumption
    DEF IInv, Holdup, InUser, Alive, Waits, lockVars
<1>1. TypeOK'
  BY DEF TypeOK, OwnerCoherent, WaitCoherent, Op, Modes, Fresh, Recent, Old
<1>2. OwnerCoherent'
  BY DEF TypeOK, OwnerCoherent, Modes
<1>3. HeldIsLocked'
  BY DEF TypeOK, OwnerCoherent, HeldIsLocked, WaitCoherent, Op, Modes
<1>4. WaitCoherent'
  BY DEF TypeOK, OwnerCoherent, WaitCoherent, WaitsFor, Op, Modes
<1>5. NoLostWakeup'
  BY DEF TypeOK, OwnerCoherent, WaitCoherent, NoLostWakeup, WaitsFor, Op, Modes
<1> QED
  BY <1>1, <1>2, <1>3, <1>4, <1>5

(* A destroyed property is free and nobody sleeps on it.                    *)
LEMMA DestroyStep ==
  ASSUME IInv, NEW t \in Threads, NEW p \in Properties, Destroy(t, p)
  PROVE  IInv'
<1> USE FidAssumption, NoneAssumption
    DEF IInv, Destroy, Free, InUser, Alive, Waits, lockVars
<1>1. TypeOK'
  BY DEF TypeOK, OwnerCoherent, WaitCoherent, Op, Modes, Fresh, Recent, Old
<1>2. OwnerCoherent'
  BY DEF TypeOK, OwnerCoherent, Modes
<1>3. HeldIsLocked'
  BY DEF TypeOK, OwnerCoherent, HeldIsLocked, WaitCoherent, Op, Modes
<1>4. WaitCoherent'
  BY DEF TypeOK, OwnerCoherent, WaitCoherent, WaitsFor, Op, Modes
<1>5. NoLostWakeup'
  BY DEF TypeOK, OwnerCoherent, WaitCoherent, NoLostWakeup, WaitsFor, Op, Modes
<1> QED
  BY <1>1, <1>2, <1>3, <1>4, <1>5

(* A thread ends; what it held stays locked.                                *)
LEMMA DieStep ==
  ASSUME IInv, NEW t \in Threads, Alive(t), Die(t),
         wq' \in [Properties -> SUBSET Threads],
         \A p \in Properties : wq'[p] \subseteq wq[p] \ {t},
         UNCHANGED <<entry, lockVars, age, doomed>>
  PROVE  IInv'
<1> USE FidAssumption, NoneAssumption
    DEF IInv, Die, At, InUser, Alive, Waits, lockVars
<1>1. TypeOK'
  BY DEF TypeOK, OwnerCoherent, WaitCoherent, Op, Modes, Fresh, Recent, Old
<1>2. OwnerCoherent'
  BY DEF TypeOK, OwnerCoherent, Modes
<1>3. HeldIsLocked'
  BY DEF TypeOK, OwnerCoherent, HeldIsLocked, WaitCoherent, Op, Modes
<1>4. WaitCoherent'
  BY DEF TypeOK, OwnerCoherent, WaitCoherent, WaitsFor, Op, Modes
<1>5. NoLostWakeup'
  BY DEF TypeOK, OwnerCoherent, WaitCoherent, NoLostWakeup, WaitsFor, Op, Modes
<1> QED
  BY <1>1, <1>2, <1>3, <1>4, <1>5

(* What the release of a file frees belonged to the dead.                   *)
LEMMA ReleaseStep ==
  ASSUME IInv, NEW f \in Fusionees, Release(f)
  PROVE  IInv'
<1> USE FidAssumption, NoneAssumption
    DEF IInv, Release, CedeAll, Free, InUser, Alive, Waits, lockVars
<1>1. TypeOK'
  BY DEF TypeOK, OwnerCoherent, WaitCoherent, Op, Modes, Fresh, Recent, Old
<1>2. OwnerCoherent'
  BY DEF TypeOK, OwnerCoherent, Modes
<1>3. HeldIsLocked'
  BY DEF TypeOK, OwnerCoherent, HeldIsLocked, WaitCoherent, Op, Modes
<1>4. WaitCoherent'
  BY DEF TypeOK, OwnerCoherent, WaitCoherent, WaitsFor, Op, Modes
<1>5. NoLostWakeup'
  BY DEF TypeOK, OwnerCoherent, WaitCoherent, NoLostWakeup, WaitsFor, Op, Modes
<1> QED
  BY <1>1, <1>2, <1>3, <1>4, <1>5

-----------------------------------------------------------------------------
(* Both ways into the loop, and every way out of it.                       *)
LEMMA StartStep ==
  ASSUME IInv, NEW t \in Threads, NEW p \in Properties, NEW mode \in Modes,
         Start(t, p, mode)
  PROVE  IInv'
<1>1. Alive(t) /\ entry[p] = "live" /\ lock_pid[p] # t
  BY DEF Start, InUser, Alive
<1>2. \A q \in Properties : t \notin wq[q]
  BY DEF Start, InUser, IInv, WaitCoherent, WaitsFor, Waits, Modes
<1> QED
  BY <1>1, <1>2, TakeStep, SleepStep DEF Start

(* A thread that was woken is on no queue and does not own what it wants.  *)
LEMMA AwakeFacts ==
  ASSUME IInv, NEW t \in Threads, Awake(t)
  PROVE  /\ op[t].id \in Properties /\ op[t].at \in Modes /\ op[t].timeout \in BOOLEAN
         /\ Alive(t) /\ lock_pid[op[t].id] # t
         /\ \A q \in Properties : t \notin wq[q]
<1>1. op[t].at \in Modes /\ op[t].timeout \in BOOLEAN
  BY DEF Awake, Waits, IInv, TypeOK, Op
<1>2. op[t].id \in Properties /\ lock_pid[op[t].id] # t
  BY DEF Awake, IInv, WaitCoherent
<1>3. \A q \in Properties : t \notin wq[q]
  BY DEF Awake, IInv, WaitCoherent, WaitsFor
<1> QED
  BY <1>1, <1>2, <1>3 DEF Alive, Modes

(* The loop after a wake-up.                                               *)
LEMMA WokenStep ==
  ASSUME IInv, NEW t \in Threads, Woken(t)
  PROVE  IInv'
<1> DEFINE p == op[t].id
           mode == op[t].at
           timeout == op[t].timeout
<1>1. Awake(t) /\ entry[p] = "live" /\ UNCHANGED <<entry, doomed>>
  BY DEF Woken
<1>2. /\ p \in Properties /\ mode \in Modes /\ timeout \in BOOLEAN
      /\ Alive(t) /\ lock_pid[p] # t
      /\ \A q \in Properties : t \notin wq[q]
  BY <1>1, AwakeFacts
<1>3. CASE Take(t, p, mode)
  BY <1>1, <1>2, <1>3, TakeStep
<1>4. CASE Sleep(t, p, mode, timeout)
  BY <1>1, <1>2, <1>4, SleepStep
<1>5. CASE GiveUp(t, p, mode, timeout)
  <2>1. wq' \in [Properties -> SUBSET Threads]
    BY <1>5 DEF GiveUp, IInv, TypeOK
  <2>2. \A q \in Properties : wq'[q] \subseteq wq[q] \ {t}
    BY <1>2, <1>5 DEF GiveUp
  <2> QED
    BY <1>1, <1>2, <1>5, <2>1, <2>2, ReturnStep DEF GiveUp
<1> QED
  BY <1>3, <1>4, <1>5 DEF Woken

(* A timer, a signal or the end of the property ends the ioctl.            *)
LEMMA LeaveLoopStep ==
  ASSUME IInv, NEW t \in Threads, TimedOut(t) \/ Interrupt(t) \/ FindGone(t)
  PROVE  IInv'
<1>1. Alive(t) /\ Return(t) /\ UNCHANGED <<entry, lockVars, age, held, doomed>>
  BY DEF TimedOut, Interrupt, FindGone, Awake, Waits, Alive, Modes
<1>2. wq' \in [Properties -> SUBSET Threads]
  BY DEF TimedOut, Interrupt, FindGone, IInv, TypeOK
<1>3. \A p \in Properties : t \in wq[p] => p = op[t].id
  BY DEF IInv, WaitCoherent, WaitsFor
<1>4. \A p \in Properties : wq'[p] \subseteq wq[p] \ {t}
  BY <1>3 DEF TimedOut, Interrupt, FindGone, Awake, IInv, TypeOK
<1> QED
  BY <1>1, <1>2, <1>4, ReturnStep

(* A thread dies in user space, on no queue, or is taken from its queue.   *)
LEMMA DeathStep ==
  ASSUME IInv, NEW t \in Threads, ThreadExit(t) \/ Killed(t)
  PROVE  IInv'
<1>1. Alive(t) /\ Die(t) /\ UNCHANGED <<entry, lockVars, age, doomed>>
  BY DEF ThreadExit, Killed, InUser, Alive
<1>2. wq' \in [Properties -> SUBSET Threads]
  BY DEF ThreadExit, Killed, IInv, TypeOK
<1>3. \A p \in Properties : t \in wq[p] => ~ InUser(t)
  BY DEF IInv, WaitCoherent, WaitsFor, Waits, InUser, Modes
<1>4. \A p \in Properties : wq'[p] \subseteq wq[p] \ {t}
  BY <1>3 DEF ThreadExit, Killed
<1> QED
  BY <1>1, <1>2, <1>4, DieStep

-----------------------------------------------------------------------------
(* Every step keeps the invariant.                                         *)
LEMMA NextIInv == IInv /\ [Next]_vars => IInv'
<1> SUFFICES ASSUME IInv, [Next]_vars PROVE IInv'
  OBVIOUS
<1>1. ASSUME NEW p \in Properties, New(p) \/ Tick(p) PROVE IInv'
  BY <1>1, NewStep, TickStep
<1>2. ASSUME NEW t \in Threads, NEW p \in Properties, Ioctl(t, p) PROVE IInv'
  BY <1>2, StartStep, AgainStep, CedeStep, HoldupStep, DestroyStep DEF Ioctl
<1>3. ASSUME NEW t \in Threads,
             \/ Woken(t) \/ FindGone(t) \/ TimedOut(t)
             \/ Interrupt(t) \/ ThreadExit(t) \/ Killed(t)
      PROVE  IInv'
  BY <1>3, WokenStep, LeaveLoopStep, DeathStep
<1>4. ASSUME NEW f \in Fusionees, Release(f) PROVE IInv'
  BY <1>4, ReleaseStep
<1>5. CASE UNCHANGED vars
  BY <1>5 DEF vars, lockVars, IInv, TypeOK, OwnerCoherent, HeldIsLocked, WaitCoherent,
              NoLostWakeup, Alive, Waits, WaitsFor
<1> QED
  BY <1>1, <1>2, <1>3, <1>4, <1>5 DEF Next

(* The invariant holds in every reachable state.                           *)
THEOREM PropertyInvariant == Spec => []IInv
<1>1. Init => IInv
  BY InitIInv
<1>2. IInv /\ [Next]_vars => IInv'
  BY NextIInv
<1> QED
  BY <1>1, <1>2, PTL DEF Spec

(* Every field keeps its type: in particular no cede makes a count negative. *)
THEOREM PropertyTypeCorrect == Spec => []TypeOK
<1>1. IInv => TypeOK
  BY DEF IInv
<1> QED
  BY <1>1, PropertyInvariant, PTL

(* What the return values let a thread believe is what the kernel has      *)
(* recorded, so that no two live threads hold a property, in any mode.     *)
THEOREM PropertyHeldIsLocked == Spec => []HeldIsLocked
<1>1. IInv => HeldIsLocked
  BY DEF IInv
<1> QED
  BY <1>1, PropertyInvariant, PTL

(* Nobody sleeps on a free property, nor without a timer on a purchase.    *)
THEOREM PropertyNoLostWakeup == Spec => []NoLostWakeup
<1>1. IInv => NoLostWakeup
  BY DEF IInv
<1> QED
  BY <1>1, PropertyInvariant, PTL

-----------------------------------------------------------------------------
(* The refinement: what the abstract lock sees of a step.                  *)
Depth == [p \in Properties |-> IF lock_pid[p] = None THEN 0 ELSE count[p]]
Gone  == {p \in Properties : entry[p] = "destroyed"}
Dead  == {t \in Threads : ~ Alive(t)}
Unparked == [t \in Threads |-> [p \in Properties |-> 0]]

(* Steps that neither change an owner, a count, a property nor a life.     *)
LEMMA Stutter ==
  ASSUME UNCHANGED <<lock_pid, count>>, Gone' = Gone, Dead' = Dead
  PROVE  UNCHANGED Abstract!vars
  BY DEF Abstract!vars, Gone, Dead

(* A thread that moves on to another ioctl, or back, does not die.         *)
LEMMA SameLives ==
  ASSUME IInv, NEW t \in Threads, NEW o \in Op,
         op' = [op EXCEPT ![t] = o], Alive(t), o.at # "dead"
  PROVE  Dead' = Dead
<1>1. \A u \in Threads : Alive(u)' <=> Alive(u)
  BY DEF IInv, TypeOK, Alive
<1> QED
  BY <1>1 DEF Dead

(* Whoever takes a free property acquires the lock.                        *)
LEMMA TakeRefines ==
  ASSUME IInv, NEW t \in Threads, NEW p \in Properties, NEW mode \in Modes,
         entry[p] = "live", Alive(t), Take(t, p, mode), UNCHANGED entry
  PROVE  Abstract!Next
<1>1. lock_pid[p] = None /\ lock_pid' = [lock_pid EXCEPT ![p] = t] /\ t # None
  BY NoneAssumption DEF IInv, OwnerCoherent, Take, Modes
<1>2. Depth' = [Depth EXCEPT ![p] = 1]
  BY <1>1 DEF Depth, Take, IInv, TypeOK
<1>3. Gone' = Gone /\ p \notin Gone
  BY DEF Gone
<1>4. At("user") \in Op
  BY DEF At, Op
<1>5. Dead' = Dead /\ t \notin Dead
  <2>1. op' = [op EXCEPT ![t] = At("user")]
    BY DEF Take, Return
  <2>2. At("user").at # "dead"
    BY DEF At
  <2>3. Dead' = Dead
    BY <1>4, <2>1, <2>2, SameLives
  <2> QED
    BY <2>3 DEF Dead
<1>6. Unparked[t][p] = 0
  BY DEF Unparked
<1>7. Abstract!Acquire(t, p)
  BY <1>1, <1>2, <1>3, <1>5, <1>6
  DEF Abstract!Acquire, Abstract!Give, Depth, Gone, Dead, Unparked
<1> QED
  BY <1>7 DEF Abstract!Next

(* Sleeping changes nothing the abstract lock sees, ...                    *)
LEMMA SleepRefines ==
  ASSUME IInv, NEW t \in Threads, NEW p \in Properties, NEW mode \in Modes,
         NEW timeout \in BOOLEAN, Alive(t), Sleep(t, p, mode, timeout), UNCHANGED entry
  PROVE  UNCHANGED Abstract!vars
<1> DEFINE o == [at |-> mode, id |-> p, timeout |-> timeout \/ state[p] = "purchased",
                 saw |-> state[p]]
<1>1. o \in Op /\ o.at # "dead"
  BY DEF Op, Modes, IInv, TypeOK
<1>2. op' = [op EXCEPT ![t] = o]
  BY DEF Sleep
<1>3. Dead' = Dead
  BY <1>1, <1>2, SameLives
<1>4. Gone' = Gone
  BY DEF Gone
<1>5. UNCHANGED <<lock_pid, count>>
  BY DEF Sleep, lockVars
<1> QED
  BY <1>3, <1>4, <1>5, Stutter

(* ... nor does giving up.                                                 *)
LEMMA ReturnRefines ==
  ASSUME IInv, NEW t \in Threads, Alive(t), Return(t), UNCHANGED <<entry, lockVars>>
  PROVE  UNCHANGED Abstract!vars
<1>1. At("user") \in Op /\ At("user").at # "dead"
  BY DEF At, Op
<1>2. Dead' = Dead
  BY <1>1, SameLives DEF Return
<1>3. Gone' = Gone
  BY DEF Gone
<1> QED
  BY <1>2, <1>3, Stutter DEF lockVars

(* The owner goes in once more.                                            *)
LEMMA AgainRefines ==
  ASSUME IInv, NEW t \in Threads, NEW p \in Properties, NEW mode \in Modes,
         Again(t, p, mode)
  PROVE  Abstract!Next
<1>1. lock_pid[p] = t /\ t # None /\ UNCHANGED <<lock_pid, entry, op>>
  BY NoneAssumption DEF Again
<1>2. Depth' = [Depth EXCEPT ![p] = @ + 1]
  BY <1>1 DEF Depth, Again, IInv, TypeOK
<1>3. t \notin Dead /\ Dead' = Dead /\ Gone' = Gone
  BY <1>1 DEF Dead, Gone, Again, InUser, Alive
<1>4. Abstract!Enter(t, p)
  BY <1>1, <1>2, <1>3 DEF Abstract!Enter, Depth, Dead, Gone
<1> QED
  BY <1>4 DEF Abstract!Next

(* A cede leaves the lock once, and the last one frees it.                 *)
LEMMA CedeRefines ==
  ASSUME IInv, NEW t \in Threads, NEW p \in Properties, Cede(t, p)
  PROVE  Abstract!Next
<1>1. lock_pid[p] = t /\ t # None /\ UNCHANGED <<entry, op>>
  BY NoneAssumption DEF Cede
<1>2. count[p] \in Nat /\ count[p] > 0 /\ Depth[p] = count[p]
  BY <1>1 DEF IInv, TypeOK, OwnerCoherent, Depth
<1>3. t \notin Dead /\ Dead' = Dead /\ Gone' = Gone
  BY <1>1 DEF Dead, Gone, Cede, InUser, Alive
<1>4. CASE count[p] = 1
  <2>1. lock_pid' = [q \in Properties |-> IF q \in {p} THEN None ELSE lock_pid[q]]
    BY <1>4 DEF Cede, Free
  <2>2. Depth' = [q \in Properties |-> IF q \in {p} THEN 0 ELSE Depth[q]]
    BY <1>1, <2>1 DEF Depth, Cede, IInv, TypeOK
  <2>3. Abstract!Leave(t, p)
    BY <1>1, <1>2, <1>3, <1>4, <2>1, <2>2
    DEF Abstract!Leave, Abstract!Free, Depth, Dead, Gone
  <2> QED
    BY <2>3 DEF Abstract!Next
<1>5. CASE count[p] # 1
  <2>1. UNCHANGED lock_pid
    BY <1>5 DEF Cede
  <2>2. Depth' = [Depth EXCEPT ![p] = @ - 1]
    BY <1>1, <2>1 DEF Depth, Cede, IInv, TypeOK
  <2>3. Abstract!Leave(t, p)
    BY <1>1, <1>2, <1>3, <1>5, <2>1, <2>2
    DEF Abstract!Leave, Depth, Dead, Gone
  <2> QED
    BY <2>3 DEF Abstract!Next
<1> QED
  BY <1>4, <1>5

(* A destroyed property is free and gone.                                  *)
LEMMA DestroyRefines ==
  ASSUME IInv, NEW t \in Threads, NEW p \in Properties, Destroy(t, p)
  PROVE  Abstract!Next
<1>1. lock_pid' = [q \in Properties |-> IF q \in {p} THEN None ELSE lock_pid[q]]
  BY DEF Destroy, Free
<1>2. Depth' = [q \in Properties |-> IF q \in {p} THEN 0 ELSE Depth[q]]
  BY <1>1 DEF Depth, Destroy
<1>3. p \notin Gone /\ Gone' = Gone \cup {p}
  BY DEF Gone, Destroy, IInv, TypeOK
<1>4. Dead' = Dead
  BY DEF Dead, Destroy, Alive
<1>5. Abstract!DestroyLock(p)
  BY <1>1, <1>2, <1>3, <1>4 DEF Abstract!DestroyLock, Abstract!Free, Depth, Dead, Gone
<1> QED
  BY <1>5 DEF Abstract!Next

(* A thread dies with its properties, ...                                  *)
LEMMA DieRefines ==
  ASSUME IInv, NEW t \in Threads, Alive(t), Die(t), UNCHANGED <<entry, lockVars>>
  PROVE  Abstract!Next
<1>1. \A u \in Threads : Alive(u)' <=> Alive(u) /\ u # t
  BY DEF Die, At, Alive, IInv, TypeOK
<1>2. t \notin Dead /\ Dead' = Dead \cup {t}
  BY <1>1 DEF Dead
<1>3. lock_pid' = [q \in Properties |-> IF q \in {} THEN None ELSE lock_pid[q]]
  BY DEF lockVars, IInv, TypeOK
<1>4. Depth' = [q \in Properties |-> IF q \in {} THEN 0 ELSE Depth[q]]
  BY DEF Depth, lockVars
<1>5. Unparked' = [Unparked EXCEPT ![t] = [q \in Properties |-> 0]]
  BY DEF Unparked
<1>6. Gone' = Gone
  BY DEF Gone
<1>7. Abstract!ThreadDies(t, {})
  BY <1>2, <1>3, <1>4, <1>5, <1>6
  DEF Abstract!ThreadDies, Abstract!Free, Depth, Dead, Gone, Unparked
<1> QED
  BY <1>7 DEF Abstract!Next

(* ... which the release of its file frees.                                *)
LEMMA ReleaseRefines ==
  ASSUME IInv, NEW f \in Fusionees, Release(f)
  PROVE  Abstract!Next
<1> SUFFICES ASSUME NEW L, L = {p \in Properties : fusion_id[p] = f}
             PROVE  Abstract!Next
  OBVIOUS
<1>1. \A p \in L : lock_pid[p] \in Dead
  <2> SUFFICES ASSUME NEW p \in L PROVE lock_pid[p] \in Dead
    OBVIOUS
  <2>1. lock_pid[p] # None
    BY NoneAssumption DEF IInv, OwnerCoherent
  <2>2. lock_pid[p] \in Threads /\ Fid[lock_pid[p]] = f
    BY <2>1 DEF IInv, TypeOK, OwnerCoherent
  <2> QED
    BY <2>2 DEF Release, Dead
<1>2. lock_pid' = [q \in Properties |-> IF q \in L THEN None ELSE lock_pid[q]]
  BY DEF Release, CedeAll, Free
<1>3. Depth' = [q \in Properties |-> IF q \in L THEN 0 ELSE Depth[q]]
  BY <1>2 DEF Depth, Release
<1>4. Gone' = Gone /\ Dead' = Dead
  BY DEF Gone, Dead, Release, Alive
<1>5. Abstract!CleanUp(L)
  BY <1>1, <1>2, <1>3, <1>4 DEF Abstract!CleanUp, Abstract!Free, Depth, Dead, Gone
<1>6. L \in SUBSET Properties
  OBVIOUS
<1> QED
  BY <1>5, <1>6 DEF Abstract!Next

(* Every step of the property is one of the abstract lock, or none.        *)
LEMMA NextRefines == IInv /\ [Next]_vars => [Abstract!Next]_Abstract!vars
<1> SUFFICES ASSUME IInv, [Next]_vars PROVE [Abstract!Next]_Abstract!vars
  OBVIOUS
<1>1. ASSUME NEW p \in Properties, New(p) \/ Tick(p) PROVE UNCHANGED Abstract!vars
  <2>1. Gone' = Gone /\ Dead' = Dead /\ UNCHANGED <<lock_pid, count>>
    BY <1>1 DEF New, Tick, Gone, Dead, Alive, lockVars, IInv, TypeOK
  <2> QED
    BY <2>1, Stutter
<1>2. ASSUME NEW t \in Threads, NEW p \in Properties, Ioctl(t, p)
      PROVE  [Abstract!Next]_Abstract!vars
  <2>1. ASSUME NEW mode \in Modes, Start(t, p, mode) PROVE [Abstract!Next]_Abstract!vars
    <3>1. Alive(t) /\ entry[p] = "live" /\ UNCHANGED entry
      BY <2>1 DEF Start, InUser, Alive
    <3> QED
      BY <2>1, <3>1, TakeRefines, SleepRefines DEF Start
  <2>2. CASE Holdup(t, p)
    <3>1. Gone' = Gone /\ Dead' = Dead /\ UNCHANGED <<lock_pid, count>>
      BY <2>2 DEF Holdup, Gone, Dead, Alive, lockVars
    <3> QED
      BY <3>1, Stutter
  <2> QED
    BY <1>2, <2>1, <2>2, AgainRefines, CedeRefines, DestroyRefines DEF Ioctl
<1>3. ASSUME NEW t \in Threads, Woken(t) PROVE [Abstract!Next]_Abstract!vars
  <2> DEFINE p == op[t].id
             mode == op[t].at
             timeout == op[t].timeout
  <2>1. Awake(t) /\ entry[p] = "live" /\ UNCHANGED entry
    BY <1>3 DEF Woken
  <2>2. p \in Properties /\ mode \in Modes /\ timeout \in BOOLEAN /\ Alive(t)
    BY <2>1, AwakeFacts
  <2>3. CASE Take(t, p, mode)
    BY <2>1, <2>2, <2>3, TakeRefines
  <2>4. CASE Sleep(t, p, mode, timeout)
    BY <2>1, <2>2, <2>4, SleepRefines
  <2>5. CASE GiveUp(t, p, mode, timeout)
    BY <2>1, <2>2, <2>5, ReturnRefines DEF GiveUp
  <2> QED
    BY <1>3, <2>3, <2>4, <2>5 DEF Woken
<1>4. ASSUME NEW t \in Threads, TimedOut(t) \/ Interrupt(t) \/ FindGone(t)
      PROVE  UNCHANGED Abstract!vars
  <2>1. Alive(t) /\ Return(t) /\ UNCHANGED <<entry, lockVars>>
    BY <1>4 DEF TimedOut, Interrupt, FindGone, Awake, Waits, Alive, Modes
  <2> QED
    BY <2>1, ReturnRefines
<1>5. ASSUME NEW t \in Threads, ThreadExit(t) \/ Killed(t) PROVE Abstract!Next
  <2>1. Alive(t) /\ Die(t) /\ UNCHANGED <<entry, lockVars>>
    BY <1>5 DEF ThreadExit, Killed, InUser, Alive
  <2> QED
    BY <2>1, DieRefines
<1>6. ASSUME NEW f \in Fusionees, Release(f) PROVE Abstract!Next
  BY <1>6, ReleaseRefines
<1>7. ASSUME UNCHANGED vars PROVE UNCHANGED Abstract!vars
  BY <1>7, Stutter DEF vars, lockVars, Gone, Dead, Alive
<1> QED
  BY <1>1, <1>2, <1>3, <1>4, <1>5, <1>6, <1>7 DEF Next

(* The property implements the recursive lock: its owner changes only      *)
(* through free, and only the dead lose what they hold.                    *)
THEOREM PropertyIsRecursiveLock == Spec => IsRecursiveLock
<1>1. Init => Abstract!Init
  BY DEF Init, Abstract!Init, At, Alive
<1>2. IInv /\ [Next]_vars => [Abstract!Next]_Abstract!vars
  BY NextRefines
<1> QED
  BY <1>1, <1>2, PropertyInvariant, PTL DEF Spec, IsRecursiveLock, Abstract!Spec
=============================================================================
