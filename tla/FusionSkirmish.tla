--------------------------- MODULE FusionSkirmish ---------------------------
(***************************************************************************)
(* The skirmish, Fusion's recursive inter-process lock with a condition    *)
(* (linux-fusion-8.1.1, skirmish.c, on top of the entries of entries.c).   *)
(*                                                                         *)
(* Every handler runs under the semaphore of its entry, which only         *)
(* fusion_sleep_on() gives up, so a step of this module is what a thread   *)
(* does between two such points: from the ioctl, or from the wake-up, to   *)
(* the return or to the next sleep.  Wait queues are explicit, hence a     *)
(* wake-up that is never sent is a behaviour of the model.                 *)
(*                                                                         *)
(* held is what each thread may conclude from the return values it got:    *)
(* the number of times it has taken a skirmish and not yet dismissed it.   *)
(***************************************************************************)
EXTENDS Integers, FiniteSets

CONSTANTS
  Skirmishes,  \* the ids the world will hand out, never reused
  Threads,     \* the tasks (pids) that use the world
  Fusionees,   \* the open files of the world
  Fid,         \* the fusionee each thread opened the world with
  None,        \* the 0 of lock_fid, lock_pid, transfer_to, ...
  MaxDepth,    \* bound on recursive prevails
  MaxNotify    \* bound on notifications (an unsigned int in the code)

ASSUME FidAssumption  == Fid \in [Threads -> Fusionees]
ASSUME NoneAssumption == None \notin Threads \cup Fusionees \cup Skirmishes
ASSUME BoundAssumption == MaxDepth \in Nat \ {0} /\ MaxNotify \in Nat

VARIABLES
  state,         \* per skirmish: "unborn", "live", "destroyed"
  lock_fid, lock_pid, lock_count, notify_count,
  transfer,      \* transfer_to, transfer_from, transfer_from_pid and _count
  wq,            \* per skirmish: the threads asleep on entry.wait
  op,            \* per thread: the ioctl it is in
  held           \* per thread and skirmish: the client's view

lockVars == <<lock_fid, lock_pid, lock_count>>
vars == <<state, lock_fid, lock_pid, lock_count, notify_count, transfer, wq, op, held>>

-----------------------------------------------------------------------------
(* Where a thread can be.  "prevail", "wait" and "relock" are the three    *)
(* sleeping loops of skirmish.c; "eintr" is user space after a wait was    *)
(* interrupted, when the caller's FusionSkirmishWait still carries         *)
(* lock_count and notify_count.                                            *)
Places == {"user", "prevail", "wait", "relock", "eintr", "dead"}

Op == [at: Places, id: Skirmishes \cup {None}, count: Nat, notify: Nat]

At(place) == [at |-> place, id |-> None, count |-> 0, notify |-> 0]

Transfer == [to: Fusionees, from: Fusionees, pid: Threads, count: Nat \ {0}]
NoTransfer == [to |-> None, from |-> None, pid |-> None, count |-> 0]

InUser(t) == op[t].at = "user"
Alive(t)  == op[t].at # "dead"

\* t executes in the loop `place`, having been taken off the wait queue.
Awake(t, place) == op[t].at = place /\ t \notin wq[op[t].id]

-----------------------------------------------------------------------------
Init ==
  /\ state = [s \in Skirmishes |-> "unborn"]
  /\ lock_fid = [s \in Skirmishes |-> None]
  /\ lock_pid = [s \in Skirmishes |-> None]
  /\ lock_count = [s \in Skirmishes |-> 0]
  /\ notify_count = [s \in Skirmishes |-> 0]
  /\ transfer = [s \in Skirmishes |-> NoTransfer]
  /\ wq = [s \in Skirmishes |-> {}]
  /\ op = [t \in Threads |-> At("user")]
  /\ held = [t \in Threads |-> [s \in Skirmishes |-> 0]]

Return(t) == op' = [op EXCEPT ![t] = At("user")]

WakeAll(s) == wq' = [wq EXCEPT ![s] = {}]

SetOwner(t, s, n) ==
  /\ lock_fid' = [lock_fid EXCEPT ![s] = Fid[t]]
  /\ lock_pid' = [lock_pid EXCEPT ![s] = t]
  /\ lock_count' = [lock_count EXCEPT ![s] = n]
  /\ held' = [held EXCEPT ![t][s] = n]

\* The caller's dispatcher test: a skirmish handed over with a call is open
\* to the dispatcher thread of the callee alone.
TransferredAway(t, s, dispatcher) ==
  /\ transfer[s].to # None
  /\ dispatcher[transfer[s].to] # t

\* Slip: a lent skirmish is anybody's.
Blocked_LockOnly(t, s, dispatcher) == lock_pid[s] # None

\* The loop condition of fusion_skirmish_prevail().
Blocked(t, s, dispatcher) ==
  lock_pid[s] # None \/ TransferredAway(t, s, dispatcher)

-----------------------------------------------------------------------------
New(s) ==
  /\ state[s] = "unborn"
  /\ state' = [state EXCEPT ![s] = "live"]
  /\ UNCHANGED <<lockVars, notify_count, transfer, wq, op, held>>

(* fusion_skirmish_prevail(): recursion, immediate success, or sleep.      *)
PrevailAgain(t, s) ==
  /\ InUser(t) /\ state[s] = "live"
  /\ lock_pid[s] = t
  /\ lock_count[s] < MaxDepth
  /\ lock_count' = [lock_count EXCEPT ![s] = @ + 1]
  /\ held' = [held EXCEPT ![t][s] = @ + 1]
  /\ UNCHANGED <<state, lock_fid, lock_pid, notify_count, transfer, wq, op>>

PrevailTake(t, s, dispatcher) ==
  /\ InUser(t) /\ state[s] = "live"
  /\ ~ Blocked(t, s, dispatcher)
  /\ SetOwner(t, s, 1)
  /\ UNCHANGED <<state, notify_count, transfer, wq, op>>

PrevailSleep(t, s, dispatcher) ==
  /\ InUser(t) /\ state[s] = "live"
  /\ lock_pid[s] # t
  /\ Blocked(t, s, dispatcher)
  /\ op' = [op EXCEPT ![t] = [At("prevail") EXCEPT !.id = s]]
  /\ wq' = [wq EXCEPT ![s] = @ \cup {t}]
  /\ UNCHANGED <<state, lockVars, notify_count, transfer, held>>

\* Woken in the loop: take the skirmish, or sleep again.
PrevailWoken(t, dispatcher) ==
  LET s == op[t].id IN
  /\ Awake(t, "prevail") /\ state[s] = "live"
  /\ \/ /\ ~ Blocked(t, s, dispatcher)
        /\ SetOwner(t, s, 1)
        /\ Return(t)
        /\ UNCHANGED wq
     \/ /\ Blocked(t, s, dispatcher)
        /\ wq' = [wq EXCEPT ![s] = @ \cup {t}]
        /\ UNCHANGED <<lockVars, op, held>>
  /\ UNCHANGED <<state, notify_count, transfer>>

\* Slip: swoop looks at the lock alone.
Swoop_LockOnly(t, s, dispatcher) ==
  /\ InUser(t) /\ state[s] = "live"
  /\ lock_fid[s] = None
  /\ SetOwner(t, s, 1)
  /\ UNCHANGED <<state, notify_count, transfer, wq, op>>

(* fusion_skirmish_swoop(), when it does not fail with EAGAIN.             *)
Swoop(t, s, dispatcher) ==
  /\ InUser(t) /\ state[s] = "live"
  /\ \/ /\ lock_fid[s] = None
        /\ ~ TransferredAway(t, s, dispatcher)
        /\ SetOwner(t, s, 1)
     \/ /\ lock_fid[s] # None \/ TransferredAway(t, s, dispatcher)
        /\ lock_pid[s] = t
        /\ lock_count[s] < MaxDepth
        /\ SetOwner(t, s, lock_count[s] + 1)
  /\ UNCHANGED <<state, notify_count, transfer, wq, op>>

(* fusion_skirmish_dismiss(): only the last dismiss frees and wakes.       *)
Dismiss(t, s) ==
  /\ InUser(t) /\ state[s] = "live"
  /\ lock_pid[s] = t
  /\ lock_count' = [lock_count EXCEPT ![s] = @ - 1]
  /\ held' = [held EXCEPT ![t][s] = @ - 1]
  /\ IF lock_count[s] = 1
     THEN /\ lock_fid' = [lock_fid EXCEPT ![s] = None]
          /\ lock_pid' = [lock_pid EXCEPT ![s] = None]
          /\ WakeAll(s)
     ELSE UNCHANGED <<lock_fid, lock_pid, wq>>
  /\ UNCHANGED <<state, notify_count, transfer, op>>

(* fusion_skirmish_lock_count(), what the ioctl reports.                   *)
LockCount(t, s) ==
  IF lock_fid[s] = Fid[t] /\ lock_pid[s] = t THEN lock_count[s] ELSE 0

-----------------------------------------------------------------------------
(* fusion_skirmish_wait_(), first part of a new call: remember the two     *)
(* counters, give the skirmish up entirely, wake everybody and sleep.  The *)
(* count of the free skirmish keeps its old value.                         *)
Wait(t, s) ==
  /\ InUser(t) /\ state[s] = "live"
  /\ lock_pid[s] = t
  /\ op' = [op EXCEPT ![t] = [at |-> "wait", id |-> s,
                              count |-> lock_count[s], notify |-> notify_count[s]]]
  /\ lock_fid' = [lock_fid EXCEPT ![s] = None]
  /\ lock_pid' = [lock_pid EXCEPT ![s] = None]
  /\ held' = [held EXCEPT ![t][s] = 0]
  /\ wq' = [wq EXCEPT ![s] = {t}]
  /\ UNCHANGED <<state, lock_count, notify_count, transfer>>

\* Slip: the remembered depth is lost.
Relock_AtDepthOne(t, s) ==
  lock_pid[s] = None /\ SetOwner(t, s, 1) /\ Return(t) /\ UNCHANGED wq

\* The second loop: sleep while somebody holds the skirmish, else take it
\* back at the remembered depth.
Relock(t, s) ==
  \/ /\ lock_pid[s] # None
     /\ op' = [op EXCEPT ![t].at = "relock"]
     /\ wq' = [wq EXCEPT ![s] = @ \cup {t}]
     /\ UNCHANGED <<lockVars, held>>
  \/ /\ lock_pid[s] = None
     /\ SetOwner(t, s, op[t].count)
     /\ Return(t)
     /\ UNCHANGED wq

\* The first loop, entered anew by a woken or a resumed waiter.
AwaitNotify(t, s) ==
  \/ /\ op[t].notify = notify_count[s]
     /\ op' = [op EXCEPT ![t].at = "wait"]
     /\ wq' = [wq EXCEPT ![s] = @ \cup {t}]
     /\ UNCHANGED <<lockVars, held>>
  \/ /\ op[t].notify # notify_count[s]
     /\ Relock(t, s)

WaitWoken(t) ==
  /\ Awake(t, "wait") /\ state[op[t].id] = "live"
  /\ AwaitNotify(t, op[t].id)
  /\ UNCHANGED <<state, notify_count, transfer>>

\* The ioctl called again after EINTR with lock_count # 0.
WaitResume(t) ==
  /\ op[t].at = "eintr" /\ state[op[t].id] = "live"
  /\ lock_pid[op[t].id] # t
  /\ AwaitNotify(t, op[t].id)
  /\ UNCHANGED <<state, notify_count, transfer>>

\* The timeout of the first loop; the waiter goes on to take its lock back.
WaitTimeout(t) ==
  /\ op[t].at = "wait"
  /\ op' = [op EXCEPT ![t].at = "relock"]
  /\ wq' = [wq EXCEPT ![op[t].id] = @ \ {t}]
  /\ UNCHANGED <<state, lockVars, notify_count, transfer, held>>

RelockWoken(t) ==
  /\ Awake(t, "relock") /\ state[op[t].id] = "live"
  /\ Relock(t, op[t].id)
  /\ UNCHANGED <<state, notify_count, transfer>>

\* Slip: the counter moves, nobody is woken.
Notify_Silent(t, s) ==
  /\ InUser(t) /\ state[s] = "live" /\ lock_pid[s] = t
  /\ notify_count[s] < MaxNotify
  /\ notify_count' = [notify_count EXCEPT ![s] = @ + 1]
  /\ UNCHANGED <<state, lockVars, transfer, wq, op, held>>

(* fusion_skirmish_notify_()                                               *)
Notify(t, s) ==
  /\ InUser(t) /\ state[s] = "live"
  /\ lock_pid[s] = t
  /\ notify_count[s] < MaxNotify
  /\ notify_count' = [notify_count EXCEPT ![s] = @ + 1]
  /\ WakeAll(s)
  /\ UNCHANGED <<state, lockVars, transfer, op, held>>

-----------------------------------------------------------------------------
(* fusion_skirmish_destroy(): whoever holds it, everybody is woken.        *)
Destroy(t, s) ==
  /\ InUser(t) /\ state[s] = "live"
  /\ state' = [state EXCEPT ![s] = "destroyed"]
  /\ lock_fid' = [lock_fid EXCEPT ![s] = None]
  /\ lock_pid' = [lock_pid EXCEPT ![s] = None]
  /\ lock_count' = [lock_count EXCEPT ![s] = 0]
  /\ transfer' = [transfer EXCEPT ![s] = NoTransfer]
  /\ held' = [u \in Threads |-> [held[u] EXCEPT ![s] = 0]]
  /\ WakeAll(s)
  /\ UNCHANGED <<notify_count, op>>

\* A thread that wakes up, or resumes, and no longer finds the entry
\* returns with EIDRM or EINVAL and without the lock.
FindGone(t) ==
  /\ \/ Awake(t, "prevail") \/ Awake(t, "wait") \/ Awake(t, "relock")
     \/ op[t].at = "eintr"
  /\ state[op[t].id] # "live"
  /\ Return(t)
  /\ UNCHANGED <<state, lockVars, notify_count, transfer, wq, held>>

\* A signal ends any of the three sleeps.  A prevail has changed nothing; a
\* wait leaves its counters with the caller, who calls again.
Interrupt(t) ==
  /\ op[t].at \in {"prevail", "wait", "relock"}
  /\ IF op[t].at = "prevail" THEN Return(t)
     ELSE op' = [op EXCEPT ![t].at = "eintr"]
  /\ wq' = [wq EXCEPT ![op[t].id] = @ \ {t}]
  /\ UNCHANGED <<state, lockVars, notify_count, transfer, held>>

-----------------------------------------------------------------------------
(* The skirmishes in Owned are freed and those in Lent lose their          *)
(* transfer: the loops of fusion_skirmish_dismiss_all() and _from_pid().   *)
Clear(Owned, Lent) ==
  /\ lock_fid' = [s \in Skirmishes |-> IF s \in Owned THEN None ELSE lock_fid[s]]
  /\ lock_pid' = [s \in Skirmishes |-> IF s \in Owned THEN None ELSE lock_pid[s]]
  /\ lock_count' = [s \in Skirmishes |-> IF s \in Owned THEN 0 ELSE lock_count[s]]
  /\ transfer' = [s \in Skirmishes |-> IF s \in Lent THEN NoTransfer ELSE transfer[s]]

\* Slip: the freed skirmishes' sleepers are forgotten.
DismissSets_Silent(Owned, Lent) == Clear(Owned, Lent) /\ UNCHANGED wq

DismissSets(Owned, Lent) ==
  /\ Clear(Owned, Lent)
  /\ wq' = [s \in Skirmishes |-> IF s \in Owned \cup Lent THEN {} ELSE wq[s]]

DismissAllFromPid(t) ==
  DismissSets({s \in Skirmishes : lock_pid[s] = t},
              {s \in Skirmishes : transfer[s].pid = t})

\* Slip: only transfers are cleaned up, as if the locks were always freed by
\* the exiting task itself.
DismissAll_LentOnly(f) == DismissSets({}, {s \in Skirmishes : transfer[s].from = f})

DismissAll(f) ==
  DismissSets({s \in Skirmishes : lock_fid[s] = f},
              {s \in Skirmishes : transfer[s].from = f})

Die(t) ==
  /\ op' = [op EXCEPT ![t] = At("dead")]
  /\ held' = [held EXCEPT ![t] = [s \in Skirmishes |-> 0]]

\* A thread ends while its process, and so the file, lives on: no cleanup.
ThreadExit(t) ==
  /\ op[t].at \in {"user", "eintr"}
  /\ \E u \in Threads \ {t} : Fid[u] = Fid[t] /\ Alive(u)
  /\ Die(t)
  /\ UNCHANGED <<state, lockVars, notify_count, transfer, wq>>

\* Slip: the exiting task takes the locks of its whole application along.
FlushExit_WholeFusionee(t) ==
  /\ op[t].at \in {"user", "eintr"}
  /\ Die(t) /\ DismissAll(Fid[t])
  /\ UNCHANGED <<state, notify_count>>

\* A task closes the file while exiting: fusion_flush() with PF_EXITING.
FlushExit(t) ==
  /\ op[t].at \in {"user", "eintr"}
  /\ Die(t)
  /\ DismissAllFromPid(t)
  /\ UNCHANGED <<state, notify_count>>

\* The last reference to the file goes: fusionee_destroy().
Release(f) ==
  /\ \A t \in Threads : Fid[t] = f => ~ Alive(t)
  /\ DismissAll(f)
  /\ UNCHANGED <<state, notify_count, op, held>>

-----------------------------------------------------------------------------
\* Slip: the callee's dispatcher, asleep on the skirmish, is not told.
TransferAll_Silent(to, t) ==
  LET S == {s \in Skirmishes : lock_pid[s] = t} IN
  /\ transfer' = [s \in Skirmishes |->
       IF s \in S
       THEN [to |-> to, from |-> Fid[t], pid |-> t, count |-> lock_count[s]]
       ELSE transfer[s]]
  /\ lock_fid' = [s \in Skirmishes |-> IF s \in S THEN None ELSE lock_fid[s]]
  /\ lock_pid' = [s \in Skirmishes |-> IF s \in S THEN None ELSE lock_pid[s]]
  /\ lock_count' = [s \in Skirmishes |-> IF s \in S THEN 0 ELSE lock_count[s]]
  /\ UNCHANGED wq

(* fusion_skirmish_transfer_all() and fusion_skirmish_reclaim_all(), which *)
(* fusion_call_execute() runs before and after it waits for a result.      *)
TransferAll(to, t) ==
  LET S == {s \in Skirmishes : lock_pid[s] = t} IN
  /\ transfer' = [s \in Skirmishes |->
       IF s \in S
       THEN [to |-> to, from |-> Fid[t], pid |-> t, count |-> lock_count[s]]
       ELSE transfer[s]]
  /\ lock_fid' = [s \in Skirmishes |-> IF s \in S THEN None ELSE lock_fid[s]]
  /\ lock_pid' = [s \in Skirmishes |-> IF s \in S THEN None ELSE lock_pid[s]]
  /\ lock_count' = [s \in Skirmishes |-> IF s \in S THEN 0 ELSE lock_count[s]]
  /\ wq' = [s \in Skirmishes |-> IF s \in S THEN {} ELSE wq[s]]

\* Slip: the depth of the lent lock is lost.
ReclaimAll_DepthOne(t) ==
  LET S == {s \in Skirmishes : transfer[s].pid = t} IN
  /\ lock_fid' = [s \in Skirmishes |-> IF s \in S THEN transfer[s].from ELSE lock_fid[s]]
  /\ lock_pid' = [s \in Skirmishes |-> IF s \in S THEN t ELSE lock_pid[s]]
  /\ lock_count' = [s \in Skirmishes |-> IF s \in S THEN 1 ELSE lock_count[s]]
  /\ transfer' = [s \in Skirmishes |-> IF s \in S THEN NoTransfer ELSE transfer[s]]

ReclaimAll(t) ==
  LET S == {s \in Skirmishes : transfer[s].pid = t} IN
  /\ lock_fid' = [s \in Skirmishes |-> IF s \in S THEN transfer[s].from ELSE lock_fid[s]]
  /\ lock_pid' = [s \in Skirmishes |-> IF s \in S THEN t ELSE lock_pid[s]]
  /\ lock_count' = [s \in Skirmishes |-> IF s \in S THEN transfer[s].count ELSE lock_count[s]]
  /\ transfer' = [s \in Skirmishes |-> IF s \in S THEN NoTransfer ELSE transfer[s]]

-----------------------------------------------------------------------------
\* Without calls in the world nobody's dispatcher matters.
NoDispatcher == [f \in Fusionees |-> None]

\* The ioctls of a thread in user space, up to their return or first sleep.
Ioctl(t, s, dispatcher) ==
  \/ PrevailAgain(t, s)
  \/ PrevailTake(t, s, dispatcher)
  \/ PrevailSleep(t, s, dispatcher)
  \/ Swoop(t, s, dispatcher)
  \/ Dismiss(t, s)
  \/ Wait(t, s)
  \/ Notify(t, s)
  \/ Destroy(t, s)

\* What a thread does once it has been woken, or resumes a wait.
Continue(t, dispatcher) ==
  \/ PrevailWoken(t, dispatcher)
  \/ WaitWoken(t)
  \/ RelockWoken(t)
  \/ FindGone(t)

\* What signals, timers and exits do.
Disturb(t) ==
  \/ WaitResume(t)
  \/ WaitTimeout(t)
  \/ Interrupt(t)
  \/ ThreadExit(t)
  \/ FlushExit(t)

Next ==
  \/ \E s \in Skirmishes : New(s)
  \/ \E t \in Threads, s \in Skirmishes : Ioctl(t, s, NoDispatcher)
  \/ \E t \in Threads : Continue(t, NoDispatcher) \/ Disturb(t)
  \/ \E f \in Fusionees : Release(f)

Spec == Init /\ [][Next]_vars

(* A woken task is eventually scheduled, and the kernel does release the   *)
(* file of a process all of whose threads are gone.  Nothing is assumed of *)
(* what the clients do in user space.                                      *)
Fairness ==
  /\ \A t \in Threads : /\ WF_vars(PrevailWoken(t, NoDispatcher))
                        /\ WF_vars(WaitWoken(t))
                        /\ WF_vars(RelockWoken(t))
                        /\ WF_vars(FindGone(t))
  /\ \A f \in Fusionees : WF_vars(Release(f))

FairSpec == Spec /\ Fairness

-----------------------------------------------------------------------------
(* Every variable stays in its range, whatever the order of the ioctls.    *)
TypeOK ==
  /\ state \in [Skirmishes -> {"unborn", "live", "destroyed"}]
  /\ lock_fid \in [Skirmishes -> Fusionees \cup {None}]
  /\ lock_pid \in [Skirmishes -> Threads \cup {None}]
  /\ lock_count \in [Skirmishes -> Nat]
  /\ notify_count \in [Skirmishes -> Nat]
  /\ transfer \in [Skirmishes -> Transfer \cup {NoTransfer}]
  /\ wq \in [Skirmishes -> SUBSET Threads]
  /\ op \in [Threads -> Op]
  /\ held \in [Threads -> [Skirmishes -> Nat]]

(* No two threads have been told that they hold the same skirmish: neither *)
(* a recursive prevail, nor the relock at the end of a wait that was       *)
(* notified, timed out or was interrupted and resumed, nor the cleanup     *)
(* after an exit, hands a skirmish to a second owner (skirmish.c:248-265,  *)
(* 532-562).                                                               *)
MutualExclusion ==
  \A s \in Skirmishes : \A t, u \in Threads :
    held[t][s] > 0 /\ held[u][s] > 0 => t = u

(* FUSION_SKIRMISH_LOCK_COUNT agrees with what the successful returns of   *)
(* prevail, swoop, dismiss and wait add up to in the client, at every      *)
(* moment and for every live thread (skirmish.c:318-339).                  *)
LockCountIsHeld ==
  \A t \in Threads, s \in Skirmishes :
    Alive(t) => held[t][s] = LockCount(t, s)

(* No wake-up is lost: a thread is asleep on the queue of an entry only    *)
(* while the condition of its loop (skirmish.c:248, 487/492, 532) still    *)
(* tells it to sleep, and nobody sleeps on an entry that is gone.          *)
NoLostWakeup ==
  \A s \in Skirmishes : \A t \in wq[s] :
    /\ state[s] = "live"
    /\ op[t].at = "wait" => op[t].notify = notify_count[s]
    /\ op[t].at \in {"prevail", "relock"} => lock_pid[s] # None

(* A thread whose turn it could be does not sleep through it: a prevailing *)
(* or relocking thread that faces a free skirmish sees it taken, by itself *)
(* or by a faster thread, unless a signal makes it leave.                  *)
Contends(t, s) == op[t].at \in {"prevail", "relock"} /\ op[t].id = s

FreeIsTaken ==
  \A t \in Threads, s \in Skirmishes :
    (Contends(t, s) /\ lock_pid[s] = None)
      ~> (~ Contends(t, s) \/ lock_pid[s] # None)

(* A waiter that has been notified leaves the notification loop: it is not *)
(* put back to sleep by the notifier's later actions.                      *)
NotifiedLeaves ==
  \A t \in Threads :
    (op[t].at = "wait" /\ op[t].notify # notify_count[op[t].id])
      ~> (op[t].at # "wait")

(* A process that is gone holds no skirmish for ever: once all threads of  *)
(* a fusionee are dead, none of its locks survives, even those of threads  *)
(* that had ended earlier without any cleanup (skirmish.c:596-666).        *)
DeadHoldNothing ==
  \A f \in Fusionees :
    (\A t \in Threads : Fid[t] = f => ~ Alive(t))
      ~> [](\A s \in Skirmishes : lock_fid[s] # f)

-----------------------------------------------------------------------------
(* What makes the invariants above inductive in a world without calls.     *)

\* An owned skirmish is live, names the fusionee of its owner and counts.
OwnerCoherent ==
  \A s \in Skirmishes :
    /\ lock_pid[s] = None => lock_fid[s] = None
    /\ lock_pid[s] # None => /\ lock_fid[s] = Fid[lock_pid[s]]
                             /\ lock_count[s] > 0
                             /\ state[s] = "live"

HeldCoherent ==
  \A t \in Threads, s \in Skirmishes :
    held[t][s] = IF Alive(t) /\ lock_pid[s] = t THEN lock_count[s] ELSE 0

\* A thread inside an ioctl names a skirmish that was created and that it
\* does not own; one that waits remembers the depth it gave up.
OpCoherent ==
  \A t \in Threads :
    /\ op[t].at \in {"prevail", "wait", "relock", "eintr"} =>
         /\ op[t].id \in Skirmishes
         /\ state[op[t].id] # "unborn"
         /\ lock_pid[op[t].id] # t
    /\ op[t].at \in {"wait", "relock", "eintr"} => op[t].count > 0

QueueCoherent ==
  \A s \in Skirmishes : \A t \in wq[s] :
    op[t].at \in {"prevail", "wait", "relock"} /\ op[t].id = s

NothingLent == \A s \in Skirmishes : transfer[s] = NoTransfer

(* The inductive invariant of Spec: the lock fields, the clients' view,    *)
(* the threads inside the three loops and the wait queues fit together.    *)
IInv ==
  /\ TypeOK
  /\ OwnerCoherent
  /\ HeldCoherent
  /\ OpCoherent
  /\ QueueCoherent
  /\ NothingLent
  /\ NoLostWakeup

-----------------------------------------------------------------------------
(* The abstract recursive lock, as seen through the fields of the entries. *)
Parked(t, s) ==
  IF op[t].at \in {"wait", "relock", "eintr"} /\ op[t].id = s
  THEN op[t].count ELSE 0

Abstract == INSTANCE RecursiveLock WITH
  Locks  <- Skirmishes,
  owner  <- lock_pid,
  depth  <- [s \in Skirmishes |-> IF lock_pid[s] = None THEN 0 ELSE lock_count[s]],
  parked <- [t \in Threads |-> [s \in Skirmishes |-> Parked(t, s)]],
  gone   <- {s \in Skirmishes : state[s] = "destroyed"},
  dead   <- {t \in Threads : ~ Alive(t)}

(* The skirmish is a recursive lock with a condition: its owner changes    *)
(* only through free, its depth by one at a time, a wait gives back        *)
(* exactly the depth it took away, and only the dead lose what they hold.  *)
IsRecursiveLock == Abstract!Spec
=============================================================================
