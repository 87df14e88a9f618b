----------------------------- MODULE FusionRef ------------------------------
(***************************************************************************)
(* The reference, Fusion's counter of users (linux-fusion-8.1.1, ref.c):   *)
(* one global count, a local count per fusionee that goes when the         *)
(* fusionee goes, inheritance of local counts along a forest of            *)
(* references, a lock that waits for zero, and a watch that has a call     *)
(* made when the total drops to zero.                                      *)
(*                                                                         *)
(* Whatever changes a count holds dev->ref.lock from beginning to end, so  *)
(* the handlers are atomic; the cleanup after a fusionee is one step per   *)
(* reference during which nobody else gets at the list.  zero_lock is the  *)
(* only handler that sleeps.                                               *)
(***************************************************************************)
EXTENDS Integers, FiniteSets, FiniteSetsExt

CONSTANTS
  Refs,        \* the ids the world will hand out, never reused
  Threads,     \* the tasks (pids) that use the world
  Fusionees,   \* the open files of the world
  Fid,         \* the fusionee each thread opened the world with
  None,        \* the 0 of locked, inherited, entry.pid
  MaxLocal,    \* bound on the local count of a fusionee (an int in the code)
  MaxGlobal,   \* per reference, the bound on the global count
  ReportsMod,  \* reports are counted modulo this
  Starts       \* where a behaviour may begin: ids not yet used, tasks alive,
               \* and whether the applications ever fork

ASSUME FidAssumption   == Fid \in [Threads -> Fusionees] /\ IsFiniteSet(Fusionees)
ASSUME NoneAssumption  == None \notin Threads \cup Fusionees \cup Refs
ASSUME BoundAssumption == /\ MaxLocal \in Nat /\ MaxGlobal \in [Refs -> Nat]
                          /\ ReportsMod \in Nat /\ ReportsMod > 1
ASSUME StartAssumption == Starts \subseteq [refs: SUBSET Refs, threads: SUBSET Threads, fork: BOOLEAN]

VARIABLES
  entry,       \* per reference: "unborn", "live", "destroyed"
  creator,     \* entry.pid, the only thread that may watch
  global, local,
  local_refs,  \* per reference and fusionee: the refs of its LocalRef, or 0
  inherited,   \* the reference each reference inherits from
  locked, watched,
  reports,     \* the messages sent on behalf of the watch
  wq,          \* per reference: the threads asleep on entry.wait
  op,          \* per thread: the ioctl it is in
  clearing,    \* the fusionee being cleaned up and the references to come
  forking      \* whether the applications use FUSION_FORK; never changes

counts == <<global, local, local_refs>>
lockVars == <<locked, watched>>
fixed == <<creator, forking>>
vars == <<entry, creator, global, local, local_refs, inherited, locked, watched,
          reports, wq, op, clearing, forking>>

-----------------------------------------------------------------------------
Op == [at: {"user", "zero_lock", "dead"}, id: Refs \cup {None}]

At(place) == [at |-> place, id |-> None]

Idle == [fusionee |-> None, left |-> {}]

InUser(t) == op[t].at = "user"
Alive(t)  == op[t].at # "dead"
Awake(t)  == op[t].at = "zero_lock" /\ t \notin wq[op[t].id]

\* The entries can be looked up: nobody holds dev->ref.lock.
Ioctl(t, r) == InUser(t) /\ entry[r] = "live" /\ clearing = Idle

Total(r) == global[r] + local[r]

Return(t) == op' = [op EXCEPT ![t] = At("user")]

\* The other ids have come and gone, the other tasks have ended.
Begin(start) ==
  /\ entry = [r \in Refs |-> IF r \in start.refs THEN "unborn" ELSE "destroyed"]
  /\ op = [t \in Threads |-> At(IF t \in start.threads THEN "user" ELSE "dead")]
  /\ forking = start.fork

Init ==
  /\ \E start \in Starts : Begin(start)
  /\ creator = [r \in Refs |-> None]
  /\ global = [r \in Refs |-> 0]
  /\ local = [r \in Refs |-> 0]
  /\ local_refs = [r \in Refs |-> [f \in Fusionees |-> 0]]
  /\ inherited = [r \in Refs |-> None]
  /\ locked = [r \in Refs |-> None]
  /\ watched = [r \in Refs |-> FALSE]
  /\ reports = [r \in Refs |-> 0]
  /\ wq = [r \in Refs |-> {}]
  /\ clearing = Idle

New(t, r) ==
  /\ InUser(t) /\ entry[r] = "unborn" /\ clearing = Idle
  /\ entry' = [entry EXCEPT ![r] = "live"]
  /\ creator' = [creator EXCEPT ![r] = t]
  /\ UNCHANGED <<counts, inherited, lockVars, reports, wq, op, clearing, forking>>

-----------------------------------------------------------------------------
\* r and all that inherits from it, directly or not; inherited has no circles.
Below(r) ==
  LET Above[q \in Refs] ==
        {q} \cup (IF inherited[q] = None THEN {} ELSE Above[inherited[q]])
  IN {q \in Refs : r \in Above[q]}

\* notify_ref() for the references in Z: a call for a watched one, a wake-up
\* for the others; the sleepers on those in W are woken in any case.
NotifyRefs(Z, W) ==
  /\ reports' = [q \in Refs |-> IF q \in Z /\ watched[q]
                                THEN (reports[q] + 1) % ReportsMod ELSE reports[q]]
  /\ wq' = [q \in Refs |-> IF q \in W \/ (q \in Z /\ ~ watched[q]) THEN {} ELSE wq[q]]

\* Slip: the inheritors of the inheritors are left out.
Propagate_OneLevel(R, diff, W) ==
  LET B == R \cup {q \in Refs : inherited[q] \in R} IN
  /\ local' = [q \in Refs |-> IF q \in B THEN local[q] + diff ELSE local[q]]
  /\ NotifyRefs({q \in B : local[q] + diff + global[q] = 0}, W)

(* propagate_local() for each reference of R, none of which is below       *)
(* another one.                                                            *)
Propagate(R, diff, W) ==
  LET B == UNION {Below(r) : r \in R} IN
  /\ local' = [q \in Refs |-> IF q \in B THEN local[q] + diff ELSE local[q]]
  /\ NotifyRefs({q \in B : local[q] + diff + global[q] = 0}, W)

-----------------------------------------------------------------------------
\* Slip: the lock is not looked at.
Up_Locked(t, r) ==
  /\ Ioctl(t, r)
  /\ local_refs[r][Fid[t]] < MaxLocal
  /\ local_refs' = [local_refs EXCEPT ![r][Fid[t]] = @ + 1]
  /\ Propagate({r}, 1, {})
  /\ UNCHANGED <<entry, fixed, global, inherited, lockVars, op, clearing>>

Up(t, r) ==
  /\ Ioctl(t, r)
  /\ locked[r] = None
  /\ local_refs[r][Fid[t]] < MaxLocal
  /\ local_refs' = [local_refs EXCEPT ![r][Fid[t]] = @ + 1]
  /\ Propagate({r}, 1, {})
  /\ UNCHANGED <<entry, fixed, global, inherited, lockVars, op, clearing>>

UpGlobal(t, r) ==
  /\ Ioctl(t, r)
  /\ locked[r] = None
  /\ global[r] < MaxGlobal[r]
  /\ global' = [global EXCEPT ![r] = @ + 1]
  /\ UNCHANGED <<entry, fixed, local, local_refs, inherited, lockVars, reports, wq, op, clearing>>

Down(t, r) ==
  /\ Ioctl(t, r)
  /\ locked[r] = None
  /\ local[r] # 0
  /\ local_refs[r][Fid[t]] > 0
  /\ local_refs' = [local_refs EXCEPT ![r][Fid[t]] = @ - 1]
  /\ Propagate({r}, -1, {})
  /\ UNCHANGED <<entry, fixed, global, inherited, lockVars, op, clearing>>

\* Slip: only local counts are thought to be watched.
DownGlobal_Silent(t, r) ==
  /\ Ioctl(t, r)
  /\ locked[r] = None
  /\ global[r] # 0
  /\ global' = [global EXCEPT ![r] = @ - 1]
  /\ UNCHANGED <<entry, fixed, local, local_refs, inherited, lockVars, reports, wq, op, clearing>>

DownGlobal(t, r) ==
  /\ Ioctl(t, r)
  /\ locked[r] = None
  /\ global[r] # 0
  /\ global' = [global EXCEPT ![r] = @ - 1]
  /\ NotifyRefs(IF Total(r) = 1 THEN {r} ELSE {}, {})
  /\ UNCHANGED <<entry, fixed, local, local_refs, inherited, lockVars, op, clearing>>

-----------------------------------------------------------------------------
(* The loop of fusion_ref_zero_lock(): EACCES, EIO or EAGAIN, sleep, lock. *)
Refused(r) == watched[r] \/ locked[r] # None
Zero(r)    == global[r] = 0 /\ local[r] = 0

Lock(t, r) ==
  /\ ~ Refused(r) /\ Zero(r)
  /\ locked' = [locked EXCEPT ![r] = Fid[t]]
  /\ Return(t)
  /\ UNCHANGED wq

Sleep(t, r) ==
  /\ ~ Refused(r) /\ ~ Zero(r)
  /\ op' = [op EXCEPT ![t] = [at |-> "zero_lock", id |-> r]]
  /\ wq' = [wq EXCEPT ![r] = @ \cup {t}]
  /\ UNCHANGED locked

ZeroLock(t, r) ==
  /\ Ioctl(t, r)
  /\ Lock(t, r) \/ Sleep(t, r)
  /\ UNCHANGED <<entry, fixed, counts, inherited, watched, reports, clearing>>

\* Slip: a waiter sleeps again whatever has happened to the reference.
Woken_SleepsOn(t) ==
  LET r == op[t].id IN
  /\ Awake(t) /\ entry[r] = "live" /\ clearing = Idle
  /\ \/ Lock(t, r)
     \/ /\ ~ (~ Refused(r) /\ Zero(r))
        /\ wq' = [wq EXCEPT ![r] = @ \cup {t}]
        /\ UNCHANGED <<locked, op>>
  /\ UNCHANGED <<entry, fixed, counts, inherited, watched, reports, clearing>>

Woken(t) ==
  LET r == op[t].id IN
  /\ Awake(t) /\ entry[r] = "live" /\ clearing = Idle
  /\ \/ Lock(t, r)
     \/ Sleep(t, r)
     \/ Refused(r) /\ Return(t) /\ UNCHANGED <<locked, wq>>
  /\ UNCHANGED <<entry, fixed, counts, inherited, watched, reports, clearing>>

FindGone(t) ==
  /\ Awake(t) /\ entry[op[t].id] # "live" /\ clearing = Idle
  /\ Return(t)
  /\ UNCHANGED <<entry, fixed, counts, inherited, lockVars, reports, wq, clearing>>

Interrupt(t) ==
  /\ op[t].at = "zero_lock"
  /\ Return(t)
  /\ wq' = [wq EXCEPT ![op[t].id] = @ \ {t}]
  /\ UNCHANGED <<entry, fixed, counts, inherited, lockVars, reports, clearing>>

\* zero_trylock does not ask for a watch.
ZeroTryLock(t, r) ==
  /\ Ioctl(t, r)
  /\ locked[r] = None /\ Zero(r)
  /\ locked' = [locked EXCEPT ![r] = Fid[t]]
  /\ UNCHANGED <<entry, fixed, counts, inherited, watched, reports, wq, op, clearing>>

ZeroUnlock(t, r) ==
  /\ Ioctl(t, r)
  /\ locked[r] = Fid[t]
  /\ locked' = [locked EXCEPT ![r] = None]
  /\ UNCHANGED <<entry, fixed, counts, inherited, watched, reports, wq, op, clearing>>

Watch(t, r) ==
  /\ Ioctl(t, r)
  /\ creator[r] = t /\ Total(r) # 0 /\ ~ watched[r]
  /\ watched' = [watched EXCEPT ![r] = TRUE]
  /\ wq' = [wq EXCEPT ![r] = {}]
  /\ UNCHANGED <<entry, fixed, counts, inherited, locked, reports, op, clearing>>

-----------------------------------------------------------------------------
(* fusion_ref_inherit().  Clients do not inherit in a circle: the handler  *)
(* would lock an entry it holds.                                           *)
Inherit(t, r, from) ==
  /\ Ioctl(t, r)
  /\ inherited[r] = None
  /\ entry[from] = "live" /\ from \notin Below(r)
  /\ Propagate({r}, local[from], {})
  /\ inherited' = [inherited EXCEPT ![r] = from]
  /\ UNCHANGED <<entry, fixed, global, local_refs, lockVars, op, clearing>>

\* What is left of a destroyed reference; its local is not read any more.
Bury(r) ==
  /\ entry' = [entry EXCEPT ![r] = "destroyed"]
  /\ global' = [global EXCEPT ![r] = 0]
  /\ local_refs' = [local_refs EXCEPT ![r] = [f \in Fusionees |-> 0]]
  /\ inherited' = [q \in Refs |-> IF q = r \/ inherited[q] = r THEN None ELSE inherited[q]]
  /\ locked' = [locked EXCEPT ![r] = None]
  /\ watched' = [watched EXCEPT ![r] = FALSE]

(* fusion_ref_destroy(), with drop_inheritors(): what the inheritors had   *)
(* from r is taken from them.                                              *)
Destroy(t, r) ==
  /\ Ioctl(t, r)
  /\ Bury(r)
  /\ Propagate({q \in Refs : inherited[q] = r}, - local[r], {r})
  /\ UNCHANGED <<fixed, op, clearing>>

\* FUSION_FORK: the child asks for the local references of its parent.  (The
\* bound on local_refs, and no more forks once a count is negative.)
Fork(t, parent) ==
  /\ forking /\ InUser(t) /\ clearing = Idle
  /\ \A r \in Refs : local_refs[r][parent] <= MaxLocal /\ local[r] >= 0
  /\ local_refs' = [r \in Refs |->
       [local_refs[r] EXCEPT ![parent] = IF @ > 0 THEN @ + 1 ELSE @]]
  /\ UNCHANGED <<entry, fixed, global, local, inherited, lockVars, reports, wq, op, clearing>>

-----------------------------------------------------------------------------
ThreadExit(t) ==
  /\ InUser(t)
  /\ op' = [op EXCEPT ![t] = At("dead")]
  /\ UNCHANGED <<entry, fixed, counts, inherited, lockVars, reports, wq, clearing>>

\* fusionee_destroy() comes to fusion_ref_clear_all_local() and takes the list.
Release(f) ==
  /\ \A t \in Threads : Fid[t] = f => ~ Alive(t)
  /\ clearing = Idle
  /\ \E r \in Refs : local_refs[r][f] > 0 \/ locked[r] = f
  /\ clearing' = [fusionee |-> f, left |-> {r \in Refs : entry[r] = "live"}]
  /\ UNCHANGED <<entry, fixed, counts, inherited, lockVars, reports, wq, op>>

Cleared(r) ==
  clearing' = IF clearing.left = {r} THEN Idle ELSE [clearing EXCEPT !.left = @ \ {r}]

\* Slip: the counts go, a lock outlives its owner.
ClearLocal_KeepsLock(r) ==
  LET f == clearing.fusionee
      W == IF locked[r] = f THEN {r} ELSE {} IN
  /\ r \in clearing.left
  /\ Propagate(IF local_refs[r][f] > 0 THEN {r} ELSE {}, - local_refs[r][f], W)
  /\ local_refs' = [local_refs EXCEPT ![r][f] = 0]
  /\ Cleared(r)
  /\ UNCHANGED <<entry, fixed, global, inherited, lockVars, op>>

(* clear_local(): give up the lock and the local count on one reference.   *)
ClearLocal(r) ==
  LET f == clearing.fusionee
      W == IF locked[r] = f THEN {r} ELSE {} IN
  /\ r \in clearing.left
  /\ locked' = [locked EXCEPT ![r] = IF @ = f THEN None ELSE @]
  /\ Propagate(IF local_refs[r][f] > 0 THEN {r} ELSE {}, - local_refs[r][f], W)
  /\ local_refs' = [local_refs EXCEPT ![r][f] = 0]
  /\ Cleared(r)
  /\ UNCHANGED <<entry, fixed, global, inherited, watched, op>>

-----------------------------------------------------------------------------
RefIoctl(t, r) ==
  \/ New(t, r)
  \/ Up(t, r) \/ UpGlobal(t, r) \/ Down(t, r) \/ DownGlobal(t, r)
  \/ ZeroLock(t, r) \/ ZeroTryLock(t, r) \/ ZeroUnlock(t, r)
  \/ Watch(t, r)
  \/ \E from \in Refs : Inherit(t, r, from)
  \/ Destroy(t, r)

Next ==
  \/ \E t \in Threads, r \in Refs : RefIoctl(t, r)
  \/ \E t \in Threads, parent \in Fusionees : Fork(t, parent)
  \/ \E t \in Threads : Woken(t) \/ FindGone(t) \/ Interrupt(t) \/ ThreadExit(t)
  \/ \E f \in Fusionees : Release(f)
  \/ \E r \in Refs : ClearLocal(r)

Spec == Init /\ [][Next]_vars

(* Woken tasks are scheduled, and the kernel goes through with the release *)
(* of a file.                                                              *)
Fairness ==
  /\ \A t \in Threads : WF_vars(Woken(t)) /\ WF_vars(FindGone(t))
  /\ \A f \in Fusionees : WF_vars(Release(f))
  /\ \A r \in Refs : WF_vars(ClearLocal(r))

FairSpec == Spec /\ Fairness

-----------------------------------------------------------------------------
(* Every variable stays in its range: above all no LocalRef goes below     *)
(* zero, whoever goes down on whose count (ref.c:439, 447).                *)
TypeOK ==
  /\ entry \in [Refs -> {"unborn", "live", "destroyed"}]
  /\ creator \in [Refs -> Threads \cup {None}]
  /\ global \in [Refs -> Nat]
  /\ local \in [Refs -> Int]
  /\ local_refs \in [Refs -> [Fusionees -> Nat]]
  /\ inherited \in [Refs -> Refs \cup {None}]
  /\ locked \in [Refs -> Fusionees \cup {None}]
  /\ watched \in [Refs -> BOOLEAN]
  /\ reports \in [Refs -> 0..ReportsMod - 1]
  /\ wq \in [Refs -> SUBSET Threads]
  /\ op \in [Threads -> Op]
  /\ forking \in BOOLEAN
  /\ clearing \in [fusionee: Fusionees \cup {None}, left: SUBSET Refs]

Live(r) == entry[r] = "live"

OwnLocal(r) == MapThenSumSet(LAMBDA f : local_refs[r][f], Fusionees)

(* Unless applications fork, the local count of a reference is the sum of  *)
(* what its fusionees hold and of the local count it inherits: after any   *)
(* ups and downs, inheritances in any order, deaths of fusionees and       *)
(* destruction of the reference inherited from (ref.c:428-489, 545-635).   *)
CountsAddUp ==
  ~ forking => \A r \in Refs : Live(r) =>
    local[r] = OwnLocal(r) + (IF inherited[r] = None THEN 0 ELSE local[inherited[r]])

(* "Counts must be 0 or higher" (doc/fusion.tmpl:628).                     *)
CountsNotNegative == \A r \in Refs : Live(r) => global[r] >= 0 /\ local[r] >= 0

(* While a reference is locked nobody holds it of his own: what is counted *)
(* then is inherited (ref.c:145, 177, 231, 260).                           *)
LockedIsZero ==
  ~ forking => \A r \in Refs : locked[r] # None =>
    global[r] = 0 /\ \A f \in Fusionees : local_refs[r][f] = 0

(* The watcher is told of each drop to zero, once, and never while the     *)
(* reference counts (ref.c:200, 531-543, 567-569).                         *)
ZeroIsReported ==
  [][\A r \in Refs : watched[r] /\ Live(r)' =>
       /\ Total(r) > 0 /\ Total(r)' = 0 => reports'[r] = (reports[r] + 1) % ReportsMod
       /\ reports'[r] # reports[r] => Total(r)' = 0]_vars

(* A thread in zero_lock whose reference is at zero gets the lock or an    *)
(* error, unless the count goes up or the reference goes away meanwhile.   *)
FacesZero(t) ==
  op[t].at = "zero_lock" /\ Live(op[t].id) /\ Zero(op[t].id)

ZeroIsNoticed == \A t \in Threads : FacesZero(t) ~> ~ FacesZero(t)

(* A process that is gone holds no reference and no lock on one for ever   *)
(* (ref.c:395-405, 463-489).                                               *)
DeadHoldNothing ==
  \A f \in Fusionees :
    (\A t \in Threads : Fid[t] = f => ~ Alive(t))
      ~> [](\A r \in Refs : local_refs[r][f] = 0 /\ locked[r] # f)
=============================================================================
