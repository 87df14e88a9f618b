--------------------------- MODULE FusionProperty ---------------------------
(***************************************************************************)
(* The property, Fusion's lock with two levels (linux-fusion-8.1.1,        *)
(* property.c): a lease is short and everybody waits for its end, a        *)
(* purchase may last, so that whoever meets one gives up after a while,    *)
(* and the master may have the purchaser killed (holdup).                  *)
(*                                                                         *)
(* As in FusionSkirmish a handler is atomic up to fusion_sleep_on(), and   *)
(* held is what the threads may conclude from the return values.  Time is  *)
(* the age of a purchase in three classes, split at the two limits the     *)
(* code compares it with.                                                  *)
(***************************************************************************)
EXTENDS Integers, FiniteSets

CONSTANTS
  Properties,  \* the ids the world will hand out, never reused
  Threads,     \* the tasks (pids) that use the world
  Fusionees,   \* the open files of the world
  Fid,         \* the fusionee each thread opened the world with
  Master,      \* the fusionee with the id 1
  None,        \* the 0 of fusion_id and lock_pid
  MaxCount     \* bound on recursive leases and purchases

ASSUME FidAssumption   == Fid \in [Threads -> Fusionees] /\ Master \in Fusionees
ASSUME NoneAssumption  == None \notin Threads \cup Fusionees \cup Properties
ASSUME BoundAssumption == MaxCount \in Nat /\ MaxCount > 0

VARIABLES
  entry,           \* per property: "unborn", "live", "destroyed"
  state, fusion_id, lock_pid, count,
  age,             \* how old purchase_stamp is
  wq,              \* per property: the threads asleep on entry.wait
  op,              \* per thread: the ioctl it is in
  held,            \* per thread and property: the client's view
  doomed           \* the fusionees SIGKILL has been sent to

lockVars == <<state, fusion_id, lock_pid, count>>
vars == <<entry, state, fusion_id, lock_pid, count, age, wq, op, held, doomed>>

-----------------------------------------------------------------------------
\* The two modes of the lock, named as the states they lead to.
Modes == {"leased", "purchased"}

\* jiffies - purchase_stamp: at most HZ / 10, at most HZ, more.
Fresh == 0
Recent == 1
Old == 2
Patience == [leased |-> Fresh, purchased |-> Recent]

(* at is "user", "dead" or the mode the ioctl wants; timeout is FALSE while *)
(* the variable of that name is -1; saw is the state the thread last slept *)
(* on, which tells whether that sleep has a timer.                         *)
Op == [at: Modes \cup {"user", "dead"}, id: Properties \cup {None},
       timeout: BOOLEAN, saw: Modes \cup {"available"}]

At(place) == [at |-> place, id |-> None, timeout |-> FALSE, saw |-> "available"]

InUser(t) == op[t].at = "user"
Alive(t)  == op[t].at # "dead"
Waits(t)  == op[t].at \in Modes
WaitsFor(t, p) == Waits(t) /\ op[t].id = p
Awake(t)  == Waits(t) /\ t \notin wq[op[t].id]

Return(t) == op' = [op EXCEPT ![t] = At("user")]

Init ==
  /\ entry = [p \in Properties |-> "unborn"]
  /\ state = [p \in Properties |-> "available"]
  /\ fusion_id = [p \in Properties |-> None]
  /\ lock_pid = [p \in Properties |-> None]
  /\ count = [p \in Properties |-> 0]
  /\ age = [p \in Properties |-> Old]
  /\ wq = [p \in Properties |-> {}]
  /\ op = [t \in Threads |-> At("user")]
  /\ held = [t \in Threads |-> [p \in Properties |-> 0]]
  /\ doomed = {}

New(p) ==
  /\ entry[p] = "unborn"
  /\ entry' = [entry EXCEPT ![p] = "live"]
  /\ UNCHANGED <<lockVars, age, wq, op, held, doomed>>

-----------------------------------------------------------------------------
(* The loop of fusion_property_lease() and of fusion_property_purchase(),  *)
(* for a thread that does not hold the property: take it, sleep, or give   *)
(* up at once because the purchase it meets is too old.                    *)
Take(t, p, mode) ==
  /\ state[p] = "available"
  /\ state' = [state EXCEPT ![p] = mode]
  /\ fusion_id' = [fusion_id EXCEPT ![p] = Fid[t]]
  /\ lock_pid' = [lock_pid EXCEPT ![p] = t]
  /\ count' = [count EXCEPT ![p] = 1]
  /\ held' = [held EXCEPT ![t][p] = 1]
  /\ IF mode = "purchased"
     THEN age' = [age EXCEPT ![p] = Fresh] /\ wq' = [wq EXCEPT ![p] = {}]
     ELSE UNCHANGED <<age, wq>>
  /\ Return(t)

\* A timeout that is already running is not looked at again.
TooOld(p, mode, timeout) ==
  /\ state[p] = "purchased"
  /\ ~ timeout
  /\ age[p] > Patience[mode]

\* Slip: whoever meets a purchase sleeps as if it were a lease.
Sleep_Untimed(t, p, mode, timeout) ==
  /\ state[p] # "available"
  /\ ~ TooOld(p, mode, timeout)
  /\ op' = [op EXCEPT ![t] = [at |-> mode, id |-> p, timeout |-> FALSE, saw |-> "leased"]]
  /\ wq' = [wq EXCEPT ![p] = @ \cup {t}]
  /\ UNCHANGED <<lockVars, age, held>>

Sleep(t, p, mode, timeout) ==
  /\ state[p] # "available"
  /\ ~ TooOld(p, mode, timeout)
  /\ op' = [op EXCEPT ![t] = [at |-> mode, id |-> p,
                              timeout |-> timeout \/ state[p] = "purchased",
                              saw |-> state[p]]]
  /\ wq' = [wq EXCEPT ![p] = @ \cup {t}]
  /\ UNCHANGED <<lockVars, age, held>>

GiveUp(t, p, mode, timeout) ==
  /\ TooOld(p, mode, timeout)
  /\ Return(t)
  /\ UNCHANGED <<lockVars, age, wq, held>>

\* A new ioctl of a thread that does not hold the property.
Start(t, p, mode) ==
  /\ InUser(t) /\ entry[p] = "live"
  /\ lock_pid[p] # t
  /\ Take(t, p, mode) \/ Sleep(t, p, mode, FALSE)
  /\ UNCHANGED <<entry, doomed>>

\* The holder again, in the mode it holds (in the other mode it gets EIO).
Again(t, p, mode) ==
  /\ InUser(t) /\ entry[p] = "live"
  /\ lock_pid[p] = t /\ state[p] = mode
  /\ count[p] < MaxCount
  /\ count' = [count EXCEPT ![p] = @ + 1]
  /\ held' = [held EXCEPT ![t][p] = @ + 1]
  /\ UNCHANGED <<entry, state, fusion_id, lock_pid, age, wq, op, doomed>>

\* After a wake-up: the same loop, with the timeout as the thread left it.
Woken(t) ==
  LET p == op[t].id IN
  /\ Awake(t) /\ entry[p] = "live"
  /\ \/ Take(t, p, op[t].at)
     \/ Sleep(t, p, op[t].at, op[t].timeout)
     \/ GiveUp(t, p, op[t].at, op[t].timeout)
  /\ UNCHANGED <<entry, doomed>>

\* The timer of a sleep that met a purchase; the thread may have been woken
\* as well, and does not look at the property any more.
TimedOut(t) ==
  /\ Waits(t) /\ op[t].saw = "purchased"
  /\ Return(t)
  /\ wq' = [wq EXCEPT ![op[t].id] = @ \ {t}]
  /\ UNCHANGED <<entry, lockVars, age, held, doomed>>

\* A signal ends the sleep.
Interrupt(t) ==
  /\ Waits(t)
  /\ Return(t)
  /\ wq' = [wq EXCEPT ![op[t].id] = @ \ {t}]
  /\ UNCHANGED <<entry, lockVars, age, held, doomed>>

\* A woken thread does not find the property any more.
FindGone(t) ==
  /\ Awake(t) /\ entry[op[t].id] # "live"
  /\ Return(t)
  /\ UNCHANGED <<entry, lockVars, age, wq, held, doomed>>

\* A purchase gets older.
Tick(p) ==
  /\ state[p] = "purchased" /\ age[p] < Old
  /\ age' = [age EXCEPT ![p] = @ + 1]
  /\ UNCHANGED <<entry, lockVars, wq, op, held, doomed>>

-----------------------------------------------------------------------------
\* What cede, cede_all and destroy leave: the count keeps its value.
Free(P) ==
  /\ state' = [p \in Properties |-> IF p \in P THEN "available" ELSE state[p]]
  /\ fusion_id' = [p \in Properties |-> IF p \in P THEN None ELSE fusion_id[p]]
  /\ lock_pid' = [p \in Properties |-> IF p \in P THEN None ELSE lock_pid[p]]
  /\ wq' = [p \in Properties |-> IF p \in P THEN {} ELSE wq[p]]

\* Slip: the first cede frees, however often the property was taken.
Cede_AtOnce(t, p) ==
  /\ InUser(t) /\ entry[p] = "live"
  /\ lock_pid[p] = t
  /\ count' = [count EXCEPT ![p] = @ - 1]
  /\ held' = [held EXCEPT ![t][p] = @ - 1]
  /\ Free({p})
  /\ UNCHANGED <<entry, age, op, doomed>>

\* Slip: the caller is not checked.
Cede_AnyOwner(t, p) ==
  /\ InUser(t) /\ entry[p] = "live"
  /\ lock_pid[p] # None
  /\ count' = [count EXCEPT ![p] = @ - 1]
  /\ held' = [held EXCEPT ![t][p] = @ - 1]
  /\ IF count[p] = 1 THEN Free({p}) ELSE UNCHANGED <<state, fusion_id, lock_pid, wq>>
  /\ UNCHANGED <<entry, age, op, doomed>>

(* fusion_property_cede(): only the last cede frees and wakes.             *)
Cede(t, p) ==
  /\ InUser(t) /\ entry[p] = "live"
  /\ lock_pid[p] = t
  /\ count' = [count EXCEPT ![p] = @ - 1]
  /\ held' = [held EXCEPT ![t][p] = @ - 1]
  /\ IF count[p] = 1 THEN Free({p}) ELSE UNCHANGED <<state, fusion_id, lock_pid, wq>>
  /\ UNCHANGED <<entry, age, op, doomed>>

(* fusion_property_holdup(): SIGKILL to the application of the purchaser.  *)
Holdup(t, p) ==
  /\ InUser(t) /\ entry[p] = "live"
  /\ Fid[t] = Master
  /\ state[p] = "purchased" /\ fusion_id[p] # Master
  /\ doomed' = doomed \cup {fusion_id[p]}
  /\ UNCHANGED <<entry, lockVars, age, wq, op, held>>

(* fusion_property_destroy(), whoever holds it.                            *)
Destroy(t, p) ==
  /\ InUser(t) /\ entry[p] = "live"
  /\ entry' = [entry EXCEPT ![p] = "destroyed"]
  /\ Free({p})
  /\ held' = [u \in Threads |-> [held[u] EXCEPT ![p] = 0]]
  /\ UNCHANGED <<count, age, op, doomed>>

-----------------------------------------------------------------------------
Die(t) ==
  /\ op' = [op EXCEPT ![t] = At("dead")]
  /\ held' = [held EXCEPT ![t] = [p \in Properties |-> 0]]

\* A thread ends.  The flush of its files cedes nothing: only the release of
\* the last one does.
ThreadExit(t) ==
  /\ InUser(t)
  /\ Die(t)
  /\ UNCHANGED <<entry, lockVars, age, wq, doomed>>

\* The SIGKILL of a holdup takes effect, in user space or in a sleep.
Killed(t) ==
  /\ Alive(t) /\ Fid[t] \in doomed
  /\ Die(t)
  /\ wq' = [p \in Properties |-> wq[p] \ {t}]
  /\ UNCHANGED <<entry, lockVars, age, doomed>>

\* Slip: a lease is taken for something its holder cedes soon anyway.
CedeAll_PurchasedOnly(f) ==
  Free({p \in Properties : fusion_id[p] = f /\ state[p] = "purchased"})

(* fusion_property_cede_all()                                              *)
CedeAll(f) == Free({p \in Properties : fusion_id[p] = f})

\* The last reference to the file goes: fusionee_destroy().
Release(f) ==
  /\ \A t \in Threads : Fid[t] = f => ~ Alive(t)
  /\ CedeAll(f)
  /\ UNCHANGED <<entry, count, age, op, held, doomed>>

-----------------------------------------------------------------------------
Ioctl(t, p) ==
  \/ \E mode \in Modes : Start(t, p, mode) \/ Again(t, p, mode)
  \/ Cede(t, p)
  \/ Holdup(t, p)
  \/ Destroy(t, p)

Next ==
  \/ \E p \in Properties : New(p) \/ Tick(p)
  \/ \E t \in Threads, p \in Properties : Ioctl(t, p)
  \/ \E t \in Threads : \/ Woken(t) \/ FindGone(t) \/ TimedOut(t)
                        \/ Interrupt(t) \/ ThreadExit(t) \/ Killed(t)
  \/ \E f \in Fusionees : Release(f)

Spec == Init /\ [][Next]_vars

(* The kernel schedules woken tasks, runs timers, delivers SIGKILL and     *)
(* closes the files of the dead.  Nothing is assumed of the clients.       *)
Fairness ==
  /\ \A t \in Threads : /\ WF_vars(Woken(t))
                        /\ WF_vars(FindGone(t))
                        /\ WF_vars(TimedOut(t))
                        /\ WF_vars(Killed(t))
  /\ \A f \in Fusionees : WF_vars(Release(f))

FairSpec == Spec /\ Fairness

-----------------------------------------------------------------------------
(* Every variable stays in its range, whatever the order of the ioctls.    *)
TypeOK ==
  /\ entry \in [Properties -> {"unborn", "live", "destroyed"}]
  /\ state \in [Properties -> Modes \cup {"available"}]
  /\ fusion_id \in [Properties -> Fusionees \cup {None}]
  /\ lock_pid \in [Properties -> Threads \cup {None}]
  /\ count \in [Properties -> Nat]
  /\ age \in [Properties -> Fresh..Old]
  /\ wq \in [Properties -> SUBSET Threads]
  /\ op \in [Threads -> Op]
  /\ held \in [Threads -> [Properties -> Nat]]
  /\ doomed \in SUBSET Fusionees

(* No two threads believe to hold the same property, in either mode, and   *)
(* no live thread believes to hold what another one is recorded to hold:   *)
(* not after timeouts, signals, kills or a cede_all that leaves the old    *)
(* count behind (property.c:115-133, 262-270, 319-323).                    *)
HeldIsLocked ==
  \A t \in Threads, p \in Properties :
    Alive(t) => held[t][p] = IF lock_pid[p] = t THEN count[p] ELSE 0

(* No wake-up is lost: a thread is asleep on a property only while that is *)
(* live, held by another thread, and still in the state for which the      *)
(* thread has, or has not, set a timer (property.c:123-158, 199-228).      *)
NoLostWakeup ==
  \A p \in Properties : \A t \in wq[p] :
    /\ entry[p] = "live"
    /\ lock_pid[p] \notin {t, None}
    /\ state[p] = op[t].saw

\* A property is owned completely or not at all.
OwnerCoherent ==
  \A p \in Properties :
    /\ lock_pid[p] = None => state[p] = "available" /\ fusion_id[p] = None
    /\ lock_pid[p] # None => /\ entry[p] = "live" /\ state[p] \in Modes
                             /\ fusion_id[p] = Fid[lock_pid[p]] /\ count[p] > 0

\* A thread waits for a property it does not own, and remembers a timer
\* whenever it sleeps with one; only those who wait are on a queue.
WaitCoherent ==
  /\ \A t \in Threads : Waits(t) =>
       /\ op[t].id \in Properties /\ lock_pid[op[t].id] # t
       /\ op[t].saw \in Modes
       /\ op[t].saw = "purchased" => op[t].timeout
  /\ \A p \in Properties : \A t \in wq[p] : WaitsFor(t, p)

(* What makes the above inductive.  A property that is held has all of its *)
(* fields to say so, one that is free has none; and whoever is on a queue  *)
(* is in the loop of that property, does not hold it, and has a timer      *)
(* running if it met a purchase (property.c:97-166, 168-236, 317-328).     *)
IInv ==
  /\ TypeOK
  /\ OwnerCoherent
  /\ HeldIsLocked
  /\ WaitCoherent
  /\ NoLostWakeup

(* Nobody waits for a purchase for ever: a thread that meets one comes out *)
(* of its ioctl, with the property or without, however often the purchase  *)
(* changes hands, unless the property is leased meanwhile, for a lease is  *)
(* waited for without a timer (property.c:135-152, 213-222).               *)
PurchaseIsBounded ==
  \A t \in Threads, p \in Properties :
    (WaitsFor(t, p) /\ state[p] = "purchased")
      ~> (~ WaitsFor(t, p) \/ state[p] = "leased")

(* A holdup gets what it is for: the application that is killed ends up    *)
(* without any property, those of its sleeping threads, of its leases and  *)
(* of threads that had ended before included (property.c:276-331).         *)
HoldupFrees ==
  \A f \in Fusionees :
    (f \in doomed) ~> [](\A p \in Properties : fusion_id[p] # f)

-----------------------------------------------------------------------------
(* The abstract recursive lock.  A property cannot be parked on; count is  *)
(* a depth only while somebody holds the property.                         *)
Abstract == INSTANCE RecursiveLock WITH
  Locks  <- Properties,
  owner  <- lock_pid,
  depth  <- [p \in Properties |-> IF lock_pid[p] = None THEN 0 ELSE count[p]],
  parked <- [t \in Threads |-> [p \in Properties |-> 0]],
  gone   <- {p \in Properties : entry[p] = "destroyed"},
  dead   <- {t \in Threads : ~ Alive(t)}

(* Leased or purchased, a property is a recursive lock: its owner changes  *)
(* only through free, its depth by one at a time, and only the dead lose   *)
(* what they hold (property.c:238-274, 308-331).                           *)
IsRecursiveLock == Abstract!Spec
=============================================================================
