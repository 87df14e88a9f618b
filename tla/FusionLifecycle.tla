--------------------------- MODULE FusionLifecycle ---------------------------
(***************************************************************************)
(* The life of a fusion world (linux-fusion-8.1.1, fusiondev.c and         *)
(* fusionee.c): open makes the world and a fusionee, enter gives it an id  *)
(* (the first is the master), unblock admits the slaves, kill signals      *)
(* other fusionees and waits for them, and the last close() ends the       *)
(* fusionee, the last fusionee the world.                                  *)
(*                                                                         *)
(* Each process opens the device at most once at a time, so a fusionee has *)
(* the name of the process that opened its file; children inherit it.  A   *)
(* process that exits loses its mm first and its files later.              *)
(*                                                                         *)
(* enter_lock, devs_lock and the lock of the list are each held for one    *)
(* step, so only an enter_lock that is never given back shows.             *)
(***************************************************************************)
EXTENDS Integers, FiniteSets

CONSTANTS
  Procs,
  Mms,         \* the addresses a process's mm may have
  None,        \* NULL
  Api,         \* per process: the version it enters with, [major, minor]
  Supported,   \* the major versions, 3, 4 and 8
  Timeouts,    \* of a kill; a subset of those in Timeout
  MaxId,       \* bound on last_id (an int in the code)
  Starts       \* the kinds of world, see Start

Timeout == {"none", "infinite", "bounded"}

\* What happens beside opening, entering and unblocking; the processes that
\* are there from the beginning, that open the device, and that kill whom.
Events == {"close", "again", "exit", "fork", "ignore", "force"}
Start == [env: SUBSET Events, alive: SUBSET Procs, clients: SUBSET Procs,
          killers: SUBSET Procs, targets: SUBSET (0..MaxId)]

ASSUME ProcsAssumption == IsFiniteSet(Procs) /\ None \notin Mms
ASSUME ApiAssumption == Api \in [Procs -> [major: Nat, minor: Nat]]
ASSUME BoundsAssumption == MaxId \in Nat /\ Timeouts \subseteq Timeout /\ Starts \subseteq Start

VARIABLES
  refs,         \* 0 is a device without a world
  last_id, enter_ok, enter_lock, api,
  enter_wait,   \* the processes asleep on dev->enter_wait
  kill_wait,    \* those asleep on dev->fusionee.wait
  fusionee,     \* the fusionee each process has opened
  held,         \* per process: the fusionees whose file it has open
  mm,
  proc,         \* "unborn", "alive", "exiting", "dead"
  signals,      \* the processes with a signal pending
  op,           \* per process: the call it is in
  start

enterVars == <<last_id, enter_ok, enter_lock, api>>
procVars  == <<mm, proc>>
vars == <<refs, enterVars, enter_wait, kill_wait, fusionee, held, procVars, signals, op, start>>

\* stage: "leaving" is off the list, and still counted in refs.
Fusionee == [stage: {"none", "listed", "leaving"}, id: 0..MaxId,
             force_slave: BOOLEAN, mm: Mms \cup {None}]
NoFusionee == [stage |-> "none", id |-> 0, force_slave |-> FALSE, mm |-> None]

Op == [at: {"user", "enter", "enter_wait", "kill", "kill_wait"},
       target: 0..MaxId, timeout: Timeout, expired: BOOLEAN]
InUser == [at |-> "user", target |-> 0, timeout |-> "none", expired |-> FALSE]

NoApi == [major |-> 0, minor |-> 0]

\* What the world is before the first open and after the last release.
NoWorld  == last_id = 0  /\ enter_ok = FALSE  /\ enter_lock = 1  /\ api = NoApi
EndWorld == last_id' = 0 /\ enter_ok' = FALSE /\ enter_lock' = 1 /\ api' = NoApi

Init ==
  /\ refs = 0
  /\ NoWorld
  /\ enter_wait = {} /\ kill_wait = {}
  /\ fusionee = [p \in Procs |-> NoFusionee]
  /\ held = [p \in Procs |-> {}]
  /\ start \in Starts
  /\ proc = [p \in Procs |-> IF p \in start.alive THEN "alive" ELSE "unborn"]
  /\ mm \in [Procs -> Mms \cup {None}]
  /\ \A p, q \in Procs : /\ mm[p] = None <=> proc[p] = "unborn"
                         /\ p # q /\ mm[p] = mm[q] => mm[p] = None
  /\ signals = {}
  /\ op = [p \in Procs |-> InUser]

Listed == {p \in Procs : fusionee[p].stage = "listed"}
May(event) == event \in start.env

\* In the client; a pending signal comes before the next thing it does.
User(p) == proc[p] = "alive" /\ op[p].at = "user"
Free(p) == User(p) /\ p \notin signals
\* A process in the client that has the file of its fusionee open.
Client(p) == Free(p) /\ p \in held[p]
Entering(p) == op[p].at \in {"enter", "enter_wait"}
Back(p) == op' = [op EXCEPT ![p] = InUser]

-----------------------------------------------------------------------------
(* fusion_open(), with fusionee_new().  O_EXCL refuses a world that has a  *)
(* master; O_APPEND forces a slave.                                        *)
Open(p, excl, force) ==
  /\ Free(p) /\ p \in start.clients /\ (force => May("force"))
  /\ fusionee[p].stage = "none"
  /\ excl /\ refs > 0 => last_id = 0
  /\ refs' = refs + 1
  /\ fusionee' = [fusionee EXCEPT ![p] =
       [stage |-> "listed", id |-> 0, force_slave |-> force, mm |-> mm[p]]]
  /\ held' = [held EXCEPT ![p] = @ \cup {p}]
  /\ UNCHANGED <<enterVars, enter_wait, kill_wait, procVars, signals, op, start>>

\* FUSION_ENTER up to its down_interruptible().
Enter(p) ==
  /\ Client(p)
  /\ fusionee[p].id = 0 \/ May("again")
  /\ last_id + Cardinality({q \in Procs : Entering(q)}) < MaxId
  /\ op' = [op EXCEPT ![p].at = "enter"]
  /\ UNCHANGED <<refs, enterVars, enter_wait, kill_wait, fusionee, held, procVars, signals, start>>

\* The loop is for slaves, forced or not.
MustWait(p) == (last_id # 0 \/ fusionee[p].force_slave) /\ ~ enter_ok

Compatible(a, b) == a.major = b.major /\ a.minor <= b.minor
Acceptable(p) ==
  IF last_id = 0 THEN Api[p].major \in Supported ELSE Compatible(Api[p], api)

\* fusion_sleep_on() joins the queue before it unlocks.
EnterSleep(p) ==
  /\ op[p].at = "enter" /\ enter_lock = 1 /\ MustWait(p)
  /\ enter_wait' = enter_wait \cup {p}
  /\ op' = [op EXCEPT ![p].at = "enter_wait"]
  /\ UNCHANGED <<refs, enterVars, kill_wait, fusionee, held, procVars, signals, start>>

\* The master determines the version, slaves comply; and the next id.
EnterTake(p) ==
  /\ op[p].at = "enter" /\ enter_lock = 1 /\ ~ MustWait(p)
  /\ Acceptable(p) /\ last_id < MaxId
  /\ last_id' = last_id + 1
  /\ api' = IF last_id = 0 THEN Api[p] ELSE api
  /\ fusionee' = [fusionee EXCEPT ![p].id = last_id + 1]
  /\ Back(p)
  /\ UNCHANGED <<refs, enter_ok, enter_lock, enter_wait, kill_wait, held, procVars, signals, start>>

\* ENOPROTOOPT: the two returns leave enter_lock down.
EnterRefused(p) ==
  /\ op[p].at = "enter" /\ enter_lock = 1 /\ ~ MustWait(p)
  /\ ~ Acceptable(p)
  /\ enter_lock' = 0
  /\ Back(p)
  /\ UNCHANGED <<refs, last_id, enter_ok, api, enter_wait, kill_wait, fusionee, held,
                 procVars, signals, start>>

\* Back from schedule(): woken, or with a signal (EINTR); then the lock again.
EnterWoken(p) ==
  /\ op[p].at = "enter_wait"
  /\ p \notin enter_wait \/ p \in signals
  /\ enter_wait' = enter_wait \ {p}
  /\ IF p \in signals THEN Back(p) ELSE op' = [op EXCEPT ![p].at = "enter"]
  /\ UNCHANGED <<refs, enterVars, kill_wait, fusionee, held, procVars, signals, start>>

\* down_interruptible() of enter_lock, when somebody has it.
EnterInterrupted(p) ==
  /\ op[p].at = "enter" /\ enter_lock = 0 /\ p \in signals
  /\ Back(p)
  /\ UNCHANGED <<refs, enterVars, enter_wait, kill_wait, fusionee, held, procVars, signals, start>>

\* Slip: those asleep are not woken.
Unblock_Silent(p) ==
  /\ Client(p) /\ fusionee[p].id = 1 /\ enter_lock = 1
  /\ enter_ok' = TRUE
  /\ UNCHANGED <<refs, last_id, enter_lock, api, enter_wait, kill_wait, fusionee, held,
                 procVars, signals, op, start>>

\* FUSION_UNBLOCK; EPERM but for the master.
Unblock(p) ==
  /\ Client(p) /\ fusionee[p].id = 1 /\ enter_lock = 1
  /\ enter_ok' = TRUE
  /\ enter_wait' = {}
  /\ UNCHANGED <<refs, last_id, enter_lock, api, kill_wait, fusionee, held,
                 procVars, signals, op, start>>

-----------------------------------------------------------------------------
\* FUSION_KILL of a fusionee by its id, or of all (0).
Kill(p, target, timeout) ==
  /\ Client(p)
  /\ op' = [op EXCEPT ![p] =
       [at |-> "kill", target |-> target, timeout |-> timeout, expired |-> FALSE]]
  /\ UNCHANGED <<refs, enterVars, enter_wait, kill_wait, fusionee, held, procVars, signals, start>>

Targets(p) == {f \in Listed \ {p} : op[p].target \in {0, fusionee[f].id}}
\* By the mm they had when they opened the device.
Victims(p) == {q \in Procs : mm[q] # None /\ \E f \in Targets(p) : fusionee[f].mm = mm[q]}

\* A round of the loop: signals are sent, then the kill is done, has timed
\* out, or sleeps.
KillRound(p) ==
  /\ op[p].at = "kill"
  /\ signals' = signals \cup Victims(p)
  /\ IF Victims(p) = {} \/ op[p].timeout = "none" \/ op[p].expired
     THEN Back(p) /\ UNCHANGED kill_wait
     ELSE /\ kill_wait' = kill_wait \cup {p}
          /\ op' = [op EXCEPT ![p].at = "kill_wait"]
  /\ UNCHANGED <<refs, enterVars, enter_wait, fusionee, held, procVars, start>>

KillTimeout(p) ==
  /\ op[p].at = "kill_wait" /\ p \in kill_wait /\ op[p].timeout = "bounded"
  /\ kill_wait' = kill_wait \ {p}
  /\ op' = [op EXCEPT ![p].expired = TRUE]
  /\ UNCHANGED <<refs, enterVars, enter_wait, fusionee, held, procVars, signals, start>>

KillWoken(p) ==
  /\ op[p].at = "kill_wait"
  /\ p \notin kill_wait \/ p \in signals
  /\ kill_wait' = kill_wait \ {p}
  /\ IF p \in signals THEN Back(p) ELSE op' = [op EXCEPT ![p].at = "kill"]
  /\ UNCHANGED <<refs, enterVars, enter_wait, fusionee, held, procVars, signals, start>>

-----------------------------------------------------------------------------
Holders(f) == {p \in Procs : f \in held[p]}

\* Slip: killers are not woken.
Destroy_Silent(f) ==
  /\ fusionee' = [fusionee EXCEPT ![f].stage = "leaving"]
  /\ UNCHANGED kill_wait

\* fusionee_destroy(): off the list, and killers are woken.
Destroy(f) ==
  /\ fusionee' = [fusionee EXCEPT ![f].stage = "leaving"]
  /\ kill_wait' = {}

(* A process closes a file, or exit() does it; with the last one open the  *)
(* fusionee is destroyed.                                                  *)
Close(p, f) ==
  /\ f \in held[p]
  /\ proc[p] = "exiting" \/ (Free(p) /\ May("close"))
  /\ held' = [held EXCEPT ![p] = @ \ {f}]
  /\ IF Holders(f) = {p} THEN Destroy(f) ELSE UNCHANGED <<fusionee, kill_wait>>
  /\ UNCHANGED <<refs, enterVars, enter_wait, procVars, signals, op, start>>

\* Slip: the world stays as it is for whoever opens the device next.
Release_KeepsWorld(f) ==
  /\ fusionee[f].stage = "leaving"
  /\ fusionee' = [fusionee EXCEPT ![f] = NoFusionee]
  /\ refs' = refs - 1
  /\ UNCHANGED <<enterVars, enter_wait, kill_wait, held, procVars, signals, op, start>>

(* The rest of fusion_release(): the fusionee is freed, and the world with *)
(* the last one.  Until then the device can be opened into this world.     *)
Release(f) ==
  /\ fusionee[f].stage = "leaving"
  /\ fusionee' = [fusionee EXCEPT ![f] = NoFusionee]
  /\ refs' = refs - 1
  /\ IF refs = 1 THEN EndWorld ELSE UNCHANGED enterVars
  /\ UNCHANGED <<enter_wait, kill_wait, held, procVars, signals, op, start>>

-----------------------------------------------------------------------------
\* fork(): the child has its own mm and the files of its parent.
Fork(p, c) ==
  /\ May("fork")
  /\ Free(p) /\ proc[c] = "unborn"
  /\ \E a \in Mms \ {mm[q] : q \in Procs} : mm' = [mm EXCEPT ![c] = a]
  /\ proc' = [proc EXCEPT ![c] = "alive"]
  /\ held' = [held EXCEPT ![c] = held[p]]
  /\ UNCHANGED <<refs, enterVars, enter_wait, kill_wait, fusionee, signals, op, start>>

\* exit(), of itself or by a signal; the mm goes before the files.
Exit(p) ==
  /\ User(p) /\ (May("exit") \/ p \in signals)
  /\ proc' = [proc EXCEPT ![p] = "exiting"]
  /\ mm' = [mm EXCEPT ![p] = None]
  /\ signals' = signals \ {p}
  /\ UNCHANGED <<refs, enterVars, enter_wait, kill_wait, fusionee, held, op, start>>

\* exit() has closed the files.
Exited(p) ==
  /\ proc[p] = "exiting" /\ held[p] = {}
  /\ proc' = [proc EXCEPT ![p] = "dead"]
  /\ UNCHANGED <<refs, enterVars, enter_wait, kill_wait, fusionee, held, mm, signals, op, start>>

\* The client handles the signal and goes on.
Handle(p) ==
  /\ May("ignore")
  /\ User(p) /\ p \in signals
  /\ signals' = signals \ {p}
  /\ UNCHANGED <<refs, enterVars, enter_wait, kill_wait, fusionee, held, procVars, op, start>>

-----------------------------------------------------------------------------
EnterStep(p) == EnterSleep(p) \/ EnterTake(p) \/ EnterRefused(p) \/ EnterWoken(p) \/ EnterInterrupted(p)
KillStep(p) == KillRound(p) \/ KillTimeout(p) \/ KillWoken(p)

Next ==
  \E p \in Procs :
    \/ \E excl, force \in BOOLEAN : Open(p, excl, force)
    \/ Enter(p) \/ EnterStep(p) \/ Unblock(p)
    \/ p \in start.killers /\ \E target \in start.targets, timeout \in Timeouts : Kill(p, target, timeout)
    \/ KillStep(p)
    \/ \E f \in Procs : Close(p, f)
    \/ Release(p)
    \/ \E c \in Procs : Fork(p, c)
    \/ Exit(p) \/ Exited(p) \/ Handle(p)

Spec == Init /\ [][Next]_vars

(* What is in the kernel goes on, timers fire, a process that has been     *)
(* signalled exits (or handles it), and a master unblocks its world.       *)
Fairness ==
  \A p \in Procs : /\ WF_vars(EnterStep(p))
                   /\ WF_vars(KillStep(p))
                   /\ SF_vars(KillTimeout(p))
                   /\ WF_vars(proc[p] = "exiting" /\ \E f \in Procs : Close(p, f))
                   /\ WF_vars(Release(p))
                   /\ WF_vars(Exited(p))
                   /\ WF_vars(p \in signals /\ (Exit(p) \/ Handle(p)))
                   /\ SF_vars(~ enter_ok /\ Unblock(p))

FairSpec == Spec /\ Fairness

-----------------------------------------------------------------------------
TypeOK ==
  /\ refs \in Nat
  /\ last_id \in 0..MaxId /\ enter_ok \in BOOLEAN /\ enter_lock \in {0, 1}
  /\ api \in [major: Nat, minor: Nat]
  /\ enter_wait \subseteq Procs /\ kill_wait \subseteq Procs /\ signals \subseteq Procs
  /\ fusionee \in [Procs -> Fusionee]
  /\ held \in [Procs -> SUBSET Procs]
  /\ mm \in [Procs -> Mms \cup {None}]
  /\ proc \in [Procs -> {"unborn", "alive", "exiting", "dead"}]
  /\ op \in [Procs -> Op]
  /\ start \in Starts

\* refs counts the fusionees, and there is one as long as its file is open.
RefsAreFusionees ==
  /\ refs = Cardinality({p \in Procs : fusionee[p].stage # "none"})
  /\ \A p, f \in Procs : f \in held[p] => fusionee[f].stage = "listed"

\* Ids are given once in the life of a world, and none outlives it.
IdsAreUnique ==
  /\ \A p, q \in Procs : p # q /\ fusionee[p].id = fusionee[q].id => fusionee[p].id = 0
  /\ \A p \in Procs : fusionee[p].id <= last_id /\ (fusionee[p].stage = "none" => fusionee[p].id = 0)
  /\ refs = 0 => NoWorld

\* A slave has an id only in a world that is unblocked, nobody enters with a
\* version other than one the master's covers, and the assertion of
\* fusionee.c:227 holds.
SlavesAreAdmitted ==
  /\ enter_ok => last_id # 0
  /\ last_id > 1 => enter_ok
  /\ \A p \in Procs : fusionee[p].id # 0 =>
       /\ fusionee[p].id # 1 => enter_ok
       /\ fusionee[p].id = 1 => ~ fusionee[p].force_slave
       /\ Compatible(Api[p], api)

\* Only what is to wait sleeps.
EnterNoLostWakeup ==
  \A p \in enter_wait : op[p].at = "enter_wait" /\ MustWait(p)

\* The calls are on files that are open, of processes that are alive.
CallsAreOpen ==
  /\ \A p \in Procs : op[p].at # "user" => proc[p] = "alive" /\ p \in held[p]
  /\ \A p \in kill_wait : op[p].at = "kill_wait"
  /\ \A p \in Procs : proc[p] \in {"unborn", "dead"} => held[p] = {}

(* The promise of open, enter and unblock (doc/fusion.tmpl:333-354), as an *)
(* inductive invariant: the conjuncts above.                               *)
IInv ==
  /\ TypeOK
  /\ RefsAreFusionees
  /\ IdsAreUnique
  /\ SlavesAreAdmitted
  /\ EnterNoLostWakeup
  /\ CallsAreOpen

HasMaster == enter_ok \/ \E p \in Procs : fusionee[p].id = 1 /\ Client(p)

(* "For all Slaves, this ioctl will block until the Master has 'unblocked' *)
(* the World" (doc/fusion.tmpl:335), and not longer: nobody is in enter    *)
(* forever while a master is there, or was when it unblocked the world,    *)
(* unless a refused enter has kept the lock.                               *)
EnterReturns ==
  \A p \in Procs : []<> ~ (Entering(p) /\ HasMaster /\ enter_lock = 1)

(* A kill ends when its timeout does; without one (0, infinite) when all   *)
(* its targets have gone, however they close their files                   *)
(* (doc/fusion.tmpl:371-379).  A child with the file of a target that has  *)
(* exited keeps it from being woken.                                       *)
KillReturns ==
  \A p \in Procs :
    op[p].at = "kill" /\ (op[p].timeout = "bounded" \/ start.env \cap {"fork", "ignore"} = {})
      ~> op[p].at = "user"
=============================================================================
