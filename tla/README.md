# A verification of Fusion and of the OSAL interconnect in the OnLive MicroConsole sources

The repository is the source release of the OnLive MicroConsole, a Linux 2.6.27
system on a Marvell 88DE3010. Nearly all of its 50 000 files are upstream
packages. What carries logic of its own, shared between processes and CPUs, is

* **Fusion** (`linux-fusion-8.1.1`, the kernel half of DirectFB's
  multi-application core), built into the kernel of the box, and
* the **OSAL interconnect** between the application CPU and the SoC's second CPU.

The project models both. Paths of Fusion are relative to
`src/linux_kernel_release/linux-2.6.27.12/arch/arm/mach-mv88de3010/modules/linux-fusion-8.1.1/linux/drivers/char/fusion/`;
`doc/` and `ChangeLog` are in `modules/linux-fusion-8.1.1/`. `ICCFIFO.c`, `CCDSS.c`,
`ICCNet.c`, `ICCHAL.c` and the module's `main.c` belong to the OSAL sources.

## 1. Inventory

A *world* is a device file. A process opens it and becomes a *fusionee*, an
entry of `dev->fusionee.list` with message queues. Processes share *entries*:
calls, skirmishes, properties, references, reactors, shared memory pools. Each
kind has a table of entries with a semaphore; each entry has a semaphore and a
wait queue of its own. Every ioctl locks an entry, does its work, and unlocks it
or sleeps with `fusion_sleep_on()`, which joins the queue before it gives up the
lock.

| component | state | operations | what is hard |
|---|---|---|---|
| entries (`entries.c`) | list, ids, `lock`, `wait` | create, lock, wait, notify, destroy | an entry destroyed while others sleep on it or wait for its lock |
| skirmish (`skirmish.c`) | `lock_fid/pid/count`, `notify_count`, `transfer_*` | prevail, swoop, dismiss, lock_count, wait, notify, destroy, dismiss_all(_from_pid), transfer_all, reclaim_all | lost wake-ups; the relock after a wait; resumption after a signal; threads that die as owners |
| messages (`fusionee.c`, `fifo.c`) | `messages`, `prev_msgs`, `wait`, `dispatcher_pid` | send, read, poll, wait_processing, flush | two kinds of sleepers on one queue; what "being processed" means between two reads |
| lifecycle (`fusiondev.c`, `fusionee.c`) | `refs`, `last_id`, `enter_ok`, `enter_lock`, `api`, the list of fusionees | open, enter, unblock, kill, fork, flush, release | a world that ends while others join it; errors that keep a lock; a kill that races with exits |
| call (`call.c`) | owner, `serial`, list of executions | new, execute, return, destroy, destroy_all | a signal at any point of a call; matching results; who frees an execution; destroy against both |
| device (`fusiondev.c`) | the ioctl table | read, poll, ioctls, cleanups | the order of cleanups at exit |
| property (`property.c`) | state, owner, `count`, `purchase_stamp` | lease, purchase, cede, holdup, destroy, cede_all | two modes with timeouts, owners that die |
| reference (`ref.c`) | global and local counts, watch, `inherited` | up, down, zero_lock/trylock/unlock, watch, inherit, stat, fork, clear | zero reported once, counts copied by fork, inheritance |
| reactor (`reactor.c`) | nodes with counts per channel, dispatches under way | attach, detach, dispatch, callback, destroy, fork | a call after the last recipient is done, while nodes come and go |
| shm pool (`shmpool.c`) | nodes, size, address ranges | new, attach, detach, dispatch, destroy, fork | what a node was told last; address ranges handed out again |
| interconnect FIFO (`ICCFIFO.c`) | two offsets and a ring in shared memory | read, write | no lock between the CPUs |
| service directory (`CCDSS.c`, `ICCNet.c`, `main.c`) | a table per CPU, interrupts, softirqs | register, free, update, start, suspend, resume | announcements that cross; a softirq that ends as a frame arrives; a CPU that starts in between |

How they meet: `fusion_call_execute()` sends a message to the owner of the call,
lends it every skirmish of the caller, and sleeps; the owner's *dispatcher* reads
the message and answers with `fusion_call_return()`, which wakes the caller, who
takes the skirmishes back. `prevail` and `swoop` ask the fusionee table who the
dispatcher is. Reactors and pools send a message to every node; when a reader
hands a batch back, `flush_messages()` calls back into the reactor, which executes
its call after the last. References execute a call when a watched count drops to
zero. `fusionee_destroy()` cleans up all six kinds of entries, in a fixed order, and
flushes what was never read. `MV_CC_DSS_Reg()` changes the table, then writes to the
FIFO of the other CPU and raises its interrupt, whose softirq reads the FIFO empty.

What makes each of them correct:

* skirmish: one owner at a time, the count the clients believe in, a wait that
  gives back the depth it took, no sleeper on a free lock, no lock of the dead;
* messages: each read once and in order, no reader asleep over a message,
  `wait_processing` really waits;
* lifecycle: ids are unique and do not outlive a world, slaves come in when the
  master says so and with its version, nobody is left in enter or in kill;
* call: a caller gets its own result, comes back, and its execution is freed
  exactly once; a destroyed call owes nothing;
* calls and skirmishes: what is lent is reserved for the borrower and comes back;
* property: leases and purchases exclude each other, nobody waits for a purchase
  for ever, and a holdup frees all its victim has;
* reference: the counts add up along the inheritance, a drop to zero is reported
  once, a lock means zero, the dead count for nothing;
* reactor: one call per dispatch, not early and not missing; no node of the dead;
* pool: everybody attached knows the size; no two pools share an address;
* interconnect: a bounded queue per direction, emptied as long as its CPU runs, and
  two tables that agree when all has been said.

`PROJECT.json` lists all components and the hazards, each at its line.

## 2. Modules

| module | models | state and actions |
|---|---|---|
| `RecursiveLock` | what a skirmish and a property promise | owner, depth, parked depth; acquire, enter, leave, park, unpark, death |
| `FusionSkirmish` | `skirmish.c` with `entries.c` | variables have the code's names; `wq` is `entry.wait`, `op` the ioctl a thread is in, `held` what the client concludes from return values |
| `FusioneeMessages` | the queues of `fusionee.c`, `fifo.c` | `messages`, `prev_msgs`, `wait`; `handling` is the batch the client works on |
| `Batches` | the messages a reader keeps of a batch | `Picked`, used by the two modules of queues and calls |
| `FusionCall` | `call.c`, over an instance of `FusioneeMessages` | `executions` is the list of a call, `exec` the objects, `ewait` their wait queues, `clock` and `elock` the semaphores of a call and of the table, `owed` what a client has read and not answered |
| `FusionWorld` | calls and skirmishes together | instances of both; `Lend` and `Reclaim` are the steps of `execute` next to its sleep; `held`, the clients' view, follows return values alone, so a reclaim leaves it as it is, and the history `hauled` names those who lost a skirmish that way |
| `FusionProperty` | `property.c`, another implementation of `RecursiveLock` | the code's names; `op` has the mode a thread wants and `timeout`, `age` is `jiffies - purchase_stamp` in three classes, `doomed` who was sent SIGKILL |
| `FusionRef` | `ref.c` | the code's names, `local_refs` as a function; `inherited` is the forest, `reports` the calls made for a watch, `clearing` the cleanup of a fusionee |
| `FusionReactor` | `reactor.c`, one reactor | `nodes` is the list with the counts, `dispatch` the ReactorDispatch objects (`st`, `count`, `executed`), `rlock` who holds the semaphore from the first message of a dispatch to the last; `lost` counts sends that failed |
| `FusionSHMPool` | `shmpool.c` with its allocator | `addr_base` and the range of each pool, `size`, `pnodes`, `plock`; the histories `told`, the size a fusionee was given last, by an ioctl or in the last message it has read, and `crossed`, who was given one by an ioctl with older messages unread |
| `FusionBroadcast` | reactor and pools over the queues of `FusioneeMessages`, with fork and exit | instances of the three; `flushing` is the list `flush_messages()` works on, `leaving` how far `fusionee_destroy()` has come, `born` who has forked |
| `FusionLifecycle` | `fusiondev.c` and the lounge of `fusionee.c` | the code's names; `fusionee[p]` is the object process p has opened, `held` the files each process has (children inherit them), `mm` and `proc` the process |
| `BoundedQueue` | what a FIFO promises | `queue`, `got`; put and get |
| `ICCFIFO` | `ICCFIFO.c` | offsets, the ring, and how far the reader (`rd`) and the writer (`wr`) have come, one access to shared memory per step |
| `CCDSS` | `CCDSS.c`, `ICCNet.c`, `ICCHAL.c`, the softirq and start of `main.c` | extends `ICCFIFO`; `stage` and `table` per CPU, `irq`, `pending`, `running`, `leaving` for the way of an interrupt, `todo` what a context has still to send |
| `*_proofs` | theorems, section 4 | |
| `MC*` | values for TLC | |

**Granularity.** A handler runs under the semaphore of its entry, so a step is
what a thread does between two points where others can tell: from the ioctl, or
from a wake-up, to the return or the next sleep. A sleeper is in an explicit
set; a wake-up empties the set and the woken thread runs later, on whatever it
then finds. `prevail`, for instance, is `PrevailAgain`, `PrevailTake` or
`PrevailSleep`, and `PrevailWoken` for each round of its loop. `call.c` leaves its
locks at more places, and there a handler is split further: after the message
was sent (`ExecuteSync`) the callee may read it before the caller sleeps
(`ExecuteSleep`); between the check and the wake-up of `fusion_call_return()`
(`Return`, `ReturnWake`) a caller may write to the execution without a lock;
while `fusion_call_destroy()` holds a call, others look it up. In `ref.c`
whatever changes a count keeps the semaphore of the whole list, so a change and
what it does to all inheritors is one step; the cleanup of a fusionee
(`fusion_ref_clear_all_local()`) holds that semaphore over all its steps, one per
reference, and only the sleepers' own exits come between. The dispatches of
`reactor.c` and `shmpool.c` keep their entry locked, and send one message per step:
recipients read, answer, fork and leave in between. `fusionee_destroy()` is one step
per cleanup, and the flush of a batch one step per message. In the interconnect each
access to the shared memory is a step. The table of services is changed and looked
through under a `spin_lock_bh` (`CCDSS.c:18-20`), so a change is one step, and the
message that follows it another.

**Abstractions.** Ids are model values and never reused, as `last_id` only grows
(in `FusionLifecycle` they are the numbers the code gives out). Arguments of calls
are the number of the execution, which is also the result the handler returns: all
the properties need is whose result it is. Timeouts may expire at any moment.
`kmalloc` and `copy_from_user` succeed. `/proc`, statistics and debugging code are
left out, and so are `FUSION_BLOCK_SIGNALS` and `DEBUG_SKIRMISH_DEADLOCK`, which the
build does not define. The client library is not in the repository; the models have
of it what the kernel relies on: one thread of a fusionee reads its messages, and
answers the messages that carry a serial. The order in which a node list or a table
is walked is left open in the reactor and the pool, and fixed in an update of
services, where it makes no difference. Offsets of a FIFO are bytes in the code and
always multiples of the frame size; the model counts frames. Definitions named
"Slip" in a comment are plausible mistakes of the code; nothing uses them in the
specification, they show that each property can fail.

## 3. Runs

| run | what it explores | shows |
|---|---|---|
| `skirmish` | one skirmish, three threads of two fusionees, depth 2, two notifications, fair | the inductive invariant (type, mutual exclusion, lock counts, no lost wake-up), refinement of `RecursiveLock`; a free skirmish is taken, notified waiters come out, the dead end up holding nothing |
| `messages` | one fusionee, its dispatcher, two waiters, three messages of three kinds, fair | what is "being processed" and that `wait_processing` sees it out, order, every message read, every wait ends unless messages of its key never cease |
| `call` | one call, two callers, dispatcher and worker, three executions, in five worlds: API 3 and 8, with one-way calls, destroys, signals, results returned late and by any thread, and the owner's exit | results go to their callers, pending executions and open messages are one to one, executions are freed once, destroyed calls owe nothing, calls end, and destroys unless the call is executed for ever |
| `world` | two callers with a skirmish to depth two, a dispatcher that takes it as well and may keep it beyond the call; one world with one-way calls and destroys, one with signals; fair; 202 805 states | loans are reserved; two clients believe in one skirmish only as lender and borrower, or once it was hauled; callers get it back at their depth; nobody sleeps on what is free for him; a dispatcher is never stuck behind its caller |
| `property` | one property, a thread of the master and two of another application, depth 2, fair | the inductive invariant (type, what clients believe, no lost wake-up), refinement of `RecursiveLock`; waits for a purchase end, a holdup frees |
| `ref` | two applications on two references, one on three, two that fork; counts to 1 and 1 global, fair | the counts add up, locked is zero, each zero reported once and noticed, the dead hold nothing |
| `broadcast` | a reactor with one or two channels and up to two dispatches, or one to three pools, with two or three fusionees, in thirteen worlds: detaches, exits, forks, destroys, failing sends, two dispatchers; fair; 186 016 states | a reactor's call comes after the last recipient, once, and does come; nodes are present; everybody attached ends up with the size, in the order of the messages; pools are disjoint |
| `lifecycle` | three processes, two of which comply with a third's version, in six worlds: forced slaves, closes, exits, repeated enters, kills by id and of all with each timeout, handled signals, a fork; fair; 49 652 states | the inductive invariant, enters return, kills return |
| `interconnect` | two CPUs with a task and a service each, two calls, FIFOs that hold two frames, two starts of the slave; fair; 533 349 states | both FIFOs are bounded queues, they are emptied, the tables agree when all is quiet |
| `call_freed`, `world_hauled`, `ref_fork` | | violations, section 5 |

**Bounds.** One skirmish, one call and one reactor are enough for the questions
asked: no handler relates two entries of a kind, except the loops over all
skirmishes, which treat each by itself (and the proofs are for any number), and the
dispatch callback, which behaves differently when its reactor is the only one of the
table (`alone`). Three threads are an owner, a sleeper and one who interferes; two of
them share a fusionee, so that cleanup by thread and by fusionee differ. Depth 2
separates "the last dismiss" from the others and makes a lost depth visible. Two
notifications let one come before and one after a waiter's own. Three queued messages fill
a batch and leave a rest. Three executions of two callers leave one pending, one
answered and one interrupted; `SerialMod = 3` makes the serial wrap over 0 with them.
That no execution stays pending for a whole round of serials is a guard
(`SerialIsFresh`) which stands for 2^32 calls. `MaxDepth`, `MaxNotify`,
`MaxCount`, `MaxAttach`, `MaxDispatch`, `MaxId` cap the code's counters. `MaxQueued`
bounds a queue, not what is sent: three messages at a time, for ever. `MaxCount` does
end the stream of calls, and with it what `DestroyReturns` exempts. In the modules of calls the variable `dev`, chosen at the beginning from
`Devs` and never changed, is the kind of world: the API version, and what the
environment does (`env`); `start`, from `Starts`, is the same for references (ids in
use, threads, whether applications fork), for broadcasts and for the lifecycle. A
property that does not hold in each says so itself, and section 5 says what breaks it
beyond. Two references with two applications have every pair of handlers race, and a
reference that inherits from the other with owners of its own; three references give
a chain, for what travels past one inheritor to the next. A count of 1 per fusionee
and one global count suffice to tell 0, 1 and 2 apart. `ReportsMod` = 2 tells one
report from none, and, since a step makes at most one per reference, from any number
a step can make. The age of a purchase matters only against HZ/10 and HZ, so it has
three classes, and goes from one to the next at any moment. Two dispatches of a
reactor overlap when the first waits for its recipients; a third fusionee is there to
be a recipient who leaves while another reads, or a child. Three pools can leave a
hole between two others; `ShmSize` = 12 with granules of 2 makes the region too small
for some of them. Three processes are a killer, a target, and one whose exit or
version interferes; in the world with a fork the third is the child. A FIFO of two
frames is empty, full and in between, and its offsets wrap after three writes; two
calls can register and free one service or one each, and overlap with the update
that a start asks for.

**Deadlock** is checked in `skirmish` and `property`. The other worlds really stop:
when the bounded number of messages, executions or calls is used up, when the file
is released, when all processes have gone, or when a client keeps a lock or a
reference.

**Fairness.** Weak fairness of the steps of a woken thread (the scheduler runs
it), of a thread that is inside the kernel and not asleep, and of the release of
a file whose threads are gone. For `property`, also of timers and of the
delivery of SIGKILL. For `messages`, `call` and `broadcast`, also of the client's
dispatch loop: it reads again with room for at least one message, and its
handlers return (without `"defer"`, before it reads on). For `lifecycle`: a process
that was signalled exits or handles the signal; timers fire and a master unblocks its
world, both strongly, as a kill may wake up in between and a master be signalled. For
`interconnect`: a CPU goes on with what it has begun and takes its interrupts.
Clients are not assumed to unlock, call, attach, close or notify anything, nor a CPU
to start or stop.

## 4. Theorems

All are proved for any sets of threads, fusionees, entries, processes, tasks and
services and for any bounds, from the assumptions the modules declare (some sets whose
members are counted or listed are finite) and no others, except where a theorem states
its own.

**The skirmish** (`FusionSkirmish_proofs`; `Spec` is a world without calls):

* `SkirmishTypeCorrect`: `TypeOK`,
* `SkirmishMutualExclusion`: `MutualExclusion`,
* `SkirmishLockCount`: `LockCountIsHeld`,
* `SkirmishNoLostWakeup`: `NoLostWakeup`,
* `SkirmishIsRecursiveLock`: `Spec` implements `RecursiveLock!Spec`,

all from `SkirmishInvariant`, the inductive invariant `IInv`, which the run `skirmish`
checks too. Mutual exclusion speaks of `held`, the clients' view, and says nothing
of the fields of the entry, so it is far from inductive. `IInv` ties them together:
`held` of a live thread is the count of the lock it owns and 0 otherwise
(`HeldCoherent`); an owned lock is live, has its owner's fusionee and a positive
count (`OwnerCoherent`); a thread inside one of the three loops does not own what it
sleeps on and remembers a positive depth (`OpCoherent`); whoever is on a queue is in
a loop of that entry (`QueueCoherent`), which is what lets a woken thread find the
skirmish it thinks of; and nothing is lent (`NothingLent`), as there are no calls.
There is one lemma per action with one step per conjunct.

In the refinement the depth of a lock is `lock_count` while it is owned, what is
parked is the count a waiter remembers, the dead are the threads that have exited.
Each action is one step of the lock: an uncontended prevail, a swoop and the end of a
contended prevail acquire, a recursive one enters, a dismiss leaves, a wait parks and
its relock, at the depth it gave up, unparks; sleeping, waking, notifying and timing
out are stutters. `OwnerCoherent` makes a count of an unowned lock irrelevant and
`OpCoherent` the parked depth positive; without them the mapping would not exist.

**The property** (`FusionProperty_proofs`):

* `PropertyTypeCorrect`: `TypeOK`,
* `PropertyHeldIsLocked`: `HeldIsLocked`, what return values let a live thread believe
  is what the kernel has recorded, so leases and purchases exclude each other,
* `PropertyNoLostWakeup`: `NoLostWakeup`,
* `PropertyIsRecursiveLock`: `Spec` implements `RecursiveLock!Spec`,

from `PropertyInvariant`. Its `IInv` adds to these that the five fields of an entry
agree (`OwnerCoherent`: held means live, in a mode, counted, with the owner's
fusionee; free means none of these), which the separate assignments of `lease`,
`cede` and `holdup` must keep, and that whoever waits is in the loop of its entry,
does not own it and has a timer if it met a purchase (`WaitCoherent`), without which
a woken thread could take a property twice.

**The lifecycle** (`FusionLifecycle_proofs`): `LifecycleInvariant`, `Spec => []IInv`.
The six parts of `IInv` need each other. That ids are unique needs every id to be at
most `last_id`, and that none outlives the world, so `refs = 0` must mean a fresh
world: for that `refs` must really count the fusionees (`RefsAreFusionees`). That a
thread which comes back from `enter_wait` finds the world it went to sleep in needs
its file to be open (`CallsAreOpen`), hence its fusionee to be counted. The step that
takes the most is `Release` of the last fusionee: nobody may be in a call then, nor
have an id. The count is a cardinality, and `FS_AddElement` and `FS_RemoveElement` of
the library say how open and release change it.

**The FIFO** (`CCDSS_proofs`): `FifoSpecInv`, and `FifoRefinement`, that each FIFO
implements `BoundedQueue` for any number of frames. The queue is what lies between
the offsets, modulo the size; a write becomes visible when its offset moves, a read
when the reader's does. For these to be a put and a get the invariant must say that
what each side saw when it looked still holds when it acts (`LocalsAreFresh`): the
reader's frame cannot be overwritten, since the one free frame keeps the writer away
from it, and the writer's room cannot shrink. That is the whole argument for there
being no lock. The modular arithmetic is in a few lemmas of its own.

**The directory** (`CCDSS_proofs`): `DirectoryInv`, the types together with the FIFOs'
invariant; `DirectoryUsesFifos`, every step of tasks, loader, interrupts and softirqs
is a step of the FIFOs or leaves them alone (`Spec => FifoSpec`); and from these
`DirectoryQueues`, that the FIFOs under the directory are bounded queues.

`DirectoryAgrees` is `TablesAgree`. That property looks at quiet moments only, so its
invariant must say what will be known when all that is on its way has been handled.
What is on its way to a CPU is `Air`: the queue of its FIFO and the frame being
written. `Told(q, s, b)` is what a table that has s, or not, will say of s after the
messages of q: the last of them about s decides. For a service of the master the
slave's table, after the air, the update the master is sending, and the message its
owner has still to send, says what the master's table says, except that an `Add` may
be missing while the slave is down or its question for the table is unanswered
(`MasterAgrees`): then the update will bring it. For a service of the slave, the
master's table after what is on its way says what the slave's says, once it was
started (`SlaveAgrees`). `AgreeInv` claims this for runs that lost nothing. It rests on
what the stages allow (`StageInv`: who is idle, asks and runs when), on a task having
one message at most, which says what its table says (`CallInv`), on which messages
travel which way (`AirInv`), and on the first start asking before it tells
(`OnceInv`): an update that crossed an announcement of the slave would repeat it too
late, as it does after a restart.

**Reactors and pools** (`FusionBroadcast_proofs`), the four safety properties of the
run `broadcast`, for any crowd of fusionees with any family tree. `TypeInv` keeps every
variable in its range; each theorem adds an invariant of its own for its part of the
state:

* `PoolsSafe`: `PoolsAreDisjoint`. `AddrInv` says that `addr_base` is above the end of
  every live pool, guard page included, which needs the alignment of `NextBase` never
  to round down and `Destroy` to take the greatest of what is left.
* `NodesSafe`: `NodesArePresent`. `NodeInv` adds that a fusionee that forks is listed
  (`ForksAreListed`; a thread in the middle of a fork would otherwise give a node to
  a fusionee that has gone) and that who is not listed has only dead threads.
* `ToldSafe`: `LastToldIsSize`. What a fusionee was told last is what it will have read
  when its queue is empty (`LastTold`), so sending the size and handing it over are
  different steps: a message changes what will be read last, and a read, of any portion
  of the queue, does not (`ReadLearns`), whereas an ioctl that hands out a size changes
  it only if nothing of the pool is unread. `ToldInv` adds that the pool of a dispatch under way is
  locked by it and that its thread still has its number (`PoolDispatching`), so that
  nobody attaches or forks behind the back of a dispatch.
* `CalledSafe`: `CalledAfterAll`. `CallInv` is a conservation law: each fusionee holds
  at most one message of a dispatch, in one of three hands, queued, with its reader or
  taken out to be called back (`HeldOnce`, `HandledIsKept`), and while the reactor
  lives the count of a dispatch is the number of fusionees that hold one, plus the
  sends that failed (`CountIsOut`). That the count reaches zero once is then a matter
  of cardinalities. The dispatch that is being sent is the last one and its remaining
  recipients hold nothing of it (`Dispatching`); the lock of the reactor keeps
  callbacks off it, without which the count could pass through zero too early.

**The calls** (`FusionCall_proofs`), the safety of the run `call`, for any fusionees,
threads and calls:

* `CallTypes`: `TypeOK`,
* `FreedSafe`: `FreedOnce`,
* `ResultSafe`: `ResultIsOwn`,
* `PendingSafe`: `PendingIsUnanswered`,
* `DestroyedSafe`: `DestroyedOwesNothing`.

`TypeInv` and `FreeInv` are inductive together, and `MatchInv` on top of them.
`FreeInv` says who may touch an execution. A thread between the two halves of a
handler has the lock of its call, and what it found under that lock still holds
(`Locked`); no two callers wait for one execution (`Alone`); the list of a call falls,
none on it is executed, serials on it differ, and a call that is not there has none
(`Listed`). An execution has one who finds it on the list and one who waits for it,
and each frees it at most once, so it is freed at most as often as it has lost one of
the two (`Budget`). This much holds in every world and bounds `frees` by 2; that
`free_all_executions()` really frees twice is what `call_freed` shows. While owners
stay, a caller that is awake finds its execution off the list, and its
`execution->caller` set until it gives up (`Freeing`): the return that frees an
execution saw `caller` cleared under the lock, and then nobody waits. That none is
forgotten (`Keeping`) holds in orderly worlds only; section 5 has the interrupted
caller that frees nothing.

`MatchInv` says whose result it is. A fusionee has messages in hand, unread or
unanswered, in the order they were sent, the unanswered before the unread, each of a
call it owns (`InTurn`); and those that want an answer are one to one with the
executions on the lists of its calls, with the same serial (`Asked`). Before API 4 a
return takes the oldest pending execution and clients answer in order: were an older
one pending than that of the message, its own message would come first. Since API 4
it takes the one with the serial of the message, of which there is one. A read keeps
`InTurn` since it picks messages without changing their order and appends to what is
owed only what was ahead of the rest; it drops only messages that want no answer. A
destroy finds an empty list under the lock, and by `Asked` nothing is then owed.

What a read keeps of a batch (`Picked`) is a recursive function. Its meaning, `Picks`,
is proved, in `FusionCall_proofs` and as far as it needs it in
`FusionBroadcast_proofs`, by induction over the set of lengths for which it holds
(`Induction`, from the well-foundedness of `<` on the numbers), which needs no operator
as an argument.

**References** (`FusionRef_proofs`), for any number of references and of finitely many
fusionees:

* `RefTypes`: `TypeOK`,
* `RefCounts`: `CountsAddUp`,
* `RefLocked`: `LockedIsZero`,
* `RefReported`: the action property `ZeroIsReported`, with forks too,
* `RefNotNegative`: no reference that exists has a negative count unless applications
  fork (`ref_fork` shows that they then may).

`IInv` is `CountsAddUp` and `LockedIsZero` with `ShapeInv`, what a step needs to find the
inheritors: they exist, and so does what they inherit from (`EntriesAgree`), and there
is a rank that falls along `inherited` (`Forest`), so that `Below(r)`, those a change of r
travels to, contains r and never what r inherits from. With a circle a change would
come back and be counted twice. A new inheritance links a root r to one that is not
below r; raising the ranks below r keeps the forest (`ForestGrows`). The sums over the
fusionees are folds; that one changed summand changes the sum by as much, and that a
sum of zero has no summand but zero, are lemmas proved by induction on the size of
the set (`SumIs`, `SumChanges`, `SumOfNats`). A lock needs a total of zero, and by
`CountsAddUp` and `RefNotNegative`'s argument, induction on the rank, a zero total
means that nobody holds anything of his own; that is what makes `LockedIsZero` hold.

**Calls and skirmishes together** (`FusionWorld_proofs`):

* `WorldUsesCalls`: `Spec => C!Spec`, so what is proved of the calls holds here,
* `LoansReserved`: `LentIsReserved`,
* `SharedSafe`: `SharedOnlyByLoan`,
* `LoansComeBack`: `CallKeepsLocks`,
* `WorldNoLostWakeup`: `NoLostWakeup`,
* `WorldLockTypes`: the types of the skirmishes, without signals.

Those about skirmishes have two hypotheses, each because the code breaks the property
without it (section 5): `~UseWait`, nobody waits for a condition, since a waiter takes
back what is reserved for another; and `[]NotLentTwice`, the assertion of
`skirmish.c:682`, after whose failure the first loan is forgotten. `AssertionHolds`
discharges the second where no dispatcher calls on (`Reader[f] \notin Callers`, as in
the run `world`), and `WorldSafe` is then the four properties of every reachable state.

The inductive invariant is about what a thread may dismiss, now or when its call is
over (`Claim`): the count of the lock it owns, or the count it has lent. What a client
believes to hold is never more than its claim, and equals it without signals
(`HeldInv`); a signal leaves a loan with its lender, who may find it taken and given
back by another. Who was hauled believes without a claim, and is left out of that:
`HauledInv` says that he is a dispatcher, owns and lends nothing of the skirmish, and
stays so until he takes it again or it is destroyed. Two clients can then believe in
one skirmish only as lender and owner, or one of them is hauled. That the owner of a
lent skirmish is the dispatcher of the callee (`LentIsReserved`) is kept by `prevail` and `swoop`, which ask who the dispatcher is;
but a fusionee gets its dispatcher with its first read, and could make an owner of
another thread a stranger to the loan. It does not: a dispatcher is never replaced
(`DispatchersInv`), and as long as there is none, nobody is let in. Nor does it make
sleepers wake too late (`NoLostWakeup`), as the one who may now take the skirmish is the
reader itself, and awake. `LoanInv` says
that a thread that sleeps in a call owns nothing it has lent, so that reclaiming does
not overwrite a count of its own. The proof found an error of the model: a caller
that is itself the dispatcher of the callee, as one-way calls and API 3 allow, gives
up the loan to itself, and keeps what it holds when it returns.

**The message queues** (at the end of `FusionBroadcast_proofs`, over its instance of
`FusioneeMessages`, for any fusionees and threads):

* `QueuesInOrder`: `InOrder`,
* `QueuesWaitOut`: `WaitsOut`,
* `BroadcastUsesQueues`: reactors and pools use the queues as they are meant to be, so
  that broadcasts come in order (`BroadcastInOrder`); `CallsUseQueues`, in
  `FusionCall_proofs`, says so of calls, whose destroys are what waits for messages.

Both properties are about single steps but need an invariant: a reader in the loop of a
blocking read has nothing in hand (`ReaderIsDone`), otherwise the batch it reads next
would go before one that is still in work; and each tracked message in the
dispatcher's hands is in `prev_msgs` (`WorkIsKept`), where alone `wait_processing` looks
for it. A message that is not tracked is forgotten once it is read, so nobody can wait
for it.

**Model-checked only**: liveness (the prover has neither liveness under fairness nor
`ENABLED`).

## 5. Where the code and what is said of it differ

Three runs have one property each, which TLC refutes; the trace is the argument.

* `call_freed`: when the owner of a call exits, `free_all_executions()` frees executions
  of callers which use and free them once more when they wake.
* `world_hauled`: `fusion_skirmish_reclaim_all()` has
  `FUSION_ASSUME(skirmish->lock_pid == 0)` (`skirmish.c:721`), which "will fail if B did
  not unlock properly and the lock is hauled to A again" (`ChangeLog:341`). It also fails
  when B did: once the result is returned, and until the caller runs, the skirmish is
  still lent, and the dispatcher may take it for something else. The caller's reclaim
  overwrites the lock, tells nobody, and both go on as owners. In the run dispatchers
  hold nothing borrowed when they return a call (`GivesBack`).
* `ref_fork`: `fork_local()` raises the parent's `LocalRef` without `ref->local`; when
  the parent is gone the count is below zero (`doc/fusion.tmpl:628`: "Counts must be
  0 or higher"), and a total of zero may be passed unseen.

The following were met while modelling. The conditions of properties leave them out,
or what follows them is undefined.

*Calls.* `fusion_call_return()` to an interrupted caller (`call.c:285-290`) frees the
execution without a wake-up, and a thread in `fusion_call_destroy()` that sleeps on it
is never woken, though "this will destroy the call, and unlock any pending execute"
(`doc/fusion.tmpl:611`); with it, a caller interrupted between the removal of its
execution and its wake-up frees nothing (`call.c:229-232`): `FreedOnce`,
`CallReturns` and `DestroyReturns` name `Orderly` worlds. The assertion at
`call.c:301` can fail, as the FIXME above it fears: the caller clears
`execution->caller` without the lock of the call. `fusion_call_destroy()` takes a call
apart while a thread that has found it in the table waits for its lock (`LockBlocks`,
`DestroyFinish`, `LockGranted`). One-way calls may be read after their call is
destroyed (`call.c:329-335`), and before API 4 they take other callers' results
(`call.c:315` knows), which `Matched` excludes.

*Skirmishes.* A waiter that takes its skirmish back looks at `lock_pid` alone
(`skirmish.c:532`), so it can get one that is reserved for a dispatcher
(`ChangeLog:337`); `UseWait = TRUE` and `MaxNotify = 1` in `MCWorld.cfg` show it as a
violation of `LentIsReserved`. A dispatcher that has borrowed a skirmish and makes a
synchronous call of its own fails `FUSION_ASSERT(skirmish->transfer_to == 0)`
(`skirmish.c:682`); `Callers = {t1, r1}` there shows it as a violation of
`NotLentTwice`, which the run does not check as it stands: where no dispatcher calls,
`AssertionHolds` proves it. A signal that ends a call returns without
`reclaim_all` (`call.c:229`) and leaves the locks lent: `CallKeepsLocks` is about
worlds without signals. A dispatcher from which a skirmish was hauled goes on as if it
held it, until it takes it again: `SharedOnlyByLoan` and `CallKeepsLocks` say by name
who that may be (`hauled`), and that nobody but a dispatcher is ever deceived so; they
do not say that it does not happen. Loans are not explored together with threads that
end (`skirmish.c:653`), nor is a client that takes its skirmish by another ioctl before
it resumes an interrupted wait (`EIO`, `skirmish.c:476`).

*Messages.* `fusionee_wait_processing()` looks anew, each time it wakes, for any message
of the key, not for those there were when it began (`fusionee.c:460-501`): while one-way
calls of it keep coming, it never returns, and neither does the destroy that waits in
it. `WaitEnds` and `DestroyReturns` exempt such streams.

*References.* `CountsAddUp` and `LockedIsZero` need applications that do not fork,
after `ref_fork`. A locked reference holds no count of its own, but its total may
still change, by inheritance (`ref.c:374`, `553`), though "the counts are not
modifiable anymore"; `LockedIsZero` says what is left of that.

*Properties.* `PurchaseIsBounded` stops where a lease begins: a lease is waited for
without a timer, and nothing ends the lease of a thread that has ended while its
application lives on, as the flush of a thread cedes no properties. A forked child that
keeps the file of a dead application open, and so its properties locked, is not modelled.

*Reactors.* "The call will always execute" (`doc/fusion.tmpl:1098`), but a recipient
counts before its message is sent, and when the send fails, because the fusionee has
just left the list or a signal came, nothing counts it down (`reactor.c:353`); the
call is never executed and the dispatch never freed. `DispatchIsCalled` is about
dispatches whose messages were all sent. A callback that comes after its reactor is
gone finds the dispatch only if no other reactor is in the table: the loop leaves its
variable pointing at the last one, not at NULL (`reactor.c:291`), and the dispatch
leaks. A detach from a channel that was never attached makes its count -1, which
counts as attached (`reactor.c:234`).

*Lifecycle.* An enter that is refused for its version returns with `enter_lock` down
(`fusionee.c:234`, `241`), and from then on every enter and unblock of the world waits
for good; `EnterReturns` excludes these worlds by `enter_lock = 1`. Kill compares the
`mm` of processes with the one a fusionee had when it opened the device
(`fusionee.c:576`), so a child that still has the file of a target open is not
signalled and keeps an infinite kill from returning; `KillReturns` names worlds
without forks, and without processes that handle their signals. A kill waits
until every target has gone, where `doc/fusion.tmpl:377` says "until at least one
fusionee is terminated"; and with a signal that terminates nobody it returns
ETIMEDOUT, where line 379 says "this ioctl will not return".

*Interconnect.* After a resume the update tells the slave of services it had itself
registered before it was suspended; with two starts the tables may disagree on the
slave's own services for good, which `TablesAgree` exempts by `starts = 1`. A FIFO
that filled up before its reader started is never read: no write succeeds, so none
raises the interrupt (`Deaf`); and a resume whose request for an update meets such a
FIFO fails altogether. A full FIFO drops an announcement, and `MV_CC_DSS_Reg()`
returns success (`CCDSS.c:264`): `TablesAgree` is about runs in which nothing was
lost. The request for an update is sent before `open_softirq()` (`main.c:346`); an
answer that is there before it runs a softirq without an action, which the model has
as the stage `"oops"`.

*Pools.* `fusion_shmpool_attach()` and the dispatcher's own dispatch hand out the size at
once, past the queue. A fusionee that dispatches, or attaches anew, with a message of
the pool unread reads the older size afterwards and keeps it until another dispatches
again; `LastToldIsSize` exempts it for that time (`crossed`), and so does not promise
the order of dispatches to those who dispatch themselves. It also leaves out worlds in
which a signal ends a send, whose result `fusion_shmpool_dispatch()` ignores, and
children of a fork: what they know is what their parent's memory says, which the model
does not follow.

## 6. Not modelled

* Upstream packages (BlueZ, BusyBox, coreutils, D-Bus, ifplugd, libdaemon, LZO,
  module-init-tools, mtd-utils, mainline Linux, eCos), which are by far the most of
  the repository; and `linux-fusion-8.0.3`, an older copy the Makefile does not build.
* The device drivers of the SoC, whose behaviour is that of registers, and its shared
  memory driver, a thin layer over an allocator.
* Of Fusion: `mmap`, `/proc`, entry infos and permissions, the copies of arguments.
  `notify_count` wraps after 2^32 notifications within one wait; not modelled either.
* Of the interconnect: frames for user processes (netlink), the functions without
  callers (`ReadN`, `WriteN`, `ReadDiscard`), and `Inquiry` and `GetList`, which only
  read a table. The second CPU's own sources are not in the repository; the master is
  assumed to run the same OSAL files. It starts once and has cleared the FIFOs when
  it sets the start bit (`ICCNet.c:51-58` does these in the other order, within one
  step of the model).

Assumptions about clients: a dispatcher does not destroy calls in its own handlers
(`FUSION_ASSUME`, `fusionee.c:493`). The thread that reads a fusionee's messages is
fixed. A process opens the device once at a time. Clients do not let references
inherit in a circle, in which `propagate_local()` would lock an entry twice; the
semaphores of a tree of references are taken as one, without the signal that makes
`propagate_local()` go on without. Pids are not reused, and `jiffies` does not wrap
around. A watch is counted as reported when its message is sent: what then becomes of
the call belongs to `FusionCall`. Each service is registered and freed by one task.

## 7. Plan

What would come next, in this order:

1. An abstract specification of references, a set of holders that reports its
   emptiness once, which `FusionRef` without fork implements.
2. The semaphore of each entry of a tree of references as a step of its own, for the
   signal in `propagate_local()`.
