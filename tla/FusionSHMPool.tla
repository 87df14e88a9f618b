---------------------------- MODULE FusionSHMPool ----------------------------
(***************************************************************************)
(* The shared memory pools (linux-fusion-8.1.1, shmpool.c): an allocator   *)
(* of address ranges for all pools of all worlds, and per pool the         *)
(* fusionees that are told when its size changes.                          *)
(*                                                                         *)
(* Two histories, which the code does not have, record what the clients    *)
(* know.  told is the size a fusionee has been given last: by attach, by   *)
(* its own dispatch, or in the last message it has read.  crossed are the  *)
(* fusionees that an ioctl gave the size while older messages of the pool  *)
(* were in their queues, and that were sent none since: they are still to  *)
(* read a size that is past, or have.                                      *)
(***************************************************************************)
EXTENDS Integers, Sequences, FiniteSets, FiniteSetsExt, Functions

CONSTANTS
  Fusionees, Threads, Fid, Reader, None,     \* as in FusioneeMessages
  Keys, Message, MaxQueued,
  Pools,        \* the ids the world will hand out, never reused
  MaxAttach,    \* bound on the count of a node (an int in the code)
  MaxSizes,     \* the sizes pools are created with
  Sizes,        \* the sizes they are given
  ShmBase, ShmSize, PageSize, Granule        \* FUSION_SHM_BASE ..., 0x10000

VARIABLES
  listed, messages, prev_msgs, dispatcher_pid, wait, qop, handling,
  addr_base,       \* where the next pool will begin
  pool,            \* per pool: "unborn", "live", "gone"
  pool_base, max_size, next_base,
  size,
  pnodes,          \* per pool: its nodes, fusionees with their counts
  plock,           \* per pool: who holds its semaphore between two steps
  told, crossed,
  op               \* per thread: the ioctl it is in

queueVars == <<listed, messages, prev_msgs, dispatcher_pid, wait, qop, handling>>
addrVars  == <<addr_base, pool, pool_base, max_size, next_base>>
sizeVars  == <<size, pnodes, told, crossed>>
poolVars  == <<addrVars, sizeVars, plock>>

Q == INSTANCE FusioneeMessages

User == [at |-> "user", todo |-> {}, n |-> 0, pool |-> None]

Idle(t) == op[t].at = "user"
Lockable(p) == pool[p] = "live" /\ plock[p] = None
Live == {p \in Pools : pool[p] = "live"}

Init ==
  /\ addr_base = ShmBase
  /\ pool_base = [p \in Pools |-> 0]
  /\ max_size = [p \in Pools |-> 0]
  /\ next_base = [p \in Pools |-> 0]
  /\ size = [p \in Pools |-> 0]
  /\ pnodes = [p \in Pools |-> <<>>]
  /\ told = [p \in Pools |-> [f \in Fusionees |-> 0]]
  /\ crossed = [p \in Pools |-> {}]
  /\ plock = [p \in Pools |-> None]

-----------------------------------------------------------------------------
AlignUp(n, unit) == ((n + unit - 1) \div unit) * unit

\* PAGE_ALIGN, a guard page, and up to the next 64 kB.
NextBase(max) == AlignUp(addr_base + AlignUp(max, PageSize) + PageSize, Granule)

(* fusion_shmpool_new() and fusion_shmpool_construct(); ENOSPC when the    *)
(* rest of the address space is too small.                                 *)
New(p, max) ==
  /\ pool[p] = "unborn"
  /\ addr_base + max < ShmBase + ShmSize
  /\ pool' = [pool EXCEPT ![p] = "live"]
  /\ pool_base' = [pool_base EXCEPT ![p] = addr_base]
  /\ max_size' = [max_size EXCEPT ![p] = max]
  /\ next_base' = [next_base EXCEPT ![p] = NextBase(max)]
  /\ addr_base' = NextBase(max)
  /\ UNCHANGED <<sizeVars, plock>>

\* Slip: the space of the pool that goes is handed out again.
Destroy_Reuses(p) ==
  /\ Lockable(p)
  /\ pool' = [pool EXCEPT ![p] = "gone"]
  /\ addr_base' = pool_base[p]
  /\ pnodes' = [pnodes EXCEPT ![p] = <<>>]
  /\ UNCHANGED <<pool_base, max_size, next_base, size, told, crossed, plock>>

(* fusion_shmpool_destroy() and fusion_shmpool_destruct(): the next pool   *)
(* begins behind the last of those that are left.                          *)
Destroy(p) ==
  /\ Lockable(p)
  /\ pool' = [pool EXCEPT ![p] = "gone"]
  /\ \E base \in {ShmBase} \cup {next_base[q] : q \in Live \ {p}} :
       /\ base >= ShmBase /\ \A q \in Live \ {p} : base >= next_base[q]
       /\ addr_base' = base
  /\ pnodes' = [pnodes EXCEPT ![p] = <<>>]
  /\ UNCHANGED <<pool_base, max_size, next_base, size, told, crossed, plock>>

-----------------------------------------------------------------------------
Count(p, f) == IF f \in DOMAIN pnodes[p] THEN pnodes[p][f] ELSE 0
SetCount(p, f, n) ==
  pnodes' = [pnodes EXCEPT ![p] = [g \in DOMAIN @ \cup {f} |-> IF g = f THEN n ELSE @[g]]]
Remove(p, f) == pnodes' = [pnodes EXCEPT ![p] = Restrict(@, DOMAIN @ \ {f})]

\* The messages of a pool that a fusionee has not read.
Unread(p, f) == {i \in DOMAIN messages[f] : messages[f][i].id = p}

\* An ioctl gives f the size s of p.
Given(p, f, s) ==
  /\ told' = [told EXCEPT ![p][f] = s]
  /\ crossed' = [crossed EXCEPT ![p] = IF Unread(p, f) = {} THEN @ \ {f} ELSE @ \cup {f}]

\* f reads the first of its messages, in their order; the last one counts.
Learn(f) ==
  LET taken(p) == {i \in Unread(p, f) : i <= Len(messages[f]) - Len(messages'[f])} IN
  told' = [p \in Pools |->
    IF taken(p) = {} THEN told[p]
    ELSE [told[p] EXCEPT ![f] = messages[f][Max(taken(p))].n]]

\* fusion_shmpool_attach(), which returns the size.
Attach(p, f) ==
  /\ Lockable(p) /\ Count(p, f) < MaxAttach
  /\ SetCount(p, f, Count(p, f) + 1)
  /\ Given(p, f, size[p])
  /\ UNCHANGED <<addrVars, size, plock>>

Detach(p, f) ==
  /\ Lockable(p) /\ Count(p, f) > 0
  /\ IF Count(p, f) = 1 THEN Remove(p, f) ELSE SetCount(p, f, Count(p, f) - 1)
  /\ UNCHANGED <<addrVars, size, told, crossed, plock>>

(* fusion_shmpool_detach_all(): the loop holds the list of the table       *)
(* locked, and waits for the pool that is being dispatched.                *)
DetachAll(f) ==
  /\ \A p \in Live : plock[p] = None
  /\ pnodes' = [p \in Pools |-> Restrict(pnodes[p], DOMAIN pnodes[p] \ {f})]
  /\ UNCHANGED <<addrVars, size, told, crossed, plock>>

\* fusion_shmpool_fork_all(), for an f that has no nodes yet.  What the
\* parent was told before, the child was told as well.
ForkAll(f, from) ==
  /\ \A p \in Live : plock[p] = None
  /\ pnodes' = [p \in Pools |->
       IF from \notin DOMAIN pnodes[p] THEN pnodes[p]
       ELSE [g \in DOMAIN pnodes[p] \cup {f} |->
               IF g = f THEN pnodes[p][from] ELSE pnodes[p][g]]]
  /\ UNCHANGED <<addrVars, size, told, crossed, plock>>

-----------------------------------------------------------------------------
\* Slip: the pool is unlocked before the messages are sent.
DispatchBegin_Unlocks(t, p, s) ==
  /\ Idle(t) /\ Lockable(p)
  /\ size' = [size EXCEPT ![p] = s]
  /\ Given(p, Fid[t], s)
  /\ op' = [op EXCEPT ![t] =
       [at |-> "pool", todo |-> DOMAIN pnodes[p] \ {Fid[t]}, n |-> s, pool |-> p]]
  /\ UNCHANGED <<queueVars, addrVars, pnodes, plock>>

(* fusion_shmpool_dispatch() up to its loop.                               *)
DispatchBegin(t, p, s) ==
  /\ Idle(t) /\ Lockable(p)
  /\ size' = [size EXCEPT ![p] = s]
  /\ Given(p, Fid[t], s)
  /\ plock' = [plock EXCEPT ![p] = t]
  /\ op' = [op EXCEPT ![t] =
       [at |-> "pool", todo |-> DOMAIN pnodes[p] \ {Fid[t]}, n |-> s, pool |-> p]]
  /\ UNCHANGED <<queueVars, addrVars, pnodes>>

\* FSMT_REMAP; the id of the message is that of the pool.
Remap(p, s) == [id |-> p, tracked |-> FALSE, n |-> s]

\* One round of the loop; whether the message was sent nobody looks at.
DispatchSend(t, f, signal) ==
  LET p == op[t].pool IN
  /\ op[t].at = "pool" /\ f \in op[t].todo
  /\ op' = [op EXCEPT ![t].todo = @ \ {f}]
  /\ \/ /\ Q!Send(f, Remap(p, op[t].n))
        /\ crossed' = [crossed EXCEPT ![p] = @ \ {f}]
     \/ /\ f \notin listed \/ signal
        /\ UNCHANGED <<queueVars, crossed>>
  /\ UNCHANGED <<addrVars, size, pnodes, told, plock>>

DispatchEnd(t) ==
  /\ op[t].at = "pool" /\ op[t].todo = {}
  /\ plock' = [plock EXCEPT ![op[t].pool] = None]
  /\ op' = [op EXCEPT ![t] = User]
  /\ UNCHANGED <<queueVars, addrVars, sizeVars>>
=============================================================================
