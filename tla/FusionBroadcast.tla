--------------------------- MODULE FusionBroadcast ---------------------------
(***************************************************************************)
(* A reactor and the shared memory pools over the message queues of        *)
(* FusioneeMessages, with the fork and the exit of fusionees               *)
(* (linux-fusion-8.1.1, reactor.c, shmpool.c, fusionee.c).                 *)
(*                                                                         *)
(* A read or a poll takes the last batch away under the lock of the        *)
(* fusionee and flushes it without: one message after the other calls      *)
(* back into the reactor.  The exit of a fusionee takes it off the list,   *)
(* detaches it from reactor and pools, and then flushes what it has not    *)
(* read.  Its other clean-ups touch neither and are left out here.         *)
(***************************************************************************)
EXTENDS Integers, Sequences, FiniteSets, SequencesExt

CONSTANTS
  Fusionees, Threads, Fid, Reader, None,                  \* FusioneeMessages
  MaxQueued,
  Channels, MaxAttach, MaxDispatch,                       \* FusionReactor
  Pools, MaxSizes, Sizes, ShmBase, ShmSize, PageSize, Granule,  \* FusionSHMPool
  Starts        \* the kinds of world, see Start

Keys == {"reactor"} \cup Pools
Message == [id: Keys, tracked: BOOLEAN, n: Nat]

\* What the clients do and what happens to them; the entries there are at
\* the beginning, and whether the reactor is the only one of its table.
Events == {"attach", "detach", "callback", "destroy", "leave", "signal"}
Start == [env: SUBSET Events, reactor: {"unborn", "gone"}, pools: SUBSET Pools,
          parent: [Fusionees -> Fusionees \cup {None}],
          there: SUBSET Fusionees, dispatchers: SUBSET Fusionees,
          channels: SUBSET Channels, most: 0..MaxDispatch, alone: BOOLEAN]

ASSUME QueueAssumption ==
  /\ IsFiniteSet(Fusionees) /\ Fid \in [Threads -> Fusionees]
  /\ Reader \in [Fusionees -> Threads \cup {None}]
  /\ \A f \in Fusionees : Reader[f] # None => Fid[Reader[f]] = f
  /\ None \notin Threads \cup Fusionees \cup Pools
ASSUME ReactorAssumption == MaxAttach \in Nat \ {0} /\ MaxDispatch \in Nat
ASSUME PoolAssumption ==
  /\ "reactor" \notin Pools
  /\ MaxSizes \subseteq Nat \ {0} /\ Sizes \subseteq Nat \ {0}
  /\ ShmBase \in Nat /\ ShmSize \in Nat
  /\ PageSize \in Nat \ {0} /\ Granule \in Nat \ {0}
ASSUME StartAssumption == Starts \subseteq Start

VARIABLES
  listed, messages, prev_msgs, dispatcher_pid, wait, qop, handling,
  reactor, destroyed, nodes, call_id, dispatch, dispatch_count, rlock,
  addr_base, pool, pool_base, max_size, next_base, size, pnodes, plock,
  told, crossed, op,
  flushing,    \* per fusionee: the messages taken out and not yet called back
  leaving,     \* per fusionee: how far fusionee_destroy() has come
  born,        \* the fusionees that need not fork, or have
  start

queueVars   == <<listed, messages, prev_msgs, dispatcher_pid, wait, qop, handling>>
reactorVars == <<reactor, destroyed, nodes, call_id, dispatch, dispatch_count, rlock>>
tableVars   == <<addr_base, pool, pool_base, max_size, next_base, size, pnodes, plock>>
poolVars    == <<tableVars, told, crossed>>
lifeVars    == <<leaving, born>>
vars == <<queueVars, reactorVars, poolVars, op, flushing, lifeVars, start>>

Q == INSTANCE FusioneeMessages
R == INSTANCE FusionReactor
P == INSTANCE FusionSHMPool

Stages == {"no", "reactor", "pool", "flush"}
Op == [at: {"user", "reactor", "pool", "fork"}, todo: SUBSET Fusionees,
       n: Nat, pool: Pools \cup {None}]

Init ==
  /\ Q!Init /\ R!Init /\ P!Init
  /\ op = [t \in Threads |-> P!User]
  /\ flushing = [f \in Fusionees |-> <<>>]
  /\ leaving = [f \in Fusionees |-> "no"]
  /\ start \in Starts
  /\ reactor = start.reactor
  /\ pool = [p \in Pools |-> IF p \in start.pools THEN "unborn" ELSE "gone"]
  /\ born = {f \in Fusionees : start.parent[f] = None}

\* A thread in the client, of a process that has forked if it is to.
Free(t) == Q!InUser(t) /\ P!Idle(t) /\ flushing[Fid[t]] = <<>> /\ Fid[t] \in born \cap start.there
May(event) == event \in start.env

-----------------------------------------------------------------------------
ReactorIoctl(t) ==
  \/ \E ch \in start.channels : \/ May("attach") /\ R!Attach(Fid[t], ch)
                                \/ May("detach") /\ R!Detach(Fid[t], ch)
  \/ May("callback") /\ R!SetDispatchCallback(~ call_id)
  \/ May("destroy") /\ R!Destroy

PoolIoctl(t) ==
  \E p \in Pools : \/ May("attach") /\ P!Attach(p, Fid[t])
                   \/ May("detach") /\ P!Detach(p, Fid[t])
                   \/ May("destroy") /\ P!Destroy(p)

\* Ioctls that are one step, and the creation of entries.
Ioctl(t) ==
  /\ Free(t)
  /\ \/ ReactorIoctl(t) /\ UNCHANGED poolVars
     \/ R!New /\ UNCHANGED poolVars
     \/ PoolIoctl(t) /\ UNCHANGED reactorVars
     \/ \E p \in Pools, max \in MaxSizes : P!New(p, max) /\ UNCHANGED reactorVars
  /\ UNCHANGED <<queueVars, op, flushing, lifeVars, start>>

ReactorDispatch(t) ==
  /\ \/ /\ Free(t) /\ Fid[t] \in start.dispatchers /\ dispatch_count < start.most
        /\ \E ch \in start.channels, self \in BOOLEAN : R!DispatchBegin(t, ch, self)
     \/ \E f \in Fusionees : R!DispatchSend(t, f, May("signal"))
     \/ R!DispatchEnd(t)
  /\ UNCHANGED <<poolVars, flushing, lifeVars, start>>

PoolDispatch(t) ==
  /\ \/ /\ Free(t) /\ Fid[t] \in start.dispatchers
        /\ \A f \in Fusionees : Len(messages[f]) + MaxDispatch < MaxQueued
        /\ \E p \in Pools, s \in Sizes : P!DispatchBegin(t, p, s)
     \/ \E f \in Fusionees : P!DispatchSend(t, f, May("signal"))
     \/ P!DispatchEnd(t)
  /\ UNCHANGED <<reactorVars, flushing, lifeVars, start>>

-----------------------------------------------------------------------------
\* A read or a poll hands the last batch back.
Read(t) ==
  /\ Free(t)
  /\ Q!ReadSleep(t) \/ Q!ReadNow(t) \/ Q!Poll(t)
  /\ P!Learn(Fid[t])
  /\ flushing' = [flushing EXCEPT ![Fid[t]] = prev_msgs[Fid[t]]]
  /\ UNCHANGED <<reactorVars, tableVars, crossed, op, lifeVars, start>>

\* The loop of a blocking read, after the batch has been flushed.
ReadOn(t) ==
  /\ flushing[Fid[t]] = <<>>
  /\ Q!ReadWoken(t) \/ (May("signal") /\ Q!Interrupt(t))
  /\ P!Learn(Fid[t])
  /\ UNCHANGED <<reactorVars, tableVars, crossed, op, flushing, lifeVars, start>>

\* One round of flush_messages(), by the reader or by the last close().
Flush(f) ==
  /\ flushing[f] # <<>> /\ leaving[f] \in {"no", "flush"}
  /\ flushing' = [flushing EXCEPT ![f] = Tail(@)]
  /\ IF Head(flushing[f]).tracked
     THEN R!Callback(Head(flushing[f]).n, start.alone)
     ELSE UNCHANGED reactorVars
  /\ UNCHANGED <<queueVars, poolVars, op, lifeVars, start>>

-----------------------------------------------------------------------------
(* fusionee_fork(), the first ioctl of a forked child: pools first, then   *)
(* the reactors.  The parent may leave at any time.                        *)
ForkPools(t) ==
  /\ Fid[t] \in listed \ born /\ P!Idle(t)
  /\ P!ForkAll(Fid[t], start.parent[Fid[t]])
  /\ op' = [op EXCEPT ![t].at = "fork"]
  /\ UNCHANGED <<queueVars, reactorVars, flushing, lifeVars, start>>

ForkReactors(t) ==
  /\ op[t].at = "fork"
  /\ R!ForkAll(Fid[t], start.parent[Fid[t]])
  /\ born' = born \cup {Fid[t]}
  /\ op' = [op EXCEPT ![t] = P!User]
  /\ UNCHANGED <<queueVars, poolVars, flushing, leaving, start>>

\* Slip: only what the dispatcher had in hand is flushed.
Leave_DropsUnread(f) ==
  /\ May("leave")
  /\ \A t \in Threads : Fid[t] = f => P!Idle(t)
  /\ flushing[f] = <<>>
  /\ Q!Release(f)
  /\ flushing' = [flushing EXCEPT ![f] = prev_msgs[f]]
  /\ leaving' = [leaving EXCEPT ![f] = "reactor"]
  /\ UNCHANGED <<reactorVars, poolVars, op, born, start>>

(* fusionee_destroy(): off the list; then the clean-ups, with the fusionee *)
(* still locked; then what it has not given back and has not read.         *)
Leave(f) ==
  /\ May("leave")
  /\ \A t \in Threads : Fid[t] = f => P!Idle(t)
  /\ flushing[f] = <<>>
  /\ Q!Release(f)
  /\ flushing' = [flushing EXCEPT ![f] = prev_msgs[f] \o messages[f]]
  /\ leaving' = [leaving EXCEPT ![f] = "reactor"]
  /\ UNCHANGED <<reactorVars, poolVars, op, born, start>>

LeaveReactor(f) ==
  /\ leaving[f] = "reactor"
  /\ R!DetachAll(f)
  /\ leaving' = [leaving EXCEPT ![f] = "pool"]
  /\ UNCHANGED <<queueVars, poolVars, op, flushing, born, start>>

LeavePools(f) ==
  /\ leaving[f] = "pool"
  /\ P!DetachAll(f)
  /\ leaving' = [leaving EXCEPT ![f] = "flush"]
  /\ UNCHANGED <<queueVars, reactorVars, op, flushing, born, start>>

-----------------------------------------------------------------------------
Next ==
  \/ \E t \in Threads : \/ Ioctl(t)
                        \/ ReactorDispatch(t)
                        \/ PoolDispatch(t)
                        \/ Read(t)
                        \/ ReadOn(t)
                        \/ ForkPools(t)
                        \/ ForkReactors(t)
  \/ \E f \in Fusionees : \/ Flush(f)
                          \/ Leave(f)
                          \/ LeaveReactor(f)
                          \/ LeavePools(f)

Spec == Init /\ [][Next]_vars

\* A thread in the middle of a dispatch goes on.
DispatchOn(t) == ~ P!Idle(t) /\ (ReactorDispatch(t) \/ PoolDispatch(t))

(* Threads inside the kernel go on, and the readers of fusionees read on,  *)
(* with room for a message.  A reader with a batch in hand reads again     *)
(* even when nothing has come.                                             *)
Fairness ==
  /\ \A t \in Threads : /\ WF_vars(DispatchOn(t))
                        /\ WF_vars(ReadOn(t) /\ Q!Progress(t))
                        /\ WF_vars(Read(t) /\ Q!Progress(t))
                        /\ WF_vars(Read(t) /\ handling[Fid[t]] # <<>>)
  /\ \A f \in Fusionees : /\ WF_vars(Flush(f))
                          /\ WF_vars(LeaveReactor(f))
                          /\ WF_vars(LeavePools(f))

FairSpec == Spec /\ Fairness

-----------------------------------------------------------------------------
TypeOK ==
  /\ Q!TypeOK
  /\ R!TypeOK
  /\ flushing \in [Fusionees -> Seq(Message)]
  /\ leaving \in [Fusionees -> Stages]
  /\ op \in [Threads -> Op]
  /\ start \in Starts

(* "This will execute a single call after a dispatch has been performed on *)
(* this reactor and all attached fusionees have read the messages"         *)
(* (doc/fusion.tmpl:1096): not before the last recipient has handled it,   *)
(* nor before the dispatch has been performed, and only once.              *)
CalledAfterAll ==
  \A n \in 1..dispatch_count : dispatch[n].executed > 0 =>
    /\ dispatch[n].executed = 1
    /\ \A f \in Fusionees : \A m \in ToSet(messages[f] \o handling[f]) :
         ~ (m.tracked /\ m.n = n)
    /\ \A t \in Threads : ~ (op[t].at = "reactor" /\ op[t].n = n)

(* Nobody who has left stays attached, and what was destroyed while        *)
(* fusionees were attached goes with the last of them, however they leave  *)
(* (reactor.c:249, 462; doc/fusion.tmpl:1077).                             *)
NodesArePresent ==
  /\ \A f \in Fusionees : f \in DOMAIN nodes =>
       /\ f \in listed \/ leaving[f] = "reactor"
       /\ reactor = "live"
  /\ \A p \in Pools : \A f \in DOMAIN pnodes[p] :
       f \in listed \/ leaving[f] \in {"reactor", "pool"}
  /\ reactor = "live" /\ destroyed => DOMAIN nodes # {}

(* What f will think the size of p is when it has read what is queued.     *)
LastTold(p, f) ==
  LET unread == P!Unread(p, f) IN
  IF unread = {} THEN told[p][f] ELSE messages[f][Max(unread)].n

(* "DISPATCH will send a message to all attached fusionees (except the     *)
(* DISPATCH caller) to inform them about the new size" (fusion.tmpl:1243): *)
(* with what is in its queue read, in whatever portions, an attached       *)
(* fusionee takes the size for what it is, but for those a dispatch still  *)
(* has to send to, and those that attached or dispatched while messages of *)
(* the pool were in their queue: these come after the ioctl and tell of a  *)
(* size that is past, until the next dispatch of another fusionee          *)
(* (fusionee.c:340, 398-445).                                              *)
LastToldIsSize ==
  "signal" \notin start.env => \A p \in Pools : \A f \in DOMAIN pnodes[p] \cap listed :
    start.parent[f] = None =>
      \/ LastTold(p, f) = size[p]
      \/ \E t \in Threads : op[t].at = "pool" /\ op[t].pool = p /\ f \in op[t].todo
      \/ f \in crossed[p]

(* The address ranges of two pools do not meet, with a guard page between  *)
(* them, and lie within the region, whatever pools were destroyed before   *)
(* (shmpool.c:99-145).                                                     *)
PoolsAreDisjoint ==
  \A p \in P!Live :
    /\ pool_base[p] >= ShmBase
    /\ pool_base[p] + max_size[p] < ShmBase + ShmSize
    /\ \A q \in P!Live \ {p} :
         \/ pool_base[p] + max_size[p] + PageSize <= pool_base[q]
         \/ pool_base[q] + max_size[q] + PageSize <= pool_base[p]

(* Every dispatch with a call comes to execute it, while its recipients    *)
(* read on, unless one of the sends has failed (reactor.c:353) or the      *)
(* reactor has gone meanwhile: a late callback frees the dispatch without  *)
(* the call (reactor.c:291).                                               *)
DispatchIsCalled ==
  \A n \in 1..MaxDispatch :
    (dispatch[n].st = "open")
      ~> \/ dispatch[n].executed > 0
         \/ dispatch[n].lost > 0
         \/ reactor = "gone"
=============================================================================
