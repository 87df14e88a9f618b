---------------------------- MODULE FusionReactor ----------------------------
(***************************************************************************)
(* A reactor (linux-fusion-8.1.1, reactor.c): fusionees attach to its      *)
(* channels, a dispatch sends a message to each of them, and when a call   *)
(* is set it is executed after the last recipient is done with its         *)
(* message.  Entries of the table share nothing, so there is one reactor.  *)
(*                                                                         *)
(* dispatch sends one message after the other with the reactor locked;     *)
(* the recipients read, and leave, meanwhile.  The kernel calls back       *)
(* (dispatch_callback) when a message has left the hands of its recipient, *)
(* see FusionBroadcast.                                                    *)
(***************************************************************************)
EXTENDS Integers, Sequences, FiniteSets, Functions

CONSTANTS
  Fusionees, Threads, Fid, Reader, None,     \* as in FusioneeMessages
  Keys, Message, MaxQueued,
  Channels,      \* the channels in use, close enough to share an allocation
  MaxAttach,     \* bound on the count of a channel (an int in the code)
  MaxDispatch    \* bound on dispatch_count (an int in the code)

VARIABLES
  listed, messages, prev_msgs, dispatcher_pid, wait, qop, handling,
  reactor,         \* "unborn", "live", "gone"
  destroyed,
  nodes,           \* the nodes: per attached fusionee its count per channel
  call_id,         \* whether a call is set
  dispatch,        \* the ReactorDispatch objects, by dispatch_count
  dispatch_count,
  rlock,           \* the thread that holds the semaphore between two steps
  op               \* per thread: the ioctl it is in, who a dispatch has
                   \* still to send to, and which dispatch it is

queueVars   == <<listed, messages, prev_msgs, dispatcher_pid, wait, qop, handling>>
nodeVars    == <<reactor, destroyed, nodes, call_id>>
dispVars    == <<dispatch, dispatch_count>>
reactorVars == <<nodeVars, dispVars, rlock>>

Q == INSTANCE FusioneeMessages

\* st: "none" has no call to execute; "freed" is after kfree().  lost, which
\* the code does not have, counts the messages it did not get sent.
ReactorDispatch ==
  [st: {"unused", "none", "open", "freed"}, count: Int, executed: 0..MaxDispatch, lost: Nat]
NewDispatch(st) == [st |-> st, count |-> 0, executed |-> 0, lost |-> 0]

Idle(t) == op[t].at = "user"
Lockable == reactor = "live" /\ rlock = None

Init ==
  /\ destroyed = FALSE
  /\ nodes = <<>>
  /\ call_id = FALSE
  /\ dispatch = [n \in 1..MaxDispatch |-> NewDispatch("unused")]
  /\ dispatch_count = 0
  /\ rlock = None

New ==
  /\ reactor = "unborn"
  /\ reactor' = "live"
  /\ UNCHANGED <<destroyed, nodes, call_id, dispVars, rlock>>

-----------------------------------------------------------------------------
\* fusion_reactor_attach(); EIDRM when destruction is pending.
Attach(f, ch) ==
  /\ Lockable /\ ~ destroyed
  /\ f \in DOMAIN nodes => nodes[f][ch] < MaxAttach
  /\ nodes' = [g \in DOMAIN nodes \cup {f} |->
       [c \in Channels |-> (IF g \in DOMAIN nodes THEN nodes[g][c] ELSE 0)
                           + (IF g = f /\ c = ch THEN 1 ELSE 0)]]
  /\ UNCHANGED <<reactor, destroyed, call_id, dispVars, rlock>>

\* Slip: a detach leaves the destruction to somebody else.
SetNodes_Stays(ns) == nodes' = ns /\ UNCHANGED reactor

\* The nodes are ns, and a reactor that was destroyed goes with the last.
SetNodes(ns) ==
  /\ nodes' = ns
  /\ reactor' = IF destroyed /\ DOMAIN ns = {} THEN "gone" ELSE reactor

Without(f) == Restrict(nodes, DOMAIN nodes \ {f})

(* fusion_reactor_detach(); EIO without a node.  The count of a channel    *)
(* may go below zero: not being attached to it is no error.                *)
Detach(f, ch) ==
  /\ Lockable /\ f \in DOMAIN nodes /\ nodes[f][ch] > -1
  /\ LET less == [nodes EXCEPT ![f][ch] = @ - 1] IN
       SetNodes(IF \A c \in Channels : less[f][c] = 0 THEN Without(f) ELSE less)
  /\ UNCHANGED <<destroyed, call_id, dispVars, rlock>>

\* fusion_reactor_detach_all() of a fusionee that is being destroyed.
DetachAll(f) ==
  /\ reactor = "live" => rlock = None
  /\ IF reactor = "live" THEN SetNodes(Without(f)) ELSE UNCHANGED <<nodes, reactor>>
  /\ UNCHANGED <<destroyed, call_id, dispVars, rlock>>

\* fusion_reactor_fork_all(), for an f that has no node yet.
ForkAll(f, from) ==
  /\ reactor = "live" => rlock = None
  /\ nodes' = IF reactor = "live" /\ from \in DOMAIN nodes
              THEN [g \in DOMAIN nodes \cup {f} |-> IF g = f THEN nodes[from] ELSE nodes[g]]
              ELSE nodes
  /\ UNCHANGED <<reactor, destroyed, call_id, dispVars, rlock>>

SetDispatchCallback(set) ==
  /\ Lockable /\ ~ destroyed
  /\ call_id' = set
  /\ UNCHANGED <<reactor, destroyed, nodes, dispVars, rlock>>

\* fusion_reactor_destroy(): at once, or with the last node.
Destroy ==
  /\ Lockable /\ ~ destroyed
  /\ destroyed' = TRUE
  /\ reactor' = IF DOMAIN nodes = {} THEN "gone" ELSE reactor
  /\ UNCHANGED <<nodes, call_id, dispVars, rlock>>

-----------------------------------------------------------------------------
\* The nodes a dispatch sends to: a count below zero counts as attached.
Recipients(sender, ch) == {f \in DOMAIN nodes : f # sender /\ nodes[f][ch] # 0}

\* fusion_call_execute() of the call, and kfree().
Execute(d) == [d EXCEPT !.executed = @ + 1, !.st = "freed"]

(* fusion_reactor_dispatch() up to its loop.  With self the dispatcher has *)
(* no id, and sends to its own fusionee as well.                           *)
DispatchBegin(t, ch, self) ==
  /\ Idle(t) /\ Lockable /\ ~ destroyed
  /\ dispatch_count < MaxDispatch
  /\ dispatch_count' = dispatch_count + 1
  /\ dispatch' = [dispatch EXCEPT ![dispatch_count + 1] =
       NewDispatch(IF call_id THEN "open" ELSE "none")]
  /\ rlock' = t
  /\ op' = [op EXCEPT ![t].at = "reactor", ![t].n = dispatch_count + 1,
                      ![t].todo = Recipients(IF self THEN None ELSE Fid[t], ch)]
  /\ UNCHANGED <<queueVars, nodeVars>>

ReactorMessage(n) == [id |-> "reactor", tracked |-> dispatch[n].st = "open", n |-> n]

(* One round of the loop.  The recipient counts before its message is sent *)
(* and also when it is not: it has left the list of fusionees and has not  *)
(* yet been detached, or a signal ends the wait for a lock of the queues.  *)
DispatchSend(t, f, signal) ==
  LET n == op[t].n  call == dispatch[n].st = "open" IN
  /\ op[t].at = "reactor" /\ f \in op[t].todo
  /\ op' = [op EXCEPT ![t].todo = @ \ {f}]
  /\ \/ /\ Q!Send(f, ReactorMessage(n))
        /\ dispatch' = [dispatch EXCEPT ![n].count = @ + (IF call THEN 1 ELSE 0)]
     \/ /\ f \notin listed \/ signal
        /\ dispatch' = [dispatch EXCEPT ![n].count = @ + (IF call THEN 1 ELSE 0),
                                        ![n].lost = @ + 1]
        /\ UNCHANGED queueVars
  /\ UNCHANGED <<nodeVars, dispatch_count, rlock>>

\* After the loop: nobody to wait for, and the reactor is unlocked.
DispatchEnd(t) ==
  LET n == op[t].n IN
  /\ op[t].at = "reactor" /\ op[t].todo = {}
  /\ dispatch' = IF dispatch[n].st = "open" /\ dispatch[n].count = 0
                 THEN [dispatch EXCEPT ![n] = Execute(@)] ELSE dispatch
  /\ rlock' = None
  /\ op' = [op EXCEPT ![t].at = "user", ![t].n = 0]
  /\ UNCHANGED <<queueVars, nodeVars, dispatch_count>>

-----------------------------------------------------------------------------
Counted(d) == [d EXCEPT !.count = @ - 1]

\* Slip: the callback does not wait for the dispatch to end.
Callback_Unlocked(n, alone) ==
  LET d == Counted(dispatch[n]) IN
  /\ dispatch' = [dispatch EXCEPT ![n] =
       IF reactor = "live" THEN IF d.count = 0 THEN Execute(d) ELSE d
       ELSE IF ~ alone THEN @
       ELSE IF d.count = 0 THEN [d EXCEPT !.st = "freed"] ELSE d]
  /\ UNCHANGED <<nodeVars, dispatch_count, rlock>>

(* dispatch_callback() for a message of dispatch n.  When the reactor is   *)
(* gone, the dispatch is counted down and freed only if no other is left   *)
(* in the table (alone): otherwise the variable the loop leaves behind is  *)
(* not NULL.                                                               *)
Callback(n, alone) ==
  LET d == Counted(dispatch[n]) IN
  /\ reactor = "live" => rlock = None
  /\ dispatch' = [dispatch EXCEPT ![n] =
       IF reactor = "live" THEN IF d.count = 0 THEN Execute(d) ELSE d
       ELSE IF ~ alone THEN @
       ELSE IF d.count = 0 THEN [d EXCEPT !.st = "freed"] ELSE d]
  /\ UNCHANGED <<nodeVars, dispatch_count, rlock>>

-----------------------------------------------------------------------------
TypeOK ==
  /\ reactor \in {"unborn", "live", "gone"}
  /\ destroyed \in BOOLEAN /\ call_id \in BOOLEAN
  /\ DOMAIN nodes \subseteq Fusionees
  /\ \A f \in DOMAIN nodes : nodes[f] \in [Channels -> Int]
  /\ dispatch \in [1..MaxDispatch -> ReactorDispatch]
  /\ dispatch_count \in 0..MaxDispatch
  /\ rlock \in Threads \cup {None}
=============================================================================
