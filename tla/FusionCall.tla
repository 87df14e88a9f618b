----------------------------- MODULE FusionCall -----------------------------
(***************************************************************************)
(* Fusion's synchronous and one-way calls (linux-fusion-8.1.1, call.c), on *)
(* top of the message queues of FusioneeMessages.                          *)
(*                                                                         *)
(* A caller adds an execution to the call, sends a message to the owner of *)
(* the call and sleeps on the execution.  The owner's dispatcher reads the *)
(* message; some thread of the owner later returns the result, removes the *)
(* execution and wakes the caller, who frees it.  What a handler does      *)
(* under the semaphore of the call is one step, unless others can tell:    *)
(* the callee may read the message before the caller has handed over its   *)
(* skirmishes and sleeps; the caller may write to the execution, without   *)
(* any lock, before a return has woken it; and others look the call up     *)
(* while it is being destroyed.  clock and elock say who holds the         *)
(* semaphore of a call and that of the list of calls between two steps.    *)
(***************************************************************************)
EXTENDS Integers, Sequences, FiniteSets, SequencesExt

CONSTANTS
  Fusionees, Threads, Fid, Reader, None,   \* as in FusioneeMessages
  Calls,      \* the ids the world will hand out, never reused
  Callers,    \* the threads that execute calls
  Owners,     \* the threads that create, dispatch, return and destroy them
  MaxCount,   \* bound on call->count (an unsigned int in the code)
  SerialMod,  \* serials are counted modulo this (2^32 in the code)
  Devs        \* the kinds of world: see Dev

\* Clients make one-way calls; callers and destroyers receive signals; an
\* owner destroys its calls, or leaves the world; a dispatcher leaves
\* results to be returned later by any thread of its fusionee.
Events == {"oneway", "signal", "destroy", "leave", "defer"}

\* dev->api.major as the master enters it, and what the environment does.
Dev == [api: {3, 4, 8}, env: SUBSET Events]

ASSUME QueueAssumption ==
  /\ Fid \in [Threads -> Fusionees]
  /\ Reader \in [Fusionees -> Threads \cup {None}]
  /\ \A f \in Fusionees : Reader[f] # None => Fid[Reader[f]] = f
  /\ None \notin Threads \cup Fusionees \cup Calls
ASSUME CallAssumption ==
  /\ Devs \subseteq Dev /\ Callers \cup Owners \subseteq Threads
  /\ MaxCount \in Nat \ {0} /\ SerialMod \in Nat \ {0, 1}

VARIABLES
  listed, messages, prev_msgs, dispatcher_pid, wait, qop, handling,
  state,       \* per call: "unborn", "live", "gone"
  owner,       \* call->fusion_id
  count, serial,
  executions,  \* per call: its list of executions, newest first
  exec,        \* the FusionCallExecution objects
  ewait,       \* per execution: the threads asleep on execution->wait
  clock,       \* per call: who holds its semaphore between two steps
  elock,       \* who holds the semaphore of the list of calls
  dev,         \* which world this is; before API 4 a return has no serial
  cop,         \* per thread: the ioctl it is in
  owed         \* per fusionee: the messages it has read and not answered

msgVars  == <<listed, messages, prev_msgs, dispatcher_pid, wait, qop, handling>>
listVars == <<state, owner, count, serial, executions>>
execVars == <<exec, ewait>>
devVars  == <<elock, dev>>
lockVars == <<clock, devVars>>
vars == <<msgVars, listVars, execVars, lockVars, cop, owed>>

\* A call message.  n, which the code does not have, says which execution of
\* the call it is; it also stands for the value the handler computes.
CallMessage == [id: Calls, tracked: {TRUE}, serial: 0..(SerialMod - 1), n: 1..MaxCount]

Q == INSTANCE FusioneeMessages WITH
  Keys <- Calls, Message <- CallMessage,
  MaxQueued <- MaxCount * Cardinality(Calls)

Executions == Calls \X (1..MaxCount)
Execution == [caller: Fusionees \cup {None}, serial: 0..(SerialMod - 1),
              executed: BOOLEAN, ret: 0..MaxCount, frees: 0..2]
NoExecution == [caller |-> None, serial |-> 0, executed |-> FALSE, ret |-> 0, frees |-> 0]

COp == [at: {"user", "transfer", "execute", "return", "processing", "pending", "destroy", "lookup"},
        call: Calls \cup {None}, n: 0..MaxCount]
User == [at |-> "user", call |-> None, n |-> 0]
In(place, c, n) == [at |-> place, call |-> c, n |-> n]

Free(t) == cop[t].at = "user" /\ Q!InUser(t)
Lockable(c) == state[c] = "live" /\ elock = None /\ clock[c] = None
ExecOf(t) == <<cop[t].call, cop[t].n>>

Init ==
  /\ Q!Init
  /\ state = [c \in Calls |-> "unborn"]
  /\ owner = [c \in Calls |-> None]
  /\ count = [c \in Calls |-> 0]
  /\ serial = [c \in Calls |-> 0]
  /\ executions = [c \in Calls |-> <<>>]
  /\ exec = [e \in Executions |-> NoExecution]
  /\ ewait = [e \in Executions |-> {}]
  /\ clock = [c \in Calls |-> None]
  /\ elock = None
  /\ dev \in Devs
  /\ cop = [t \in Threads |-> User]
  /\ owed = [f \in Fusionees |-> <<>>]

-----------------------------------------------------------------------------
(* fusion_call_new()                                                       *)
New(t, c) ==
  /\ Free(t) /\ state[c] = "unborn" /\ elock = None
  /\ state' = [state EXCEPT ![c] = "live"]
  /\ owner' = [owner EXCEPT ![c] = Fid[t]]
  /\ UNCHANGED <<msgVars, count, serial, executions, execVars, lockVars, cop, owed>>

\* do { serial = ++call->serial; } while (!serial);
NextSerial(c) == LET n == (serial[c] + 1) % SerialMod IN IF n = 0 THEN 1 ELSE n

\* No execution stays pending while all the other serials are used up.
SerialIsFresh(c) ==
  \A i \in DOMAIN executions[c] : exec[<<c, executions[c][i]>>].serial # NextSerial(c)

CallMsg(c, sn) == [id |-> c, tracked |-> TRUE, serial |-> sn, n |-> count[c] + 1]

(* fusion_call_execute(): a new execution, and the message to the owner.   *)
ExecuteSync(t, c) ==
  LET n == count[c] + 1 IN
  /\ Free(t) /\ Lockable(c) /\ owner[c] \in listed
  /\ count[c] < MaxCount /\ SerialIsFresh(c)
  /\ Q!Send(owner[c], CallMsg(c, NextSerial(c)))
  /\ exec' = [exec EXCEPT ![<<c, n>>] =
       [NoExecution EXCEPT !.caller = Fid[t], !.serial = NextSerial(c)]]
  /\ executions' = [executions EXCEPT ![c] = <<n>> \o @]
  /\ serial' = [serial EXCEPT ![c] = NextSerial(c)]
  /\ count' = [count EXCEPT ![c] = n]
  /\ clock' = [clock EXCEPT ![c] = t]
  /\ cop' = [cop EXCEPT ![t] = In("transfer", c, n)]
  /\ UNCHANGED <<state, owner, ewait, devVars, owed>>

\* Slip: the call is unlocked before the caller is on the queue.
ExecuteSleep_TooLate(t) ==
  /\ cop[t].at = "transfer"
  /\ \/ /\ clock[cop[t].call] = t
        /\ clock' = [clock EXCEPT ![cop[t].call] = None]
        /\ UNCHANGED <<ewait, cop>>
     \/ /\ clock[cop[t].call] # t
        /\ ewait' = [ewait EXCEPT ![ExecOf(t)] = @ \cup {t}]
        /\ cop' = [cop EXCEPT ![t].at = "execute"]
        /\ UNCHANGED clock
  /\ UNCHANGED <<msgVars, listVars, exec, devVars, owed>>

\* Its skirmishes are transferred (see FusionWorld), the call is unlocked,
\* and the caller sleeps on the execution.
ExecuteSleep(t) ==
  /\ cop[t].at = "transfer"
  /\ ewait' = [ewait EXCEPT ![ExecOf(t)] = @ \cup {t}]
  /\ clock' = [clock EXCEPT ![cop[t].call] = None]
  /\ cop' = [cop EXCEPT ![t].at = "execute"]
  /\ UNCHANGED <<msgVars, listVars, exec, devVars, owed>>

\* FCEF_ONEWAY: no execution, and serial 0 in the message.
ExecuteOneway(t, c) ==
  /\ "oneway" \in dev.env
  /\ Free(t) /\ Lockable(c) /\ owner[c] \in listed
  /\ count[c] < MaxCount
  /\ Q!Send(owner[c], CallMsg(c, 0))
  /\ serial' = [serial EXCEPT ![c] = NextSerial(c)]
  /\ count' = [count EXCEPT ![c] = @ + 1]
  /\ UNCHANGED <<state, owner, executions, execVars, lockVars, cop, owed>>

\* The owner has just left: the execution is taken back, the serial is not.
ExecuteFails(t, c) ==
  /\ Free(t) /\ Lockable(c) /\ owner[c] \notin listed
  /\ SerialIsFresh(c)
  /\ serial' = [serial EXCEPT ![c] = NextSerial(c)]
  /\ UNCHANGED <<msgVars, state, owner, count, executions, execVars, lockVars, cop, owed>>

\* Slip: the caller relies on the callee to free the execution.
CallerWoken_NoFree(t) ==
  /\ cop[t].at = "execute" /\ t \notin ewait[ExecOf(t)]
  /\ cop' = [cop EXCEPT ![t] = User]
  /\ UNCHANGED <<msgVars, listVars, execVars, lockVars, owed>>

(* The woken caller takes the result and frees the execution.              *)
CallerWoken(t) ==
  /\ cop[t].at = "execute" /\ t \notin ewait[ExecOf(t)]
  /\ exec' = [exec EXCEPT ![ExecOf(t)].frees = @ + 1]
  /\ cop' = [cop EXCEPT ![t] = User]
  /\ UNCHANGED <<msgVars, listVars, ewait, lockVars, owed>>

\* A signal, before or after the wake-up: without any lock the caller marks
\* the execution as one that "won't be freed by caller", and returns EINTR.
CallerSignal(t) ==
  /\ "signal" \in dev.env
  /\ cop[t].at = "execute"
  /\ exec' = [exec EXCEPT ![ExecOf(t)].caller = None]
  /\ ewait' = [ewait EXCEPT ![ExecOf(t)] = @ \ {t}]
  /\ cop' = [cop EXCEPT ![t] = User]
  /\ UNCHANGED <<msgVars, listVars, lockVars, owed>>

-----------------------------------------------------------------------------
\* The dispatcher of a fusionee: with a batch of messages it owes a return
\* for each that has a serial.  It is client code that reads in a loop.
HasSerial(m) == m.serial # 0 \/ dev.api < 4
Wanting(batch) == Q!Picked(batch, {i \in DOMAIN batch : HasSerial(batch[i])})

Dispatch(t) ==
  LET f == Fid[t] IN
  /\ cop[t].at = "user"
  /\ "defer" \in dev.env \/ owed[f] = <<>>
  /\ Q!ReadSleep(t) \/ Q!ReadNow(t) \/ Q!ReadWoken(t)
  /\ owed' = [owed EXCEPT ![f] =
       IF messages'[f] = messages[f] THEN @
       ELSE @ \o Wanting(handling'[f])]
  /\ UNCHANGED <<listVars, execVars, lockVars, cop>>

\* The executions fusion_call_return() would accept, as places in the list.
Candidates(c, sn) ==
  {i \in DOMAIN executions[c] :
     /\ ~ exec[<<c, executions[c][i]>>].executed
     /\ dev.api >= 4 => exec[<<c, executions[c][i]>>].serial = sn}

\* Slip: the search starts with the newest execution and ignores the serial.
FoundAt_Newest(c, sn) == 1

\* The search starts at the end of the list, with the oldest.
FoundAt(c, sn) == CHOOSE i \in Candidates(c, sn) : \A j \in Candidates(c, sn) : j <= i
Found(c, sn) == executions[c][FoundAt(c, sn)]

\* Before API 4 clients answer in the order of the messages.
MayAnswer(t, i) == i \in DOMAIN owed[Fid[t]] /\ (dev.api < 4 => i = 1)
Answered(t, i) == owed' = [owed EXCEPT ![Fid[t]] = RemoveAt(@, i)]
Unlink(c, sn) == executions' = [executions EXCEPT ![c] = RemoveAt(@, FoundAt(c, sn))]

\* Slip: the result is written, the execution stays on the list.
Return_KeepsLinked(t, i) ==
  LET m == owed[Fid[t]][i]
      c == m.id
      n == Found(c, m.serial) IN
  /\ Free(t) /\ MayAnswer(t, i) /\ Lockable(c)
  /\ Candidates(c, m.serial) # {}
  /\ exec' = [exec EXCEPT ![<<c, n>>].ret = m.n, ![<<c, n>>].executed = TRUE]
  /\ clock' = [clock EXCEPT ![c] = t]
  /\ cop' = [cop EXCEPT ![t] = In("return", c, n)]
  /\ Answered(t, i)
  /\ UNCHANGED <<msgVars, state, owner, count, serial, executions, ewait, devVars>>

(* fusion_call_return() that finds a caller: up to its FUSION_ASSERT.      *)
Return(t, i) ==
  LET m == owed[Fid[t]][i]
      c == m.id
      n == Found(c, m.serial) IN
  /\ Free(t) /\ MayAnswer(t, i) /\ Lockable(c)
  /\ Candidates(c, m.serial) # {}
  /\ exec[<<c, n>>].caller # None
  /\ exec' = [exec EXCEPT ![<<c, n>>].ret = m.n, ![<<c, n>>].executed = TRUE]
  /\ Unlink(c, m.serial)
  /\ clock' = [clock EXCEPT ![c] = t]
  /\ cop' = [cop EXCEPT ![t] = In("return", c, n)]
  /\ Answered(t, i)
  /\ UNCHANGED <<msgVars, state, owner, count, serial, ewait, devVars>>

\* Slip: one sleeper is woken, the caller; a destroyer sleeps on.
ReturnWake_One(t) ==
  /\ cop[t].at = "return"
  /\ ewait' = [ewait EXCEPT ![ExecOf(t)] =
       {u \in @ : cop[u].at # "execute"}]
  /\ clock' = [clock EXCEPT ![cop[t].call] = None]
  /\ cop' = [cop EXCEPT ![t] = User]
  /\ UNCHANGED <<msgVars, listVars, exec, devVars, owed>>

\* Its end: everybody who sleeps on the execution is woken.
ReturnWake(t) ==
  /\ cop[t].at = "return"
  /\ ewait' = [ewait EXCEPT ![ExecOf(t)] = {}]
  /\ clock' = [clock EXCEPT ![cop[t].call] = None]
  /\ cop' = [cop EXCEPT ![t] = User]
  /\ UNCHANGED <<msgVars, listVars, exec, devVars, owed>>

\* The caller has received a signal: EIDRM.
ReturnToNobody(t, i) ==
  LET m == owed[Fid[t]][i]
      c == m.id
      n == Found(c, m.serial) IN
  /\ Free(t) /\ MayAnswer(t, i) /\ Lockable(c)
  /\ Candidates(c, m.serial) # {}
  /\ exec[<<c, n>>].caller = None
  /\ exec' = [exec EXCEPT ![<<c, n>>].frees = @ + 1]
  /\ Unlink(c, m.serial)
  /\ Answered(t, i)
  /\ UNCHANGED <<msgVars, state, owner, count, serial, ewait, lockVars, cop>>

\* No such call (EINVAL), or no execution that fits (ENOMSG).
ReturnFails(t, i) ==
  LET m == owed[Fid[t]][i] IN
  /\ Free(t) /\ MayAnswer(t, i) /\ elock = None
  /\ \/ state[m.id] = "gone"
     \/ Lockable(m.id) /\ Candidates(m.id, m.serial) = {}
  /\ Answered(t, i)
  /\ UNCHANGED <<msgVars, listVars, execVars, lockVars, cop>>

-----------------------------------------------------------------------------
(* fusion_call_destroy(): wait until no message of the call is queued or   *)
(* in work, lock the call, and begin anew after an execution that is still *)
(* pending has been returned.                                              *)
DestroyLoop(t, c) ==
  /\ Q!WaitProcessing(t, c)
  /\ cop' = [cop EXCEPT ![t] = In("processing", c, 0)]
  /\ UNCHANGED <<listVars, execVars, lockVars, owed>>

DestroyStart(t, c) ==
  /\ "destroy" \in dev.env
  /\ Free(t) /\ state[c] # "unborn"
  /\ DestroyLoop(t, c)

DestroyWoken(t) ==
  /\ cop[t].at = "pending" /\ t \notin ewait[ExecOf(t)]
  /\ DestroyLoop(t, cop[t].call)

ProcessingWoken(t) ==
  /\ Q!ProcessingWoken(t)
  /\ UNCHANGED <<listVars, execVars, lockVars, cop, owed>>

\* A signal ends one of the two sleeps of a destroy, or a read.
Interrupt(t) ==
  /\ "signal" \in dev.env
  /\ \/ /\ Q!Interrupt(t)
        /\ UNCHANGED ewait
     \/ /\ cop[t].at = "pending"
        /\ ewait' = [ewait EXCEPT ![ExecOf(t)] = @ \ {t}]
        /\ UNCHANGED msgVars
  /\ cop' = [cop EXCEPT ![t] = User]
  /\ UNCHANGED <<listVars, exec, lockVars, owed>>

\* Slip: pending executions are not waited for.
DestroyLock_Hasty(t) ==
  LET c == cop[t].call IN
  /\ cop[t].at = "processing" /\ Q!InUser(t)
  /\ Lockable(c) /\ owner[c] = Fid[t]
  /\ clock' = [clock EXCEPT ![c] = t]
  /\ cop' = [cop EXCEPT ![t] = In("destroy", c, 0)]
  /\ UNCHANGED <<msgVars, listVars, execVars, devVars, owed>>

DestroyLock(t) ==
  LET c == cop[t].call IN
  /\ cop[t].at = "processing" /\ Q!InUser(t)
  /\ elock = None /\ clock[c] = None
  /\ \/ /\ state[c] = "gone" \/ owner[c] # Fid[t]   \* EINVAL, EIO
        /\ cop' = [cop EXCEPT ![t] = User]
        /\ UNCHANGED <<ewait, clock>>
     \/ /\ state[c] = "live" /\ owner[c] = Fid[t] /\ executions[c] = <<>>
        /\ cop' = [cop EXCEPT ![t] = In("destroy", c, 0)]
        /\ clock' = [clock EXCEPT ![c] = t]
        /\ UNCHANGED ewait
     \/ /\ state[c] = "live" /\ owner[c] = Fid[t] /\ executions[c] # <<>>
        /\ cop' = [cop EXCEPT ![t] = In("pending", c, executions[c][1])]
        /\ ewait' = [ewait EXCEPT ![<<c, executions[c][1]>>] = @ \cup {t}]
        /\ UNCHANGED clock
  /\ UNCHANGED <<msgVars, listVars, exec, devVars, owed>>

\* fusion_entry_destroy_locked() with free_all_executions() for the calls in
\* C: they leave the list, their executions are freed and sleepers woken.
DestroyCalls(C) ==
  LET Freed == {e \in Executions : e[1] \in C /\ e[2] \in ToSet(executions[e[1]])} IN
  /\ state' = [c \in Calls |-> IF c \in C THEN "gone" ELSE state[c]]
  /\ executions' = [c \in Calls |-> IF c \in C THEN <<>> ELSE executions[c]]
  /\ exec' = [e \in Executions |->
                IF e \in Freed THEN [exec[e] EXCEPT !.frees = @ + 1] ELSE exec[e]]
  /\ ewait' = [e \in Executions |-> IF e \in Freed THEN {} ELSE ewait[e]]
  /\ UNCHANGED <<owner, count, serial>>

\* The end of a destroy, which does not take the semaphore of the list.
DestroyFinish(t) ==
  /\ cop[t].at = "destroy"
  /\ DestroyCalls({cop[t].call})
  /\ clock' = [clock EXCEPT ![cop[t].call] = None]
  /\ cop' = [cop EXCEPT ![t] = User]
  /\ UNCHANGED <<msgVars, devVars, owed>>

(* fusion_entry_lock() on a call somebody has locked: the entry is found,  *)
(* then waited for with the semaphore of the list held.  When it gets the  *)
(* entry the handler goes on; if that is gone by then the code has an      *)
(* entry that was freed, and what it does is undefined.                    *)
LockBlocks(t, c) ==
  /\ Free(t) /\ state[c] = "live" /\ elock = None /\ clock[c] # None
  /\ elock' = t
  /\ cop' = [cop EXCEPT ![t] = In("lookup", c, 0)]
  /\ UNCHANGED <<msgVars, listVars, execVars, clock, dev, owed>>

LockGranted(t) ==
  /\ cop[t].at = "lookup" /\ clock[cop[t].call] = None
  /\ elock' = None
  /\ cop' = [cop EXCEPT ![t] = User]
  /\ UNCHANGED <<msgVars, listVars, execVars, clock, dev, owed>>

-----------------------------------------------------------------------------
(* fusionee_destroy(): off the list of fusionees, then                     *)
(* fusion_call_destroy_all(), which waits for every semaphore it needs.    *)
Leave(f) ==
  /\ "leave" \in dev.env
  /\ \A t \in Threads : Fid[t] = f => cop[t].at = "user"
  /\ Q!Release(f)
  /\ owed' = [owed EXCEPT ![f] = <<>>]
  /\ UNCHANGED <<listVars, execVars, lockVars, cop>>

DestroyAll(f) ==
  LET C == {c \in Calls : state[c] = "live" /\ owner[c] = f} IN
  /\ f \notin listed /\ C # {}
  /\ elock = None /\ \A c \in C : clock[c] = None
  /\ DestroyCalls(C)
  /\ UNCHANGED <<msgVars, lockVars, cop, owed>>

-----------------------------------------------------------------------------
CallerStep(t) ==
  \/ \E c \in Calls :
       \/ ExecuteSync(t, c)
       \/ ExecuteOneway(t, c)
       \/ ExecuteFails(t, c)
       \/ LockBlocks(t, c)
  \/ ExecuteSleep(t)
  \/ CallerWoken(t)
  \/ CallerSignal(t)
  \/ LockGranted(t)

OwnerStep(t) ==
  \/ \E c \in Calls : New(t, c) \/ DestroyStart(t, c)
  \/ Dispatch(t)
  \/ \E i \in DOMAIN owed[Fid[t]] :
       \/ Return(t, i)
       \/ ReturnToNobody(t, i)
       \/ ReturnFails(t, i)
  \/ ReturnWake(t)
  \/ DestroyWoken(t)
  \/ ProcessingWoken(t)
  \/ Interrupt(t)
  \/ DestroyLock(t)
  \/ DestroyFinish(t)

Next ==
  \/ \E t \in Callers : CallerStep(t)
  \/ \E t \in Owners : OwnerStep(t)
  \/ \E f \in Fusionees : Leave(f) \/ DestroyAll(f)

Spec == Init /\ [][Next]_vars

(* Woken tasks run, a thread inside the kernel goes on, the dispatcher     *)
(* reads again with room for a message, and its handlers return: some      *)
(* thread of the owner answers what is owed.                               *)
Fairness ==
  /\ \A t \in Callers : /\ WF_vars(ExecuteSleep(t))
                        /\ WF_vars(CallerWoken(t))
                        /\ WF_vars(LockGranted(t))
  /\ \A t \in Owners :
       /\ WF_vars(Dispatch(t) /\ Q!Progress(t))
       /\ WF_vars(\E i \in DOMAIN owed[Fid[t]] :
                    Return(t, i) \/ ReturnToNobody(t, i) \/ ReturnFails(t, i))
       /\ WF_vars(ReturnWake(t))
       /\ WF_vars(DestroyWoken(t))
       /\ WF_vars(ProcessingWoken(t))
       /\ WF_vars(DestroyLock(t))
       /\ WF_vars(DestroyFinish(t))

FairSpec == Spec /\ Fairness

-----------------------------------------------------------------------------
(* Every variable stays in its range; the ranges of the message queues are *)
(* those of FusioneeMessages.                                              *)
TypeOK ==
  /\ Q!TypeOK
  /\ state \in [Calls -> {"unborn", "live", "gone"}]
  /\ owner \in [Calls -> Fusionees \cup {None}]
  /\ count \in [Calls -> 0..MaxCount]
  /\ serial \in [Calls -> 0..(SerialMod - 1)]
  /\ executions \in [Calls -> Seq(1..MaxCount)]
  /\ exec \in [Executions -> Execution]
  /\ ewait \in [Executions -> SUBSET Threads]
  /\ clock \in [Calls -> Threads \cup {None}]
  /\ elock \in Threads \cup {None}
  /\ dev \in Devs
  /\ cop \in [Threads -> COp]
  /\ owed \in [Fusionees -> Seq(CallMessage)]

\* Worlds in which no signal arrives, nobody leaves, and dispatchers answer
\* what they have read before they read on.
Orderly == dev.env \subseteq {"oneway", "destroy"}

\* Before API 4 a one-way message takes the result of somebody else.
Matched == dev.api >= 4 \/ "oneway" \notin dev.env

(* Each caller is given the result its own message was answered with, in   *)
(* whatever order several threads of the callee return (call.c:265-295).   *)
ResultIsOwn ==
  Matched => \A e \in Executions : exec[e].executed => exec[e].ret = e[2]

\* The calls of c that a fusionee still has to answer.
Unanswered(c) ==
  {m \in ToSet(messages[owner[c]] \o owed[owner[c]]) : m.id = c /\ m.serial # 0}

(* As long as its owner is there, the pending executions of a call are     *)
(* exactly those whose message is unread or unanswered: a return finds its *)
(* execution, and no execution waits for an answer that cannot come        *)
(* (call.c:188-213, 265-299).                                              *)
PendingIsUnanswered ==
  Matched => \A c \in Calls : state[c] = "live" /\ owner[c] \in listed =>
    {<<executions[c][i], exec[<<c, executions[c][i]>>].serial>> : i \in DOMAIN executions[c]}
      = {<<m.n, m.serial>> : m \in Unanswered(c)}

Linked(e) == e[2] \in ToSet(executions[e[1]])
Waited(e) == \E t \in Threads : cop[t].at \in {"transfer", "execute"} /\ ExecOf(t) = e
Allocated(e) == exec[e].serial # 0

(* As long as owners stay, an execution is freed by one party only, and    *)
(* not before its caller has come back for the result, or never will; in   *)
(* an orderly world none is left unfreed without a party that will         *)
(* (call.c:219, 230, 287, 297, 437).                                       *)
FreedOnce ==
  \A e \in Executions :
    /\ "leave" \notin dev.env /\ exec[e].frees > 0 =>
         exec[e].frees = 1 /\ ~ Linked(e) /\ ~ Waited(e)
    /\ Orderly /\ Allocated(e) /\ exec[e].frees = 0 => Linked(e) \/ Waited(e)

(* The same without the condition: "Free execution, which has already been *)
(* removed by callee" (call.c:238).                                        *)
CallerFrees ==
  \A e \in Executions : exec[e].frees > 0 => exec[e].frees = 1 /\ ~ Linked(e) /\ ~ Waited(e)

(* A destroy has waited out every synchronous call: when the call is gone  *)
(* its owner has no message left, read or unread, that wants an answer     *)
(* (call.c:327-356).  One-way messages may outlive the call.               *)
DestroyedOwesNothing ==
  Matched => \A c \in Calls : state[c] = "gone" /\ owner[c] \in listed => Unanswered(c) = {}

(* In an orderly world a synchronous call comes back, also when its owner  *)
(* destroys the call meanwhile: destroy waits for it (call.c:215-245,      *)
(* 344-351).                                                               *)
InExecute(t) == cop[t].at \in {"transfer", "execute"}
CallReturns == \A t \in Callers : (Orderly /\ InExecute(t)) ~> ~ InExecute(t)

(* In an orderly world a destroy returns (call.c:327-358), unless the call *)
(* is executed for ever: each new message and execution keeps it waiting.  *)
Destroying(t) == cop[t].at \in {"processing", "pending", "destroy"}
DestroyReturns ==
  \A t \in Owners, c \in Calls :
    \/ []<><<count'[c] # count[c]>>_vars
    \/ (Orderly /\ Destroying(t) /\ cop[t].call = c) ~> ~ Destroying(t)

=============================================================================
