----------------------------- MODULE FusionWorld ----------------------------
(***************************************************************************)
(* Calls and skirmishes together (linux-fusion-8.1.1): a synchronous call  *)
(* lends the skirmishes its thread holds to the dispatcher of the callee,  *)
(* and takes them back when the result has come (call.c:217-242,           *)
(* skirmish.c:246-256, 668-737).                                           *)
(*                                                                         *)
(* The state is that of FusionCall and of FusionSkirmish side by side.     *)
(* They meet in three places: the two halves of fusion_call_execute()      *)
(* around its sleep, and the loops of prevail and swoop, which ask who the *)
(* dispatcher of the borrower is.                                          *)
(*                                                                         *)
(* held is what the clients conclude from return values.  A reclaim that   *)
(* finds the dispatcher inside hauls the lock away (ChangeLog 341-342) and *)
(* tells nobody: that dispatcher goes on believing.  hauled, a history the *)
(* code does not have, names those this has happened to.                   *)
(***************************************************************************)
EXTENDS Integers, Sequences, FiniteSets

CONSTANTS
  Fusionees, Threads, Fid, Reader, None,
  Calls, Callers, Owners, MaxCount, SerialMod, Devs,        \* FusionCall
  Skirmishes, MaxDepth, MaxNotify,                             \* FusionSkirmish
  UseWait,    \* whether the clients use the condition of their skirmishes
  GivesBack   \* whether dispatchers return a call with nothing borrowed

ASSUME WorldAssumption ==
  /\ Fid \in [Threads -> Fusionees]
  /\ Reader \in [Fusionees -> Threads \cup {None}]
  /\ \A f \in Fusionees : Reader[f] # None => Fid[Reader[f]] = f
  /\ None \notin Threads \cup Fusionees \cup Calls \cup Skirmishes
  /\ Callers \cup Owners \subseteq Threads
  /\ MaxDepth \in Nat \ {0} /\ MaxNotify \in Nat
  /\ UseWait \in BOOLEAN /\ GivesBack \in BOOLEAN

VARIABLES
  listed, messages, prev_msgs, dispatcher_pid, wait, qop, handling,
  state, owner, count, serial, executions, exec, ewait, clock, elock, dev, cop, owed,
  skirmish,    \* the variable state of FusionSkirmish
  lock_fid, lock_pid, lock_count, notify_count, transfer, wq, op, held,
  hauled       \* per skirmish: who lost it to a reclaim, and believes to hold it

callVars == <<listed, messages, prev_msgs, dispatcher_pid, wait, qop,
              handling, state, owner, count, serial, executions, exec, ewait,
              clock, elock, dev, cop, owed>>
skirmishVars == <<skirmish, lock_fid, lock_pid, lock_count, notify_count,
                  transfer, wq, op, held, hauled>>
vars == <<callVars, skirmishVars>>

C == INSTANCE FusionCall
S == INSTANCE FusionSkirmish WITH state <- skirmish

Init == C!Init /\ S!Init /\ hauled = [s \in Skirmishes |-> {}]

Idle(t) == C!Free(t) /\ S!InUser(t)

-----------------------------------------------------------------------------
Lent(s) == transfer[s].to # None

\* The thread owns a skirmish that is lent.
Borrows(t) == \E s \in Skirmishes : Lent(s) /\ lock_pid[s] = t

\* What leaves the skirmishes alone: all of FusionCall but the two steps of
\* the caller next to its sleep.
CallStep(t) ==
  /\ S!InUser(t)
  /\ \/ /\ t \in Callers
        /\ \/ \E c \in Calls : \/ C!ExecuteSync(t, c)
                               \/ C!ExecuteOneway(t, c)
                               \/ C!LockBlocks(t, c)
           \/ C!CallerSignal(t)
           \/ C!LockGranted(t)
     \/ /\ t \in Owners /\ C!OwnerStep(t)
        /\ GivesBack /\ cop'[t].at = "return" => ~ Borrows(t)
  /\ UNCHANGED skirmishVars

\* fusion_skirmish_transfer_all(), with the call still locked, and the sleep.
\* To the client the skirmishes are held all along.
Lend(t) ==
  /\ C!ExecuteSleep(t)
  /\ S!TransferAll(owner[cop[t].call], t)
  /\ UNCHANGED <<skirmish, notify_count, op, held, hauled>>

\* The woken caller, and fusion_skirmish_reclaim_all(), which takes what it
\* has lent from whoever owns it.
Reclaim(t) ==
  /\ C!CallerWoken(t)
  /\ S!ReclaimAll(t)
  /\ hauled' = [s \in Skirmishes |->
       IF transfer[s].pid = t THEN hauled[s] \cup ({lock_pid[s]} \ {None, t})
       ELSE hauled[s]]
  /\ UNCHANGED <<skirmish, notify_count, wq, op, held>>

\* Who gets the skirmish anew has lost nothing any more, nor has anybody when
\* it is destroyed.
HauledStill ==
  hauled' = [s \in Skirmishes |->
    {u \in hauled[s] : skirmish'[s] = "live" /\ lock_pid'[s] # u}]

\* The skirmish handlers, with the dispatchers as prevail and swoop see them.
SkirmishStep(t) ==
  /\ C!Free(t)
  /\ \/ \E s \in Skirmishes : /\ S!Ioctl(t, s, dispatcher_pid)
                              /\ UseWait \/ op'[t].at # "wait"
     \/ S!Continue(t, dispatcher_pid)
     \/ S!WaitResume(t)
     \/ S!WaitTimeout(t)
     \/ "signal" \in dev.env /\ S!Interrupt(t)
  /\ HauledStill
  /\ UNCHANGED callVars

NewSkirmish(s) == S!New(s) /\ UNCHANGED <<callVars, hauled>>

Next ==
  \/ \E t \in Threads : CallStep(t) \/ SkirmishStep(t)
  \/ \E t \in Callers : Lend(t) \/ Reclaim(t)
  \/ \E s \in Skirmishes : NewSkirmish(s)

Spec == Init /\ [][Next]_vars

\* Threads that have been woken in the loop of prevail are scheduled.
PrevailLoop(t) ==
  /\ C!Free(t)
  /\ S!PrevailWoken(t, dispatcher_pid) \/ S!FindGone(t)
  /\ HauledStill
  /\ UNCHANGED callVars

FairSpec == Spec /\ \A t \in Threads : WF_vars(PrevailLoop(t))

-----------------------------------------------------------------------------
(* The variables of both parts stay in their ranges.  With signals held    *)
(* may go below zero: an interrupted caller that is itself the dispatcher  *)
(* of the callee can take, and dismiss, what it still has lent.            *)
TypeOK ==
  /\ C!TypeOK /\ ("signal" \notin dev.env => S!TypeOK)
  /\ hauled \in [Skirmishes -> SUBSET Threads]

(* A lent skirmish is reserved for the dispatcher of the callee: "other    *)
(* threads would block as if it's still locked" (ChangeLog 337-339;        *)
(* skirmish.c:246-256, 285-296).  The transfer record belongs to a caller  *)
(* that waits for its call, unless a signal has ended the wait             *)
(* (call.c:217-242, skirmish.c:681-700).                                   *)
LentIsReserved ==
  \A s \in Skirmishes : Lent(s) =>
    LET t == transfer[s].pid IN
    /\ lock_pid[s] \in {None, dispatcher_pid[transfer[s].to]}
    /\ transfer[s].from = Fid[t]
    /\ "signal" \notin dev.env =>
         cop[t].at = "execute" /\ transfer[s].to = owner[cop[t].call]

(* Two clients believe to hold the same skirmish only while one of them    *)
(* lends it to the other for the time of a call, or after the lender's     *)
(* reclaim has hauled it from one of them (skirmish.c:713-725).            *)
SharedOnlyByLoan ==
  \A s \in Skirmishes : \A t, u \in Threads :
    held[t][s] > 0 /\ held[u][s] > 0 /\ t # u =>
      \/ Lent(s) /\ {t, u} = {transfer[s].pid, dispatcher_pid[transfer[s].to]}
      \/ {t, u} \cap hauled[s] # {}

(* A thread that is not inside a call holds every skirmish it took, at the *)
(* depth it took it: a call gives back what it has lent (skirmish.c:318-   *)
(* 339, 706-737).  A signal that ends the call leaves it lent.  Only a     *)
(* dispatcher can find out that it no longer holds what it has taken: when *)
(* the lender came back and hauled it, though the dispatcher took it in    *)
(* all form.                                                               *)
CallKeepsLocks ==
  "signal" \notin dev.env => \A t \in Threads, s \in Skirmishes :
    cop[t].at # "execute" =>
      \/ held[t][s] = S!LockCount(t, s)
      \/ t \in hauled[s] /\ t = dispatcher_pid[Fid[t]] /\ S!LockCount(t, s) = 0

(* No wake-up is lost between the two: nobody sleeps in prevail on a       *)
(* skirmish that is free for him, lent or not (skirmish.c:246-256).        *)
NoLostWakeup ==
  \A s \in Skirmishes : \A t \in wq[s] :
    /\ skirmish[s] = "live"
    /\ op[t].at = "prevail" => S!Blocked(t, s, dispatcher_pid)

(* FUSION_ASSERT(skirmish->transfer_to == 0), skirmish.c:682: what a       *)
(* thread is about to lend is not lent still, by an earlier call of its    *)
(* own, nor borrowed.  It fails for dispatchers that make synchronous      *)
(* calls while they hold what they have borrowed.                          *)
NotLentTwice ==
  \A t \in Threads : cop[t].at = "transfer" =>
    \A s \in Skirmishes : lock_pid[s] = t => ~ Lent(s)

(* FUSION_ASSUME(skirmish->lock_pid == 0), skirmish.c:721: it "will fail   *)
(* if B did not unlock properly and the lock is hauled to A again"         *)
(* (ChangeLog 341-342).  With dispatchers that unlock before they return   *)
(* the call (GivesBack) nobody is hauled.                                  *)
NobodyIsHauled == \A s \in Skirmishes : hauled[s] = {}

(* Why there is a transfer at all: a dispatcher that needs a skirmish its  *)
(* caller holds does not wait for the caller, who waits for it.            *)
LentIsGranted ==
  \A t \in Threads, s \in Skirmishes :
    (op[t].at = "prevail" /\ op[t].id = s /\ Lent(s) /\ dispatcher_pid[transfer[s].to] = t)
      ~> (op[t].at # "prevail")
=============================================================================
