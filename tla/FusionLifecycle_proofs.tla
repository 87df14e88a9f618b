------------------------ MODULE FusionLifecycle_proofs ------------------------
(***************************************************************************)
(* IInv is an inductive invariant of the life of a fusion world, for any   *)
(* number of processes, addresses, versions and ids.  One lemma per        *)
(* action, one step per conjunct of IInv.                                  *)
(***************************************************************************)
EXTENDS FusionLifecycle, FiniteSetTheorems, TLAPS

USE ProcsAssumption, ApiAssumption, BoundsAssumption

\* What refs counts.
Present == {p \in Procs : fusionee[p].stage # "none"}

(* The values op takes.                                                    *)
LEMMA OpTypes ==
  ASSUME TypeOK, NEW p \in Procs
  PROVE  /\ [op EXCEPT ![p] = InUser] \in [Procs -> Op]
         /\ \A at \in {"user", "enter", "enter_wait", "kill", "kill_wait"} :
              [op EXCEPT ![p].at = at] \in [Procs -> Op]
         /\ [op EXCEPT ![p].expired = TRUE] \in [Procs -> Op]
<1>1. InUser \in Op /\ op \in [Procs -> Op]
  BY DEF TypeOK, Op, InUser, Timeout
<1>2. [op EXCEPT ![p] = InUser] \in [Procs -> Op]
  BY <1>1
<1>3. ASSUME NEW at \in {"user", "enter", "enter_wait", "kill", "kill_wait"}
      PROVE  [op EXCEPT ![p].at = at] \in [Procs -> Op]
  BY <1>1 DEF Op
<1>4. [op EXCEPT ![p].expired = TRUE] \in [Procs -> Op]
  BY <1>1 DEF Op
<1> QED
  BY <1>2, <1>3, <1>4

(* A fusionee gets an id, or leaves; its other fields stay.                *)
LEMMA SetId ==
  ASSUME TypeOK, NEW p \in Procs, NEW id \in 0..MaxId,
         fusionee' = [fusionee EXCEPT ![p].id = id]
  PROVE  /\ fusionee' \in [Procs -> Fusionee]
         /\ fusionee'[p].id = id
         /\ \A q \in Procs : q # p => fusionee'[q].id = fusionee[q].id
         /\ \A q \in Procs : fusionee'[q].stage = fusionee[q].stage
         /\ \A q \in Procs : fusionee'[q].force_slave = fusionee[q].force_slave
<1>1. fusionee \in [Procs -> Fusionee]
  BY DEF TypeOK
<1>2. [fusionee[p] EXCEPT !.id = id] \in Fusionee
  BY <1>1 DEF Fusionee
<1>3. fusionee'[p] = [fusionee[p] EXCEPT !.id = id] /\ \A q \in Procs : q # p => fusionee'[q] = fusionee[q]
  BY <1>1
<1>4. fusionee' \in [Procs -> Fusionee]
  BY <1>1, <1>2
<1>5. /\ fusionee'[p].id = id
      /\ fusionee'[p].stage = fusionee[p].stage
      /\ fusionee'[p].force_slave = fusionee[p].force_slave
  BY <1>1, <1>3 DEF Fusionee
<1>6. \A q \in Procs : q # p => fusionee'[q] = fusionee[q]
  BY <1>3
<1> QED
  BY <1>4, <1>5, <1>6

LEMMA SetLeaving ==
  ASSUME TypeOK, NEW p \in Procs,
         fusionee' = [fusionee EXCEPT ![p].stage = "leaving"]
  PROVE  /\ fusionee' \in [Procs -> Fusionee]
         /\ \A q \in Procs : /\ fusionee'[q].id = fusionee[q].id
                              /\ fusionee'[q].force_slave = fusionee[q].force_slave
                              /\ fusionee'[q].stage = IF q = p THEN "leaving" ELSE fusionee[q].stage
<1>1. fusionee \in [Procs -> Fusionee]
  BY DEF TypeOK
<1>2. [fusionee[p] EXCEPT !.stage = "leaving"] \in Fusionee
  BY <1>1 DEF Fusionee
<1>3. \A q \in Procs : fusionee'[q] = IF q = p THEN [fusionee[p] EXCEPT !.stage = "leaving"]
                                      ELSE fusionee[q]
  BY <1>1
<1>4. fusionee' \in [Procs -> Fusionee]
  BY <1>1, <1>2
<1> QED
  BY <1>1, <1>3, <1>4 DEF Fusionee

(* A call ends, or comes to its next point.                                *)
LEMMA SetAt ==
  ASSUME TypeOK, NEW p \in Procs
  PROVE  /\ Back(p) => op'[p].at = "user" /\ \A q \in Procs : q # p => op'[q].at = op[q].at
         /\ \A at : op' = [op EXCEPT ![p].at = at] =>
              op'[p].at = at /\ \A q \in Procs : q # p => op'[q].at = op[q].at
  BY DEF TypeOK, Op, Back, InUser

(* The device without a world.                                             *)
LEMMA InitIInv == Init => IInv
<1> SUFFICES ASSUME Init PROVE IInv
  OBVIOUS
<1> USE DEF Init, NoWorld, NoApi, NoFusionee, InUser
<1>1. TypeOK
<2>1. NoFusionee \in Fusionee /\ InUser \in Op
  BY DEF Fusionee, Op, Timeout
<2>2. proc \in [Procs -> {"unborn", "alive", "exiting", "dead"}]
  OBVIOUS
<2>3. /\ refs \in Nat /\ last_id \in 0..MaxId /\ enter_ok \in BOOLEAN /\ enter_lock \in {0, 1}
      /\ api \in [major: Nat, minor: Nat]
  <3>1. 0 \in 0..MaxId
    OBVIOUS
  <3> QED
    BY <3>1
<2>4. fusionee \in [Procs -> Fusionee] /\ op \in [Procs -> Op] /\ held \in [Procs -> SUBSET Procs]
  BY <2>1
<2> HIDE DEF NoFusionee, InUser
<2> QED
  BY <2>2, <2>3, <2>4 DEF TypeOK
<1>2. RefsAreFusionees
<2>1. Present = {}
  BY DEF Present
<2> QED
  BY <2>1, FS_EmptySet DEF RefsAreFusionees, Present
<1>3. IdsAreUnique
  BY DEF IdsAreUnique
<1>4. SlavesAreAdmitted
  BY DEF SlavesAreAdmitted
<1>5. EnterNoLostWakeup
  BY DEF EnterNoLostWakeup
<1>6. CallsAreOpen
  BY DEF CallsAreOpen
<1> QED
  BY <1>1, <1>2, <1>3, <1>4, <1>5, <1>6 DEF IInv

(* Counting who is present: the processes are finitely many.               *)
LEMMA Counting ==
  /\ IsFiniteSet(Present)
  /\ Cardinality(Present) \in Nat
  /\ Cardinality(Present) = 0 <=> Present = {}
<1>1. IsFiniteSet(Present)
  BY FS_Subset DEF Present
<1> QED
  BY <1>1, FS_CardinalityType, FS_EmptySet

(* Somebody with an open file is in a world, and refs shows it.            *)
LEMMA WorldIsThere ==
  ASSUME IInv, NEW p \in Procs, p \in held[p]
  PROVE  refs # 0 /\ fusionee[p].stage = "listed"
<1>1. p \in Present /\ refs = Cardinality(Present) /\ fusionee[p].stage = "listed"
  BY DEF IInv, RefsAreFusionees, Present
<1> QED
  BY <1>1, Counting

(* As long as nobody comes or goes, refs counts who is present.            *)
LEMMA SamePresent ==
  ASSUME IInv, refs' = refs,
         \A q \in Procs : fusionee'[q].stage = "none" <=> fusionee[q].stage = "none",
         \A q, f \in Procs : f \in held'[q] => fusionee'[f].stage = "listed"
  PROVE  RefsAreFusionees'
<1>1. Present' = Present
  BY DEF Present
<1> QED
  BY <1>1 DEF IInv, RefsAreFusionees, Present

(* A new fusionee has no id, and its file is open in one process.          *)
LEMMA OpenIInv ==
  ASSUME IInv, NEW p \in Procs, NEW excl \in BOOLEAN, NEW force \in BOOLEAN, Open(p, excl, force)
  PROVE  IInv'
<1> USE DEF IInv, enterVars, procVars, Client, Free, User, Open
<1>1. TypeOK'
  BY DEF TypeOK, Fusionee, Op, Timeout
<1>2. RefsAreFusionees'
<2>1. p \notin Present /\ Present' = Present \cup {p}
  BY DEF Present, TypeOK
<2>2. Cardinality(Present \cup {p}) = Cardinality(Present) + 1
  BY <2>1, Counting, FS_AddElement
<2>3. refs = Cardinality(Present) /\ refs' = refs + 1
  BY DEF RefsAreFusionees, Present
<2>4. refs' = Cardinality(Present')
  BY <2>1, <2>2, <2>3
<2> QED
  BY <2>4 DEF TypeOK, RefsAreFusionees, Present
<1>3. IdsAreUnique'
  BY WorldIsThere DEF TypeOK, IdsAreUnique, CallsAreOpen, NoWorld
<1>4. SlavesAreAdmitted'
  BY WorldIsThere DEF TypeOK, SlavesAreAdmitted, IdsAreUnique, CallsAreOpen
<1>5. EnterNoLostWakeup'
  BY WorldIsThere DEF TypeOK, EnterNoLostWakeup, MustWait, CallsAreOpen, Op
<1>6. CallsAreOpen'
  BY WorldIsThere DEF TypeOK, CallsAreOpen, Op
<1> QED
  BY <1>1, <1>2, <1>3, <1>4, <1>5, <1>6

(* A process with its file open goes into enter.                           *)
LEMMA EnterIInv ==
  ASSUME IInv, NEW p \in Procs, Enter(p)
  PROVE  IInv'
<1> USE DEF IInv, enterVars, procVars, Client, Free, User, Enter
<1>1. TypeOK'
<2>1. op' \in [Procs -> Op]
  BY OpTypes
<2> QED
  BY <2>1 DEF TypeOK
<1>2. RefsAreFusionees'
  BY SamePresent DEF TypeOK, RefsAreFusionees
<1>3. IdsAreUnique'
  BY WorldIsThere DEF TypeOK, IdsAreUnique, CallsAreOpen, NoWorld
<1>4. SlavesAreAdmitted'
  BY WorldIsThere DEF TypeOK, SlavesAreAdmitted, IdsAreUnique, CallsAreOpen
<1>5. EnterNoLostWakeup'
  BY WorldIsThere DEF TypeOK, EnterNoLostWakeup, MustWait, CallsAreOpen, Op
<1>6. CallsAreOpen'
  BY DEF TypeOK, CallsAreOpen
<1> QED
  BY <1>1, <1>2, <1>3, <1>4, <1>5, <1>6

(* It sleeps because it must.                                              *)
LEMMA EnterSleepIInv ==
  ASSUME IInv, NEW p \in Procs, EnterSleep(p)
  PROVE  IInv'
<1> USE DEF IInv, enterVars, procVars, Client, Free, User, EnterSleep
<1>1. TypeOK'
<2>1. op' \in [Procs -> Op]
  BY OpTypes
<2> QED
  BY <2>1 DEF TypeOK
<1>2. RefsAreFusionees'
  BY SamePresent DEF TypeOK, RefsAreFusionees
<1>3. IdsAreUnique'
  BY WorldIsThere DEF TypeOK, IdsAreUnique, CallsAreOpen, NoWorld
<1>4. SlavesAreAdmitted'
  BY WorldIsThere DEF TypeOK, SlavesAreAdmitted, IdsAreUnique, CallsAreOpen
<1>5. EnterNoLostWakeup'
  BY WorldIsThere DEF TypeOK, EnterNoLostWakeup, MustWait, CallsAreOpen, Op
<1>6. CallsAreOpen'
  BY WorldIsThere DEF TypeOK, CallsAreOpen, Op
<1> QED
  BY <1>1, <1>2, <1>3, <1>4, <1>5, <1>6

(* The next id is new, and a slave gets it in an unblocked world only.     *)
LEMMA EnterTakeIInv ==
  ASSUME IInv, NEW p \in Procs, EnterTake(p)
  PROVE  IInv'
<1> USE DEF IInv, enterVars, procVars, Client, Free, User, EnterTake, Back, InUser
<1>1. TypeOK'
<2>1. op' \in [Procs -> Op]
  BY OpTypes
<2>2. last_id' \in 0..MaxId /\ fusionee' = [fusionee EXCEPT ![p].id = last_id']
  BY DEF TypeOK
<2>3. fusionee' \in [Procs -> Fusionee]
  BY <2>2, SetId
<2>4. api' \in [major: Nat, minor: Nat]
  BY DEF TypeOK
<2> QED
  BY <2>1, <2>2, <2>3, <2>4 DEF TypeOK
<1>2. RefsAreFusionees'
  BY SamePresent DEF TypeOK, RefsAreFusionees
<1>3. IdsAreUnique'
<2>1. refs # 0 /\ fusionee[p].stage = "listed"
  BY WorldIsThere DEF CallsAreOpen
<2>2. last_id' = last_id + 1 /\ last_id' \in 0..MaxId /\ fusionee' = [fusionee EXCEPT ![p].id = last_id']
  BY DEF TypeOK
<2>3. /\ fusionee'[p].id = last_id'
      /\ \A q \in Procs : q # p => fusionee'[q].id = fusionee[q].id
      /\ \A q \in Procs : fusionee'[q].stage = fusionee[q].stage
  BY <2>2, SetId
<2>4. \A q \in Procs : fusionee[q].id \in Nat /\ fusionee[q].id <= last_id
  BY DEF TypeOK, Fusionee, IdsAreUnique
<2> QED
  BY <2>1, <2>2, <2>3, <2>4 DEF TypeOK, IdsAreUnique
<1>4. SlavesAreAdmitted'
  BY WorldIsThere DEF TypeOK, SlavesAreAdmitted, IdsAreUnique, CallsAreOpen, MustWait, Acceptable, Compatible
<1>5. EnterNoLostWakeup'
  BY WorldIsThere DEF TypeOK, EnterNoLostWakeup, MustWait, CallsAreOpen, Op
<1>6. CallsAreOpen'
  BY WorldIsThere DEF TypeOK, CallsAreOpen, Op
<1> QED
  BY <1>1, <1>2, <1>3, <1>4, <1>5, <1>6

(* A refused enter leaves the lock down, in a world that is there.         *)
LEMMA EnterRefusedIInv ==
  ASSUME IInv, NEW p \in Procs, EnterRefused(p)
  PROVE  IInv'
<1> USE DEF IInv, enterVars, procVars, Client, Free, User, EnterRefused, Back, InUser
<1>1. TypeOK'
<2>1. op' \in [Procs -> Op]
  BY OpTypes
<2> QED
  BY <2>1 DEF TypeOK
<1>2. RefsAreFusionees'
  BY SamePresent DEF TypeOK, RefsAreFusionees
<1>3. IdsAreUnique'
  BY WorldIsThere DEF TypeOK, IdsAreUnique, CallsAreOpen, NoWorld
<1>4. SlavesAreAdmitted'
  BY WorldIsThere DEF TypeOK, SlavesAreAdmitted, IdsAreUnique, CallsAreOpen
<1>5. EnterNoLostWakeup'
  BY WorldIsThere DEF TypeOK, EnterNoLostWakeup, MustWait, CallsAreOpen, Op
<1>6. CallsAreOpen'
  BY WorldIsThere DEF TypeOK, CallsAreOpen, Op
<1> QED
  BY <1>1, <1>2, <1>3, <1>4, <1>5, <1>6

(* Awake again, with or without a signal.                                  *)
LEMMA EnterWokenIInv ==
  ASSUME IInv, NEW p \in Procs, EnterWoken(p)
  PROVE  IInv'
<1>1. /\ op' \in [Procs -> Op]
      /\ op'[p].at \in {"user", "enter"} /\ \A q \in Procs : q # p => op'[q].at = op[q].at
<2>1. CASE Back(p)
  <3>1. op' \in [Procs -> Op]
    BY <2>1, OpTypes DEF IInv, Back
  <3>2. op'[p].at = "user" /\ \A q \in Procs : q # p => op'[q].at = op[q].at
    BY <2>1, SetAt DEF IInv
  <3> QED
    BY <3>1, <3>2
<2>2. CASE op' = [op EXCEPT ![p].at = "enter"]
  <3>1. op' \in [Procs -> Op]
    BY <2>2, OpTypes DEF IInv
  <3>2. op'[p].at = "enter" /\ \A q \in Procs : q # p => op'[q].at = op[q].at
    BY <2>2, SetAt DEF IInv
  <3> QED
    BY <3>1, <3>2
<2> QED
  BY <2>1, <2>2 DEF EnterWoken
<1> USE DEF IInv, enterVars, procVars, Client, Free, User, EnterWoken
<1>2. TypeOK'
  BY <1>1 DEF TypeOK
<1>3. RefsAreFusionees'
  BY SamePresent DEF TypeOK, RefsAreFusionees
<1>4. IdsAreUnique'
  BY WorldIsThere DEF TypeOK, IdsAreUnique, CallsAreOpen, NoWorld
<1>5. SlavesAreAdmitted'
  BY WorldIsThere DEF TypeOK, SlavesAreAdmitted, IdsAreUnique, CallsAreOpen
<1>6. EnterNoLostWakeup'
  BY <1>1 DEF TypeOK, EnterNoLostWakeup, MustWait
<1>7. CallsAreOpen'
  BY <1>1 DEF TypeOK, CallsAreOpen
<1> QED
  BY <1>2, <1>3, <1>4, <1>5, <1>6, <1>7

(* A signal ends the wait for the lock.                                    *)
LEMMA EnterInterruptedIInv ==
  ASSUME IInv, NEW p \in Procs, EnterInterrupted(p)
  PROVE  IInv'
<1> USE DEF IInv, enterVars, procVars, Client, Free, User, EnterInterrupted, Back, InUser
<1>1. TypeOK'
<2>1. op' \in [Procs -> Op]
  BY OpTypes
<2> QED
  BY <2>1 DEF TypeOK
<1>2. RefsAreFusionees'
  BY SamePresent DEF TypeOK, RefsAreFusionees
<1>3. IdsAreUnique'
  BY WorldIsThere DEF TypeOK, IdsAreUnique, CallsAreOpen, NoWorld
<1>4. SlavesAreAdmitted'
  BY WorldIsThere DEF TypeOK, SlavesAreAdmitted, IdsAreUnique, CallsAreOpen
<1>5. EnterNoLostWakeup'
  BY WorldIsThere DEF TypeOK, EnterNoLostWakeup, MustWait, CallsAreOpen, Op
<1>6. CallsAreOpen'
  BY WorldIsThere DEF TypeOK, CallsAreOpen, Op
<1> QED
  BY <1>1, <1>2, <1>3, <1>4, <1>5, <1>6

(* Nobody is left asleep in an unblocked world.                            *)
LEMMA UnblockIInv ==
  ASSUME IInv, NEW p \in Procs, Unblock(p)
  PROVE  IInv'
<1> USE DEF IInv, enterVars, procVars, Client, Free, User, Unblock
<1>1. TypeOK'
  BY DEF TypeOK, Fusionee, Op, Timeout
<1>2. RefsAreFusionees'
  BY SamePresent DEF TypeOK, RefsAreFusionees
<1>3. IdsAreUnique'
  BY WorldIsThere DEF TypeOK, IdsAreUnique, CallsAreOpen, NoWorld
<1>4. SlavesAreAdmitted'
  BY WorldIsThere DEF TypeOK, SlavesAreAdmitted, IdsAreUnique, CallsAreOpen
<1>5. EnterNoLostWakeup'
  BY WorldIsThere DEF TypeOK, EnterNoLostWakeup, MustWait, CallsAreOpen, Op
<1>6. CallsAreOpen'
  BY WorldIsThere DEF TypeOK, CallsAreOpen, Op
<1> QED
  BY <1>1, <1>2, <1>3, <1>4, <1>5, <1>6

(* A process with its file open goes into kill.                            *)
LEMMA KillIInv ==
  ASSUME IInv, NEW p \in Procs, NEW target \in start.targets, NEW timeout \in Timeouts, Kill(p, target, timeout)
  PROVE  IInv'
<1> USE DEF IInv, enterVars, procVars, Client, Free, User, Kill
<1>1. TypeOK'
  BY DEF TypeOK, Fusionee, Op, Timeout, Start
<1>2. RefsAreFusionees'
  BY SamePresent DEF TypeOK, RefsAreFusionees
<1>3. IdsAreUnique'
  BY WorldIsThere DEF TypeOK, IdsAreUnique, CallsAreOpen, NoWorld
<1>4. SlavesAreAdmitted'
  BY WorldIsThere DEF TypeOK, SlavesAreAdmitted, IdsAreUnique, CallsAreOpen
<1>5. EnterNoLostWakeup'
  BY WorldIsThere DEF TypeOK, EnterNoLostWakeup, MustWait, CallsAreOpen, Op
<1>6. CallsAreOpen'
  BY DEF TypeOK, CallsAreOpen
<1> QED
  BY <1>1, <1>2, <1>3, <1>4, <1>5, <1>6

(* Signals are sent to processes.                                          *)
LEMMA KillRoundIInv ==
  ASSUME IInv, NEW p \in Procs, KillRound(p)
  PROVE  IInv'
<1> USE DEF IInv, enterVars, procVars, Client, Free, User, KillRound, Victims
<1>1. TypeOK'
<2>1. CASE Back(p)
  <3>1. op' \in [Procs -> Op]
    BY <2>1, OpTypes DEF Back
  <3> QED
    BY <2>1, <3>1 DEF TypeOK
<2>2. CASE op' = [op EXCEPT ![p].at = "kill_wait"]
  <3>1. op' \in [Procs -> Op]
    BY <2>2, OpTypes
  <3> QED
    BY <2>2, <3>1 DEF TypeOK
<2> QED
  BY <2>1, <2>2
<1>2. RefsAreFusionees'
  BY SamePresent DEF TypeOK, RefsAreFusionees
<1>3. IdsAreUnique'
  BY WorldIsThere DEF TypeOK, IdsAreUnique, CallsAreOpen, NoWorld
<1>4. SlavesAreAdmitted'
  BY WorldIsThere DEF TypeOK, SlavesAreAdmitted, IdsAreUnique, CallsAreOpen
<1>5. /\ op[p].at = "kill"
      /\ \/ op'[p].at = "user" /\ kill_wait' = kill_wait
         \/ op'[p].at = "kill_wait" /\ kill_wait' = kill_wait \cup {p}
      /\ \A q \in Procs : q # p => op'[q].at = op[q].at
<2>1. CASE Back(p) /\ kill_wait' = kill_wait
  BY <2>1, SetAt
<2>2. CASE op' = [op EXCEPT ![p].at = "kill_wait"] /\ kill_wait' = kill_wait \cup {p}
  <3>1. op'[p].at = "kill_wait" /\ \A q \in Procs : q # p => op'[q].at = op[q].at
    BY <2>2, SetAt
  <3> QED
    BY <2>2, <3>1
<2> QED
  BY <2>1, <2>2
<1>6. EnterNoLostWakeup'
  BY <1>5 DEF TypeOK, EnterNoLostWakeup, MustWait
<1>7. CallsAreOpen'
  BY <1>5 DEF TypeOK, CallsAreOpen
<1> QED
  BY <1>1, <1>2, <1>3, <1>4, <1>6, <1>7

(* The timer fires.                                                        *)
LEMMA KillTimeoutIInv ==
  ASSUME IInv, NEW p \in Procs, KillTimeout(p)
  PROVE  IInv'
<1> USE DEF IInv, enterVars, procVars, Client, Free, User, KillTimeout
<1>1. TypeOK'
<2>1. op' \in [Procs -> Op]
  BY OpTypes
<2> QED
  BY <2>1 DEF TypeOK
<1>2. RefsAreFusionees'
  BY SamePresent DEF TypeOK, RefsAreFusionees
<1>3. IdsAreUnique'
  BY WorldIsThere DEF TypeOK, IdsAreUnique, CallsAreOpen, NoWorld
<1>4. SlavesAreAdmitted'
  BY WorldIsThere DEF TypeOK, SlavesAreAdmitted, IdsAreUnique, CallsAreOpen
<1>5. EnterNoLostWakeup'
  BY WorldIsThere DEF TypeOK, EnterNoLostWakeup, MustWait, CallsAreOpen, Op
<1>6. CallsAreOpen'
  BY WorldIsThere DEF TypeOK, CallsAreOpen, Op
<1> QED
  BY <1>1, <1>2, <1>3, <1>4, <1>5, <1>6

(* Awake again, with or without a signal.                                  *)
LEMMA KillWokenIInv ==
  ASSUME IInv, NEW p \in Procs, KillWoken(p)
  PROVE  IInv'
<1>1. /\ op' \in [Procs -> Op]
      /\ op'[p].at \in {"user", "kill"} /\ \A q \in Procs : q # p => op'[q].at = op[q].at
<2>1. CASE Back(p)
  <3>1. op' \in [Procs -> Op]
    BY <2>1, OpTypes DEF IInv, Back
  <3>2. op'[p].at = "user" /\ \A q \in Procs : q # p => op'[q].at = op[q].at
    BY <2>1, SetAt DEF IInv
  <3> QED
    BY <3>1, <3>2
<2>2. CASE op' = [op EXCEPT ![p].at = "kill"]
  <3>1. op' \in [Procs -> Op]
    BY <2>2, OpTypes DEF IInv
  <3>2. op'[p].at = "kill" /\ \A q \in Procs : q # p => op'[q].at = op[q].at
    BY <2>2, SetAt DEF IInv
  <3> QED
    BY <3>1, <3>2
<2> QED
  BY <2>1, <2>2 DEF KillWoken
<1> USE DEF IInv, enterVars, procVars, Client, Free, User, KillWoken
<1>2. TypeOK'
  BY <1>1 DEF TypeOK
<1>3. RefsAreFusionees'
  BY SamePresent DEF TypeOK, RefsAreFusionees
<1>4. IdsAreUnique'
  BY WorldIsThere DEF TypeOK, IdsAreUnique, CallsAreOpen, NoWorld
<1>5. SlavesAreAdmitted'
  BY WorldIsThere DEF TypeOK, SlavesAreAdmitted, IdsAreUnique, CallsAreOpen
<1>6. EnterNoLostWakeup'
  BY <1>1 DEF TypeOK, EnterNoLostWakeup, MustWait
<1>7. CallsAreOpen'
  BY <1>1 DEF TypeOK, CallsAreOpen
<1> QED
  BY <1>2, <1>3, <1>4, <1>5, <1>6, <1>7

(* With the last file that is closed the fusionee is on its way out.       *)
LEMMA CloseIInv ==
  ASSUME IInv, NEW p \in Procs, NEW f \in Procs, Close(p, f)
  PROVE  IInv'
<1> USE DEF IInv, enterVars, procVars, Free, User
<1>1. /\ held' = [held EXCEPT ![p] = @ \ {f}] /\ f \in held[p]
      /\ refs' = refs /\ last_id' = last_id /\ enter_ok' = enter_ok /\ enter_lock' = enter_lock
      /\ api' = api /\ enter_wait' = enter_wait /\ mm' = mm /\ proc' = proc
      /\ signals' = signals /\ op' = op /\ start' = start
  BY DEF Close
<1>2. fusionee[f].stage = "listed" /\ op[p].at = "user"
  BY DEF Close, RefsAreFusionees, CallsAreOpen
<1>3. \/ fusionee' = fusionee /\ kill_wait' = kill_wait
      \/ /\ fusionee' = [fusionee EXCEPT ![f].stage = "leaving"]
         /\ kill_wait' = {} /\ \A q \in Procs : f \notin held'[q]
  BY <1>1 DEF Close, Destroy, Holders, TypeOK
<1>4. /\ fusionee' \in [Procs -> Fusionee]
      /\ \A q \in Procs : fusionee'[q].id = fusionee[q].id
      /\ \A q \in Procs : fusionee'[q].force_slave = fusionee[q].force_slave
      /\ \A q \in Procs : fusionee'[q].stage = "none" <=> fusionee[q].stage = "none"
      /\ \A q \in Procs : q # f => fusionee'[q].stage = fusionee[q].stage
<2>1. CASE fusionee' = fusionee
  BY <2>1 DEF TypeOK
<2>2. CASE fusionee' = [fusionee EXCEPT ![f].stage = "leaving"]
  <3>1. /\ fusionee' \in [Procs -> Fusionee]
        /\ \A q \in Procs : /\ fusionee'[q].id = fusionee[q].id
                            /\ fusionee'[q].force_slave = fusionee[q].force_slave
                            /\ fusionee'[q].stage = IF q = f THEN "leaving" ELSE fusionee[q].stage
    BY <2>2, SetLeaving
  <3> QED
    BY <1>2, <3>1
<2> QED
  BY <1>3, <2>1, <2>2
<1>5. TypeOK'
  BY <1>1, <1>3, <1>4 DEF TypeOK
<1>6. RefsAreFusionees'
<2>1. ASSUME NEW q \in Procs, NEW g \in Procs, g \in held'[q]
      PROVE  fusionee'[g].stage = "listed"
  <3>1. held'[q] \subseteq held[q]
    BY <1>1 DEF TypeOK
  <3>2. fusionee[g].stage = "listed"
    BY <2>1, <3>1 DEF RefsAreFusionees
  <3>3. CASE g = f
    <4>1. fusionee' = fusionee
      BY <1>3, <2>1, <3>3
    <4> QED
      BY <3>2, <4>1
  <3>4. CASE g # f
    BY <1>4, <3>2, <3>4
  <3> QED
    BY <3>3, <3>4
<2>2. refs' = refs /\ \A q \in Procs : fusionee'[q].stage = "none" <=> fusionee[q].stage = "none"
  BY <1>1, <1>4
<2> QED
  BY <2>1, <2>2, SamePresent
<1>7. IdsAreUnique'
<2>1. \A q \in Procs : /\ fusionee'[q].id <= last_id
                       /\ fusionee'[q].stage = "none" => fusionee'[q].id = 0
  BY <1>4 DEF IdsAreUnique
<2>2. \A q, r \in Procs : q # r /\ fusionee'[q].id = fusionee'[r].id => fusionee'[q].id = 0
  BY <1>4 DEF IdsAreUnique
<2>3. (refs = 0 => NoWorld)'
  BY <1>1 DEF IdsAreUnique, NoWorld
<2> QED
  BY <1>1, <2>1, <2>2, <2>3 DEF IdsAreUnique
<1>8. SlavesAreAdmitted'
  BY <1>1, <1>4 DEF SlavesAreAdmitted, Compatible
<1>9. EnterNoLostWakeup'
<2>1. \A q \in Procs : MustWait(q) => MustWait(q)'
  BY <1>1, <1>4 DEF MustWait
<2> QED
  BY <1>1, <2>1 DEF TypeOK, EnterNoLostWakeup
<1>10. CallsAreOpen'
  BY <1>1, <1>2, <1>3, <1>4 DEF TypeOK, CallsAreOpen
<1> QED
  BY <1>5, <1>6, <1>7, <1>8, <1>9, <1>10

(* The last one out ends the world.                                        *)
LEMMA ReleaseIInv ==
  ASSUME IInv, NEW p \in Procs, Release(p)
  PROVE  IInv'
<1> USE DEF IInv, enterVars, procVars
<1>1. /\ fusionee[p].stage = "leaving" /\ refs' = refs - 1
      /\ UNCHANGED <<enter_wait, kill_wait, held, procVars, signals, op, start>>
  BY DEF Release
<1>2. /\ \A q \in Procs : fusionee'[q] = IF q = p THEN NoFusionee ELSE fusionee[q]
      /\ fusionee' \in [Procs -> Fusionee]
  BY DEF Release, NoFusionee, TypeOK, Fusionee
<1>3. p \in Present /\ Present' = Present \ {p}
  BY <1>1, <1>2 DEF Present, NoFusionee
<1>4. refs' = Cardinality(Present') /\ refs' \in Nat /\ (refs' = 0 <=> Present' = {})
<2>1. IsFiniteSet(Present') /\ Cardinality(Present') = Cardinality(Present) - 1
  BY <1>3, Counting, FS_RemoveElement
<2> QED
  BY <1>1, <2>1, FS_CardinalityType, FS_EmptySet DEF RefsAreFusionees, Present
<1>5. \A q, g \in Procs : g \in held[q] => g # p /\ g \in Present'
  BY <1>1, <1>3 DEF RefsAreFusionees, Present
<1>6. \/ refs' = 0 /\ EndWorld
      \/ refs' # 0 /\ UNCHANGED enterVars
  BY <1>4 DEF Release, TypeOK
<1>7. TypeOK'
<2>1. /\ last_id' \in 0..MaxId /\ enter_ok' \in BOOLEAN /\ enter_lock' \in {0, 1}
      /\ api' \in [major: Nat, minor: Nat]
  <3>1. CASE EndWorld
    <4>1. NoApi \in [major: Nat, minor: Nat] /\ 0 \in 0..MaxId
      BY DEF NoApi
    <4> QED
      BY <3>1, <4>1 DEF EndWorld
  <3>2. CASE UNCHANGED enterVars
    BY <3>2 DEF TypeOK
  <3> QED
    BY <1>6, <3>1, <3>2
<2> QED
  BY <1>1, <1>2, <1>4, <2>1 DEF TypeOK
<1>8. RefsAreFusionees'
  BY <1>1, <1>2, <1>4, <1>5 DEF RefsAreFusionees, Present
<1>9. \A q \in Procs : refs' = 0 => fusionee'[q].id = 0
  BY <1>2, <1>3, <1>4 DEF Present, IdsAreUnique, NoFusionee
<1>10. IdsAreUnique'
  BY <1>2, <1>6, <1>9 DEF IdsAreUnique, EndWorld, NoWorld, NoFusionee, TypeOK
<1>11. SlavesAreAdmitted'
  BY <1>2, <1>6, <1>9 DEF SlavesAreAdmitted, EndWorld, NoFusionee
<1>12. EnterNoLostWakeup'
<2> SUFFICES ASSUME NEW q \in enter_wait
             PROVE  op'[q].at = "enter_wait" /\ MustWait(q)'
  BY <1>1 DEF EnterNoLostWakeup
<2>1. q \in Procs /\ op[q].at = "enter_wait" /\ MustWait(q) /\ q \in held[q]
  BY DEF EnterNoLostWakeup, TypeOK, CallsAreOpen
<2>2. refs' # 0 /\ q # p
  BY <1>4, <1>5, <2>1
<2> QED
  BY <1>1, <1>2, <1>6, <2>1, <2>2 DEF MustWait
<1>13. CallsAreOpen'
  BY <1>1 DEF CallsAreOpen
<1> QED
  BY <1>7, <1>8, <1>10, <1>11, <1>12, <1>13

(* A child has the files of a process that is alive.                       *)
LEMMA ForkIInv ==
  ASSUME IInv, NEW p \in Procs, NEW c \in Procs, Fork(p, c)
  PROVE  IInv'
<1> USE DEF IInv, enterVars, procVars, Client, Free, User, Fork
<1>1. TypeOK'
  BY DEF TypeOK, Fusionee, Op, Timeout
<1>2. RefsAreFusionees'
  BY SamePresent DEF TypeOK, RefsAreFusionees
<1>3. IdsAreUnique'
  BY WorldIsThere DEF TypeOK, IdsAreUnique, CallsAreOpen, NoWorld
<1>4. SlavesAreAdmitted'
  BY WorldIsThere DEF TypeOK, SlavesAreAdmitted, IdsAreUnique, CallsAreOpen
<1>5. EnterNoLostWakeup'
  BY WorldIsThere DEF TypeOK, EnterNoLostWakeup, MustWait, CallsAreOpen, Op
<1>6. CallsAreOpen'
  BY WorldIsThere DEF TypeOK, CallsAreOpen, Op
<1> QED
  BY <1>1, <1>2, <1>3, <1>4, <1>5, <1>6

(* Only processes that are in no call exit.                                *)
LEMMA ExitIInv ==
  ASSUME IInv, NEW p \in Procs, Exit(p)
  PROVE  IInv'
<1> USE DEF IInv, enterVars, procVars, Client, Free, User, Exit
<1>1. TypeOK'
  BY DEF TypeOK, Fusionee, Op, Timeout
<1>2. RefsAreFusionees'
  BY SamePresent DEF TypeOK, RefsAreFusionees
<1>3. IdsAreUnique'
  BY WorldIsThere DEF TypeOK, IdsAreUnique, CallsAreOpen, NoWorld
<1>4. SlavesAreAdmitted'
  BY WorldIsThere DEF TypeOK, SlavesAreAdmitted, IdsAreUnique, CallsAreOpen
<1>5. EnterNoLostWakeup'
  BY WorldIsThere DEF TypeOK, EnterNoLostWakeup, MustWait, CallsAreOpen, Op
<1>6. CallsAreOpen'
  BY WorldIsThere DEF TypeOK, CallsAreOpen, Op
<1> QED
  BY <1>1, <1>2, <1>3, <1>4, <1>5, <1>6

(* A process is dead when its files are closed.                            *)
LEMMA ExitedIInv ==
  ASSUME IInv, NEW p \in Procs, Exited(p)
  PROVE  IInv'
<1> USE DEF IInv, enterVars, procVars, Client, Free, User, Exited
<1>1. TypeOK'
  BY DEF TypeOK, Fusionee, Op, Timeout
<1>2. RefsAreFusionees'
  BY SamePresent DEF TypeOK, RefsAreFusionees
<1>3. IdsAreUnique'
  BY WorldIsThere DEF TypeOK, IdsAreUnique, CallsAreOpen, NoWorld
<1>4. SlavesAreAdmitted'
  BY WorldIsThere DEF TypeOK, SlavesAreAdmitted, IdsAreUnique, CallsAreOpen
<1>5. EnterNoLostWakeup'
  BY WorldIsThere DEF TypeOK, EnterNoLostWakeup, MustWait, CallsAreOpen, Op
<1>6. CallsAreOpen'
  BY WorldIsThere DEF TypeOK, CallsAreOpen, Op
<1> QED
  BY <1>1, <1>2, <1>3, <1>4, <1>5, <1>6

(* A signal is handled.                                                    *)
LEMMA HandleIInv ==
  ASSUME IInv, NEW p \in Procs, Handle(p)
  PROVE  IInv'
<1> USE DEF IInv, enterVars, procVars, Client, Free, User, Handle
<1>1. TypeOK'
  BY DEF TypeOK, Fusionee, Op, Timeout
<1>2. RefsAreFusionees'
  BY SamePresent DEF TypeOK, RefsAreFusionees
<1>3. IdsAreUnique'
  BY WorldIsThere DEF TypeOK, IdsAreUnique, CallsAreOpen, NoWorld
<1>4. SlavesAreAdmitted'
  BY WorldIsThere DEF TypeOK, SlavesAreAdmitted, IdsAreUnique, CallsAreOpen
<1>5. EnterNoLostWakeup'
  BY WorldIsThere DEF TypeOK, EnterNoLostWakeup, MustWait, CallsAreOpen, Op
<1>6. CallsAreOpen'
  BY WorldIsThere DEF TypeOK, CallsAreOpen, Op
<1> QED
  BY <1>1, <1>2, <1>3, <1>4, <1>5, <1>6

(* Every step of the world is one of these.                                *)
LEMMA NextIInv == IInv /\ [Next]_vars => IInv'
<1> SUFFICES ASSUME IInv, [Next]_vars PROVE IInv'
  OBVIOUS
<1>1. CASE UNCHANGED vars
<2> USE <1>1 DEF vars, enterVars, procVars
<2>1. TypeOK' /\ RefsAreFusionees' /\ IdsAreUnique'
  BY DEF IInv, TypeOK, RefsAreFusionees, IdsAreUnique, NoWorld
<2>2. SlavesAreAdmitted' /\ EnterNoLostWakeup' /\ CallsAreOpen'
  BY DEF IInv, SlavesAreAdmitted, Compatible, EnterNoLostWakeup, MustWait, CallsAreOpen
<2> QED
  BY <2>1, <2>2 DEF IInv
<1>2. ASSUME NEW p \in Procs, NEW excl \in BOOLEAN, NEW force \in BOOLEAN, Open(p, excl, force)
      PROVE  IInv'
  BY <1>2, OpenIInv
<1>3. ASSUME NEW p \in Procs, Enter(p) \/ EnterStep(p) \/ Unblock(p)
      PROVE  IInv'
  BY <1>3, EnterIInv, EnterSleepIInv, EnterTakeIInv, EnterRefusedIInv, EnterWokenIInv,
     EnterInterruptedIInv, UnblockIInv DEF EnterStep
<1>4. ASSUME NEW p \in Procs, NEW target \in start.targets, NEW timeout \in Timeouts,
             Kill(p, target, timeout)
      PROVE  IInv'
  BY <1>4, KillIInv
<1>5. ASSUME NEW p \in Procs, KillStep(p)
      PROVE  IInv'
  BY <1>5, KillRoundIInv, KillTimeoutIInv, KillWokenIInv DEF KillStep
<1>6. ASSUME NEW p \in Procs, NEW f \in Procs, Close(p, f)
      PROVE  IInv'
  BY <1>6, CloseIInv
<1>7. ASSUME NEW p \in Procs, NEW c \in Procs, Fork(p, c)
      PROVE  IInv'
  BY <1>7, ForkIInv
<1>8. ASSUME NEW p \in Procs, Release(p) \/ Exit(p) \/ Exited(p) \/ Handle(p)
      PROVE  IInv'
  BY <1>8, ReleaseIInv, ExitIInv, ExitedIInv, HandleIInv
<1> QED
  BY <1>1, <1>2, <1>3, <1>4, <1>5, <1>6, <1>7, <1>8 DEF Next

(* In every world of every number of processes: refs counts the fusionees, *)
(* whose files are open; ids are unique and end with the world; slaves are *)
(* admitted by an unblocked world and with the master's version; nobody    *)
(* sleeps in enter once it is unblocked; and only those with an open file  *)
(* are in a call (fusiondev.c, fusionee.c).                                *)
THEOREM LifecycleInvariant == Spec => []IInv
<1>1. Init => IInv
  BY InitIInv
<1>2. IInv /\ [Next]_vars => IInv'
  BY NextIInv
<1> QED
  BY <1>1, <1>2, PTL DEF Spec

=============================================================================
