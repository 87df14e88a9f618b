---------------------------- MODULE RecursiveLock ----------------------------
(***************************************************************************)
(* What a skirmish promises: recursive locks whose owner may park, that is *)
(* give a lock up at any depth to wait for a condition and later get it    *)
(* back at that depth.  Threads may die, locks may be destroyed.           *)
(***************************************************************************)
EXTENDS Naturals

CONSTANTS Locks, Threads, None

VARIABLES
  owner,   \* the thread that owns each lock, or None
  depth,   \* how many times it owns it
  parked,  \* the depth at which a thread parked on a lock, 0 if it has not
  gone,    \* the destroyed locks
  dead     \* the dead threads

vars == <<owner, depth, parked, gone, dead>>

Init ==
  /\ owner = [l \in Locks |-> None]
  /\ depth = [l \in Locks |-> 0]
  /\ parked = [t \in Threads |-> [l \in Locks |-> 0]]
  /\ gone = {}
  /\ dead = {}

Give(t, l, n) ==
  /\ owner[l] = None /\ l \notin gone /\ t \notin dead
  /\ owner' = [owner EXCEPT ![l] = t]
  /\ depth' = [depth EXCEPT ![l] = n]

Free(L) ==
  /\ owner' = [l \in Locks |-> IF l \in L THEN None ELSE owner[l]]
  /\ depth' = [l \in Locks |-> IF l \in L THEN 0 ELSE depth[l]]

Acquire(t, l) ==
  /\ Give(t, l, 1)
  /\ parked[t][l] = 0
  /\ UNCHANGED <<parked, gone, dead>>

Enter(t, l) ==
  /\ owner[l] = t /\ t \notin dead
  /\ depth' = [depth EXCEPT ![l] = @ + 1]
  /\ UNCHANGED <<owner, parked, gone, dead>>

Leave(t, l) ==
  /\ owner[l] = t /\ t \notin dead
  /\ IF depth[l] = 1 THEN Free({l})
     ELSE depth' = [depth EXCEPT ![l] = @ - 1] /\ UNCHANGED owner
  /\ UNCHANGED <<parked, gone, dead>>

Park(t, l) ==
  /\ owner[l] = t /\ t \notin dead
  /\ parked' = [parked EXCEPT ![t][l] = depth[l]]
  /\ Free({l})
  /\ UNCHANGED <<gone, dead>>

Unpark(t, l) ==
  /\ parked[t][l] > 0
  /\ Give(t, l, parked[t][l])
  /\ parked' = [parked EXCEPT ![t][l] = 0]
  /\ UNCHANGED <<gone, dead>>

DestroyLock(l) ==
  /\ l \notin gone
  /\ gone' = gone \cup {l}
  /\ Free({l})
  /\ UNCHANGED <<parked, dead>>

\* A parked thread learns that its lock is gone.
GiveUp(t, l) ==
  /\ l \in gone
  /\ parked' = [parked EXCEPT ![t][l] = 0]
  /\ UNCHANGED <<owner, depth, gone, dead>>

\* A thread dies; some or all of its locks are freed at once, ...
ThreadDies(t, L) ==
  /\ t \notin dead
  /\ \A l \in L : owner[l] = t
  /\ dead' = dead \cup {t}
  /\ parked' = [parked EXCEPT ![t] = [l \in Locks |-> 0]]
  /\ Free(L)
  /\ UNCHANGED gone

\* ... the others later.
CleanUp(L) ==
  /\ \A l \in L : owner[l] \in dead
  /\ Free(L)
  /\ UNCHANGED <<parked, gone, dead>>

Next ==
  \/ \E t \in Threads, l \in Locks :
       \/ Acquire(t, l) \/ Enter(t, l) \/ Leave(t, l)
       \/ Park(t, l) \/ Unpark(t, l) \/ GiveUp(t, l)
  \/ \E l \in Locks : DestroyLock(l)
  \/ \E t \in Threads, L \in SUBSET Locks : ThreadDies(t, L)
  \/ \E L \in SUBSET Locks : CleanUp(L)

Spec == Init /\ [][Next]_vars
=============================================================================
