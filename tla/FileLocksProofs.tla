---------------------------- MODULE FileLocksProofs ----------------------------
(* Mutual exclusion under the lock directory, for any number of processes.  *)
EXTENDS FileLocks, TLAPS

(* What a system call leaves on disk is a lock. *)
LEMMA LockEntries ==
  /\ NoLock \in Lock
  /\ \A p \in Process : [NoLock EXCEPT !.by = p] \in Lock
  /\ \A l \in Lock : [l EXCEPT !.old = TRUE] \in Lock
  /\ \A l \in Lock : \A p \in Process : \A b \in BOOLEAN : [l EXCEPT !.owner = p, !.old = b] \in Lock
BY DEF NoLock, Lock

(* The lock on disk and the processes stay well typed, whatever the kind. *)
THEOREM TypeCorrect == Spec => []TypeOK
<1>1. Init => TypeOK
  BY LockEntries DEF Init, TypeOK
<1>2. TypeOK /\ [Next]_vars => TypeOK'
  <2> SUFFICES ASSUME TypeOK, [Next]_vars PROVE TypeOK'
    OBVIOUS
  <2> USE DEF TypeOK, Go
  <2>1. CASE Age
    BY <2>1, LockEntries DEF Age
  <2>2. ASSUME NEW p \in Process, Arrive(p) PROVE TypeOK'
    BY <2>2 DEF Arrive
  <2>3. ASSUME NEW p \in Process, Create(p) PROVE TypeOK'
    <3>1. lock' \in Lock
      <4>1. lock' = [NoLock EXCEPT !.by = p] \/ lock' = lock
        BY <2>3 DEF Create
      <4> QED
        BY <4>1, LockEntries
    <3>2. pc' \in [Process -> {"idle", "try", "mark", "inspect", "break", "hold", "remove", "dead"}]
      BY <2>3 DEF Create
    <3> QED
      BY <2>3, <3>1, <3>2 DEF Create
  <2>4. ASSUME NEW p \in Process, Mark(p) PROVE TypeOK'
    <3>1. lock' \in Lock
      <4>1. (lock.old /\ lock.owner # None) \in BOOLEAN
        OBVIOUS
      <4> QED
        BY <2>4, <4>1, LockEntries DEF Mark
    <3> QED
      BY <2>4, <3>1 DEF Mark
  <2>5. ASSUME NEW p \in Process, MarkFails(p) PROVE TypeOK'
    BY <2>5 DEF MarkFails
  <2>6. ASSUME NEW p \in Process, Inspect(p) PROVE TypeOK'
    BY <2>6 DEF Inspect
  <2>7. ASSUME NEW p \in Process, Break(p) PROVE TypeOK'
    BY <2>7, LockEntries DEF Break
  <2>8. ASSUME NEW p \in Process, Leave(p) PROVE TypeOK'
    BY <2>8 DEF Leave
  <2>9. ASSUME NEW p \in Process, Remove(p) PROVE TypeOK'
    BY <2>9, LockEntries DEF Remove
  <2>10. ASSUME NEW p \in Process, Crash(p) PROVE TypeOK'
    BY <2>10 DEF Crash
  <2>11. CASE UNCHANGED vars
    BY <2>11 DEF vars
  <2> QED
    BY <2>1, <2>2, <2>3, <2>4, <2>5, <2>6, <2>7, <2>8, <2>9, <2>10, <2>11 DEF Next, Step
<1> QED
  BY <1>1, <1>2, PTL DEF Spec

(* Nobody removes a directory that another process made: a contender finds  *)
(* none stale, and whoever releases made the one it removes.                *)
LEMMA CreatorKept == Spec => []CreatorOnly
<1>1. Init => CreatorOnly
  BY DEF Init, CreatorOnly, NoLock
<1>2. TypeOK /\ CreatorOnly /\ [Next]_vars => CreatorOnly'
  <2> SUFFICES ASSUME TypeOK, CreatorOnly, [Next]_vars PROVE CreatorOnly'
    OBVIOUS
  <2> USE LockAssumption DEF TypeOK, CreatorOnly, Go
  <2>1. CASE Age
    BY <2>1 DEF Age
  <2>2. ASSUME NEW p \in Process, Arrive(p) PROVE CreatorOnly'
    BY <2>2 DEF Arrive
  <2>3. ASSUME NEW p \in Process, Create(p) PROVE CreatorOnly'
    BY <2>3 DEF Create, NoLock
  <2>4. ASSUME NEW p \in Process, Mark(p) PROVE CreatorOnly'
    BY <2>4 DEF Mark
  <2>5. ASSUME NEW p \in Process, MarkFails(p) PROVE CreatorOnly'
    BY <2>5 DEF MarkFails
  <2>6. ASSUME NEW p \in Process, Inspect(p) PROVE CreatorOnly'
    BY <2>6 DEF Inspect, Stale
  <2>7. ASSUME NEW p \in Process, Break(p) PROVE CreatorOnly'
    BY <2>7 DEF Break
  <2>8. ASSUME NEW p \in Process, Leave(p) PROVE CreatorOnly'
    BY <2>8 DEF Leave
  <2>9. ASSUME NEW p \in Process, Remove(p) PROVE CreatorOnly'
    BY <2>9 DEF Remove, NoLock
  <2>10. ASSUME NEW p \in Process, Crash(p) PROVE CreatorOnly'
    BY <2>10 DEF Crash
  <2>11. CASE UNCHANGED vars
    BY <2>11 DEF vars
  <2> QED
    BY <2>1, <2>2, <2>3, <2>4, <2>5, <2>6, <2>7, <2>8, <2>9, <2>10, <2>11 DEF Next, Step
<1> QED
  BY <1>1, <1>2, TypeCorrect, PTL DEF Spec

(* Until some lock passes the stale limit, one process at a time works      *)
(* under the directory (_withRunLock(), _withFileLock()).                   *)
THEOREM MutualExclusion == Spec => []DirExclusive
<1>1. TypeOK /\ CreatorOnly => DirExclusive
  BY DEF CreatorOnly, DirExclusive, Holder
<1> QED
  BY <1>1, TypeCorrect, CreatorKept, PTL
=============================================================================
