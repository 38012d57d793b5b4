------------------------ MODULE WorkspaceLeasesProofs ------------------------
(* Who may write a workspace, for any number of missions, restarts and     *)
(* leases, and however long a write takes.                                 *)
EXTENDS WorkspaceLeases, TLAPS

(* What the operations put in the lease file is a lease entry. *)
LEMMA LeaseEntries ==
  /\ NoLease \in Lease
  /\ \A l \in Lease : [l EXCEPT !.quarantined = TRUE] \in Lease
  /\ \A l \in Lease : [l EXCEPT !.expired = TRUE] \in Lease
BY DEF NoLease, Lease

(* Every operation of the lease store keeps the entry well formed. *)
THEOREM TypeCorrect == Spec => []TypeOK
<1>1. Init => TypeOK
  BY LeaseEntries DEF Init, TypeOK, WriteStatus
<1>2. TypeOK /\ [Next]_vars => TypeOK'
  <2> SUFFICES ASSUME TypeOK, [Next]_vars PROVE TypeOK'
    OBVIOUS
  <2> USE DEF TypeOK
  <2>1. ASSUME NEW r \in Run, Claim(r) PROVE TypeOK'
    BY <2>1 DEF Claim, Moves, WriteStatus
  <2>2. ASSUME NEW r \in Run, Acquire(r) PROVE TypeOK'
    BY <2>2 DEF Acquire, Moves, WriteStatus, Lease
  <2>3. ASSUME NEW r \in Run, Refused(r) PROVE TypeOK'
    BY <2>3 DEF Refused, Moves, WriteStatus
  <2>4. ASSUME NEW r \in Run, FailWrite(r) PROVE TypeOK'
    BY <2>4 DEF FailWrite, Moves, WriteStatus
  <2>5. ASSUME NEW r \in Run, StoreReceipt(r) PROVE TypeOK'
    BY <2>5 DEF StoreReceipt, Moves, WriteStatus
  <2>6. ASSUME NEW r \in Run, Release(r) PROVE TypeOK'
    BY <2>6, LeaseEntries DEF Release, Moves, WriteStatus
  <2>7. ASSUME NEW r \in Run, Resolve(r) PROVE TypeOK'
    BY <2>7, LeaseEntries DEF Resolve, Moves, WriteStatus
  <2>8. ASSUME NEW r \in Run, End(r) PROVE TypeOK'
    BY <2>8 DEF End, Moves, WriteStatus
  <2>9. CASE Expire
    BY <2>9, LeaseEntries DEF Expire
  <2>10. CASE Restart
    <3>1. lease' \in Lease
      BY <2>10, LeaseEntries DEF Restart, Recovered
    <3>2. write' \in [Run -> WriteStatus]
      BY <2>10 DEF Restart, WriteStatus
    <3> QED
      BY <2>10, <3>1, <3>2 DEF Restart
  <2>11. CASE UNCHANGED vars
    BY <2>11 DEF vars
  <2> QED
    BY <2>1, <2>2, <2>3, <2>4, <2>5, <2>6, <2>7, <2>8, <2>9, <2>10, <2>11 DEF Next
<1> QED
  BY <1>1, <1>2, PTL DEF Spec

(* Leases are told apart by their ids, and the entry is the newest of them. *)
LeaseIds ==
    /\ lease # NoLease => lease.id = taken
    /\ \A r \in Run : held[r] <= taken /\ (Writing(r) => held[r] > 0)
    /\ \A r, q \in Run : held[r] = held[q] /\ held[r] > 0 => r = q

(* The strengthening that makes WriterOwnsLease inductive: acquire() could  *)
(* otherwise take an expired entry from under a writer.                     *)
Holds(r) == Owns(r) /\ ~lease.expired

WriterInForce == \A r \in Run : Writing(r) => Holds(r) \/ r \in lapsed

LInv == TypeOK /\ LeaseIds /\ WriterInForce

(* A lease id is given once. *)
LEMMA IdsKept ==
  ASSUME TypeOK, LeaseIds, [Next]_vars
  PROVE  LeaseIds'
<1> USE DEF TypeOK, LeaseIds, Writing
<1>1. CASE UNCHANGED vars
  BY <1>1 DEF vars
<1>2. ASSUME NEW r \in Run, Acquire(r) PROVE LeaseIds'
  <2>1. /\ lease'.id = taken + 1 /\ taken' = taken + 1
        /\ \A q \in Run : q # r => held'[q] = held[q] /\ write'[q] = write[q]
        /\ held'[r] = taken + 1
    BY <1>2 DEF Acquire, Moves
  <2>2. \A q \in Run : held[q] < taken + 1
    OBVIOUS
  <2> QED
    BY <2>1, <2>2
<1>3. CASE Restart
  <2>1. lease' = NoLease \/ (lease # NoLease /\ lease'.id = lease.id)
    BY <1>3 DEF Restart, Recovered, Lease
  <2> QED
    BY <1>3, <2>1 DEF Restart
<1>4. CASE Expire
  BY <1>4 DEF Expire, Lease
<1>5. ASSUME NEW r \in Run, Release(r) \/ Resolve(r) PROVE LeaseIds'
  <2>1. /\ lease' = lease \/ lease' = NoLease
        /\ \A q \in Run : Writing(q)' => Writing(q)
        /\ UNCHANGED <<held, taken>>
    BY <1>5 DEF Release, Resolve, Moves
  <2> QED
    BY <2>1
<1>6. ASSUME NEW r \in Run, Claim(r) \/ Refused(r) \/ FailWrite(r) \/ StoreReceipt(r) \/ End(r) PROVE LeaseIds'
  <2>1. /\ \A q \in Run : Writing(q)' => Writing(q)
        /\ UNCHANGED <<lease, held, taken>>
    BY <1>6 DEF Claim, Refused, FailWrite, StoreReceipt, End, Moves
  <2> QED
    BY <2>1
<1> QED
  BY <1>1, <1>2, <1>3, <1>4, <1>5, <1>6 DEF Next

(* A mission that writes holds an entry in force or has outlasted its       *)
(* lease, in every step of every mission and across restarts.               *)
LEMMA WriterKept ==
  ASSUME TypeOK, LeaseIds, WriterInForce, [Next]_vars
  PROVE  WriterInForce'
<1> SUFFICES ASSUME NEW q \in Run, Writing(q)', q \notin lapsed'
             PROVE  Holds(q)'
  BY DEF WriterInForce
<1>0. lapsed \subseteq lapsed'
  BY DEF Next, vars, Claim, Acquire, Refused, FailWrite, StoreReceipt, Release, Resolve, End, Expire, Restart
<1>1. Writing(q) => Holds(q)
  BY <1>0 DEF WriterInForce
<1>2. Writing(q) => lease # NoLease /\ lease.run = q
  BY <1>1, RunAssumption DEF NoLease, Holds, Owns
<1> USE DEF TypeOK, Writing, Owns, Holds
<1>3. CASE UNCHANGED vars
  BY <1>1, <1>3 DEF vars
<1>4. ASSUME NEW r \in Run, Acquire(r) PROVE Holds(q)'
  <2>1. CASE q = r
    BY <1>4, <2>1 DEF Acquire
  <2>2. CASE q # r
    <3>1. Writing(q)
      BY <1>4, <2>2 DEF Acquire, Moves
    <3> QED
      BY <1>1, <1>2, <1>4, <3>1 DEF Acquire, InForce
  <2> QED
    BY <2>1, <2>2
<1>5. ASSUME NEW r \in Run, Claim(r) \/ Refused(r) \/ FailWrite(r) \/ StoreReceipt(r) \/ End(r) PROVE Holds(q)'
  <2>1. Writing(q)
    BY <1>5 DEF Claim, Refused, FailWrite, StoreReceipt, End, Moves
  <2> QED
    BY <1>1, <1>5, <2>1 DEF Claim, Refused, FailWrite, StoreReceipt, End
<1>6. ASSUME NEW r \in Run, Release(r) PROVE Holds(q)'
  <2>1. q # r /\ Writing(q)
    BY <1>6 DEF Release, Moves
  <2> QED
    BY <1>1, <1>2, <1>6, <2>1 DEF Release
<1>7. ASSUME NEW r \in Run, Resolve(r) PROVE Holds(q)'
  <2>1. q # r /\ Writing(q)
    BY <1>7 DEF Resolve, Moves
  <2> QED
    BY <1>1, <1>2, <1>7, <2>1 DEF Resolve
<1>8. CASE Expire
  <2>1. Writing(q) /\ ~Owns(q)
    BY <1>8 DEF Expire
  <2> QED
    BY <1>1, <2>1
<1>9. CASE Restart
  BY <1>9 DEF Restart
<1> QED
  BY <1>3, <1>4, <1>5, <1>6, <1>7, <1>8, <1>9 DEF Next

LEMMA LeaseInvariance == Spec => []LInv
<1>1. Init => LeaseIds /\ WriterInForce
  BY DEF Init, LeaseIds, WriterInForce, Writing
<1>2. TypeOK /\ LeaseIds /\ WriterInForce /\ [Next]_vars => LeaseIds' /\ WriterInForce'
  BY IdsKept, WriterKept
<1> QED
  BY <1>1, <1>2, TypeCorrect, PTL DEF Spec, LInv

(* A mission that is in its executor, or has just stored its receipt, owns  *)
(* the lease entry until its own lease runs out, so only then can release() *)
(* fail a completed write.                                                  *)
THEOREM LeaseKept == Spec => []WriterOwnsLease
<1>1. LInv => WriterOwnsLease
  BY DEF LInv, WriterInForce, WriterOwnsLease, Holds
<1> QED
  BY <1>1, LeaseInvariance, PTL

(* Two action executors meet in a workspace only when the lease of the      *)
(* earlier one has run out under it.                                        *)
THEOREM MutualExclusion == Spec => []OneWriter
<1>1. LInv => OneWriter
  <2> SUFFICES ASSUME LInv, NEW r \in Run, NEW q \in Run, write[r] = "writing", write[q] = "writing",
                      held[r] <= held[q], r \notin lapsed
               PROVE  r = q
    BY DEF OneWriter
  <2>1. Owns(r) /\ lease # NoLease
    BY RunAssumption DEF LInv, WriterInForce, Writing, Holds, Owns, NoLease
  <2>2. held[r] = taken /\ held[q] <= taken /\ held[r] > 0 /\ held[q] \in Nat /\ taken \in Nat
    BY <2>1 DEF LInv, TypeOK, LeaseIds, Writing, Owns
  <2>3. held[r] = held[q]
    BY <2>2
  <2> QED
    BY <2>2, <2>3 DEF LInv, LeaseIds
<1> QED
  BY <1>1, LeaseInvariance, PTL

(* A quarantine over a write in doubt is lifted only by the verdict on that *)
(* write.                                                                   *)
THEOREM QuarantineUntilVerdict == Spec => QuarantineSticks
<1>1. TypeOK /\ [Next]_vars
      => (lease.quarantined /\ write[lease.run] = "uncertain" /\ lease' # lease
          => lease'.quarantined \/ write'[lease.run] # "uncertain")
  <2> SUFFICES ASSUME TypeOK, [Next]_vars, lease.quarantined,
                      write[lease.run] = "uncertain", lease' # lease
               PROVE  lease'.quarantined \/ write'[lease.run] # "uncertain"
    OBVIOUS
  <2>0. lease # NoLease
    BY DEF NoLease
  <2> USE DEF TypeOK
  <2>1. ASSUME NEW r \in Run, Release(r)
        PROVE  lease'.quarantined \/ write'[lease.run] # "uncertain"
    BY <2>1, <2>0 DEF Release, Owns, Moves
  <2>2. ASSUME NEW r \in Run, Resolve(r)
        PROVE  lease'.quarantined \/ write'[lease.run] # "uncertain"
    BY <2>2 DEF Resolve, Moves
  <2>3. CASE Expire
    BY <2>3 DEF Expire, Lease
  <2>4. CASE Restart
    BY <2>4, <2>0 DEF Restart, Recovered, Lease
  <2>5. ASSUME NEW r \in Run, Acquire(r) PROVE FALSE
    BY <2>5, <2>0 DEF Acquire, InForce
  <2> QED
    BY <2>1, <2>2, <2>3, <2>4, <2>5
    DEF Next, vars, Claim, Refused, FailWrite, StoreReceipt, End
<1> QED
  BY <1>1, TypeCorrect, PTL DEF Spec, QuarantineSticks
=============================================================================
