---------------------------- MODULE PipelineProofs ----------------------------
(* Safety of the pipelines for every pipeline definition: first of the run  *)
(* store, by one inductive invariant; then of the mission, whose runner,    *)
(* request handlers and restarts change the record only as the store        *)
(* allows, and write only under their lease.                                *)
EXTENDS PipelineMission, TLAPS

(***************************************************************************)
(* THE RUN STORE                                                           *)
(***************************************************************************)

(* A stage that has left "pending" (other than by being blocked before it   *)
(* started), or was ever claimed, has been attempted.                       *)
Attempted ==
    \A s \in Stage : stage[s].status \notin {"pending", "blocked"} \/ stage[s].claim > 0 =>
        stage[s].attempts > 0

(* A completed approval stage was approved, on record. *)
ApprovalOnRecord ==
    \A s \in Stage : Kind[s] = "approval" /\ Completed(s) =>
        [stage |-> s, status |-> "approved"] \in approvals

(* Only recordApproval() moves an approval stage: it is never blocked, so   *)
(* never re-armed, and a pending one has not been asked for.                *)
ApprovalUntouched ==
    \A s \in Stage : Kind[s] = "approval" =>
        /\ stage[s].status # "blocked"
        /\ stage[s].status = "pending" => stage[s].attempts = 0

IInv ==
    /\ TypeOK
    /\ DependenciesBeforeStart
    /\ WriteRecordConsistent
    /\ RetriesCharged
    /\ Attempted
    /\ ApprovalOnRecord
    /\ ApprovalUntouched

-----------------------------------------------------------------------------
LEMMA InitIInv == Init => IInv
  <1> SUFFICES ASSUME Init PROVE IInv
    OBVIOUS
  <1> USE StoreAssumption DEF Init
  <1>1. TypeOK
    BY DEF TypeOK, Budget, FreshStage, StageRecord, RunStatus, StageStatus, GateReceipt
  <1>2. DependenciesBeforeStart
    BY DEF DependenciesBeforeStart, FreshStage
  <1>3. WriteRecordConsistent
    BY DEF WriteRecordConsistent, FreshStage, Completed
  <1>4. RetriesCharged
    BY DEF RetriesCharged, FreshStage
  <1>5. Attempted
    BY DEF Attempted, FreshStage
  <1>6. ApprovalOnRecord
    BY DEF ApprovalOnRecord, FreshStage, Completed
  <1>7. ApprovalUntouched
    BY DEF ApprovalUntouched, FreshStage
  <1> QED
    BY <1>1, <1>2, <1>3, <1>4, <1>5, <1>6, <1>7 DEF IInv

-----------------------------------------------------------------------------
(* The records the operations write are stage records. *)

LEMMA RecordTypes ==
  ASSUME TypeOK, NEW s \in Stage
  PROVE  /\ stage[s] \in StageRecord
         /\ Cut(s, stage[s]) \in StageRecord
         /\ \A st \in StageStatus : WithStatus(s, st) \in StageRecord
         /\ \A st \in StageStatus : Stopped(s, st) \in StageRecord
         /\ \A d \in Digest : Claimed(s, d) \in StageRecord
         /\ \A st \in ApprovalStatus : Answered(s, st) \in StageRecord
         /\ \A cited \in GateReceipt : Verified(s, cited) \in StageRecord
         /\ stage[s].before # None => \A d \in Digest : Written(s, d) \in StageRecord
  <1>1. stage[s] \in StageRecord
    BY DEF TypeOK
  <1>2. lastClaim \in Nat
    BY DEF TypeOK
  <1>3. Cut(s, stage[s]) \in StageRecord
    BY <1>1 DEF Cut, StageRecord, StageStatus, IsWriteStage
  <1>4. \A st \in StageStatus : WithStatus(s, st) \in StageRecord
    BY <1>1 DEF WithStatus, StageRecord
  <1>5. \A st \in StageStatus : Stopped(s, st) \in StageRecord
    BY <1>1 DEF Stopped, StageRecord
  <1>6. \A d \in Digest : Claimed(s, d) \in StageRecord
    <2>1. /\ stage[s].attempts + 1 \in Nat
          /\ lastClaim + 1 \in Nat
      BY <1>1, <1>2 DEF StageRecord
    <2>2. (stage[s].consumed \/ CrashRetryAuthorized(s)) \in BOOLEAN
      OBVIOUS
    <2> QED
      BY <1>1, <2>1, <2>2 DEF Claimed, StageRecord, StageStatus
  <1>7. \A st \in ApprovalStatus : Answered(s, st) \in StageRecord
    <2>1. \A st \in ApprovalStatus : ApprovalStageStatus(st) \in StageStatus
      BY DEF ApprovalStatus, Decision, ApprovalStageStatus, StageStatus
    <2>2. stage[s].attempts \in Nat /\ stage[s].attempts + 1 \in Nat
      BY <1>1 DEF StageRecord
    <2> QED
      BY <1>1, <2>1, <2>2 DEF Answered, StageRecord
  <1>8. \A cited \in GateReceipt : Verified(s, cited) \in StageRecord
    BY <1>1 DEF Verified, StageRecord, StageStatus
  <1>9. stage[s].before # None => \A d \in Digest : Written(s, d) \in StageRecord
    BY <1>1 DEF Written, StageRecord, StageStatus, Receipt
  <1> QED
    BY <1>1, <1>3, <1>4, <1>5, <1>6, <1>7, <1>8, <1>9

LEMMA BudgetTypes ==
  ASSUME TypeOK
  PROVE  /\ \A s \in Stage : ChargeRepair(s) \in Budget
         /\ \A n \in Usage : ChargeCalls(n) \in Budget
  <1>1. budget \in Budget
    BY DEF TypeOK
  <1>2. \A b \in BOOLEAN, n \in Nat : [budget EXCEPT !.repairCycles = n, !.exhausted = b] \in Budget
    BY <1>1 DEF Budget
  <1>3. \A b \in BOOLEAN, n \in Nat : [budget EXCEPT !.calls = n, !.exhausted = b] \in Budget
    BY <1>1 DEF Budget
  <1>4. ASSUME NEW s \in Stage PROVE ChargeRepair(s) \in Budget
    <2>1. budget.repairCycles + 1 \in Nat
      BY <1>1 DEF Budget
    <2>2. (budget.exhausted \/ budget.repairCycles + 1 >= MaxRepairCycles) \in BOOLEAN
      OBVIOUS
    <2> QED
      BY <1>1, <1>2, <2>1, <2>2 DEF ChargeRepair
  <1>5. ASSUME NEW n \in Usage PROVE ChargeCalls(n) \in Budget
    <2>1. budget.calls + n \in Nat
      BY <1>1, StoreAssumption DEF Budget
    <2>2. (\/ budget.exhausted
           \/ budget.calls + n >= MaxCalls
           \/ budget.repairCycles >= MaxRepairCycles) \in BOOLEAN
      OBVIOUS
    <2> QED
      BY <1>3, <2>1, <2>2 DEF ChargeCalls
  <1> QED
    BY <1>4, <1>5

LEMMA StageTyped ==
  ASSUME TypeOK, NEW s \in Stage, NEW r \in StageRecord, stage' = [stage EXCEPT ![s] = r]
  PROVE  stage' \in [Stage -> StageRecord]
  BY DEF TypeOK

-----------------------------------------------------------------------------
(* Type correctness. *)

LEMMA TypeStop ==
  ASSUME TypeOK, Cancel \/ RecoverInterrupted
  PROVE  TypeOK'
  <1>1. stage' = [s \in Stage |-> IF stage[s].status = "running" THEN Cut(s, stage[s])
                                  ELSE stage[s]]
    BY DEF Cancel, RecoverInterrupted, StopRunning
  <1>2. stage' \in [Stage -> StageRecord]
    BY <1>1, RecordTypes
  <1> QED
    BY <1>2 DEF TypeOK, Cancel, RecoverInterrupted, RunStatus

LEMMA ResolutionType ==
  ASSUME TypeOK, NEW s \in Stage, NEW m \in Marker, VerifiedMarker(s, m)
  PROVE  ApplyResolution(s, m) \in StageRecord
  <1>1. stage[s] \in StageRecord
    BY DEF TypeOK
  <1>2. ResolvedStatus(m.outcome) \in StageStatus /\ m.outcome \in Outcome
    BY DEF ResolvedStatus, Marker, Outcome, StageStatus
  <1>3. m.outcome = "applied" => [before |-> stage[s].before, after |-> m.digest] \in Receipt
    BY <1>1 DEF VerifiedMarker, Marker, Receipt, StageRecord
  <1> QED
    BY <1>1, <1>2, <1>3 DEF ApplyResolution, StageRecord

LEMMA TypeResume ==
  ASSUME TypeOK, NEW m \in [{s \in Stage : IsUncertain(s)} -> Marker], Resume(m)
  PROVE  TypeOK'
  <1>1. ASSUME NEW s \in DOMAIN m PROVE ApplyResolution(s, m[s]) \in StageRecord
    BY <1>1, ResolutionType DEF Resume
  <1>2. ASSUME NEW s \in Stage PROVE WithStatus(s, "pending") \in StageRecord
    BY RecordTypes DEF StageStatus
  <1>3. stage' \in [Stage -> StageRecord]
    BY <1>1, <1>2 DEF Resume, TypeOK
  <1>4. checkpoint' \in Digest
    <2> DEFINE settled == {s \in DOMAIN m : m[s].outcome # "retry"}
    <2>1. settled # {} => m[CHOOSE s \in settled : TRUE].digest \in Digest
      BY DEF Marker
    <2> QED
      BY <2>1 DEF Resume, TypeOK
  <1> QED
    BY <1>3, <1>4 DEF Resume, TypeOK, RunStatus

LEMMA TypeRun ==
  ASSUME TypeOK, RunNext
  PROVE  TypeOK'
  <1>1. CASE Create
    BY <1>1 DEF TypeOK, Create, RunStatus
  <1>2. ASSUME NEW to \in TransitionTarget, Transition(to) PROVE TypeOK'
    BY <1>2 DEF TypeOK, TransitionTarget, Transition, RunStatus
  <1>3. ASSUME NEW x \in Session, AttachSession(x) PROVE TypeOK'
    BY <1>3 DEF TypeOK, AttachSession
  <1> QED
    BY <1>1, <1>2, <1>3, TypeStop, TypeResume DEF RunNext

LEMMA TypeStage ==
  ASSUME TypeOK, NEW s \in Stage, StageNext(s)
  PROVE  TypeOK'
  <1> USE StoreAssumption
  <1>1. ASSUME NEW to \in {"failed", "blocked", "interrupted"}, StopStage(s, to) PROVE TypeOK'
    <2>1. Stopped(s, EffectiveStatus(s, to)) \in StageRecord
      BY RecordTypes DEF EffectiveStatus, StageStatus
    <2> QED
      BY <1>1, <2>1, StageTyped DEF TypeOK, StopStage
  <1>2. ASSUME NEW e \in {"pending", "interrupted"}, NEW d \in Digest, ClaimStage(s, e, d)
        PROVE TypeOK'
    <2>1. ChargeRepair(s) \in Budget
      BY BudgetTypes
    <2>2. stage' \in [Stage -> StageRecord]
      BY <1>2, RecordTypes, StageTyped DEF ClaimStage
    <2> QED
      BY <1>2, <2>1, <2>2 DEF TypeOK, ClaimStage
  <1>3. ASSUME NEW c \in Claims, NEW d \in Digest, CompleteAction(s, c, d) PROVE TypeOK'
    <2>1. stage' \in [Stage -> StageRecord]
      BY <1>3, RecordTypes, StageTyped DEF CompleteAction
    <2> QED
      BY <1>3, <2>1 DEF TypeOK, CompleteAction
  <1>4. ASSUME NEW c \in Claims, NEW d \in Digest, NEW cited \in SUBSET UpstreamReceipts(s),
               CompleteTruthGate(s, c, cited, d)
        PROVE TypeOK'
    <2>1. \A t \in UpstreamWrites(s) : t \in Stage /\ stage[t].receipt \in Receipt
      BY <1>4 DEF CompleteTruthGate, UpstreamWrites, Upstream, TypeOK, StageRecord
    <2>2. cited \in GateReceipt
      BY <2>1 DEF UpstreamReceipts, GateReceipt
    <2>3. stage' \in [Stage -> StageRecord]
      BY <1>4, <2>2, RecordTypes, StageTyped DEF CompleteTruthGate
    <2> QED
      BY <1>4, <2>3 DEF TypeOK, CompleteTruthGate
  <1>5. \A n \in Usage : ChargeCalls(n) \in Budget
    BY BudgetTypes
  <1>6. \A st \in {"failed", "completed"} : WithStatus(s, st) \in StageRecord
    BY RecordTypes DEF StageStatus
  <1>7. ASSUME NEW c \in Claims, NEW n \in Usage, FailDepartmentWithUsage(s, c, n) PROVE TypeOK'
    <2>1. stage' \in [Stage -> StageRecord]
      BY <1>6, <1>7, StageTyped DEF FailDepartmentWithUsage
    <2> QED
      BY <1>5, <1>7, <2>1 DEF TypeOK, FailDepartmentWithUsage
  <1>8. ASSUME NEW c \in Claims, NEW n \in Usage, NEW id \in ArtifactId,
               CompleteDepartmentWithArtifact(s, c, id, n)
        PROVE TypeOK'
    <2>1. stage' \in [Stage -> StageRecord]
      BY <1>6, <1>8, StageTyped DEF CompleteDepartmentWithArtifact
    <2> QED
      BY <1>5, <1>8, <2>1 DEF TypeOK, CompleteDepartmentWithArtifact
  <1>9. ASSUME NEW id \in ArtifactId, RecordArtifact(s, id) PROVE TypeOK'
    BY <1>9 DEF TypeOK, RecordArtifact
  <1>10. ASSUME NEW st \in ApprovalStatus, RecordApproval(s, st) PROVE TypeOK'
    <2>1. stage' \in [Stage -> StageRecord]
      BY <1>10, RecordTypes, StageTyped DEF RecordApproval
    <2> QED
      BY <1>10, <2>1 DEF TypeOK, RecordApproval
  <1> QED
    BY <1>1, <1>2, <1>3, <1>4, <1>7, <1>8, <1>9, <1>10
    DEF StageNext, FailStage, BlockStage, InterruptStage

(* The store only ever holds well-formed records, whatever the callers do.  *)
THEOREM TypeCorrect == Spec => []TypeOK
  <1>1. Init => TypeOK
    BY InitIInv DEF IInv
  <1>2. TypeOK /\ [Next]_storeVars => TypeOK'
    <2>1. CASE UNCHANGED storeVars
      BY <2>1 DEF TypeOK, storeVars
    <2> QED
      BY <2>1, TypeRun, TypeStage DEF Next
  <1> QED
    BY <1>1, <1>2, PTL DEF Spec

-----------------------------------------------------------------------------
(* The effect of one step on one stage: what the invariant needs of it.     *)

RecordOK(s, r) ==
    /\ IsWriteStage(s) => (r.status = "completed" <=> r.receipt # None)
    /\ r.uncertain <=> r.status = "uncertain"
    /\ r.uncertain => IsWriteStage(s)
    /\ r.status \notin {"pending", "blocked"} \/ r.claim > 0 => r.attempts > 0
    /\ Kind[s] = "approval" => /\ r.status # "blocked"
                               /\ r.status = "pending" => r.attempts = 0

StageEffect(s) ==
    /\ RecordOK(s, stage'[s])
    /\ Completed(s) => stage'[s] = stage[s]
    /\ stage'[s].attempts > 0 => DependenciesReady(s)
    /\ stage'[s].attempts <= 1 + budget'.repairCycles
    /\ Kind[s] = "approval" /\ stage'[s].status = "completed" =>
          [stage |-> s, status |-> "approved"] \in approvals'

LEMMA RecordsOK ==
  ASSUME IInv, NEW s \in Stage
  PROVE  RecordOK(s, stage[s])
  BY DEF IInv, WriteRecordConsistent, Attempted, ApprovalUntouched, RecordOK, Completed

LEMMA IdleEffect ==
  ASSUME IInv, NEW s \in Stage, stage'[s] = stage[s],
         budget.repairCycles <= budget'.repairCycles,
         budget' \in Budget, approvals \subseteq approvals'
  PROVE  StageEffect(s)
  <1>1. stage[s] \in StageRecord /\ budget \in Budget
    BY DEF IInv, TypeOK
  <1>2. stage'[s].attempts <= 1 + budget'.repairCycles
    BY <1>1 DEF IInv, RetriesCharged, StageRecord, Budget
  <1>3. stage'[s].attempts > 0 => DependenciesReady(s)
    BY DEF IInv, DependenciesBeforeStart
  <1>4. Kind[s] = "approval" /\ stage'[s].status = "completed" =>
          [stage |-> s, status |-> "approved"] \in approvals'
    BY DEF IInv, ApprovalOnRecord, Completed
  <1> QED
    BY <1>2, <1>3, <1>4, RecordsOK DEF StageEffect

(* A step that rewrites a stage without touching its attempts, and does not *)
(* complete an approval.                                                    *)
LEMMA RewriteEffect ==
  ASSUME IInv, NEW s \in Stage, ~Completed(s),
         RecordOK(s, stage'[s]), stage'[s].attempts = stage[s].attempts,
         Kind[s] = "approval" => stage'[s].status # "completed",
         budget.repairCycles <= budget'.repairCycles, budget' \in Budget
  PROVE  StageEffect(s)
  <1>1. stage[s] \in StageRecord /\ budget \in Budget
    BY DEF IInv, TypeOK
  <1>2. stage'[s].attempts <= 1 + budget'.repairCycles
    BY <1>1 DEF IInv, RetriesCharged, StageRecord, Budget
  <1>3. stage'[s].attempts > 0 => DependenciesReady(s)
    BY DEF IInv, DependenciesBeforeStart
  <1> QED
    BY <1>2, <1>3 DEF StageEffect

LEMMA RunEffect ==
  ASSUME IInv, RunNext, NEW s \in Stage
  PROVE  StageEffect(s)
  <1> DEFINE idle == /\ budget' = budget /\ approvals' = approvals
  <1>1. idle
    BY DEF RunNext, Create, Transition, Cancel, RecoverInterrupted, Resume, AttachSession
  <1>2. budget \in Budget /\ budget.repairCycles <= budget'.repairCycles
    BY <1>1 DEF IInv, TypeOK, Budget
  <1>3. CASE stage'[s] = stage[s]
    BY <1>1, <1>2, <1>3, IdleEffect
  <1>4. stage[s] \in StageRecord
    BY DEF IInv, TypeOK
  <1>5. ASSUME Cancel \/ RecoverInterrupted, stage'[s] # stage[s] PROVE StageEffect(s)
    <2>1. stage[s].status = "running" /\ stage'[s] = Cut(s, stage[s])
      BY <1>5 DEF Cancel, RecoverInterrupted, StopRunning
    <2>2. RecordOK(s, Cut(s, stage[s])) /\ Cut(s, stage[s]).attempts = stage[s].attempts
      BY <1>4, <2>1, RecordsOK DEF RecordOK, Cut, StageRecord, IsWriteStage
    <2>3. ~Completed(s) /\ Cut(s, stage[s]).status # "completed"
      BY <1>4, <2>1 DEF Completed, Cut, StageRecord, IsWriteStage
    <2> QED
      BY <1>1, <1>2, <2>1, <2>2, <2>3, RewriteEffect
  <1>6. ASSUME NEW m \in [{t \in Stage : IsUncertain(t)} -> Marker], Resume(m),
               stage'[s] # stage[s]
        PROVE StageEffect(s)
    <2>1. CASE IsUncertain(s)
      <3>1. stage'[s] = ApplyResolution(s, m[s]) /\ m[s] \in Marker /\ VerifiedMarker(s, m[s])
        BY <1>6, <2>1 DEF Resume
      <3>2. stage[s].status = "uncertain" /\ IsWriteStage(s)
        BY <2>1, RecordsOK DEF IsUncertain, RecordOK
      <3>3. ApplyResolution(s, m[s]) \in StageRecord
        BY <3>1, ResolutionType DEF IInv
      <3>4. RecordOK(s, ApplyResolution(s, m[s]))
            /\ ApplyResolution(s, m[s]).attempts = stage[s].attempts
        <4>1. m[s].outcome \in Outcome
          BY <3>1 DEF Marker
        <4>2. [before |-> stage[s].before, after |-> m[s].digest] \in Receipt
              \/ m[s].outcome # "applied"
          BY <1>4, <3>1 DEF VerifiedMarker, Marker, Receipt, StageRecord
        <4> QED
          BY <1>4, <3>2, <4>1, <4>2, RecordsOK, StoreAssumption
          DEF RecordOK, ApplyResolution, ResolvedStatus, StageRecord, Outcome
      <3> QED
        BY <1>1, <1>2, <3>1, <3>2, <3>4, RewriteEffect DEF Completed, IsWriteStage
    <2>2. CASE ~IsUncertain(s)
      <3>1. stage[s].status = "blocked" /\ stage'[s] = WithStatus(s, "pending")
        BY <1>6, <2>2 DEF Resume
      <3>2. RecordOK(s, WithStatus(s, "pending"))
            /\ WithStatus(s, "pending").attempts = stage[s].attempts
            /\ WithStatus(s, "pending").status = "pending"
        BY <1>4, <3>1, RecordsOK DEF RecordOK, WithStatus, StageRecord
      <3> QED
        BY <1>1, <1>2, <3>1, <3>2, RewriteEffect DEF Completed
    <2> QED
      BY <2>1, <2>2
  <1>7. ASSUME stage' = stage PROVE StageEffect(s)
    BY <1>3, <1>7
  <1> QED
    BY <1>3, <1>5, <1>6, <1>7 DEF RunNext, Create, Transition, AttachSession

(* An operation on stage t rewrites that record only, keeps the approvals   *)
(* and charges the budget upwards.                                          *)
LEMMA StageFrame ==
  ASSUME IInv, NEW t \in Stage, StageNext(t)
  PROVE  /\ \A s \in Stage : s # t => stage'[s] = stage[s]
         /\ approvals \subseteq approvals'
         /\ budget' \in Budget
         /\ budget.repairCycles <= budget'.repairCycles
         /\ budget'.repairCycles <= MaxRepairCycles
  <1>1. budget' \in Budget /\ budget \in Budget /\ stage \in [Stage -> StageRecord]
    BY TypeStage DEF IInv, TypeOK
  <1>2. \A s \in Stage : s # t => stage'[s] = stage[s]
    BY <1>1 DEF StageNext, StopStage, FailStage, BlockStage, InterruptStage, ClaimStage,
       CompleteAction, CompleteTruthGate, FailDepartmentWithUsage,
       CompleteDepartmentWithArtifact, RecordArtifact, RecordApproval
  <1>3. approvals \subseteq approvals'
    BY DEF StageNext, StopStage, FailStage, BlockStage, InterruptStage, ClaimStage,
       CompleteAction, CompleteTruthGate, FailDepartmentWithUsage,
       CompleteDepartmentWithArtifact, RecordArtifact, RecordApproval
  <1>4. budget' = budget \/ (\E n \in Usage : budget' = ChargeCalls(n))
        \/ (budget' = ChargeRepair(t) /\ ClaimGuard(t))
    BY DEF StageNext, StopStage, FailStage, BlockStage, InterruptStage, ClaimStage,
       CompleteAction, CompleteTruthGate, FailDepartmentWithUsage,
       CompleteDepartmentWithArtifact, RecordArtifact, RecordApproval
  <1>5. \A n : ChargeCalls(n).repairCycles = budget.repairCycles
    BY <1>1 DEF ChargeCalls, Budget
  <1>6. ClaimGuard(t) => /\ ChargeRepair(t).repairCycles >= budget.repairCycles
                        /\ ChargeRepair(t).repairCycles <= MaxRepairCycles
    <2>1. stage[t].attempts \in Nat /\ budget.repairCycles <= MaxRepairCycles
      BY <1>1 DEF StageRecord, IInv, RetriesCharged
    <2> QED
      BY <1>1, <2>1, StoreAssumption DEF ChargeRepair, Budget, ClaimGuard
  <1>7. budget.repairCycles <= MaxRepairCycles
    BY DEF IInv, RetriesCharged
  <1>8. budget.repairCycles <= budget'.repairCycles /\ budget'.repairCycles <= MaxRepairCycles
    BY <1>1, <1>4, <1>5, <1>6, <1>7, StoreAssumption DEF Budget
  <1> QED
    BY <1>1, <1>2, <1>3, <1>8

LEMMA ClaimEffect ==
  ASSUME IInv, NEW s \in Stage, NEW e \in {"pending", "interrupted"}, NEW d \in Digest,
         ClaimStage(s, e, d)
  PROVE  StageEffect(s)
  <1>1. stage[s] \in StageRecord /\ budget \in Budget /\ stage'[s] = Claimed(s, d)
    BY DEF IInv, TypeOK, ClaimStage
  <1>2. Kind[s] # "approval" /\ ~Completed(s)
    BY DEF ClaimStage, ClaimGuard, StageUpdateGuard, StageOpen, Completed
  <1>3. DependenciesReady(s)
    <2>1. CASE e = "pending"
      BY <2>1 DEF ClaimStage, ClaimGuard
    <2>2. CASE e = "interrupted"
      BY <2>2 DEF ClaimStage, IInv, Attempted, DependenciesBeforeStart
    <2> QED
      BY <2>1, <2>2
  <1>4. RecordOK(s, Claimed(s, d))
    <2>1. /\ Claimed(s, d).status = "running"
          /\ Claimed(s, d).attempts = stage[s].attempts + 1
          /\ Claimed(s, d).receipt = stage[s].receipt
          /\ Claimed(s, d).uncertain = stage[s].uncertain
      BY <1>1 DEF Claimed, StageRecord
    <2>2. stage[s].attempts + 1 > 0 /\ stage[s].status # "uncertain"
      BY <1>1 DEF StageRecord, ClaimStage
    <2> QED
      BY <1>2, <2>1, <2>2, RecordsOK DEF RecordOK, Completed
  <1>5. stage'[s].attempts <= 1 + budget'.repairCycles
    <2>1. stage'[s].attempts = stage[s].attempts + 1
      BY <1>1 DEF Claimed, StageRecord
    <2>2. CASE stage[s].attempts = 0
      BY <1>1, <2>1, <2>2 DEF ClaimStage, ChargeRepair, Budget
    <2>3. CASE stage[s].attempts # 0
      <3>1. budget'.repairCycles = budget.repairCycles + 1
        BY <1>1, <2>3 DEF ClaimStage, ChargeRepair, Budget
      <3>2. stage[s].attempts <= 1 + budget.repairCycles
        BY DEF IInv, RetriesCharged
      <3> QED
        BY <1>1, <2>1, <3>1, <3>2 DEF StageRecord, Budget
    <2> QED
      BY <2>2, <2>3
  <1> QED
    BY <1>1, <1>2, <1>3, <1>4, <1>5 DEF StageEffect

LEMMA ApprovalEffect ==
  ASSUME IInv, NEW s \in Stage, NEW st \in ApprovalStatus, RecordApproval(s, st)
  PROVE  StageEffect(s)
  <1>1. stage[s] \in StageRecord /\ budget \in Budget /\ budget' = budget
        /\ stage'[s] = Answered(s, st)
    BY DEF IInv, TypeOK, RecordApproval
  <1>2. stage[s].status \in {"pending", "awaiting_approval"} /\ ~Completed(s)
        /\ Kind[s] = "approval" /\ DependenciesReady(s)
    BY DEF RecordApproval, ApprovalGuard, Completed
  <1>3. /\ stage'[s].status = ApprovalStageStatus(st)
        /\ stage'[s].attempts = IF st = "requested" \/ stage[s].attempts = 0
                                THEN stage[s].attempts + 1 ELSE stage[s].attempts
        /\ stage'[s].uncertain = stage[s].uncertain
    BY <1>1 DEF Answered, StageRecord
  <1>4. stage'[s].attempts \in Nat /\ stage'[s].attempts > 0
    BY <1>1, <1>3 DEF StageRecord
  <1>5. ApprovalStageStatus(st) # "uncertain"
        /\ ApprovalStageStatus(st) \notin {"pending", "blocked"}
        /\ (ApprovalStageStatus(st) = "completed" => st = "approved")
    BY DEF ApprovalStageStatus, ApprovalStatus, Decision
  <1>6. RecordOK(s, stage'[s])
    BY <1>2, <1>3, <1>4, <1>5, RecordsOK DEF RecordOK, IsWriteStage
  <1>7. stage'[s].attempts <= 1 + budget'.repairCycles
    <2>1. stage[s].attempts <= 1 + budget.repairCycles
      BY DEF IInv, RetriesCharged
    <2>2. st = "requested" => stage[s].attempts = 0
      BY <1>2, RecordsOK DEF RecordApproval, RecordOK
    <2> QED
      BY <1>1, <1>3, <2>1, <2>2 DEF Budget, StageRecord
  <1>8. stage'[s].status = "completed" => [stage |-> s, status |-> "approved"] \in approvals'
    BY <1>3, <1>5 DEF RecordApproval
  <1> QED
    BY <1>2, <1>6, <1>7, <1>8 DEF StageEffect

LEMMA StopEffect ==
  ASSUME IInv, NEW s \in Stage, NEW to \in {"failed", "blocked", "interrupted"},
         StopStage(s, to), to = "failed" => stage[s].claim > 0
  PROVE  StageEffect(s)
  <1> DEFINE st == EffectiveStatus(s, to)
  <1>1. stage[s] \in StageRecord /\ budget' = budget /\ budget \in Budget
        /\ stage'[s] = Stopped(s, st)
    BY DEF IInv, TypeOK, StopStage
  <1>2. Kind[s] # "approval" /\ ~IsUncertain(s) /\ ~Completed(s)
        /\ (st \in StageTransitions[stage[s].status] \/ to = stage[s].status)
    BY DEF StopStage, StageUpdateGuard, StageOpen, Completed, StageTransitions
  <1>3. st \in {"failed", "blocked", "interrupted", "uncertain"}
        /\ (st = "uncertain" => IsWriteStage(s))
    BY DEF EffectiveStatus
  <1>4. st # "blocked" => stage[s].attempts > 0
    <2>1. stage[s].status \in {"pending", "blocked"} => st \in {"blocked", "failed"}
      BY <1>2, <1>3 DEF StageTransitions, EffectiveStatus
    <2>2. st = "failed" => stage[s].claim > 0
      BY DEF EffectiveStatus
    <2> QED
      BY <2>1, <2>2 DEF IInv, Attempted
  <1>5. RecordOK(s, Stopped(s, st)) /\ Stopped(s, st).attempts = stage[s].attempts
    BY <1>1, <1>2, <1>3, <1>4, RecordsOK DEF RecordOK, Stopped, StageRecord, IsUncertain, Completed
  <1>6. budget.repairCycles <= budget'.repairCycles
    BY <1>1 DEF Budget
  <1> QED
    BY <1>1, <1>2, <1>5, <1>6, RewriteEffect

LEMMA CompleteEffect ==
  ASSUME IInv, NEW s \in Stage, NEW c \in Claims, NEW d \in Digest,
         \/ CompleteAction(s, c, d)
         \/ \E cited \in SUBSET UpstreamReceipts(s) : CompleteTruthGate(s, c, cited, d)
  PROVE  StageEffect(s)
  <1>1. stage[s] \in StageRecord /\ budget' = budget /\ budget \in Budget
    BY DEF IInv, TypeOK, CompleteAction, CompleteTruthGate
  <1>2. Kind[s] # "approval" /\ ~IsUncertain(s) /\ ~Completed(s)
        /\ stage[s].status \notin {"pending", "blocked"}
    BY DEF CompleteAction, CompleteTruthGate, StageUpdateGuard, StageOpen, Completed, StageTransitions
  <1>3. stage[s].attempts > 0
    BY <1>2 DEF IInv, Attempted
  <1>4. RecordOK(s, stage'[s]) /\ stage'[s].attempts = stage[s].attempts
    <2>1. CASE CompleteAction(s, c, d)
      <3>1. stage'[s] = Written(s, d) /\ stage[s].before # None
        BY <2>1 DEF CompleteAction, IInv, TypeOK
      <3>2. [before |-> stage[s].before, after |-> d] \in Receipt
        BY <1>1, <3>1 DEF Receipt, StageRecord
      <3>3. [before |-> stage[s].before, after |-> d] # None
        BY <3>2, StoreAssumption
      <3> QED
        BY <1>1, <1>2, <1>3, <3>1, <3>3, RecordsOK DEF RecordOK, Written, StageRecord, IsUncertain
    <2>2. ASSUME NEW cited, CompleteTruthGate(s, c, cited, d)
          PROVE RecordOK(s, stage'[s]) /\ stage'[s].attempts = stage[s].attempts
      <3>1. stage'[s] = Verified(s, cited) /\ ~IsWriteStage(s)
        BY <2>2 DEF CompleteTruthGate, IInv, TypeOK, IsWriteStage
      <3> QED
        BY <1>1, <1>2, <1>3, <3>1, RecordsOK DEF RecordOK, Verified, StageRecord, IsUncertain
    <2> QED
      BY <2>1, <2>2
  <1>5. budget.repairCycles <= budget'.repairCycles
    BY <1>1 DEF Budget
  <1> QED
    BY <1>1, <1>2, <1>4, <1>5, RewriteEffect

LEMMA DepartmentEffect ==
  ASSUME IInv, NEW s \in Stage, NEW c \in Claims, NEW st \in {"failed", "completed"},
         DepartmentGuard(s, c), stage' = [stage EXCEPT ![s] = WithStatus(s, st)],
         budget' \in Budget, budget.repairCycles <= budget'.repairCycles
  PROVE  StageEffect(s)
  <1>1. stage[s] \in StageRecord /\ stage'[s] = WithStatus(s, st)
    BY DEF IInv, TypeOK
  <1>2. Kind[s] = "department" /\ stage[s].status = "running" /\ ~Completed(s)
    BY DEF DepartmentGuard, Completed
  <1>3. RecordOK(s, WithStatus(s, st)) /\ WithStatus(s, st).attempts = stage[s].attempts
    BY <1>1, <1>2, RecordsOK DEF RecordOK, WithStatus, StageRecord, IsWriteStage
  <1> QED
    BY <1>1, <1>2, <1>3, RewriteEffect

LEMMA StepEffect ==
  ASSUME IInv, Next, NEW s \in Stage
  PROVE  StageEffect(s)
  <1>1. CASE RunNext
    BY <1>1, RunEffect
  <1>2. ASSUME NEW t \in Stage, StageNext(t), s # t PROVE StageEffect(s)
    BY <1>2, StageFrame, IdleEffect
  <1>3. ASSUME StageNext(s) PROVE StageEffect(s)
    <2>1. ASSUME NEW c \in Claims, NEW n \in Usage, FailDepartmentWithUsage(s, c, n)
          PROVE StageEffect(s)
      BY <1>3, <2>1, StageFrame, DepartmentEffect DEF FailDepartmentWithUsage
    <2>2. ASSUME NEW c \in Claims, NEW id \in ArtifactId, NEW n \in Usage,
                 CompleteDepartmentWithArtifact(s, c, id, n)
          PROVE StageEffect(s)
      BY <1>3, <2>2, StageFrame, DepartmentEffect DEF CompleteDepartmentWithArtifact
    <2>3. ASSUME NEW id \in ArtifactId, RecordArtifact(s, id) PROVE StageEffect(s)
      BY <1>3, <2>3, StageFrame, IdleEffect DEF RecordArtifact
    <2>4. ASSUME NEW c \in Claims, FailStage(s, c) PROVE StageEffect(s)
      BY <2>4, StopEffect DEF FailStage, HoldsClaim, Claims
    <2>5. ASSUME BlockStage(s) \/ InterruptStage(s) PROVE StageEffect(s)
      BY <2>5, StopEffect DEF BlockStage, InterruptStage
    <2> QED
      BY <1>3, <2>1, <2>2, <2>3, <2>4, <2>5, ClaimEffect, ApprovalEffect, CompleteEffect
      DEF StageNext
  <1> QED
    BY <1>1, <1>2, <1>3 DEF Next

LEMMA NextIInv == IInv /\ [Next]_storeVars => IInv'
  <1>1. ASSUME IInv, UNCHANGED storeVars PROVE IInv'
    BY <1>1 DEF IInv, TypeOK, DependenciesBeforeStart, WriteRecordConsistent, RetriesCharged,
       Attempted, ApprovalOnRecord, ApprovalUntouched, DependenciesReady, Completed, storeVars
  <1>2. ASSUME IInv, Next PROVE IInv'
    <2>1. TypeOK'
      BY <1>2, TypeRun, TypeStage DEF Next, IInv
    <2>2. \A s \in Stage : StageEffect(s)
      BY <1>2, StepEffect
    <2>3. WriteRecordConsistent'
      BY <2>2 DEF StageEffect, RecordOK, WriteRecordConsistent, Completed
    <2>4. Attempted' /\ ApprovalUntouched'
      BY <2>2 DEF StageEffect, RecordOK, Attempted, ApprovalUntouched
    <2>5. ApprovalOnRecord'
      BY <2>2 DEF StageEffect, ApprovalOnRecord, Completed
    <2>6. DependenciesBeforeStart'
      <3>1. \A s \in Stage : Completed(s) => stage'[s].status = "completed"
        BY <2>2 DEF StageEffect, Completed
      <3>2. \A s \in Stage : DependenciesReady(s) => \A d \in DependsOn[s] : stage'[d].status = "completed"
        BY <3>1, StoreAssumption DEF DependenciesReady
      <3> QED
        BY <2>2, <3>2 DEF StageEffect, DependenciesBeforeStart, DependenciesReady, Completed
    <2>7. budget'.repairCycles <= MaxRepairCycles
      <3>1. CASE RunNext
        BY <1>2, <3>1 DEF RunNext, Create, Transition, Cancel, RecoverInterrupted, Resume,
           AttachSession, IInv, RetriesCharged
      <3> QED
        BY <1>2, <3>1, StageFrame DEF Next
    <2>8. RetriesCharged'
      BY <2>2, <2>7 DEF StageEffect, RetriesCharged
    <2> QED
      BY <2>1, <2>3, <2>4, <2>5, <2>6, <2>8 DEF IInv
  <1> QED
    BY <1>1, <1>2

-----------------------------------------------------------------------------
(* The run store keeps its inductive invariant.                             *)
THEOREM Invariance == Spec => []IInv
  BY InitIInv, NextIInv, PTL DEF Spec

(* No pipeline definition and no order of calls starts a stage before its   *)
(* dependencies completed.                                                  *)
THEOREM DependencyOrder == Spec => []DependenciesBeforeStart
  <1>1. IInv => DependenciesBeforeStart
    BY DEF IInv
  <1> QED
    BY <1>1, Invariance, PTL

(* No write is attempted without the recorded approval of every approval    *)
(* stage it depends on.                                                     *)
THEOREM ApprovalBeforeWrite == Spec => []ApprovedBeforeWrite
  <1>1. IInv => ApprovedBeforeWrite
    BY StoreAssumption DEF IInv, ApprovedBeforeWrite, DependenciesBeforeStart, DependenciesReady,
       ApprovalOnRecord
  <1> QED
    BY <1>1, Invariance, PTL

(* Receipt, status and uncertainty flag of a write agree in every record.   *)
THEOREM WriteRecords == Spec => []WriteRecordConsistent
  <1>1. IInv => WriteRecordConsistent
    BY DEF IInv
  <1> QED
    BY <1>1, Invariance, PTL

(* Repeated attempts are paid for, within the repair budget.                *)
THEOREM RetryBudget == Spec => []RetriesCharged
  <1>1. IInv => RetriesCharged
    BY DEF IInv
  <1> QED
    BY <1>1, Invariance, PTL

(* A completed stage's record never changes again.                          *)
THEOREM FrozenRecords == Spec => CompletedFrozen
  <1>1. IInv /\ [Next]_storeVars =>
          [\A s \in Stage : Completed(s) => stage'[s] = stage[s]]_storeVars
    BY StepEffect DEF StageEffect
  <1> QED
    BY <1>1, Invariance, PTL DEF Spec, CompletedFrozen

-----------------------------------------------------------------------------
(* Writes are not repeated blindly.                                         *)

(* Only claimStage() counts an attempt of a write. *)
LEMMA WriteAttempted ==
  ASSUME IInv, Next, NEW s \in Stage, IsWriteStage(s), stage'[s].attempts # stage[s].attempts
  PROVE  \E e \in {"pending", "interrupted"}, d \in Digest : ClaimStage(s, e, d)
  <1>1. stage \in [Stage -> StageRecord] /\ stage[s] \in StageRecord
    BY DEF IInv, TypeOK
  <1>2. ASSUME NEW r, stage'[s] = r, r.attempts = stage[s].attempts PROVE FALSE
    BY <1>2
  <1>3. ASSUME RunNext PROVE FALSE
    <2>1. stage' = stage \/ stage' = StopRunning(stage)
          \/ \E m \in [{t \in Stage : IsUncertain(t)} -> Marker] : Resume(m)
      BY <1>3 DEF RunNext, Create, Transition, Cancel, RecoverInterrupted, AttachSession
    <2>2. stage' # stage
      BY <1>2
    <2>3. stage' # StopRunning(stage)
      <3>1. Cut(s, stage[s]).attempts = stage[s].attempts
        BY <1>1 DEF Cut, StageRecord
      <3> QED
        BY <1>2, <3>1 DEF StopRunning
    <2>4. ASSUME NEW m \in [{t \in Stage : IsUncertain(t)} -> Marker], Resume(m) PROVE FALSE
      <3>1. stage'[s] \in {ApplyResolution(s, m[s]), WithStatus(s, "pending"), stage[s]}
        BY <2>4 DEF Resume
      <3>2. ApplyResolution(s, m[s]).attempts = stage[s].attempts
            /\ WithStatus(s, "pending").attempts = stage[s].attempts
        BY <1>1 DEF ApplyResolution, WithStatus, StageRecord
      <3> QED
        BY <1>2, <3>1, <3>2
    <2> QED
      BY <2>1, <2>2, <2>3, <2>4
  <1>4. StageNext(s)
    BY <1>2, <1>3, StageFrame DEF Next
  <1>5. ASSUME NEW r, stage' = [stage EXCEPT ![s] = r], r.attempts = stage[s].attempts PROVE FALSE
    BY <1>1, <1>2, <1>5
  <1>6. /\ \A st : Stopped(s, st).attempts = stage[s].attempts
        /\ \A d : Written(s, d).attempts = stage[s].attempts
        /\ \A x : Verified(s, x).attempts = stage[s].attempts
        /\ \A st : WithStatus(s, st).attempts = stage[s].attempts
    BY <1>1 DEF Stopped, Written, Verified, WithStatus, StageRecord
  <1>7. \A to : ~StopStage(s, to)
    BY <1>5, <1>6 DEF StopStage
  <1>8. \A c, d : ~CompleteAction(s, c, d) /\ \A x : ~CompleteTruthGate(s, c, x, d)
    BY <1>5, <1>6 DEF CompleteAction, CompleteTruthGate
  <1>9. \A c, n : ~FailDepartmentWithUsage(s, c, n) /\ \A id : ~CompleteDepartmentWithArtifact(s, c, id, n)
    BY <1>5, <1>6 DEF FailDepartmentWithUsage, CompleteDepartmentWithArtifact
  <1>10. \A id : ~RecordArtifact(s, id)
    BY <1>2 DEF RecordArtifact
  <1>11. \A st : ~RecordApproval(s, st)
    BY DEF RecordApproval, ApprovalGuard, IsWriteStage
  <1> QED
    BY <1>4, <1>7, <1>8, <1>9, <1>10, <1>11 DEF StageNext, FailStage, BlockStage, InterruptStage

(* Whatever the retry settings and the order of calls, a second attempt of  *)
(* a write uses up a verified no-write resolution (claimStage()).           *)
THEOREM RewritesAuthorized == Spec => NoBlindRewrite
  <1> DEFINE Authorized == \A s \in Stage :
        IsWriteStage(s) /\ stage[s].attempts > 0 /\ stage'[s].attempts # stage[s].attempts
        => /\ stage[s].outcome = "retry" /\ ~stage[s].consumed
           /\ stage'[s].consumed
  <1>1. ASSUME IInv, Next, NEW s \in Stage,
               IsWriteStage(s), stage[s].attempts > 0, stage'[s].attempts # stage[s].attempts
        PROVE  stage[s].outcome = "retry" /\ ~stage[s].consumed /\ stage'[s].consumed
    <2>1. PICK e \in {"pending", "interrupted"}, d \in Digest : ClaimStage(s, e, d)
      BY <1>1, WriteAttempted
    <2>2. stage[s] \in StageRecord /\ stage'[s] = Claimed(s, d)
      BY <1>1, <2>1 DEF IInv, TypeOK, ClaimStage
    <2>3. CrashRetryAuthorized(s)
      <3>1. stage[s].attempts \in Nat /\ MaxAttempts[s] = 1
        BY <1>1, <2>2, StoreAssumption DEF StageRecord, IsWriteStage
      <3> QED
        BY <1>1, <2>1, <3>1 DEF ClaimStage, ClaimGuard
    <2>4. Claimed(s, d).consumed = (stage[s].consumed \/ CrashRetryAuthorized(s))
      BY <2>2 DEF Claimed, StageRecord
    <2> QED
      BY <2>2, <2>3, <2>4 DEF CrashRetryAuthorized
  <1>2. IInv /\ [Next]_storeVars => [Authorized]_storeVars
    BY <1>1
  <1> QED
    BY <1>2, Invariance, PTL DEF Spec, NoBlindRewrite

-----------------------------------------------------------------------------
(* What is stored can be loaded.                                            *)

(* The three demands of validSnapshot(). *)
EndedQuiet ==
    runStatus \in TerminalRunStatus => \A s \in Stage : stage[s].status # "running" /\ ~IsUncertain(s)

CompletedBacked ==
    runStatus = "completed" => \A s \in Stage : Completed(s) /\ HasDurableCompletionReceipt(s)

GateCites(s) ==
    Kind[s] = "truth-gate" /\ stage[s].gate # {} =>
          /\ \A t \in UpstreamWrites(s) : stage[t].receipt # None
          /\ stage[s].gate = UpstreamReceipts(s)

(* An ended run takes no call at all. *)
LEMMA EndedIdle ==
  ASSUME Next, runStatus \in TerminalRunStatus
  PROVE  FALSE
  <1>1. runStatus \in {"completed", "failed", "cancelled"} /\ ~Mutable
    BY DEF TerminalRunStatus, Mutable
  <1>2. ~RunNext
    <2>1. RunTransitions[runStatus] = {}
      BY <1>1 DEF RunTransitions
    <2>2. \A to : ~Transition(to)
      BY <2>1 DEF Transition, TransitionGuard
    <2>3. ~Create /\ ~Cancel /\ ~RecoverInterrupted /\ \A x : ~AttachSession(x)
      BY <1>1 DEF Create, Cancel, RecoverInterrupted, AttachSession
    <2>4. \A m : ~Resume(m)
      BY <1>1 DEF Resume
    <2> QED
      BY <2>2, <2>3, <2>4 DEF RunNext
  <1>3. ASSUME NEW s \in Stage PROVE ~StageNext(s)
    BY <1>1 DEF StageNext, StopStage, FailStage, BlockStage, InterruptStage, StageUpdateGuard, StageOpen, ClaimStage,
       ClaimGuard, CompleteAction, CompleteTruthGate, FailDepartmentWithUsage, CompleteDepartmentWithArtifact,
       DepartmentGuard, RecordArtifact, RecordApproval, ApprovalGuard
  <1> QED
    BY <1>2, <1>3 DEF Next

(* Only an end with nothing running and no write in doubt ends a run. *)
LEMMA EndsQuiet ==
  ASSUME IInv, Next
  PROVE  EndedQuiet' /\ CompletedBacked'
  <1>1. CASE runStatus' \notin TerminalRunStatus
    BY <1>1 DEF EndedQuiet, CompletedBacked, TerminalRunStatus
  <1>2. ASSUME runStatus' \in TerminalRunStatus PROVE EndedQuiet' /\ CompletedBacked'
    <2>1. \A s \in Stage : IsUncertain(s) => IsWriteStage(s)
      BY RecordsOK DEF RecordOK, IsUncertain
    <2>2. RunNext
      <3>1. runStatus \notin TerminalRunStatus
        BY EndedIdle
      <3>2. ASSUME NEW s \in Stage, StageNext(s) PROVE runStatus' = runStatus
        BY <3>2 DEF StageNext, StopStage, FailStage, BlockStage, InterruptStage, ClaimStage, CompleteAction,
           CompleteTruthGate, FailDepartmentWithUsage, CompleteDepartmentWithArtifact, RecordArtifact, RecordApproval
      <3> QED
        BY <1>2, <3>1, <3>2 DEF Next
    <2>3. CASE Cancel
      <3>1. runStatus' = "cancelled" /\ ~UnresolvedWrite /\ stage' = StopRunning(stage)
        BY <1>2, <2>3 DEF Cancel, TerminalRunStatus
      <3>2. ASSUME NEW s \in Stage PROVE stage'[s].status \notin {"running", "uncertain"} /\ ~stage'[s].uncertain
        <4>1. stage[s] \in StageRecord
          BY DEF IInv, TypeOK
        <4>2. ~IsUncertain(s) /\ (IsWriteStage(s) => stage[s].status # "running")
          BY <2>1, <3>1 DEF UnresolvedWrite
        <4>3. CASE stage[s].status = "running"
          BY <3>1, <4>1, <4>2, <4>3 DEF StopRunning, Cut, StageRecord
        <4>4. CASE stage[s].status # "running"
          BY <3>1, <4>2, <4>4 DEF StopRunning, IsUncertain
        <4> QED
          BY <4>3, <4>4
      <3> QED
        BY <3>1, <3>2 DEF EndedQuiet, CompletedBacked, IsUncertain
    <2>4. ASSUME NEW to \in TransitionTarget, Transition(to) PROVE EndedQuiet' /\ CompletedBacked'
      <3>1. stage' = stage /\ artifacts' = artifacts /\ runStatus' = to
        BY <2>4 DEF Transition
      <3>2. ~UnresolvedWrite /\ ~StageActive
        BY <1>2, <2>4, <3>1 DEF Transition, TransitionGuard
      <3>3. EndedQuiet'
        BY <2>1, <3>1, <3>2 DEF EndedQuiet, UnresolvedWrite, StageActive, IsUncertain
      <3>4. CompletedBacked'
        BY <2>4, <3>1 DEF CompletedBacked, Transition, TransitionGuard, Completed, HasDurableCompletionReceipt, ArtifactsOf
      <3> QED
        BY <3>3, <3>4
    <2> QED
      BY <1>2, <2>2, <2>3, <2>4, EndedIdle
      DEF RunNext, Create, RecoverInterrupted, Resume, AttachSession, TerminalRunStatus
  <1> QED
    BY <1>1, <1>2

(* A gate's receipt is written whole by completeTruthGate(), and the write  *)
(* receipts it cites are those of completed stages, which nothing changes.  *)
LEMMA GateKept ==
  ASSUME IInv, Next, NEW s \in Stage, GateCites(s)
  PROVE  GateCites(s)'
  <1>1. stage \in [Stage -> StageRecord]
    BY DEF IInv, TypeOK
  <1>2. UpstreamWrites(s)' = UpstreamWrites(s) /\ UpstreamWrites(s) \subseteq Stage
    BY DEF UpstreamWrites, Upstream
  <1>3. ASSUME NEW t \in UpstreamWrites(s), stage[t].receipt # None PROVE stage'[t] = stage[t]
    <2>1. Completed(t)
      BY <1>2, <1>3, RecordsOK DEF RecordOK, UpstreamWrites, Completed
    <2> QED
      BY <1>2, <2>1, StepEffect DEF StageEffect
  <1>4. ASSUME \A t \in UpstreamWrites(s) : stage[t].receipt # None
        PROVE  /\ UpstreamReceipts(s)' = UpstreamReceipts(s)
               /\ \A t \in UpstreamWrites(s) : stage'[t].receipt # None
    BY <1>2, <1>3, <1>4 DEF UpstreamReceipts
  <1>5. CASE stage'[s].gate = stage[s].gate
    BY <1>2, <1>4, <1>5 DEF GateCites
  <1>6. ASSUME NEW c, NEW x, NEW d, CompleteTruthGate(s, c, x, d) PROVE GateCites(s)'
    <2>1. stage'[s] = Verified(s, x) /\ x = UpstreamReceipts(s)
          /\ \A t \in UpstreamWrites(s) : stage[t].receipt # None
      BY <1>1, <1>6 DEF CompleteTruthGate
    <2>2. Verified(s, x).gate = x
      BY <1>1 DEF Verified, StageRecord
    <2> QED
      BY <1>2, <1>4, <2>1, <2>2 DEF GateCites
  <1>7. ASSUME stage'[s].gate # stage[s].gate PROVE \E c, x, d : CompleteTruthGate(s, c, x, d)
    <2>1. stage[s] \in StageRecord
      BY <1>1
    <2>2. ASSUME NEW r, stage'[s] = r, r.gate = stage[s].gate PROVE FALSE
      BY <1>7, <2>2
    <2>3. /\ \A st : Stopped(s, st).gate = stage[s].gate
          /\ \A d : Written(s, d).gate = stage[s].gate
          /\ \A d : Claimed(s, d).gate = stage[s].gate
          /\ \A st : Answered(s, st).gate = stage[s].gate
          /\ \A st : WithStatus(s, st).gate = stage[s].gate
          /\ Cut(s, stage[s]).gate = stage[s].gate
          /\ \A m : ApplyResolution(s, m).gate = stage[s].gate
      BY <2>1 DEF Stopped, Written, Claimed, Answered, WithStatus, Cut, ApplyResolution, StageRecord
    <2>4. ASSUME NEW r, stage' = [stage EXCEPT ![s] = r], r.gate = stage[s].gate PROVE FALSE
      BY <1>1, <2>2, <2>4
    <2>5. ASSUME RunNext PROVE FALSE
      <3>1. stage' = stage \/ stage' = StopRunning(stage)
            \/ \E m \in [{t \in Stage : IsUncertain(t)} -> Marker] : Resume(m)
        BY <2>5 DEF RunNext, Create, Transition, Cancel, RecoverInterrupted, AttachSession
      <3>2. stage' # stage
        BY <2>2
      <3>3. stage' # StopRunning(stage)
        BY <2>2, <2>3 DEF StopRunning
      <3>4. ASSUME NEW m \in [{t \in Stage : IsUncertain(t)} -> Marker], Resume(m) PROVE FALSE
        <4>1. stage'[s] \in {ApplyResolution(s, m[s]), WithStatus(s, "pending"), stage[s]}
          BY <3>4 DEF Resume
        <4> QED
          BY <2>2, <2>3, <4>1
      <3> QED
        BY <3>1, <3>2, <3>3, <3>4
    <2>6. StageNext(s)
      BY <2>2, <2>5, StageFrame DEF Next
    <2>7. \A to : ~StopStage(s, to)
      BY <2>3, <2>4 DEF StopStage
    <2>8. \A c, d : ~CompleteAction(s, c, d) /\ ~ClaimStage(s, c, d)
      BY <2>3, <2>4 DEF CompleteAction, ClaimStage
    <2>9. \A c, n : ~FailDepartmentWithUsage(s, c, n) /\ \A id : ~CompleteDepartmentWithArtifact(s, c, id, n)
      BY <2>3, <2>4 DEF FailDepartmentWithUsage, CompleteDepartmentWithArtifact
    <2>10. \A id : ~RecordArtifact(s, id)
      BY <2>2 DEF RecordArtifact
    <2>11. \A st : ~RecordApproval(s, st)
      BY <2>3, <2>4 DEF RecordApproval
    <2> QED
      BY <2>6, <2>7, <2>8, <2>9, <2>10, <2>11 DEF StageNext, FailStage, BlockStage, InterruptStage
  <1> QED
    BY <1>5, <1>6, <1>7

(* No order of calls stores a record that validSnapshot() of a later        *)
(* process refuses, although _commit() does not ask it.                     *)
THEOREM SnapshotsLoad == Spec => []ValidSnapshot
  <1> DEFINE Valid == EndedQuiet /\ CompletedBacked /\ \A s \in Stage : GateCites(s)
  <1>1. Init => Valid
    BY DEF Init, FreshStage, EndedQuiet, CompletedBacked, GateCites, TerminalRunStatus
  <1>2. IInv /\ Valid /\ [Next]_storeVars => Valid'
    <2>1. CASE UNCHANGED storeVars
      BY <2>1 DEF storeVars, EndedQuiet, CompletedBacked, GateCites, IsUncertain, Completed,
         HasDurableCompletionReceipt, ArtifactsOf, UpstreamReceipts, UpstreamWrites, Upstream
    <2> QED
      BY <2>1, EndsQuiet, GateKept
  <1>3. Valid => ValidSnapshot
    BY DEF EndedQuiet, CompletedBacked, GateCites, ValidSnapshot
  <1> QED
    BY <1>1, <1>2, <1>3, Invariance, PTL DEF Spec

(***************************************************************************)
(* THE MISSION                                                             *)
(***************************************************************************)
-----------------------------------------------------------------------------
(* The local state of the runner and of a request *)

AdvancePc == {"off", "load", "claim", "request", "lease", "exec", "armed", "wrote", "ok", "store", "release",
              "error", "unavailable", "charge", "fail", "failStage", "block", "transit"}

Advance == [pc : AdvancePc, s : Stage \cup {NoStage}, e : StageStatus, d : Digest, c : Nat,
            to : TransitionTarget, aborted : BOOLEAN]

Request == [pc   : {"idle", "start", "interrupt", "each", "final", "resume", "unlock", "schedule", "decided"},
            kind : {"none", "start", "pause", "cancel", "resume", "ask", "approve", "reject"},
            left : SUBSET Stage,
            m    : {<<>>} \cup UNION {[S -> Marker] : S \in SUBSET Stage}]

LeaseEntry == [state : {"free", "held", "quarantined"}, stage : Stage \cup {NoStage}]

(* The types, and what the program counters say: an advance that has chosen *)
(* a stage knows it, and past its claim the claim is one the store minted.  *)
MissionTyped ==
    /\ disk \in Digest
    /\ lease \in LeaseEntry
    /\ adv \in Advance
    /\ op \in Request
    /\ up \in BOOLEAN
    /\ client \in Client
    /\ adv.pc \notin {"off", "load", "transit"} => adv.s \in Stage
    /\ adv.pc \notin {"off", "load", "transit", "claim", "request"} => adv.c \in Claims
    /\ op.pc = "resume" => op.m \in UNION {[S -> Marker] : S \in SUBSET Stage}

MInv == IInv /\ MissionTyped

LEMMA MissionInitTyped == MissionInit => MInv
<1> SUFFICES ASSUME MissionInit PROVE MissionTyped
  BY InitIInv DEF MissionInit, MInv
<1>1. IdleAdvance \in Advance
  BY StoreAssumption DEF IdleAdvance, Advance, AdvancePc, StageStatus, TransitionTarget
<1>2. IdleOp \in Request /\ NoLease \in LeaseEntry
  BY DEF IdleOp, Request, NoLease, LeaseEntry
<1> QED
  BY <1>1, <1>2, StoreAssumption DEF MissionInit, MissionTyped, IdleAdvance, IdleOp

(* What a step of the runner leaves to be shown of its local state. *)
Advanced ==
    /\ adv' \in Advance
    /\ adv'.pc \notin {"off", "load", "transit"} => adv'.s \in Stage
    /\ adv'.pc \notin {"off", "load", "transit", "claim", "request"} => adv'.c \in 1 .. lastClaim'

LEMMA Went ==
  ASSUME MInv, lastClaim' \in Nat, lastClaim' >= lastClaim
  PROVE  /\ Finish => Advanced
         /\ \A to \in TransitionTarget : Ask(to) => Advanced
         /\ Goto("load") => Advanced
         /\ adv.pc \notin {"off", "load", "transit", "claim", "request"} =>
              \A pc \in AdvancePc : Goto(pc) => Advanced
<1>1. adv \in Advance /\ lastClaim \in Nat
  BY DEF MInv, IInv, TypeOK, MissionTyped
<1>2. IdleAdvance \in Advance /\ IdleAdvance.pc = "off"
  BY StoreAssumption DEF IdleAdvance, Advance, AdvancePc, StageStatus, TransitionTarget
<1>3. Finish => Advanced
  BY <1>2 DEF Finish, Advanced
<1>4. ASSUME NEW to \in TransitionTarget, Ask(to) PROVE Advanced
  BY <1>1, <1>4 DEF Ask, Advanced, Advance, AdvancePc
<1>5. ASSUME Goto("load") PROVE Advanced
  BY <1>1, <1>5 DEF Goto, Advanced, Advance, AdvancePc
<1>6. ASSUME NEW pc \in AdvancePc, Goto(pc), adv.pc \notin {"off", "load", "transit", "claim", "request"}
      PROVE  Advanced
  <2>1. adv' = [adv EXCEPT !.pc = pc] /\ adv.s \in Stage /\ adv.c \in 1 .. lastClaim
    BY <1>6 DEF Goto, MInv, MissionTyped, Claims
  <2>2. adv' \in Advance /\ adv'.s = adv.s /\ adv'.c = adv.c
    BY <1>1, <2>1 DEF Advance
  <2> QED
    BY <1>1, <2>1, <2>2 DEF Advanced
<1> QED
  BY <1>3, <1>4, <1>5, <1>6

-----------------------------------------------------------------------------
(* A step of the runner *)

(* What a step is to the store: a call of it, or nothing. *)
StoreCall == Next \/ UNCHANGED storeVars

LEMMA ClaimsGrow ==
  ASSUME IInv, StoreCall
  PROVE  lastClaim' \in Nat /\ lastClaim' >= lastClaim /\ IInv'
<1>1. IInv'
  BY NextIInv DEF StoreCall
<1>2. lastClaim \in Nat /\ lastClaim' \in Nat
  BY <1>1 DEF IInv, TypeOK
<1>3. CASE UNCHANGED storeVars
  BY <1>1, <1>2, <1>3 DEF storeVars
<1>4. CASE Next
  <2>1. CASE RunNext
    <3>1. lastClaim' = lastClaim
      BY <2>1 DEF RunNext, Create, Transition, Cancel, RecoverInterrupted, Resume, AttachSession
    <3> QED
      BY <1>1, <1>2, <3>1
  <2>2. ASSUME NEW s \in Stage, StageNext(s) PROVE lastClaim' >= lastClaim
    <3>1. (\E e, d : ClaimStage(s, e, d)) \/ lastClaim' = lastClaim
      BY <2>2 DEF StageNext, CompleteAction, CompleteTruthGate, FailStage, BlockStage, InterruptStage, StopStage,
         FailDepartmentWithUsage, CompleteDepartmentWithArtifact, RecordArtifact, RecordApproval
    <3> QED
      BY <1>2, <3>1 DEF ClaimStage
  <2> QED
    BY <1>1, <1>2, <1>4, <2>1, <2>2 DEF Next
<1> QED
  BY <1>1, <1>3, <1>4 DEF StoreCall

(* The calls of the store that the runner makes. *)
RunnerCall ==
    \/ UNCHANGED storeVars
    \/ \E to \in TransitionTarget : Transition(to)
    \/ \E s \in Stage : StageNext(s)

LEMMA RunnerStore ==
  ASSUME MInv, Runner
  PROVE  RunnerCall
<1>1. ASSUME NEW s \in Stage, StageNext(s) PROVE RunnerCall
  BY <1>1 DEF RunnerCall
<1>2. ASSUME NEW to \in TransitionTarget, Transition(to) PROVE RunnerCall
  BY <1>2 DEF RunnerCall
<1>3. adv \in Advance /\ disk \in Digest
  BY DEF MInv, MissionTyped
<1>4. adv.d \in Digest /\ adv.to \in TransitionTarget
  BY <1>3 DEF Advance
<1>5. CASE Claim
  <2>1. adv.s \in Stage
    BY <1>5 DEF Claim, MInv, MissionTyped
  <2>2. ClaimStage(adv.s, adv.e, adv.d) => StageNext(adv.s)
    BY <1>4 DEF ClaimStage, StageNext
  <2> QED
    BY <1>1, <1>5, <2>1, <2>2 DEF Claim, RunnerCall
<1>6. CASE Store
  <2>1. adv.s \in Stage /\ adv.c \in Claims
    BY <1>6 DEF Store, MInv, MissionTyped
  <2>2. StoreResult => StageNext(adv.s)
    <3>1. UpstreamReceipts(adv.s) \in SUBSET UpstreamReceipts(adv.s)
      OBVIOUS
    <3> QED
      BY <1>3, <1>4, <2>1, <3>1 DEF StoreResult, StoreDepartment, StageNext
  <2> QED
    BY <1>1, <1>6, <2>1, <2>2 DEF Store, RunnerCall
<1>7. CASE Charge
  <2>1. adv.s \in Stage /\ adv.c \in Claims
    BY <1>7 DEF Charge, MInv, MissionTyped
  <2> QED
    BY <1>1, <1>7, <2>1 DEF Charge, StageNext, RunnerCall
<1>8. CASE FailClaimed
  <2>1. adv.s \in Stage /\ adv.c \in Claims
    BY <1>8 DEF FailClaimed, MInv, MissionTyped
  <2> QED
    BY <1>1, <1>8, <2>1 DEF FailClaimed, StageNext, RunnerCall
<1>9. CASE Block
  <2>1. adv.s \in Stage
    BY <1>9 DEF Block, MInv, MissionTyped
  <2> QED
    BY <1>1, <1>9, <2>1 DEF Block, StageNext, RunnerCall
<1>10. CASE RequestApproval
  <2>1. adv.s \in Stage
    BY <1>10 DEF RequestApproval, MInv, MissionTyped
  <2> QED
    BY <1>1, <1>10, <2>1 DEF RequestApproval, StageNext, RunnerCall, ApprovalStatus
<1>11. CASE Transit
  BY <1>2, <1>4, <1>11 DEF Transit, RunnerCall
<1>12. Load \/ Lease \/ Execute \/ Apply \/ Applied \/ Accept \/ Release \/ Caught \/ Fail => UNCHANGED storeVars
  BY DEF Load, Lease, Execute, Apply, Applied, Accept, Release, Caught, Fail
<1> QED
  BY <1>5, <1>6, <1>7, <1>8, <1>9, <1>10, <1>11, <1>12 DEF Runner, RunnerCall

LEMMA RunnerCalls ==
  ASSUME MInv, Runner
  PROVE  StoreCall
BY RunnerStore DEF RunnerCall, StoreCall, Next, RunNext

LEMMA RunnerTyped ==
  ASSUME MInv, Runner
  PROVE  MInv'
<1>0. /\ lastClaim \in Nat /\ lastClaim' \in Nat /\ lastClaim' >= lastClaim /\ IInv' /\ StoreCall
      /\ adv \in Advance /\ disk \in Digest /\ lease \in LeaseEntry
  BY RunnerCalls, ClaimsGrow DEF MInv, IInv, TypeOK, MissionTyped
<1>1. /\ Finish => Advanced
      /\ \A to \in TransitionTarget : Ask(to) => Advanced
      /\ Goto("load") => Advanced
      /\ adv.pc \notin {"off", "load", "transit", "claim", "request"} => \A pc \in AdvancePc : Goto(pc) => Advanced
  BY <1>0, Went
<1>2. UNCHANGED <<op, up, client>>
  BY DEF Runner, Load, Claim, Lease, Execute, Apply, Applied, Accept, Store, Release, Caught, Charge, Fail, FailClaimed,
         Block, RequestApproval, Transit
<1>3. SUFFICES Advanced /\ disk' \in Digest /\ lease' \in LeaseEntry
  BY <1>0, <1>2 DEF MInv, MissionTyped, Advanced, Claims
<1>4. CASE Load
  <2>1. UNCHANGED <<disk, lease>>
    BY <1>4 DEF Load
  <2>2. {"budget_paused", "completed", "failed"} \subseteq TransitionTarget
    BY DEF TransitionTarget
  <2>3. ASSUME NEW s \in Stage, LoadReady(s) PROVE Advanced
    <3>1. stage[s].status \in StageStatus /\ checkpoint \in Digest
      BY DEF MInv, IInv, TypeOK, StageRecord
    <3>2. adv' = [adv EXCEPT !.pc = IF Kind[s] = "approval" THEN "request" ELSE "claim", !.s = s,
                             !.e = stage[s].status, !.d = checkpoint]
      BY <2>3 DEF LoadReady
    <3> QED
      BY <1>0, <3>1, <3>2 DEF Advanced, Advance, AdvancePc
  <2>4. LoadStop \/ LoadExhausted \/ LoadIdle => Advanced
    BY <1>1, <2>2 DEF LoadStop, LoadExhausted, LoadIdle
  <2> QED
    BY <1>0, <1>4, <2>1, <2>3, <2>4 DEF Load
<1>5. CASE Claim
  <2>1. UNCHANGED <<disk, lease>> /\ adv.pc = "claim" /\ adv.s \in Stage
    BY <1>5 DEF Claim, MInv, MissionTyped
  <2>2. ASSUME ClaimStage(adv.s, adv.e, adv.d), adv' = [adv EXCEPT !.pc = IF IsWriteStage(adv.s) THEN "lease" ELSE "exec",
                                                                   !.c = lastClaim']
        PROVE  Advanced
    <3>1. lastClaim' = lastClaim + 1
      BY <2>2 DEF ClaimStage
    <3>2. \E pc \in {"lease", "exec"} : adv' = [adv EXCEPT !.pc = pc, !.c = lastClaim']
      BY <2>2
    <3>3. adv' \in Advance /\ adv'.s = adv.s /\ adv'.c = lastClaim'
      BY <1>0, <3>2 DEF Advance, AdvancePc
    <3> QED
      BY <1>0, <2>1, <3>1, <3>3 DEF Advanced
  <2> QED
    BY <1>0, <1>1, <1>5, <2>1, <2>2 DEF Claim
<1>6. CASE Lease
  <2>1. adv.pc = "lease" /\ adv.s \in Stage /\ UNCHANGED disk /\ (Goto("exec") \/ Goto("error"))
        /\ (lease' = lease \/ lease' = [state |-> "held", stage |-> adv.s])
    BY <1>6 DEF Lease, MInv, MissionTyped
  <2> QED
    BY <1>0, <1>1, <2>1 DEF AdvancePc, LeaseEntry
<1>7. CASE Execute
  BY <1>0, <1>1, <1>7 DEF Execute, AdvancePc
<1>8. CASE Apply
  BY <1>0, <1>1, <1>8 DEF Apply, AdvancePc
<1>9. CASE Applied
  BY <1>0, <1>1, <1>9 DEF Applied, AdvancePc
<1>10. CASE Accept
  BY <1>0, <1>1, <1>10 DEF Accept, Loop, AdvancePc
<1>11. CASE Store
  BY <1>0, <1>1, <1>11 DEF Store, AdvancePc
<1>12. CASE Release
  BY <1>0, <1>1, <1>12 DEF Release, NoLease, LeaseEntry, AdvancePc
<1>13. CASE Caught
  BY <1>0, <1>1, <1>13 DEF Caught, AdvancePc
<1>14. CASE Charge
  BY <1>0, <1>1, <1>14 DEF Charge, AdvancePc
<1>15. CASE Fail
  BY <1>0, <1>1, <1>15 DEF Fail, Loop, AdvancePc, TransitionTarget
<1>16. CASE FailClaimed
  BY <1>0, <1>1, <1>16 DEF FailClaimed, TransitionTarget
<1>17. CASE Block
  BY <1>0, <1>1, <1>17 DEF Block, TransitionTarget
<1>18. CASE RequestApproval
  BY <1>0, <1>1, <1>18 DEF RequestApproval, TransitionTarget
<1>19. CASE Transit
  BY <1>0, <1>1, <1>19 DEF Transit
<1> QED
  BY <1>4, <1>5, <1>6, <1>7, <1>8, <1>9, <1>10, <1>11, <1>12, <1>13, <1>14, <1>15, <1>16, <1>17, <1>18, <1>19 DEF Runner

-----------------------------------------------------------------------------
(* A step of the gateway *)

LEMMA GatewayCalls ==
  ASSUME MInv, Gateway
  PROVE  StoreCall
<1>1. ASSUME NEW s \in Stage, StageNext(s) PROVE StoreCall
  BY <1>1 DEF StoreCall, Next
<1>2. ASSUME NEW to \in TransitionTarget, Transition(to) PROVE StoreCall
  BY <1>2 DEF StoreCall, Next, RunNext
<1>3. {"running", "paused", "failed"} \subseteq TransitionTarget
  BY DEF TransitionTarget
<1>4. op \in Request
  BY DEF MInv, MissionTyped
<1>5. CASE CreateRun
  BY <1>5 DEF CreateRun, StoreCall, Next, RunNext
<1>6. CASE StartCommit
  BY <1>2, <1>3, <1>6 DEF StartCommit, StoreCall
<1>7. CASE InterruptEach
  <2>1. op.left \subseteq Stage
    BY <1>4 DEF Request
  <2> QED
    BY <1>1, <1>7, <2>1 DEF InterruptEach, StageNext, StoreCall
<1>8. CASE StopFinal
  BY <1>2, <1>3, <1>8 DEF StopFinal, StoreCall, Next, RunNext
<1>9. CASE ResumeCommit
  <2>1. ASSUME Resume(op.m) PROVE op.m \in [{s \in Stage : IsUncertain(s)} -> Marker]
    <3>1. PICK S \in SUBSET Stage : op.m \in [S -> Marker]
      BY <1>9 DEF ResumeCommit, MInv, MissionTyped
    <3>2. S = {s \in Stage : IsUncertain(s)}
      BY <2>1, <3>1 DEF Resume
    <3> QED
      BY <3>1, <3>2
  <2> QED
    BY <1>9, <2>1 DEF ResumeCommit, StoreCall, Next, RunNext
<1>10. ASSUME NEW kind \in {"ask", "approve", "reject"}, Decide(kind) PROVE StoreCall
  <2>1. ApprovalOf(kind) \subseteq ApprovalStatus
    BY DEF ApprovalOf, ApprovalStatus, Decision
  <2>2. \E s \in Stage, status \in ApprovalStatus : RecordApproval(s, status) \/ UNCHANGED storeVars
    BY <1>10, <2>1 DEF Decide
  <2> QED
    BY <1>1, <2>2 DEF StageNext, StoreCall
<1>11. CASE Decided
  BY <1>2, <1>3, <1>11 DEF Decided, StoreCall
<1>12. Start \/ (\E kind : Stop(kind)) \/ Interrupt \/ ResumeVerify \/ ResumeAgain \/ ResolveQuarantine \/ ScheduleStep
         => UNCHANGED storeVars
  BY DEF Start, Stop, Interrupt, ResumeVerify, ResumeAgain, ResolveQuarantine, ScheduleStep
<1> QED
  BY <1>5, <1>6, <1>7, <1>8, <1>9, <1>10, <1>11, <1>12 DEF Gateway, HandlerStep, Operator, StoreCall

LEMMA GatewayTyped ==
  ASSUME MInv, Gateway
  PROVE  MInv'
<1>0. /\ lastClaim \in Nat /\ lastClaim' \in Nat /\ lastClaim' >= lastClaim /\ IInv' /\ StoreCall
      /\ adv \in Advance /\ op \in Request /\ lease \in LeaseEntry
      /\ adv.pc \notin {"off", "load", "transit"} => adv.s \in Stage
      /\ adv.pc \notin {"off", "load", "transit", "claim", "request"} => adv.c \in Claims
      /\ op.pc = "resume" => op.m \in UNION {[S -> Marker] : S \in SUBSET Stage}
  BY GatewayCalls, ClaimsGrow DEF MInv, IInv, TypeOK, MissionTyped
<1>1. UNCHANGED <<disk, up, client>>
  BY DEF Gateway, HandlerStep, Operator, CreateRun, localVars, StartCommit, InterruptEach, StopFinal, ResumeCommit, Decide,
         Decided, Start, Stop, Interrupt, ResumeVerify, ResumeAgain, ResolveQuarantine, ScheduleStep
<1> DEFINE Asked == op' \in Request /\ (op'.pc = "resume" => op'.m \in UNION {[S -> Marker] : S \in SUBSET Stage})
<1>2. SUFFICES Advanced /\ Asked /\ lease' \in LeaseEntry
  BY <1>0, <1>1 DEF MInv, MissionTyped, Advanced, Claims
<1>3. adv' = adv => Advanced
  BY <1>0 DEF Advanced, Claims
<1>4. op' = op \/ op' = IdleOp => Asked
  BY <1>0 DEF IdleOp, Request
<1>5. ASSUME NEW pc \in {"idle", "start", "interrupt", "each", "final", "unlock", "schedule", "decided"},
             op' = [op EXCEPT !.pc = pc]
      PROVE  Asked
  BY <1>0, <1>5 DEF Request
<1>6. ASSUME NEW pc \in {"idle", "start", "interrupt", "each", "final", "unlock", "schedule", "decided"},
             NEW kind \in {"start", "pause", "cancel", "resume", "ask", "approve", "reject"},
             op' = [op EXCEPT !.pc = pc, !.kind = kind]
      PROVE  Asked
  BY <1>0, <1>6 DEF Request
<1>7. CASE CreateRun
  BY <1>0, <1>3, <1>4, <1>7 DEF CreateRun, localVars
<1>8. CASE Start
  BY <1>0, <1>3, <1>6, <1>8 DEF Start
<1>9. CASE StartCommit
  BY <1>0, <1>3, <1>4, <1>5, <1>9 DEF StartCommit
<1>10. ASSUME NEW kind \in {"pause", "cancel"}, Stop(kind) PROVE Advanced /\ Asked /\ lease' = lease
  <2>1. Advanced
    <3>1. CASE adv' = [adv EXCEPT !.aborted = TRUE]
      <4>1. adv' \in Advance /\ adv'.pc = adv.pc /\ adv'.s = adv.s /\ adv'.c = adv.c
        BY <1>0, <3>1 DEF Advance
      <4> QED
        BY <1>0, <4>1 DEF Advanced, Claims
    <3> QED
      BY <1>3, <1>10, <3>1 DEF Stop, Abort
  <2> QED
    BY <1>10, <1>6, <2>1 DEF Stop
<1>11. CASE Interrupt
  <2>1. op' = [op EXCEPT !.pc = "each", !.left = IF runStatus = "running"
                                              THEN {s \in Stage : stage[s].status = "running"} ELSE {}]
    BY <1>11 DEF Interrupt
  <2>2. Asked
    BY <1>0, <2>1 DEF Request
  <2> QED
    BY <1>0, <1>3, <1>11, <2>2 DEF Interrupt
<1>12. CASE InterruptEach
  <2>1. ASSUME NEW s, op' = [op EXCEPT !.left = @ \ {s}], op.pc = "each" PROVE Asked
    BY <1>0, <2>1 DEF Request
  <2> QED
    BY <1>0, <1>3, <1>4, <1>5, <1>12, <2>1 DEF InterruptEach
<1>13. CASE StopFinal
  BY <1>0, <1>3, <1>4, <1>13 DEF StopFinal
<1>14. CASE ResumeVerify
  <2>1. PICK m \in [UncertainStages -> [outcome : Outcome, digest : {disk}]] :
           op' = [op EXCEPT !.pc = "resume", !.kind = "resume", !.m = m]
    BY <1>14 DEF ResumeVerify
  <2>2. m \in [UncertainStages -> Marker] /\ UncertainStages \subseteq Stage
    BY <2>1 DEF Marker, UncertainStages, MInv, MissionTyped
  <2>3. m \in UNION {[S -> Marker] : S \in SUBSET Stage}
    BY <2>2
  <2>4. op' \in Request /\ op'.m = m
    BY <1>0, <2>1, <2>3 DEF Request
  <2> QED
    BY <1>0, <1>3, <1>14, <2>3, <2>4 DEF ResumeVerify
<1>15. CASE ResumeAgain
  BY <1>0, <1>3, <1>6, <1>15 DEF ResumeAgain
<1>16. CASE ResumeCommit
  BY <1>0, <1>3, <1>4, <1>5, <1>16 DEF ResumeCommit
<1>17. CASE ResolveQuarantine
  BY <1>0, <1>3, <1>4, <1>5, <1>17 DEF ResolveQuarantine, NoLease, LeaseEntry
<1>18. CASE ScheduleStep
  <2>1. [IdleAdvance EXCEPT !.pc = "load"] \in Advance
    BY StoreAssumption DEF IdleAdvance, Advance, AdvancePc, StageStatus, TransitionTarget
  <2>2. Advanced
    <3>1. adv' = adv \/ adv' = [IdleAdvance EXCEPT !.pc = "load"]
      BY <1>18 DEF ScheduleStep, Schedule
    <3>2. [IdleAdvance EXCEPT !.pc = "load"].pc = "load"
      BY DEF IdleAdvance
    <3> QED
      BY <1>3, <2>1, <3>1, <3>2 DEF Advanced
  <2> QED
    BY <1>0, <1>4, <1>18, <2>2 DEF ScheduleStep
<1>19. ASSUME NEW kind \in {"ask", "approve", "reject"}, Decide(kind) PROVE Advanced /\ Asked /\ lease' = lease
  BY <1>3, <1>6, <1>19 DEF Decide
<1>20. CASE Decided
  BY <1>0, <1>3, <1>4, <1>5, <1>20 DEF Decided
<1> QED
  BY <1>0, <1>7, <1>8, <1>9, <1>10, <1>11, <1>12, <1>13, <1>14, <1>15, <1>16, <1>17, <1>18, <1>19, <1>20
     DEF Gateway, HandlerStep, Operator

-----------------------------------------------------------------------------
(* Death, restart and the whole mission *)

LEMMA ProcessStep ==
  ASSUME MInv, Crash \/ Restart
  PROVE  StoreCall /\ MInv'
<1>1. StoreCall
  BY DEF Crash, Restart, StoreCall, Next, RunNext
<1>2. IInv' /\ lastClaim' >= lastClaim /\ lastClaim' \in Nat /\ lastClaim \in Nat
  BY <1>1, ClaimsGrow DEF MInv, IInv, TypeOK
<1>3. CASE Crash
  <2>1. IdleAdvance \in Advance /\ IdleOp \in Request
    BY MissionInitTyped, StoreAssumption DEF IdleAdvance, Advance, AdvancePc, StageStatus, TransitionTarget, IdleOp, Request
  <2> QED
    BY <1>1, <1>2, <1>3, <2>1 DEF Crash, MInv, MissionTyped, IdleAdvance, IdleOp
<1>4. CASE Restart
  <2>1. lease' \in LeaseEntry
    BY <1>4 DEF Restart, RecoverStale, NoLease, LeaseEntry, MInv, MissionTyped
  <2> QED
    BY <1>1, <1>2, <1>4, <2>1 DEF Restart, MInv, MissionTyped, Claims
<1> QED
  BY <1>3, <1>4

LEMMA MissionStep ==
  ASSUME MInv, [MissionNext]_vars
  PROVE  StoreCall /\ MInv'
<1>1. CASE UNCHANGED vars
  <2>1. IInv'
    BY <1>1, NextIInv DEF MInv, vars
  <2> QED
    BY <1>1, <2>1 DEF vars, storeVars, localVars, StoreCall, MInv, MissionTyped, Claims
<1> QED
  BY <1>1, RunnerCalls, RunnerTyped, GatewayCalls, GatewayTyped, ProcessStep DEF MissionNext

LEMMA MissionInvariant == MissionSpec => []MInv
<1>1. MInv /\ [MissionNext]_vars => MInv'
  BY MissionStep
<1> QED
  BY MissionInitTyped, <1>1, PTL DEF MissionSpec

(* Local state and record keep their types: no await lets a runner or a     *)
(* request go on with a stage or a claim that does not exist.               *)
THEOREM MissionTypeCorrect == MissionSpec => [](TypeOK /\ MissionTyped)
<1>1. MInv => TypeOK /\ MissionTyped
  BY DEF MInv, IInv
<1> QED
  BY MissionInvariant, <1>1, PTL

(* Runner, handlers, crashes and restarts are, to the record, calls of the  *)
(* store.                                                                   *)
LEMMA StoreCalls == MissionSpec => Spec
<1>1. MissionInit => Init
  BY DEF MissionInit
<1>2. MInv /\ [MissionNext]_vars => [Next]_storeVars
  BY MissionStep DEF StoreCall
<1> QED
  BY MissionInvariant, <1>1, <1>2, PTL DEF MissionSpec, Spec

(* So what is proved of the store holds of a mission: its record passes the *)
(* validation of the next process, whatever was running when it died.       *)
THEOREM MissionSnapshotsLoad == MissionSpec => []ValidSnapshot
BY StoreCalls, SnapshotsLoad, PTL

(* And a mission repeats a write only on a verified no-write resolution.    *)
THEOREM MissionRewritesAuthorized == MissionSpec => NoBlindRewrite
BY StoreCalls, RewritesAuthorized, PTL

-----------------------------------------------------------------------------
(* The lease *)

(* Only a write takes the lease or is armed, and while it may still touch   *)
(* the workspace the lease is its own.  A dead process advances nothing.    *)
Leased ==
    /\ adv.pc \in {"lease", "armed", "wrote"} => IsWriteStage(adv.s)
    /\ adv.pc \in {"exec", "armed", "wrote"} /\ IsWriteStage(adv.s) =>
          lease = [state |-> "held", stage |-> adv.s]
    /\ ~up => adv = IdleAdvance /\ op = IdleOp

(* Where an advance has a stage that is not settled yet. *)
AtWork == {"claim", "lease", "exec", "armed", "wrote", "ok", "store"}

SameAdvance == adv'.pc = adv.pc /\ adv'.s = adv.s /\ adv'.d = adv.d

(* A request leaves the advance where it is, or starts one. *)
LEMMA GatewayMoves ==
  ASSUME MInv, Gateway
  PROVE  /\ UNCHANGED <<disk, client, up>> /\ up
         /\ SameAdvance \/ adv'.pc = "load"
         /\ lease' = lease \/ (ResolveQuarantine /\ lease.state # "held")
<1>1. UNCHANGED <<disk, client, up>> /\ up
  BY DEF Gateway, HandlerStep, Operator, CreateRun, localVars, StartCommit, InterruptEach, StopFinal, ResumeCommit, Decide,
         Decided, Start, Stop, Interrupt, ResumeVerify, ResumeAgain, ResolveQuarantine, ScheduleStep
<1>2. lease' = lease \/ (ResolveQuarantine /\ lease.state # "held")
  BY DEF Gateway, HandlerStep, Operator, CreateRun, localVars, StartCommit, InterruptEach, StopFinal, ResumeCommit, Decide,
         Decided, Start, Stop, Interrupt, ResumeVerify, ResumeAgain, ResolveQuarantine, ScheduleStep
<1>3. adv' = adv \/ (\E kind : Stop(kind)) \/ ScheduleStep
  BY DEF Gateway, HandlerStep, Operator, CreateRun, localVars, StartCommit, InterruptEach, StopFinal, ResumeCommit, Decide,
         Decided, Start, Interrupt, ResumeVerify, ResumeAgain, ResolveQuarantine
<1>4. adv \in Advance
  BY DEF MInv, MissionTyped
<1>5. ASSUME NEW kind, Stop(kind) PROVE SameAdvance
  <2>1. adv' = adv \/ adv' = [adv EXCEPT !.aborted = TRUE]
    BY <1>5 DEF Stop, Abort
  <2> QED
    BY <1>4, <2>1 DEF Advance, SameAdvance
<1>6. ASSUME ScheduleStep PROVE SameAdvance \/ adv'.pc = "load"
  <2>1. adv' = adv \/ adv' = [IdleAdvance EXCEPT !.pc = "load"]
    BY <1>6 DEF ScheduleStep, Schedule
  <2> QED
    BY <2>1 DEF IdleAdvance, SameAdvance
<1> QED
  BY <1>1, <1>2, <1>3, <1>5, <1>6 DEF SameAdvance

(* The runner's steps that settle a stage, and where they leave the advance.*)
Settling == Store \/ Release \/ Caught \/ Charge \/ Fail \/ FailClaimed \/ Block \/ RequestApproval \/ Transit

LEMMA Gone ==
  ASSUME MInv
  PROVE  /\ \A pc \in AdvancePc : Goto(pc) => adv'.pc = pc /\ adv'.s = adv.s /\ adv'.d = adv.d
         /\ \A to : Ask(to) => adv'.pc = "transit"
         /\ Finish => adv'.pc = "off"
         /\ Loop => adv'.pc \in {"load", "off"}
<1>1. adv \in Advance
  BY DEF MInv, MissionTyped
<1>2. ASSUME NEW pc \in AdvancePc, Goto(pc) PROVE adv'.pc = pc /\ adv'.s = adv.s /\ adv'.d = adv.d
  BY <1>1, <1>2 DEF Goto, Advance
<1>3. ASSUME NEW to, Ask(to) PROVE adv'.pc = "transit"
  BY <1>1, <1>3 DEF Ask, Advance
<1>4. Finish => adv'.pc = "off"
  BY DEF Finish, IdleAdvance
<1>5. "load" \in AdvancePc
  BY DEF AdvancePc
<1> QED
  BY <1>2, <1>3, <1>4, <1>5 DEF Loop

LEMMA SettlingMoves ==
  ASSUME MInv, Settling
  PROVE  /\ adv'.pc \notin AtWork /\ UNCHANGED <<disk, client, up>>
         /\ lease' = lease \/ Release
<1>1. UNCHANGED <<disk, client, up>> /\ (lease' = lease \/ Release)
  BY DEF Settling, Store, Release, Caught, Charge, Fail, FailClaimed, Block, RequestApproval, Transit
<1>2. /\ (\E pc \in {"release", "load", "error", "block", "fail", "charge", "failStage"} : Goto(pc)) => adv'.pc \notin AtWork
      /\ (\E to : Ask(to)) \/ Finish \/ Loop => adv'.pc \notin AtWork
  BY Gone DEF AtWork, AdvancePc
<1>3. \/ \E pc \in {"release", "load", "error", "block", "fail", "charge", "failStage"} : Goto(pc)
      \/ (\E to : Ask(to)) \/ Finish \/ Loop
  BY DEF Settling, Store, Release, Caught, Charge, Fail, FailClaimed, Block, RequestApproval, Transit
<1> QED
  BY <1>1, <1>2, <1>3

(* The steps of the runner on the way to the workspace. *)
LEMMA ClaimMoves ==
  ASSUME MInv, Claim
  PROVE  /\ UNCHANGED <<disk, lease, client, up>> /\ adv.s \in Stage
         /\ \/ /\ ClaimStage(adv.s, adv.e, adv.d) /\ adv'.s = adv.s /\ adv'.d = adv.d
               /\ adv'.pc = IF IsWriteStage(adv.s) THEN "lease" ELSE "exec"
            \/ UNCHANGED storeVars /\ adv'.pc \in {"load", "off"}
<1>1. adv \in Advance /\ adv.s \in Stage
  BY DEF Claim, MInv, MissionTyped
<1>2. UNCHANGED <<disk, lease, client, up>>
  BY DEF Claim
<1>3. \/ /\ ClaimStage(adv.s, adv.e, adv.d)
         /\ adv' = [adv EXCEPT !.pc = IF IsWriteStage(adv.s) THEN "lease" ELSE "exec", !.c = lastClaim']
      \/ UNCHANGED storeVars /\ (Goto("load") \/ Finish)
  BY DEF Claim
<1> QED
  BY <1>1, <1>2, <1>3, Gone DEF Advance, AdvancePc

LEMMA LeasedStep ==
  ASSUME MInv, Leased, [MissionNext]_vars
  PROVE  Leased'
<1>0. adv \in Advance /\ adv' \in Advance /\ MInv'
  BY MissionStep DEF MInv, MissionTyped
<1>1. CASE UNCHANGED vars
  BY <1>1 DEF vars, localVars, Leased
<1>2. CASE Crash
  BY <1>2 DEF Crash, Leased, IdleAdvance
<1>3. CASE Restart
  BY <1>3 DEF Restart, Leased, IdleAdvance
<1>4. CASE Gateway
  BY <1>4, GatewayMoves DEF Leased, SameAdvance
<1>5. CASE Runner
  <2>0. up /\ up' = up
    BY <1>5 DEF Runner, Load, Claim, Lease, Execute, Apply, Applied, Accept, Store, Release, Caught, Charge, Fail, FailClaimed,
         Block, RequestApproval, Transit
  <2>1. CASE Load
    <3>1. adv'.pc \notin AtWork \ {"claim"}
      <4>1. ASSUME NEW s \in Stage, LoadReady(s) PROVE adv'.pc \in {"request", "claim"}
        BY <1>0, <4>1 DEF LoadReady, Advance
      <4> QED
        BY <2>1, <4>1, Gone DEF Load, LoadStop, LoadExhausted, LoadIdle, AtWork
    <3> QED
      BY <2>0, <3>1 DEF Leased, AtWork
  <2>2. CASE Claim
    <3>1. adv'.pc \in {"lease", "exec", "load", "off"} /\ (adv'.pc = "lease" <=> adv'.pc \in {"lease", "exec"} /\ IsWriteStage(adv'.s))
      BY <2>2, ClaimMoves
    <3> QED
      BY <2>0, <3>1 DEF Leased
  <2>3. CASE Lease
    <3>1. \/ Goto("exec") /\ lease' = [state |-> "held", stage |-> adv.s]
          \/ Goto("error")
      BY <2>3 DEF Lease
    <3> QED
      BY <2>0, <3>1, Gone DEF Leased, AdvancePc
  <2>4. CASE Execute
    <3>1. lease' = lease /\ adv.pc = "exec"
          /\ ((Goto("armed") /\ IsWriteStage(adv.s)) \/ \E pc \in {"error", "ok", "unavailable"} : Goto(pc))
      BY <2>4 DEF Execute
    <3> QED
      BY <2>0, <3>1, Gone DEF Leased, AdvancePc
  <2>5. CASE Apply
    <3>1. lease' = lease /\ adv.pc = "armed" /\ (Goto("error") \/ Goto("wrote"))
      BY <2>5 DEF Apply
    <3> QED
      BY <2>0, <3>1, Gone DEF Leased, AdvancePc
  <2>6. CASE Applied
    BY <2>0, <2>6, Gone DEF Applied, Leased, AdvancePc
  <2>7. CASE Accept
    BY <2>0, <2>7, Gone DEF Accept, Leased, AdvancePc
  <2>8. CASE Settling
    BY <2>0, <2>8, SettlingMoves DEF Leased, AtWork
  <2> QED
    BY <1>5, <2>1, <2>2, <2>3, <2>4, <2>5, <2>6, <2>7, <2>8 DEF Runner, Settling
<1> QED
  BY <1>1, <1>2, <1>3, <1>4, <1>5 DEF MissionNext

LEMMA LeasedInvariant == MissionSpec => []Leased
<1>1. MissionInit => Leased
  BY DEF MissionInit, Leased, IdleAdvance
<1>2. MInv /\ Leased /\ [MissionNext]_vars => Leased'
  BY LeasedStep
<1> QED
  BY MissionInvariant, <1>1, <1>2, PTL DEF MissionSpec

(* A patch is applied under the mission's own lease, from the check of the  *)
(* baseline on, whatever requests, crashes and restarts do meanwhile.       *)
THEOREM WritesLeased == MissionSpec => []WritesUnderLease
<1>1. Leased => WritesUnderLease
  BY DEF Leased, WritesUnderLease
<1> QED
  BY LeasedInvariant, <1>1, PTL

-----------------------------------------------------------------------------
(* The end of a mission *)

(* A stage that may have changed the workspace without a receipt. *)
InDoubt(s) == stage[s].status = "running" \/ IsUncertain(s)

(* The panel resumes with no markers, and a write on its way to the         *)
(* workspace is one the record shows as running or uncertain.               *)
PanelAware == Panel =>
    /\ op.pc = "resume" => DOMAIN op.m = {}
    /\ adv.pc \in {"lease", "exec", "armed"} /\ IsWriteStage(adv.s) => InDoubt(adv.s)

(* The calls of the store that a request makes. *)
RequestCall ==
    \/ UNCHANGED storeVars \/ Create
    \/ \E to \in {"running", "failed"} : Transition(to)
    \/ op.pc = "resume" /\ Resume(op.m)
    \/ op.pc = "each" /\ \E s \in Stage : InterruptStage(s)
    \/ op.pc = "final" /\ (Cancel \/ Transition("paused"))
    \/ \E s \in Stage, st \in ApprovalStatus : RecordApproval(s, st)

LEMMA GatewayStore ==
  ASSUME MInv, Gateway
  PROVE  RequestCall
<1>2. CASE CreateRun
  BY <1>2 DEF CreateRun, RequestCall
<1>3. CASE StartCommit
  BY <1>3 DEF StartCommit, RequestCall
<1>4. CASE InterruptEach
  <2>1. op.left \subseteq Stage
    BY DEF MInv, MissionTyped, Request
  <2> QED
    BY <1>4, <2>1 DEF InterruptEach, RequestCall
<1>5. CASE StopFinal
  BY <1>5 DEF StopFinal, RequestCall
<1>6. CASE ResumeCommit
  BY <1>6 DEF ResumeCommit, RequestCall
<1>7. ASSUME NEW kind \in {"ask", "approve", "reject"}, Decide(kind) PROVE RequestCall
  <2>1. ApprovalOf(kind) \subseteq ApprovalStatus
    BY DEF ApprovalOf, ApprovalStatus, Decision
  <2>2. \E s \in Stage, status \in ApprovalStatus : RecordApproval(s, status) \/ UNCHANGED storeVars
    BY <1>7, <2>1 DEF Decide
  <2> QED
    BY <2>2 DEF RequestCall
<1>8. CASE Decided
  BY <1>8 DEF Decided, RequestCall
<1>9. Start \/ (\E kind : Stop(kind)) \/ Interrupt \/ ResumeVerify \/ ResumeAgain \/ ResolveQuarantine \/ ScheduleStep
         => UNCHANGED storeVars
  BY DEF Start, Stop, Interrupt, ResumeVerify, ResumeAgain, ResolveQuarantine, ScheduleStep
<1> QED
  BY <1>2, <1>3, <1>4, <1>5, <1>6, <1>7, <1>8, <1>9 DEF Gateway, HandlerStep, Operator, RequestCall

(* Where a request goes: to its markers, to the quarantine, to stopping the *)
(* active stages.                                                           *)
LEMMA RequestMoves ==
  ASSUME MInv, Gateway, op' # op
  PROVE  /\ op'.pc = "resume" =>
              /\ UNCHANGED storeVars
              /\ DOMAIN op'.m = UncertainStages
              /\ \A s \in UncertainStages : op'.m[s].digest = disk
              /\ Panel => UncertainStages = {}
         /\ op'.pc = "unlock" => ResumeCommit \/ (disk = checkpoint /\ UNCHANGED storeVars)
         /\ op'.pc \in {"interrupt", "each", "final"} => op.pc \in {"interrupt", "each"} \/ client # "steady"
<1> DEFINE Moved ==
        /\ op'.pc = "resume" =>
             /\ UNCHANGED storeVars
             /\ DOMAIN op'.m = UncertainStages
             /\ \A s \in UncertainStages : op'.m[s].digest = disk
             /\ Panel => UncertainStages = {}
        /\ op'.pc = "unlock" => ResumeCommit \/ (disk = checkpoint /\ UNCHANGED storeVars)
        /\ op'.pc \in {"interrupt", "each", "final"} => op.pc \in {"interrupt", "each"} \/ client # "steady"
<1>1. op \in Request
  BY DEF MInv, MissionTyped
<1>2. ASSUME ResumeVerify PROVE Moved
  <2>1. PICK m \in [UncertainStages -> [outcome : Outcome, digest : {disk}]] :
           op' = [op EXCEPT !.pc = "resume", !.kind = "resume", !.m = m]
    BY <1>2 DEF ResumeVerify
  <2>2. op'.pc = "resume" /\ op'.m = m /\ DOMAIN m = UncertainStages /\ \A s \in UncertainStages : m[s].digest = disk
    BY <1>1, <2>1 DEF Request
  <2> QED
    BY <1>2, <2>2 DEF ResumeVerify
<1>3. ASSUME NEW s, InterruptEach, op' = [op EXCEPT !.left = @ \ {s}] PROVE Moved
  <2>1. op'.pc = op.pc /\ op.pc = "each"
    BY <1>1, <1>3 DEF InterruptEach, Request
  <2> QED
    BY <2>1
<1>4. ASSUME NEW pc \in {"idle", "start", "interrupt", "each", "final", "unlock", "schedule", "decided"},
             \/ op' = [op EXCEPT !.pc = pc]
             \/ \E kind : op' = [op EXCEPT !.pc = pc, !.kind = kind]
             \/ \E left : op' = [op EXCEPT !.pc = pc, !.left = left]
      PROVE  op'.pc = pc
  BY <1>1, <1>4 DEF Request
<1>5. IdleOp.pc = "idle"
  BY DEF IdleOp
<1>6. InterruptEach => Moved
  BY <1>3, <1>4, <1>5 DEF InterruptEach
<1>7. Interrupt => Moved
  BY <1>4 DEF Interrupt
<1>8. Start \/ StartCommit \/ StopFinal \/ ResumeCommit \/ ResolveQuarantine \/ ScheduleStep \/ Decided => Moved
  BY <1>4, <1>5 DEF Start, StartCommit, StopFinal, ResumeCommit, ResolveQuarantine, ScheduleStep, Decided
<1>9. ResumeAgain => Moved
  BY <1>4 DEF ResumeAgain
<1>10. ASSUME NEW kind, Decide(kind) PROVE Moved
  BY <1>4, <1>10 DEF Decide
<1>11. ASSUME NEW kind \in {"pause", "cancel"}, Stop(kind) PROVE Moved
  <2>1. kind \notin Requests["steady"]
    BY <1>11 DEF Requests
  <2>2. client # "steady" /\ op'.pc = "interrupt"
    BY <1>4, <1>11, <2>1 DEF Stop, Arrives
  <2> QED
    BY <2>2
<1>12. ~CreateRun
  BY DEF CreateRun, localVars
<1> QED
  BY <1>2, <1>6, <1>7, <1>8, <1>9, <1>10, <1>11, <1>12 DEF Gateway, HandlerStep, Operator

(* Without markers no request takes a write out of doubt. *)
LEMMA DoubtKept ==
  ASSUME MInv, NEW s \in Stage, IsWriteStage(s), InDoubt(s), RequestCall, op.pc = "resume" => DOMAIN op.m = {}
  PROVE  InDoubt(s)'
<1>1. stage \in [Stage -> StageRecord] /\ stage[s] \in StageRecord
  BY DEF MInv, IInv, TypeOK
<1>2. stage' = stage => InDoubt(s)'
  BY DEF InDoubt, IsUncertain
<1>3. CASE Cancel
  <2>1. stage'[s] = IF stage[s].status = "running" THEN Cut(s, stage[s]) ELSE stage[s]
    BY <1>3 DEF Cancel, StopRunning
  <2> QED
    BY <1>1, <2>1 DEF Cut, InDoubt, IsUncertain, StageRecord
<1>4. CASE op.pc = "resume" /\ Resume(op.m)
  <2>1. {t \in Stage : IsUncertain(t)} = {}
    BY <1>4 DEF Resume
  <2>2. stage[s].status = "running" /\ stage'[s] = stage[s]
    BY <1>4, <2>1 DEF Resume, InDoubt
  <2> QED
    BY <2>2 DEF InDoubt
<1>5. ASSUME NEW t \in Stage, InterruptStage(t) PROVE InDoubt(s)'
  <2>1. stage' = [stage EXCEPT ![t] = Stopped(t, EffectiveStatus(t, "interrupted"))] /\ ~IsUncertain(t)
    BY <1>5 DEF InterruptStage, StopStage, StageUpdateGuard, StageOpen
  <2>2. CASE t # s
    BY <1>1, <2>1, <2>2 DEF InDoubt, IsUncertain
  <2>3. CASE t = s
    BY <1>1, <2>1, <2>3 DEF InDoubt, IsUncertain, Stopped, EffectiveStatus, StageRecord
  <2> QED
    BY <2>2, <2>3
<1>6. ASSUME NEW t \in Stage, NEW st \in ApprovalStatus, RecordApproval(t, st) PROVE InDoubt(s)'
  <2>1. t # s
    BY <1>6 DEF RecordApproval, ApprovalGuard, IsWriteStage
  <2> QED
    BY <1>1, <1>6, <2>1 DEF RecordApproval, InDoubt, IsUncertain
<1> QED
  BY <1>2, <1>3, <1>4, <1>5, <1>6 DEF RequestCall, storeVars, Create, Transition

LEMMA RunnerMoves ==
  ASSUME MInv, Runner, ~Claim
  PROVE  /\ UNCHANGED <<op, client, up>>
         /\ adv'.pc \in {"lease", "exec", "armed"} => UNCHANGED storeVars /\ adv.pc \in {"lease", "exec"} /\ adv'.s = adv.s
         /\ disk' # disk => adv.pc = "armed" /\ UNCHANGED storeVars
<1>0. adv \in Advance
  BY DEF MInv, MissionTyped
<1>1. UNCHANGED <<op, client, up>>
  BY DEF Runner, Load, Lease, Execute, Apply, Applied, Accept, Store, Release, Caught, Charge, Fail, FailClaimed,
         Block, RequestApproval, Transit
<1>2. disk' # disk => adv.pc = "armed" /\ UNCHANGED storeVars
  BY DEF Runner, Load, Lease, Execute, Apply, Applied, Accept, Store, Release, Caught, Charge, Fail, FailClaimed,
         Block, RequestApproval, Transit
<1>3. CASE Load
  <2>1. ASSUME NEW s \in Stage, LoadReady(s) PROVE adv'.pc \in {"request", "claim"}
    BY <1>0, <2>1 DEF LoadReady, Advance
  <2>2. adv'.pc \in {"request", "claim", "transit", "off"}
    BY <1>3, <2>1, Gone DEF Load, LoadStop, LoadExhausted, LoadIdle
  <2> QED
    BY <1>1, <1>2, <2>2
<1>4. CASE Lease
  BY <1>1, <1>2, <1>4, Gone DEF Lease, AdvancePc
<1>5. CASE Execute
  BY <1>1, <1>2, <1>5, Gone DEF Execute, AdvancePc
<1>6. Apply \/ Applied \/ Accept => adv'.pc \in {"error", "wrote", "ok", "store", "load", "off"}
  BY Gone DEF Apply, Applied, Accept, AdvancePc
<1>7. CASE Settling
  BY <1>1, <1>2, <1>7, SettlingMoves DEF AtWork
<1> QED
  BY <1>1, <1>2, <1>3, <1>4, <1>5, <1>6, <1>7 DEF Runner, Settling

LEMMA PanelStep ==
  ASSUME MInv, Leased, PanelAware, [MissionNext]_vars
  PROVE  PanelAware'
<1>1. CASE UNCHANGED vars
  BY <1>1 DEF vars, storeVars, localVars, PanelAware, Panel, InDoubt, IsUncertain
<1>2. CASE Crash
  BY <1>2 DEF Crash, PanelAware, IdleAdvance, IdleOp
<1>3. CASE Restart
  BY <1>3 DEF Restart, Leased, PanelAware, IdleAdvance, IdleOp
<1>4. CASE Gateway
  <2>1. client' = client /\ (SameAdvance \/ adv'.pc = "load")
    BY <1>4, GatewayMoves
  <2>2. Panel' /\ op'.pc = "resume" => DOMAIN op'.m = {}
    BY <1>4, <2>1, RequestMoves DEF PanelAware, Panel
  <2>3. ASSUME Panel', adv'.pc \in {"lease", "exec", "armed"}, IsWriteStage(adv'.s) PROVE InDoubt(adv.s)'
    <3>1. adv.pc \in {"lease", "exec", "armed"} /\ adv'.s = adv.s /\ Panel
      BY <2>1, <2>3 DEF SameAdvance, Panel
    <3>2. PICK s \in Stage : s = adv.s
      BY <3>1 DEF MInv, MissionTyped
    <3>3. IsWriteStage(s) /\ InDoubt(s) /\ (op.pc = "resume" => DOMAIN op.m = {})
      BY <2>3, <3>1, <3>2 DEF PanelAware
    <3>4. InDoubt(s)'
      BY <1>4, <3>3, GatewayStore, DoubtKept
    <3> QED
      BY <3>1, <3>2, <3>4 DEF InDoubt, IsUncertain
  <2> QED
    BY <2>2, <2>3 DEF PanelAware
<1>5. CASE Runner /\ Claim
  <2>1. UNCHANGED <<op, client>> /\ adv.s \in Stage
    BY <1>5, ClaimMoves DEF Claim
  <2>2. CASE ClaimStage(adv.s, adv.e, adv.d) /\ adv'.s = adv.s
    <3>1. stage'[adv.s].status = "running"
      <4>1. stage[adv.s] \in StageRecord /\ stage \in [Stage -> StageRecord]
        BY <2>1 DEF MInv, IInv, TypeOK
      <4> QED
        BY <2>1, <2>2, <4>1 DEF ClaimStage, Claimed, StageRecord
    <3> QED
      BY <2>1, <2>2, <3>1 DEF PanelAware, Panel, InDoubt
  <2>3. CASE adv'.pc \in {"load", "off"}
    BY <2>1, <2>3 DEF PanelAware, Panel
  <2> QED
    BY <1>5, <2>2, <2>3, ClaimMoves
<1>6. CASE Runner /\ ~Claim
  BY <1>6, RunnerMoves DEF PanelAware, Panel, InDoubt, IsUncertain, storeVars
<1> QED
  BY <1>1, <1>2, <1>3, <1>4, <1>5, <1>6 DEF MissionNext

LEMMA PanelInvariant == MissionSpec => []PanelAware
<1>1. MissionInit => PanelAware
  BY DEF MissionInit, PanelAware, IdleAdvance, IdleOp
<1>2. MInv /\ Leased /\ PanelAware /\ [MissionNext]_vars => PanelAware'
  BY PanelStep
<1> QED
  BY MissionInvariant, LeasedInvariant, <1>1, <1>2, PTL DEF MissionSpec

(* Once a mission driven from the panel is over nothing touches the         *)
(* workspace: the patch that is about to be applied is a write that the     *)
(* record shows as running or uncertain, and over such a stage a run is not *)
(* ended.                                                                   *)
THEOREM QuietAfterEnd == MissionSpec => NoWriteAfterEnd
<1> DEFINE Quiet == Panel /\ disk' # disk => runStatus \notin TerminalRunStatus
<1>1. MInv /\ Leased /\ PanelAware /\ ValidSnapshot /\ [MissionNext]_vars => [Quiet]_vars
  <2>1. SUFFICES ASSUME MInv, Leased, PanelAware, ValidSnapshot, MissionNext, Panel, disk' # disk
                 PROVE  runStatus \notin TerminalRunStatus
    OBVIOUS
  <2>2. Runner /\ ~Claim
    BY <2>1, GatewayMoves, ClaimMoves DEF MissionNext, Crash, Restart
  <2>3. adv.pc = "armed"
    BY <2>1, <2>2, RunnerMoves
  <2>4. adv.s \in Stage /\ InDoubt(adv.s)
    BY <2>1, <2>3 DEF Leased, PanelAware, MInv, MissionTyped
  <2> QED
    BY <2>1, <2>4 DEF ValidSnapshot, InDoubt
<1> QED
  BY MissionInvariant, LeasedInvariant, PanelInvariant, MissionSnapshotsLoad, <1>1, PTL DEF MissionSpec, NoWriteAfterEnd

-----------------------------------------------------------------------------
(* What a completed mission attests *)

(* A definition with one write stage w, as pipeline-config.js accepts it:   *)
(* some truth gate follows the write and every gate rests on it.  (With two *)
(* writes that do not depend on each other the first gate's verdict does    *)
(* not speak of the second write.)                                          *)
OneWrite(w) ==
    /\ \A s \in Stage : IsWriteStage(s) <=> s = w
    /\ \A s \in Stage : Kind[s] = "truth-gate" => UpstreamWrites(s) = {w}
    /\ \E s \in Stage : Kind[s] = "truth-gate"

Gate(s) == s \in Stage /\ Kind[s] = "truth-gate"

(* The write's receipt ends in the checkpoint; a gate under way works on    *)
(* that checkpoint, and what it found is still so; once a gate has passed   *)
(* the workspace is the checkpoint and no write is on its way.              *)
Attested(w) ==
    /\ Completed(w) => stage[w].receipt.after = checkpoint
    /\ Gate(adv.s) /\ adv.pc \in AtWork => adv.d = checkpoint /\ Completed(w)
    /\ Gate(adv.s) /\ adv.pc \in {"ok", "store"} => disk = adv.d
    /\ \A g \in Stage : Gate(g) /\ Completed(g) =>
          /\ disk = checkpoint
          /\ Completed(w)
          /\ ~(adv.pc \in {"lease", "exec", "armed"} /\ adv.s = w)

(* A call that completes no write and no gate and keeps the checkpoint. *)
Attesting(s) == IsWriteStage(s) \/ Kind[s] = "truth-gate"

QuietCall ==
    /\ checkpoint' = checkpoint
    /\ \A s \in Stage : Attesting(s) => (Completed(s)' <=> Completed(s))
    /\ \A s \in Stage : Completed(s) => stage'[s] = stage[s]

(* What a stage rests on, however far up, is completed when it is ready. *)
LEMMA UpstreamCompleted ==
  ASSUME IInv, NEW s \in Stage, DependenciesReady(s), NEW t \in Upstream(s)
  PROVE  Completed(t)
<1> DEFINE S == {x \in Stage : Completed(x)}
<1>1. DependsOn[s] \subseteq S
  BY StoreAssumption DEF DependenciesReady
<1>2. ASSUME NEW x \in S PROVE DependsOn[x] \subseteq S
  <2>1. stage[x].attempts > 0
    BY DEF IInv, Attempted, Completed
  <2> QED
    BY <2>1, StoreAssumption DEF IInv, DependenciesBeforeStart, DependenciesReady
<1>3. S \in SUBSET Stage
  OBVIOUS
<1> QED
  BY <1>1, <1>2, <1>3 DEF Upstream

(* One operation on a stage t that does not complete a write or a gate. *)
LEMMA QuietStage ==
  ASSUME IInv, NEW t \in Stage, StageNext(t), checkpoint' = checkpoint,
         Attesting(t) => stage'[t].status # "completed" \/ stage'[t] = stage[t]
  PROVE  QuietCall
<1>1. \A s \in Stage : StageEffect(s)
  BY StepEffect DEF Next
<1>2. \A s \in Stage : s # t => stage'[s] = stage[s]
  BY StageFrame
<1> QED
  BY <1>1, <1>2 DEF StageEffect, QuietCall, Completed

LEMMA QuietUnchanged ==
  ASSUME IInv, stage' = stage, checkpoint' = checkpoint
  PROVE  QuietCall
  BY DEF QuietCall, Completed

LEMMA QuietStop ==
  ASSUME IInv, Cancel \/ RecoverInterrupted
  PROVE  QuietCall
<1>1. checkpoint' = checkpoint /\ stage' = StopRunning(stage) /\ stage \in [Stage -> StageRecord]
  BY DEF Cancel, RecoverInterrupted, IInv, TypeOK
<1>2. ASSUME NEW s \in Stage PROVE (Completed(s)' <=> Completed(s)) /\ (Completed(s) => stage'[s] = stage[s])
  <2>1. CASE stage[s].status = "running"
    <3>1. stage'[s] = Cut(s, stage[s]) /\ stage[s] \in StageRecord
      BY <1>1, <2>1 DEF StopRunning
    <3>2. Cut(s, stage[s]).status # "completed"
      BY <3>1 DEF Cut, StageRecord
    <3> QED
      BY <2>1, <3>1, <3>2 DEF Completed
  <2>2. CASE stage[s].status # "running"
    BY <1>1, <2>2 DEF StopRunning, Completed
  <2> QED
    BY <2>1, <2>2
<1> QED
  BY <1>1, <1>2 DEF QuietCall

(* The calls of requests, other than resume, and of a restart. *)
LEMMA QuietRequest ==
  ASSUME MInv, RequestCall \/ RecoverInterrupted, ~(op.pc = "resume" /\ Resume(op.m))
  PROVE  QuietCall
<1>0. IInv /\ stage \in [Stage -> StageRecord]
  BY DEF MInv, IInv, TypeOK
<1>1. UNCHANGED storeVars \/ Create \/ (\E to : Transition(to)) => QuietCall
  BY <1>0, QuietUnchanged DEF storeVars, Create, Transition
<1>2. Cancel \/ RecoverInterrupted => QuietCall
  BY <1>0, QuietStop
<1>3. ASSUME NEW s \in Stage, InterruptStage(s) PROVE QuietCall
  <2>1. StageNext(s) /\ checkpoint' = checkpoint
    BY <1>3 DEF StageNext, InterruptStage, StopStage
  <2>2. stage'[s].status # "completed"
    BY <1>0, <1>3 DEF InterruptStage, StopStage, Stopped, EffectiveStatus, StageRecord
  <2> QED
    BY <1>0, <2>1, <2>2, QuietStage
<1>4. ASSUME NEW s \in Stage, NEW st \in ApprovalStatus, RecordApproval(s, st) PROVE QuietCall
  <2>1. StageNext(s) /\ checkpoint' = checkpoint /\ ~Attesting(s)
    BY <1>4 DEF StageNext, RecordApproval, ApprovalGuard, Attesting, IsWriteStage
  <2> QED
    BY <1>0, <2>1, QuietStage
<1> QED
  BY <1>1, <1>2, <1>3, <1>4 DEF RequestCall

(* The calls of the runner, other than the ones that store a result. *)
LEMMA QuietRunner ==
  ASSUME MInv, Runner, ~Store
  PROVE  QuietCall
<1>0. IInv /\ stage \in [Stage -> StageRecord] /\ adv \in Advance
  BY DEF MInv, IInv, TypeOK, MissionTyped
<1>1. UNCHANGED storeVars => QuietCall
  BY <1>0, QuietUnchanged DEF storeVars
<1>2. CASE Claim
  <2>1. CASE ClaimStage(adv.s, adv.e, adv.d)
    <3>1. adv.s \in Stage /\ adv.d \in Digest
      BY <1>0, <1>2 DEF Claim, MInv, MissionTyped, Advance
    <3>2. StageNext(adv.s) /\ checkpoint' = checkpoint
      BY <2>1, <3>1 DEF StageNext, ClaimStage
    <3>3. stage'[adv.s].status # "completed"
      BY <1>0, <2>1, <3>1 DEF ClaimStage, Claimed, StageRecord
    <3> QED
      BY <1>0, <3>1, <3>2, <3>3, QuietStage
  <2> QED
    BY <1>1, <1>2, <2>1 DEF Claim
<1>3. CASE Charge
  <2>1. ASSUME NEW n \in Usage, FailDepartmentWithUsage(adv.s, adv.c, n) PROVE QuietCall
    <3>1. adv.s \in Stage /\ adv.c \in Claims
      BY <1>3 DEF Charge, MInv, MissionTyped
    <3>2. StageNext(adv.s) /\ checkpoint' = checkpoint /\ ~Attesting(adv.s)
      BY <2>1, <3>1 DEF StageNext, FailDepartmentWithUsage, DepartmentGuard, Attesting, IsWriteStage
    <3> QED
      BY <1>0, <3>1, <3>2, QuietStage
  <2> QED
    BY <1>1, <1>3, <2>1 DEF Charge
<1>4. ASSUME FailClaimed \/ Block, NEW to \in {"failed", "blocked"}, StopStage(adv.s, to) PROVE QuietCall
  <2>1. adv.s \in Stage /\ checkpoint' = checkpoint
    BY <1>4 DEF FailClaimed, Block, MInv, MissionTyped, StopStage
  <2>2. StageNext(adv.s) \/ UNCHANGED storeVars
    <3>1. CASE FailClaimed
      <4>1. adv.c \in Claims
        BY <3>1 DEF FailClaimed, MInv, MissionTyped
      <4> QED
        BY <3>1, <4>1 DEF FailClaimed, StageNext
    <3>2. CASE Block
      BY <3>2 DEF Block, StageNext
    <3> QED
      BY <1>4, <3>1, <3>2
  <2>3. stage'[adv.s].status # "completed"
    BY <1>0, <1>4, <2>1 DEF StopStage, Stopped, EffectiveStatus, StageRecord
  <2> QED
    BY <1>0, <1>1, <2>1, <2>2, <2>3, QuietStage
<1>5. FailClaimed \/ Block => UNCHANGED storeVars \/ \E to \in {"failed", "blocked"} : StopStage(adv.s, to)
  BY DEF FailClaimed, Block, FailStage, BlockStage
<1>6. CASE RequestApproval
  <2>1. CASE RecordApproval(adv.s, "requested")
    <3>1. adv.s \in Stage
      BY <1>6 DEF RequestApproval, MInv, MissionTyped
    <3>2. StageNext(adv.s) /\ checkpoint' = checkpoint /\ ~Attesting(adv.s)
      BY <2>1, <3>1 DEF StageNext, RecordApproval, ApprovalGuard, ApprovalStatus, Attesting, IsWriteStage
    <3> QED
      BY <1>0, <3>1, <3>2, QuietStage
  <2> QED
    BY <1>1, <1>6, <2>1 DEF RequestApproval
<1>7. CASE Transit
  BY <1>0, <1>1, <1>7, QuietUnchanged DEF Transit, Transition
<1>8. Load \/ Lease \/ Execute \/ Apply \/ Applied \/ Accept \/ Release \/ Caught \/ Fail => UNCHANGED storeVars
  BY DEF Load, Lease, Execute, Apply, Applied, Accept, Release, Caught, Fail
<1> QED
  BY <1>1, <1>2, <1>3, <1>4, <1>5, <1>6, <1>7, <1>8 DEF Runner

(* A quiet step that leaves the workspace alone, and the advance where it   *)
(* is or beyond its stage, keeps what is attested.                          *)
LEMMA AttestedFrame ==
  ASSUME IInv, NEW w \in Stage, OneWrite(w), Attested(w), QuietCall, disk' = disk,
         SameAdvance \/ adv'.pc \notin AtWork
  PROVE  Attested(w)'
<1>1. IsWriteStage(w) /\ Attesting(w) /\ \A g \in Stage : Gate(g) => Attesting(g)
  BY DEF OneWrite, Attesting, Gate
<1>2. Completed(w)' => Completed(w) /\ stage'[w] = stage[w]
  BY <1>1 DEF QuietCall
<1>3. Completed(w) => Completed(w)'
  BY <1>1 DEF QuietCall
<1>4. \A g \in Stage : Gate(g) /\ Completed(g)' => Completed(g)
  BY <1>1 DEF QuietCall
<1>5. CASE SameAdvance
  BY <1>2, <1>3, <1>4, <1>5 DEF Attested, QuietCall, SameAdvance, Completed, Gate
<1>6. CASE adv'.pc \notin AtWork
  BY <1>2, <1>3, <1>4, <1>6 DEF Attested, QuietCall, AtWork, Completed, Gate
<1> QED
  BY <1>5, <1>6

(* Resume: a write in doubt is completed with the checkpoint that goes on   *)
(* record, and no gate has passed over it or is at work on it.              *)
LEMMA AttestedResume ==
  ASSUME MInv, NEW w \in Stage, OneWrite(w), Attested(w), op.pc = "resume", Resume(op.m),
         disk' = disk, SameAdvance \/ adv'.pc \notin AtWork
  PROVE  Attested(w)'
<1> DEFINE m == op.m
<1>1. stage \in [Stage -> StageRecord] /\ IInv /\ w \in Stage
  BY DEF MInv, IInv, TypeOK
<1>2. \A s \in Stage : IsUncertain(s) => s = w
  BY <1>1, RecordsOK DEF RecordOK, IsUncertain, OneWrite
<1>3. CASE ~IsUncertain(w)
  <2>1. DOMAIN m = {}
    BY <1>2, <1>3 DEF Resume
  <2>2. checkpoint' = checkpoint
    BY <2>1 DEF Resume
  <2>3. \A s \in Stage : stage'[s] = stage[s] \/ (stage[s].status = "blocked" /\ stage'[s] = WithStatus(s, "pending"))
    BY <2>1 DEF Resume
  <2>4. QuietCall
    BY <1>1, <2>2, <2>3 DEF QuietCall, Completed, WithStatus, StageRecord
  <2> QED
    BY <1>1, <2>4, AttestedFrame
<1>4. CASE IsUncertain(w)
  <2>1. stage[w].status = "uncertain" /\ ~Completed(w)
    BY <1>1, <1>4, RecordsOK DEF RecordOK, IsUncertain, Completed
  <2>2. DOMAIN m = {w} /\ stage'[w] = ApplyResolution(w, m[w]) /\ VerifiedMarker(w, m[w])
    BY <1>2, <1>4 DEF Resume
  <2>3. \A g \in Stage : Gate(g) => ~Completed(g) /\ ~Completed(g)'
    <3>1. ASSUME NEW g \in Stage, Gate(g) PROVE ~Completed(g) /\ ~Completed(g)'
      <4>1. ~Completed(g) /\ g # w
        BY <2>1, <3>1 DEF Attested, Gate, OneWrite, IsWriteStage
      <4>2. stage'[g] = stage[g] \/ stage'[g] = WithStatus(g, "pending")
        BY <2>2, <4>1 DEF Resume
      <4> QED
        BY <1>1, <4>1, <4>2 DEF Completed, WithStatus, StageRecord
    <3> QED
      BY <3>1
  <2>4. ~(Gate(adv'.s) /\ adv'.pc \in AtWork)
    BY <2>1 DEF Attested, SameAdvance
  <2>5. m[w] \in Marker
    <3>1. PICK S \in SUBSET Stage : m \in [S -> Marker]
      BY DEF MInv, MissionTyped
    <3> QED
      BY <2>2, <3>1
  <2>6. Completed(w)' => stage'[w].receipt.after = checkpoint'
    <3>1. SUFFICES ASSUME Completed(w)' PROVE stage'[w].receipt.after = checkpoint'
      OBVIOUS
    <3>2. m[w].outcome = "applied"
      BY <1>1, <2>2, <2>5, <3>1 DEF Completed, ApplyResolution, ResolvedStatus, Marker, Outcome, StageRecord
    <3>3. stage'[w].receipt = [before |-> stage[w].before, after |-> m[w].digest]
      BY <1>1, <2>2, <3>2 DEF ApplyResolution, StageRecord
    <3>4. checkpoint' = m[w].digest
      <4>1. {s \in DOMAIN m : m[s].outcome # "retry"} = {w}
        BY <2>2, <3>2
      <4>2. \A x \in {w} : x = w
        OBVIOUS
      <4>3. (CHOOSE s \in {w} : TRUE) = w
        BY <4>2
      <4> QED
        BY <4>1, <4>3 DEF Resume
    <3> QED
      BY <3>3, <3>4
  <2> QED
    BY <2>3, <2>4, <2>6 DEF Attested, AtWork
<1> QED
  BY <1>3, <1>4

(* The runner's steps on the way from a stage to its result. *)
LEMMA AttestedWork ==
  ASSUME MInv, Leased, NEW w \in Stage, OneWrite(w), Attested(w),
         Load \/ Lease \/ Execute \/ Apply \/ Applied \/ Accept
  PROVE  Attested(w)'
<1>0. IInv /\ adv \in Advance /\ UNCHANGED storeVars
  BY DEF MInv, MissionTyped, Load, Lease, Execute, Apply, Applied, Accept
<1>1. Completed(w)' = Completed(w) /\ stage' = stage /\ checkpoint' = checkpoint
  BY <1>0 DEF storeVars, Completed
<1>2. QuietCall
  BY <1>0, <1>1, QuietUnchanged
<1>3. ~Gate(w)
  BY DEF OneWrite, Gate, IsWriteStage
<1>4. CASE Load
  <2>1. disk' = disk
    BY <1>4 DEF Load
  <2>2. CASE LoadStop \/ LoadExhausted \/ LoadIdle
    BY <1>0, <1>2, <2>1, <2>2, Gone, AttestedFrame DEF LoadStop, LoadExhausted, LoadIdle, AtWork
  <2>3. ASSUME NEW s \in Stage, LoadReady(s) PROVE Attested(w)'
    <3>1. adv'.pc \in {"request", "claim"} /\ adv'.s = s /\ adv'.d = checkpoint
      BY <1>0, <2>3 DEF LoadReady, Advance
    <3>2. Gate(s) => Completed(w)
      BY <1>0, <2>3, UpstreamCompleted DEF Gate, OneWrite, UpstreamWrites, LoadReady, FirstReady, Ready
    <3> QED
      BY <1>1, <2>1, <3>1, <3>2 DEF Attested, Gate, Completed
  <2> QED
    BY <1>4, <2>2, <2>3 DEF Load
<1>5. CASE Lease
  <2>1. disk' = disk /\ adv.pc = "lease" /\ IsWriteStage(adv.s)
    BY <1>5 DEF Lease, Leased
  <2>2. adv'.pc \in {"exec", "error"} /\ adv'.s = adv.s /\ adv'.d = adv.d
    BY <1>5, Gone DEF Lease, AdvancePc
  <2>3. adv.s = w
    BY <2>1, <1>0 DEF OneWrite, MInv, MissionTyped
  <2> QED
    BY <1>1, <1>3, <2>1, <2>2, <2>3 DEF Attested, Completed, Gate
<1>6. CASE Execute
  <2>1. disk' = disk /\ adv.pc = "exec"
    BY <1>6 DEF Execute
  <2>2. \/ adv'.pc \in {"error", "unavailable"}
        \/ adv'.pc = "ok" /\ (Kind[adv.s] = "truth-gate" => disk = adv.d)
        \/ adv'.pc = "armed"
    BY <1>6, Gone DEF Execute, AdvancePc
  <2>3. adv'.s = adv.s /\ adv'.d = adv.d /\ (adv'.pc = "armed" => IsWriteStage(adv.s))
    BY <1>6, Gone DEF Execute, AdvancePc
  <2> QED
    BY <1>1, <2>1, <2>2, <2>3 DEF Attested, Completed, Gate, AtWork
<1>7. CASE Apply \/ Applied
  <2>1. adv.pc \in {"armed", "wrote"} /\ IsWriteStage(adv.s)
    BY <1>7 DEF Apply, Applied, Leased
  <2>2. adv.s = w
    BY <2>1 DEF OneWrite, MInv, MissionTyped
  <2>3. adv'.pc \in {"error", "wrote", "ok"} /\ adv'.s = adv.s
    BY <1>7, Gone DEF Apply, Applied, AdvancePc
  <2>4. disk' = disk \/ adv.pc = "armed"
    BY <1>7 DEF Apply, Applied
  <2> QED
    BY <1>1, <1>3, <2>2, <2>3, <2>4 DEF Attested, Completed, Gate
<1>8. CASE Accept
  <2>1. disk' = disk /\ adv.pc = "ok"
    BY <1>8 DEF Accept
  <2>2. CASE Goto("store")
    <3>1. adv'.pc = "store" /\ adv'.s = adv.s /\ adv'.d = adv.d
      BY <2>2, Gone DEF AdvancePc
    <3> QED
      BY <1>1, <2>1, <3>1 DEF Attested, Completed, Gate, AtWork
  <2>3. CASE Loop
    BY <1>0, <1>2, <2>1, <2>3, Gone, AttestedFrame DEF AtWork
  <2> QED
    BY <1>8, <2>2, <2>3 DEF Accept
<1> QED
  BY <1>4, <1>5, <1>6, <1>7, <1>8

LEMMA AttestedClaim ==
  ASSUME MInv, NEW w \in Stage, OneWrite(w), Attested(w), Runner, Claim
  PROVE  Attested(w)'
<1>0. IInv /\ adv.s \in Stage /\ disk' = disk /\ adv.pc = "claim"
  BY ClaimMoves DEF MInv, Claim
<1>1. QuietCall
  BY QuietRunner DEF Claim, Store
<1>2. CASE adv'.pc \in {"load", "off"}
  BY <1>0, <1>1, <1>2, AttestedFrame DEF AtWork
<1>3. CASE ClaimStage(adv.s, adv.e, adv.d) /\ adv'.s = adv.s /\ adv'.d = adv.d /\ adv'.pc \in {"lease", "exec"}
  <2>1. ~Completed(adv.s)
    BY <1>3 DEF ClaimStage, Completed
  <2>2. Attesting(w) /\ \A g \in Stage : Gate(g) => Attesting(g)
    BY DEF OneWrite, Attesting, Gate
  <2>3. (Completed(w)' <=> Completed(w)) /\ \A g \in Stage : Gate(g) /\ Completed(g)' => Completed(g)
    BY <1>1, <2>2 DEF QuietCall
  <2>4. \A g \in Stage : Gate(g) /\ Completed(g)' => disk' = checkpoint' /\ Completed(w)' /\ adv.s # w
    BY <1>0, <1>1, <2>1, <2>3 DEF Attested, QuietCall
  <2>5. Completed(w)' => stage'[w].receipt.after = checkpoint'
    BY <1>1, <2>3 DEF Attested, QuietCall
  <2>6. Gate(adv.s) => adv.d = checkpoint /\ Completed(w)
    BY <1>0 DEF Attested, AtWork
  <2> QED
    BY <1>1, <1>3, <2>3, <2>4, <2>5, <2>6 DEF Attested, QuietCall, Gate, Completed
<1> QED
  BY <1>2, <1>3, ClaimMoves

(* A result on record: the write's receipt and the checkpoint are the       *)
(* workspace as it is, and a gate confirms the checkpoint it worked on.     *)
LEMMA AttestedStore ==
  ASSUME MInv, NEW w \in Stage, OneWrite(w), Attested(w), Runner, Store
  PROVE  Attested(w)'
<1>0. IInv /\ adv.s \in Stage /\ disk' = disk /\ adv.pc = "store" /\ stage \in [Stage -> StageRecord]
  BY DEF MInv, MissionTyped, IInv, TypeOK, Store
<1>1. adv'.pc \notin AtWork
  BY SettlingMoves DEF Settling
<1>2. CASE UNCHANGED storeVars
  BY <1>0, <1>1, <1>2, QuietUnchanged, AttestedFrame DEF storeVars
<1>3. CASE StoreDepartment
  <2>1. PICK id \in ArtifactId, n \in Usage : CompleteDepartmentWithArtifact(adv.s, adv.c, id, n)
    BY <1>3 DEF StoreDepartment
  <2>2. adv.c \in Claims
    BY <1>0 DEF MInv, MissionTyped
  <2>3. StageNext(adv.s) /\ checkpoint' = checkpoint /\ ~Attesting(adv.s)
    BY <2>1, <2>2 DEF StageNext, CompleteDepartmentWithArtifact, DepartmentGuard, Attesting, IsWriteStage
  <2> QED
    BY <1>0, <1>1, <2>3, QuietStage, AttestedFrame
<1>4. CASE CompleteAction(adv.s, adv.c, disk)
  <2>1. adv.s = w /\ stage[w].status = "running" /\ checkpoint' = disk /\ stage' = [stage EXCEPT ![w] = Written(w, disk)]
    BY <1>0, <1>4 DEF CompleteAction, OneWrite
  <2>2. stage'[w].receipt.after = checkpoint'
    BY <1>0, <2>1 DEF Written, StageRecord
  <2>3. \A g \in Stage : Gate(g) => ~Completed(g) /\ ~Completed(g)'
    <3>1. ~Completed(w)
      BY <2>1 DEF Completed
    <3> QED
      BY <1>0, <2>1, <3>1 DEF Attested, Gate, Completed, OneWrite, IsWriteStage
  <2> QED
    BY <1>1, <2>2, <2>3 DEF Attested, AtWork
<1>5. CASE CompleteTruthGate(adv.s, adv.c, UpstreamReceipts(adv.s), adv.d)
  <2>1. Gate(adv.s) /\ checkpoint' = adv.d /\ stage' = [stage EXCEPT ![adv.s] = Verified(adv.s, UpstreamReceipts(adv.s))]
    BY <1>0, <1>5 DEF CompleteTruthGate, Gate
  <2>2. disk = adv.d /\ adv.d = checkpoint /\ Completed(w)
    BY <1>0, <2>1 DEF Attested, AtWork
  <2>3. adv.s # w
    BY <2>1 DEF Gate, OneWrite, IsWriteStage
  <2>4. stage'[w] = stage[w]
    BY <1>0, <2>1, <2>3
  <2> QED
    BY <1>0, <1>1, <2>1, <2>2, <2>4 DEF Attested, AtWork, Completed
<1> QED
  BY <1>2, <1>3, <1>4, <1>5 DEF Store, StoreResult

LEMMA AttestedStep ==
  ASSUME MInv, Leased, NEW w \in Stage, OneWrite(w), Attested(w), [MissionNext]_vars
  PROVE  Attested(w)'
<1>0. IInv
  BY DEF MInv
<1>1. CASE UNCHANGED vars
  BY <1>0, <1>1, QuietUnchanged, AttestedFrame DEF vars, storeVars, localVars, SameAdvance
<1>2. CASE Crash
  BY <1>0, <1>2, QuietUnchanged, AttestedFrame DEF Crash, storeVars, IdleAdvance, AtWork
<1>3. CASE Restart
  <2>1. disk' = disk /\ SameAdvance /\ op.pc # "resume" /\ (UNCHANGED storeVars \/ RecoverInterrupted)
    BY <1>3 DEF Restart, SameAdvance, Leased, IdleOp
  <2> QED
    BY <1>0, <2>1, QuietRequest, AttestedFrame DEF RequestCall
<1>4. CASE Gateway
  <2>1. disk' = disk /\ (SameAdvance \/ adv'.pc \notin AtWork) /\ RequestCall
    BY <1>4, GatewayMoves, GatewayStore DEF AtWork
  <2>2. CASE op.pc = "resume" /\ Resume(op.m)
    BY <2>1, <2>2, AttestedResume
  <2>3. CASE ~(op.pc = "resume" /\ Resume(op.m))
    BY <1>0, <2>1, <2>3, QuietRequest, AttestedFrame
  <2> QED
    BY <2>2, <2>3
<1>5. CASE Runner
  <2>1. CASE Load \/ Lease \/ Execute \/ Apply \/ Applied \/ Accept
    BY <2>1, AttestedWork
  <2>2. CASE Claim
    BY <1>5, <2>2, AttestedClaim
  <2>3. CASE Store
    BY <1>5, <2>3, AttestedStore
  <2>4. CASE Settling /\ ~Store
    BY <1>0, <1>5, <2>4, QuietRunner, SettlingMoves, AttestedFrame
  <2> QED
    BY <1>5, <2>1, <2>2, <2>3, <2>4 DEF Runner, Settling
<1> QED
  BY <1>1, <1>2, <1>3, <1>4, <1>5 DEF MissionNext

(* A completed mission left the workspace as its truth gate saw it, and the *)
(* gate cites the write that ended in that state: for every definition with *)
(* one write, whatever was stopped, resolved or restarted on the way.       *)
THEOREM CompletionVerified ==
  ASSUME NEW w \in Stage, OneWrite(w)
  PROVE  MissionSpec => []CompletedMeansVerified
<1>1. MissionInit => Attested(w)
  BY DEF MissionInit, Init, FreshStage, Attested, IdleAdvance, Completed, AtWork
<1>2. MInv /\ Leased /\ Attested(w) /\ [MissionNext]_vars => Attested(w)'
  BY AttestedStep
<1>3. MInv /\ Attested(w) /\ ValidSnapshot => CompletedMeansVerified
  <2>1. SUFFICES ASSUME MInv, Attested(w), ValidSnapshot, runStatus = "completed"
                 PROVE  /\ disk = checkpoint
                        /\ \A s \in Stage : Kind[s] = "truth-gate" =>
                              \E t \in UpstreamWrites(s) : <<t, stage[t].receipt>> \in stage[s].gate
                                                           /\ stage[t].receipt.after = disk
    BY DEF CompletedMeansVerified
  <2>2. \A s \in Stage : Completed(s) /\ HasDurableCompletionReceipt(s)
    BY <2>1 DEF ValidSnapshot
  <2>3. disk = checkpoint
    BY <2>1, <2>2 DEF Attested, OneWrite, Gate
  <2>4. ASSUME NEW s \in Stage, Kind[s] = "truth-gate"
        PROVE  w \in UpstreamWrites(s) /\ <<w, stage[w].receipt>> \in stage[s].gate /\ stage[w].receipt.after = disk
    <3>1. w \in UpstreamWrites(s)
      BY <2>4 DEF OneWrite
    <3>2. stage[s].gate # {}
      BY <2>2, <2>4 DEF HasDurableCompletionReceipt, IsWriteStage
    <3>3. stage[s].gate = UpstreamReceipts(s)
      BY <2>1, <2>4, <3>2 DEF ValidSnapshot
    <3> QED
      BY <2>1, <2>2, <2>3, <3>1, <3>3 DEF UpstreamReceipts, Attested
  <2> QED
    BY <2>3, <2>4
<1> QED
  BY MissionInvariant, LeasedInvariant, MissionSnapshotsLoad, <1>1, <1>2, <1>3, PTL DEF MissionSpec

-----------------------------------------------------------------------------
(* No crash point loses a change *)

(* A write in doubt began on the checkpoint, and only a stored receipt      *)
(* releases its lease.  While no request pauses or cancels the mission, the *)
(* patch is applied by a stage on record as running, and markers speak of   *)
(* the workspace as it is (the panel sends none: PanelAware).  Either way a *)
(* workspace that is not the checkpoint has a write in doubt and a lease,   *)
(* which no request lifts.                                                  *)
Accounted(w) ==
    /\ InDoubt(w) => stage[w].before = checkpoint
    /\ adv.pc = "release" => Completed(w)
    /\ lease # NoLease => lease.stage = w
    /\ client = "steady" =>
          /\ op.pc \notin {"interrupt", "each", "final"}
          /\ adv.pc \in {"lease", "exec", "armed"} /\ adv.s = w =>
                runStatus = "running" /\ stage[w].status = "running"
          /\ op.pc = "resume" /\ w \in DOMAIN op.m => IsUncertain(w) /\ op.m[w].digest = disk
    /\ client # "any" =>
          /\ op.pc = "unlock" /\ lease.state # "held" => disk = checkpoint
          /\ disk # checkpoint => InDoubt(w) /\ lease # NoLease

(* A call that settles no write in doubt. *)
DoubtfulCall(w) ==
    /\ checkpoint' = checkpoint
    /\ Completed(w) => Completed(w)'
    /\ InDoubt(w) => InDoubt(w)'
    /\ IsUncertain(w) => IsUncertain(w)'
    /\ InDoubt(w)' => stage'[w].before = checkpoint

LEMMA DoubtStage ==
  ASSUME IInv, NEW w \in Stage, IsWriteStage(w), NEW t \in Stage, StageNext(t), QuietCall,
         InDoubt(w) => stage[w].before = checkpoint
  PROVE  DoubtfulCall(w)
<1>1. stage \in [Stage -> StageRecord] /\ stage[w] \in StageRecord
  BY DEF IInv, TypeOK
<1>2. checkpoint' = checkpoint /\ (Completed(w)' <=> Completed(w))
  BY DEF QuietCall, Attesting
<1>3. CASE stage'[w] = stage[w]
  BY <1>2, <1>3 DEF DoubtfulCall, InDoubt, IsUncertain
<1>4. CASE stage'[w] # stage[w]
  <2>1. t = w
    BY <1>4, StageFrame
  <2>2. stage'[w].status # "completed"
    BY <1>2, <1>4 DEF QuietCall, Completed
  <2>3. CASE \E e \in {"pending", "interrupted"}, d \in Digest : ClaimStage(w, e, d)
    <3>1. PICK e \in {"pending", "interrupted"}, d \in Digest : ClaimStage(w, e, d)
      BY <2>3
    <3>2. ~InDoubt(w) /\ stage'[w].before = checkpoint
      BY <1>1, <3>1 DEF InDoubt, ClaimStage, ClaimGuard, StageUpdateGuard, StageOpen, Claimed, StageRecord
    <3> QED
      BY <1>2, <3>2 DEF DoubtfulCall, InDoubt
  <2>4. ASSUME NEW to \in {"failed", "blocked", "interrupted"}, StopStage(w, to) PROVE DoubtfulCall(w)
    <3>1. ~IsUncertain(w) /\ stage' = [stage EXCEPT ![w] = Stopped(w, EffectiveStatus(w, to))]
      BY <2>4 DEF StopStage, StageUpdateGuard, StageOpen
    <3>2. stage'[w].before = stage[w].before
      BY <1>1, <3>1 DEF Stopped, StageRecord
    <3>3. CASE stage[w].status = "running"
      <4>1. stage'[w].status = "uncertain"
        BY <1>1, <3>1, <3>3 DEF Stopped, EffectiveStatus, StageRecord
      <4> QED
        BY <1>2, <3>1, <3>2, <3>3, <4>1 DEF DoubtfulCall, InDoubt, IsUncertain
    <3>4. CASE stage[w].status # "running"
      <4>1. stage'[w].status = to /\ stage'[w].uncertain = FALSE
        BY <1>1, <3>1, <3>4 DEF Stopped, EffectiveStatus, StageRecord, IsUncertain
      <4> QED
        BY <1>2, <3>1, <3>4, <4>1 DEF DoubtfulCall, InDoubt, IsUncertain
    <3> QED
      BY <3>3, <3>4
  <2>5. ~\E c \in Claims, d \in Digest : CompleteAction(w, c, d)
    BY <1>1, <2>2 DEF CompleteAction, Written, StageRecord
  <2>6. ~\E id \in ArtifactId : RecordArtifact(w, id)
    BY <1>4 DEF RecordArtifact
  <2>7. Kind[w] \notin {"truth-gate", "department", "approval"}
    BY DEF IsWriteStage
  <2> QED
    BY <2>1, <2>3, <2>4, <2>5, <2>6, <2>7
       DEF StageNext, CompleteTruthGate, FailStage, BlockStage, InterruptStage, FailDepartmentWithUsage,
           CompleteDepartmentWithArtifact, DepartmentGuard, RecordApproval, ApprovalGuard
<1> QED
  BY <1>3, <1>4

LEMMA DoubtRun ==
  ASSUME IInv, NEW w \in Stage, IsWriteStage(w), InDoubt(w) => stage[w].before = checkpoint,
         \/ UNCHANGED storeVars \/ Create \/ Cancel \/ RecoverInterrupted
         \/ \E to \in TransitionTarget : Transition(to)
  PROVE  DoubtfulCall(w)
<1>1. stage \in [Stage -> StageRecord] /\ stage[w] \in StageRecord
  BY DEF IInv, TypeOK
<1>2. checkpoint' = checkpoint
  BY DEF storeVars, Create, Cancel, RecoverInterrupted, Transition
<1>3. CASE stage'[w] = stage[w]
  BY <1>2, <1>3 DEF DoubtfulCall, InDoubt, IsUncertain, Completed
<1>4. CASE stage'[w] # stage[w]
  <2>1. Cancel \/ RecoverInterrupted
    BY <1>4 DEF storeVars, Create, Transition
  <2>2. stage[w].status = "running" /\ stage'[w] = Cut(w, stage[w])
    BY <1>4, <2>1 DEF Cancel, RecoverInterrupted, StopRunning
  <2>3. stage'[w].status = "uncertain" /\ stage'[w].before = stage[w].before
    BY <1>1, <2>2 DEF Cut, StageRecord
  <2> QED
    BY <1>2, <2>2, <2>3 DEF DoubtfulCall, InDoubt, IsUncertain, Completed
<1> QED
  BY <1>3, <1>4

(* A write that is neither running nor uncertain, once completed, stays so. *)
LEMMA CompletedNoDoubt ==
  ASSUME IInv, NEW w \in Stage, Completed(w)
  PROVE  ~InDoubt(w)
BY RecordsOK DEF RecordOK, InDoubt, IsUncertain, Completed

(* What a step of the runner keeps when it makes a doubtful call and leaves *)
(* the workspace and the lease alone.                                       *)
LEMMA AccountedFrame ==
  ASSUME NEW w \in Stage, Accounted(w), DoubtfulCall(w), UNCHANGED <<disk, lease, op, client>>,
         adv'.pc \in {"lease", "exec", "armed"} /\ adv'.s = w /\ client = "steady" =>
            runStatus' = "running" /\ stage'[w].status = "running",
         adv'.pc # "release"
  PROVE  Accounted(w)'
BY DEF Accounted, DoubtfulCall

LEMMA RunnerDoubtful ==
  ASSUME MInv, NEW w \in Stage, IsWriteStage(w), Accounted(w), Runner, ~Store
  PROVE  DoubtfulCall(w)
<1>1. IInv /\ QuietCall /\ RunnerCall /\ (InDoubt(w) => stage[w].before = checkpoint)
  BY QuietRunner, RunnerStore DEF MInv, Accounted
<1>2. ASSUME NEW t \in Stage, StageNext(t) PROVE DoubtfulCall(w)
  BY <1>1, <1>2, DoubtStage
<1>3. UNCHANGED storeVars \/ (\E to \in TransitionTarget : Transition(to)) => DoubtfulCall(w)
  BY <1>1, DoubtRun
<1> QED
  BY <1>1, <1>2, <1>3 DEF RunnerCall

LEMMA RunnerFrames ==
  ASSUME MInv, Runner
  PROVE  /\ UNCHANGED <<op, client, up>>
         /\ adv'.pc = "release" => Store
         /\ lease' = lease \/ Lease \/ Release
         /\ disk' = disk \/ Apply
<1>1. UNCHANGED <<op, client, up>> /\ (lease' = lease \/ Lease \/ Release) /\ (disk' = disk \/ Apply)
  BY DEF Runner, Load, Claim, Lease, Execute, Apply, Applied, Accept, Store, Release, Caught, Charge, Fail, FailClaimed,
         Block, RequestApproval, Transit
<1>2. adv \in Advance
  BY DEF MInv, MissionTyped
<1>3. ASSUME adv'.pc = "release" PROVE Store
  <2>1. /\ \A pc \in AdvancePc \ {"release"} : ~Goto(pc)
        /\ ~Finish /\ ~Loop /\ \A to : ~Ask(to)
    BY <1>3, Gone
  <2>2. ~Claim
    BY <1>3, ClaimMoves
  <2>3. \A s \in Stage : ~LoadReady(s)
    BY <1>2, <1>3 DEF LoadReady, Advance
  <2>4. ~Load
    BY <2>1, <2>3 DEF Load, LoadStop, LoadExhausted, LoadIdle
  <2>5. ~Lease /\ ~Execute /\ ~Apply /\ ~Applied /\ ~Accept /\ ~Release
    BY <2>1 DEF Lease, Execute, Apply, Applied, Accept, Release, AdvancePc
  <2>6. ~Caught /\ ~Charge /\ ~Fail /\ ~FailClaimed /\ ~Block /\ ~RequestApproval /\ ~Transit
    BY <2>1 DEF Caught, Charge, Fail, FailClaimed, Block, RequestApproval, Transit, AdvancePc
  <2> QED
    BY <2>2, <2>4, <2>5, <2>6 DEF Runner
<1> QED
  BY <1>1, <1>3

LEMMA KnownClients ==
  ASSUME MInv
  PROVE  client \in {"any", "steady", "panel"}
BY MissionAssumption DEF MInv, MissionTyped

LEMMA AccountedRunner ==
  ASSUME MInv, Leased, PanelAware, NEW w \in Stage, OneWrite(w), Attested(w), Accounted(w), Runner
  PROVE  Accounted(w)'
<1>0. /\ IInv /\ IInv' /\ IsWriteStage(w) /\ stage \in [Stage -> StageRecord] /\ adv \in Advance
      /\ UNCHANGED <<op, client>>
  BY RunnerTyped, RunnerFrames DEF MInv, IInv, TypeOK, OneWrite, MissionTyped
<1>1. ~Store => DoubtfulCall(w)
  BY <1>0, RunnerDoubtful
<1>2. CASE ~(Store \/ Claim \/ Lease \/ Apply \/ Release)
  BY <1>0, <1>1, <1>2, RunnerMoves, RunnerFrames, AccountedFrame DEF Accounted, storeVars
<1>3. CASE Claim
  <2>1. UNCHANGED <<disk, lease, op, client>> /\ adv'.pc # "release" /\ DoubtfulCall(w)
    BY <1>0, <1>1, <1>3, ClaimMoves, RunnerFrames DEF Claim, Store
  <2>2. ASSUME adv'.pc \in {"lease", "exec", "armed"}, adv'.s = w
        PROVE  runStatus' = "running" /\ stage'[w].status = "running"
    <3>1. adv.s = w /\ ClaimStage(w, adv.e, adv.d)
      BY <1>3, <2>2, ClaimMoves
    <3> QED
      BY <1>0, <3>1 DEF ClaimStage, ClaimGuard, StageUpdateGuard, StageOpen, Claimed, StageRecord
  <2> QED
    BY <2>1, <2>2, AccountedFrame
<1>4. CASE Lease
  <2>1. UNCHANGED <<storeVars, disk, op, client>> /\ adv.pc = "lease"
    BY <1>0, <1>4 DEF Lease
  <2>2. adv.s = w
    BY <2>1 DEF Leased, OneWrite, MInv, MissionTyped
  <2>3. adv'.pc \in {"exec", "error"}
    BY <1>4, Gone DEF Lease, AdvancePc
  <2>4. lease' = lease \/ lease' = [state |-> "held", stage |-> w]
    BY <1>4, <2>2 DEF Lease
  <2> QED
    BY <2>1, <2>2, <2>3, <2>4 DEF Accounted, storeVars, NoLease, InDoubt, IsUncertain, Completed
<1>5. CASE Apply
  <2>1. UNCHANGED <<storeVars, lease, op, client>> /\ adv.pc = "armed" /\ IsWriteStage(adv.s)
    BY <1>0, <1>5 DEF Apply, Leased
  <2>2. adv.s = w
    BY <2>1 DEF OneWrite, MInv, MissionTyped
  <2>3. adv'.pc \in {"wrote", "error"} /\ lease = [state |-> "held", stage |-> w]
    BY <1>5, <2>1, <2>2, Gone DEF Apply, AdvancePc, Leased
  <2>4. client # "any" => InDoubt(w)
    BY <1>0, <2>1, <2>2, KnownClients DEF Accounted, PanelAware, Panel, InDoubt
  <2>5. client = "steady" => ~(op.pc = "resume" /\ w \in DOMAIN op.m)
    BY <1>0, <2>1, <2>2, RecordsOK DEF Accounted, RecordOK, IsUncertain
  <2> QED
    BY <2>1, <2>3, <2>4, <2>5 DEF Accounted, storeVars, NoLease, InDoubt, IsUncertain, Completed
<1>6. CASE Release
  <2>1. UNCHANGED <<storeVars, disk, op, client>> /\ adv.pc = "release" /\ (lease' = NoLease \/ lease' = lease)
    BY <1>0, <1>6 DEF Release
  <2>2. adv'.pc \in {"load", "error"}
    BY <1>6, Gone DEF Release, AdvancePc
  <2>3. client # "any" => disk = checkpoint
    BY <1>0, <2>1, CompletedNoDoubt DEF Accounted
  <2> QED
    BY <2>1, <2>2, <2>3 DEF Accounted, storeVars, NoLease, InDoubt, IsUncertain, Completed
<1>7. CASE Store
  <2>1. UNCHANGED <<disk, lease, op, client>> /\ adv.pc = "store" /\ adv.s \in Stage /\ adv'.pc \notin AtWork
    BY <1>0, <1>7, SettlingMoves DEF Store, Settling, MInv, MissionTyped
  <2>2. adv.c \in Claims /\ adv.d \in Digest /\ disk \in Digest
    BY <1>0, <2>1 DEF MInv, MissionTyped, Advance
  <2>3. CASE UNCHANGED storeVars /\ Goto("error")
    <3>1. DoubtfulCall(w)
      BY <1>0, <2>3, DoubtRun DEF Accounted
    <3>2. adv'.pc = "error"
      BY <2>3, Gone DEF AdvancePc
    <3> QED
      BY <2>1, <3>1, <3>2, AccountedFrame
  <2>4. CASE StoreDepartment /\ Goto(IF IsWriteStage(adv.s) THEN "release" ELSE "load")
    <3>1. PICK id \in ArtifactId, n \in Usage : CompleteDepartmentWithArtifact(adv.s, adv.c, id, n)
      BY <2>4 DEF StoreDepartment
    <3>2. StageNext(adv.s) /\ checkpoint' = checkpoint /\ ~Attesting(adv.s)
      BY <2>2, <3>1 DEF StageNext, CompleteDepartmentWithArtifact, DepartmentGuard, Attesting, IsWriteStage
    <3>3. DoubtfulCall(w)
      BY <1>0, <2>1, <3>2, QuietStage, DoubtStage DEF Accounted
    <3>4. adv'.pc = "load"
      BY <2>4, <3>2, Gone DEF AdvancePc, Attesting
    <3> QED
      BY <2>1, <3>3, <3>4, AccountedFrame
  <2>5. CASE CompleteAction(adv.s, adv.c, disk)
    <3>1. adv.s = w /\ checkpoint' = disk /\ ~IsUncertain(w) /\ stage' = [stage EXCEPT ![w] = Written(w, disk)]
      BY <2>1, <2>5 DEF CompleteAction, StageUpdateGuard, StageOpen, OneWrite
    <3>2. Completed(w)'
      BY <1>0, <3>1 DEF Written, Completed, StageRecord
    <3>3. ~InDoubt(w)'
      <4>1. stage'[w].status = "completed" /\ stage'[w].uncertain = stage[w].uncertain
        BY <1>0, <3>1 DEF Written, StageRecord
      <4> QED
        BY <3>1, <4>1 DEF InDoubt, IsUncertain
    <3> QED
      BY <2>1, <3>1, <3>2, <3>3 DEF Accounted, AtWork
  <2>6. CASE CompleteTruthGate(adv.s, adv.c, UpstreamReceipts(adv.s), adv.d)
                /\ Goto(IF IsWriteStage(adv.s) THEN "release" ELSE "load")
    <3>1. Gate(adv.s) /\ checkpoint' = adv.d /\ stage' = [stage EXCEPT ![adv.s] = Verified(adv.s, UpstreamReceipts(adv.s))]
      BY <2>1, <2>6 DEF CompleteTruthGate, Gate
    <3>2. adv.d = checkpoint /\ Completed(w) /\ adv.s # w /\ ~IsWriteStage(adv.s)
      BY <2>1, <3>1 DEF Attested, AtWork, Gate, OneWrite, IsWriteStage
    <3>3. stage'[w] = stage[w] /\ ~InDoubt(w)
      BY <1>0, <2>1, <3>1, <3>2, CompletedNoDoubt
    <3>4. DoubtfulCall(w)
      BY <3>1, <3>2, <3>3 DEF DoubtfulCall, Completed, InDoubt, IsUncertain
    <3>5. adv'.pc = "load"
      BY <2>6, <3>2, Gone DEF AdvancePc
    <3> QED
      BY <2>1, <3>4, <3>5, AccountedFrame
  <2> QED
    BY <1>7, <2>3, <2>4, <2>5, <2>6 DEF Store, StoreResult
<1> QED
  BY <1>2, <1>3, <1>4, <1>5, <1>6, <1>7

(* A request that is not a resume makes a doubtful call: what is attested   *)
(* and accounted for stays so, wherever the request goes next.              *)
LEMMA AccountedRequest ==
  ASSUME MInv, NEW w \in Stage, OneWrite(w), Accounted(w), Gateway, ~(op.pc = "resume" /\ Resume(op.m))
  PROVE  Accounted(w)'
<1>0. /\ IInv /\ IsWriteStage(w) /\ stage \in [Stage -> StageRecord]
      /\ UNCHANGED <<disk, client>> /\ RequestCall
      /\ SameAdvance \/ adv'.pc = "load"
      /\ lease' = lease \/ (ResolveQuarantine /\ lease.state # "held")
  BY GatewayMoves, GatewayStore DEF MInv, IInv, TypeOK, OneWrite
<1>1. QuietCall
  BY <1>0, QuietRequest
<1>2. DoubtfulCall(w)
  <2>1. ASSUME NEW t \in Stage, StageNext(t) PROVE DoubtfulCall(w)
    BY <1>0, <1>1, <2>1, DoubtStage DEF Accounted
  <2>2. UNCHANGED storeVars \/ Create \/ Cancel \/ (\E to \in TransitionTarget : Transition(to)) => DoubtfulCall(w)
    BY <1>0, DoubtRun DEF Accounted
  <2>3. {"running", "failed", "paused"} \subseteq TransitionTarget
    BY DEF TransitionTarget
  <2> QED
    BY <1>0, <2>1, <2>2, <2>3 DEF RequestCall, StageNext
<1>3. InDoubt(w) => UnresolvedWrite
  BY <1>0 DEF InDoubt, UnresolvedWrite
<1>4. /\ InDoubt(w)' => stage'[w].before = checkpoint'
      /\ adv'.pc = "release" => Completed(w)'
  BY <1>0, <1>2 DEF Accounted, DoubtfulCall, SameAdvance
<1>5. lease' = lease \/ (lease' = NoLease /\ (client # "any" => disk = checkpoint))
  <2>1. CASE ResolveQuarantine /\ lease.state # "held"
    BY <2>1 DEF ResolveQuarantine, Accounted
  <2> QED
    BY <1>0, <2>1
<1>6. ASSUME client = "steady", adv'.pc \in {"lease", "exec", "armed"}, adv'.s = w
      PROVE  runStatus' = "running" /\ stage'[w].status = "running"
  <2>1. runStatus = "running" /\ stage[w].status = "running"
    BY <1>0, <1>6 DEF SameAdvance, Accounted
  <2>2. op.pc \notin {"each", "final"} /\ UnresolvedWrite
    BY <1>3, <1>6, <2>1 DEF Accounted, InDoubt
  <2>3. ASSUME NEW t \in Stage, NEW st \in ApprovalStatus, RecordApproval(t, st)
        PROVE  runStatus' = "running" /\ stage'[w].status = "running"
    <3>1. t # w
      BY <1>0, <2>3 DEF RecordApproval, ApprovalGuard, IsWriteStage
    <3> QED
      BY <1>0, <2>1, <2>3, <3>1 DEF RecordApproval
  <2>4. ~\E to \in {"running", "failed"} : Transition(to)
    BY <2>1, <2>2 DEF Transition, TransitionGuard, RunTransitions, TerminalRunStatus
  <2>5. ~Create /\ (UNCHANGED storeVars => runStatus' = "running" /\ stage'[w].status = "running")
    BY <2>1 DEF Create, storeVars
  <2> QED
    BY <1>0, <2>2, <2>3, <2>4, <2>5 DEF RequestCall
<1>7. ASSUME client = "steady", op'.pc = "resume", w \in DOMAIN op'.m
      PROVE  IsUncertain(w)' /\ op'.m[w].digest = disk
  <2>1. CASE op' = op
    BY <1>2, <1>7, <2>1 DEF Accounted, DoubtfulCall
  <2>2. CASE op' # op
    <3>1. w \in UncertainStages /\ op'.m[w].digest = disk
      BY <1>7, <2>2, RequestMoves
    <3> QED
      BY <1>2, <3>1 DEF DoubtfulCall, UncertainStages
  <2> QED
    BY <2>1, <2>2
<1>8. ASSUME client # "any", op'.pc = "unlock", lease'.state # "held" PROVE disk = checkpoint
  <2>1. CASE op' = op
    BY <1>5, <1>8, <2>1 DEF Accounted
  <2>2. CASE op' # op
    <3>1. ASSUME ResumeCommit PROVE FALSE
      <4>1. op' = IdleOp
        BY <3>1 DEF ResumeCommit
      <4> QED
        BY <1>8, <4>1 DEF IdleOp
    <3> QED
      BY <1>8, <2>2, <3>1, RequestMoves
  <2> QED
    BY <2>1, <2>2
<1>9. ASSUME client = "steady" PROVE op'.pc \notin {"interrupt", "each", "final"}
  BY <1>9, RequestMoves DEF Accounted
<1>10. lease' # NoLease => lease'.stage = w
  BY <1>5 DEF Accounted
<1>11. client # "any" /\ disk # checkpoint => InDoubt(w)' /\ lease' # NoLease
  BY <1>2, <1>5 DEF Accounted, DoubtfulCall
<1> QED
  BY <1>0, <1>1, <1>4, <1>6, <1>7, <1>8, <1>9, <1>10, <1>11 DEF Accounted, QuietCall

(* A resume settles the write with the checkpoint that describes the        *)
(* workspace, and waits until the runner is done with it.                   *)
LEMMA AccountedResume ==
  ASSUME MInv, PanelAware, NEW w \in Stage, OneWrite(w), Accounted(w), Gateway, op.pc = "resume", Resume(op.m)
  PROVE  Accounted(w)'
<1> DEFINE m == op.m
<1>0. /\ IInv /\ IInv' /\ IsWriteStage(w) /\ stage \in [Stage -> StageRecord]
      /\ UNCHANGED <<disk, client>>
      /\ SameAdvance \/ adv'.pc = "load"
      /\ runStatus # "running"
  BY GatewayMoves, GatewayTyped DEF MInv, IInv, TypeOK, OneWrite, Resume
<1>1. \A s \in Stage : IsUncertain(s) => s = w
  BY <1>0, RecordsOK DEF RecordOK, IsUncertain, OneWrite
<1>2. lease' = lease
  BY GatewayMoves DEF ResolveQuarantine
<1>3. op'.pc = IF DOMAIN m = {} THEN "schedule" ELSE "unlock"
  <2>1. ResumeCommit
    BY <1>0 DEF Gateway, HandlerStep, Operator, StartCommit, Interrupt, InterruptEach, StopFinal, ResolveQuarantine,
       ScheduleStep, Decided, Arrives, CreateRun, Create, Start, Stop, ResumeVerify, ResumeAgain, Decide, Resume
  <2>2. ~UNCHANGED storeVars
    BY <1>0 DEF Resume, storeVars
  <2>3. op' = [op EXCEPT !.pc = IF DOMAIN m = {} THEN "schedule" ELSE "unlock"] /\ op \in Request
    BY <2>1, <2>2 DEF ResumeCommit, MInv, MissionTyped
  <2> QED
    BY <2>3 DEF Request
<1>4. Completed(w) => Completed(w)'
  BY <1>0, CompletedNoDoubt DEF Resume, InDoubt, Completed
<1>5. client = "steady" => ~(adv'.pc \in {"lease", "exec", "armed"} /\ adv'.s = w)
  BY <1>0 DEF Accounted, SameAdvance
<1>6. adv'.pc = "release" => Completed(w)'
  BY <1>0, <1>4 DEF Accounted, SameAdvance
<1>7. CASE ~IsUncertain(w)
  <2>1. DOMAIN m = {}
    BY <1>1, <1>7 DEF Resume
  <2>2. checkpoint' = checkpoint /\ op'.pc = "schedule"
    BY <1>3, <2>1 DEF Resume
  <2>3. stage'[w] = stage[w] \/ (stage[w].status = "blocked" /\ stage'[w] = WithStatus(w, "pending"))
    BY <2>1 DEF Resume
  <2>4. (InDoubt(w)' <=> InDoubt(w)) /\ stage'[w].before = stage[w].before
    BY <1>0, <1>7, <2>3 DEF InDoubt, IsUncertain, WithStatus, StageRecord
  <2> QED
    BY <1>0, <1>2, <1>5, <1>6, <2>2, <2>4 DEF Accounted
<1>8. CASE IsUncertain(w)
  <2>1. DOMAIN m = {w} /\ stage'[w] = ApplyResolution(w, m[w]) /\ VerifiedMarker(w, m[w])
    BY <1>1, <1>8 DEF Resume
  <2>2. m[w].outcome \in Outcome
    <3>1. PICK S \in SUBSET Stage : m \in [S -> Marker]
      BY DEF MInv, MissionTyped
    <3> QED
      BY <2>1, <3>1 DEF Marker
  <2>3. ~InDoubt(w)'
    BY <1>0, <2>1, <2>2 DEF InDoubt, IsUncertain, ApplyResolution, ResolvedStatus, StageRecord, Outcome
  <2>4. client # "any" => checkpoint' = disk
    <3>1. SUFFICES ASSUME client = "steady" PROVE checkpoint' = disk
      BY <1>0, <2>1, KnownClients DEF PanelAware, Panel
    <3>2. m[w].digest = disk /\ stage[w].before = checkpoint
      BY <1>8, <2>1, <3>1 DEF Accounted, InDoubt
    <3>3. CASE m[w].outcome = "retry"
      <4>1. {s \in DOMAIN m : m[s].outcome # "retry"} = {}
        BY <2>1, <3>3
      <4>2. checkpoint' = checkpoint
        BY <4>1 DEF Resume
      <4> QED
        BY <2>1, <3>2, <3>3, <4>2 DEF VerifiedMarker
    <3>4. CASE m[w].outcome # "retry"
      <4>1. {s \in DOMAIN m : m[s].outcome # "retry"} = {w}
        BY <2>1, <3>4
      <4>2. \A x \in {w} : x = w
        OBVIOUS
      <4>3. (CHOOSE s \in {w} : TRUE) = w
        BY <4>2
      <4> QED
        BY <3>2, <4>1, <4>3 DEF Resume
    <3> QED
      BY <3>3, <3>4
  <2>5. op'.pc = "unlock"
    BY <1>3, <2>1
  <2> QED
    BY <1>0, <1>2, <1>5, <1>6, <2>3, <2>4, <2>5 DEF Accounted
<1> QED
  BY <1>7, <1>8

(* A restart keeps the lease of a write in doubt unless a marker on record  *)
(* shows that the workspace is the checkpoint.                              *)
LEMMA AccountedRestart ==
  ASSUME MInv, Leased, ValidSnapshot, NEW w \in Stage, OneWrite(w), Accounted(w), Restart
  PROVE  Accounted(w)'
<1>1. /\ IInv /\ IsWriteStage(w) /\ adv' = adv /\ adv.pc = "off" /\ op' = op /\ op.pc = "idle"
      /\ disk' = disk /\ client' = client /\ lease \in LeaseEntry
  BY DEF Restart, Leased, IdleAdvance, IdleOp, MInv, MissionTyped, OneWrite
<1>2. DoubtfulCall(w)
  BY <1>1, DoubtRun DEF Restart, Accounted
<1>3. lease' = NoLease \/ (lease # NoLease /\ lease' = [lease EXCEPT !.state = "quarantined"])
  BY DEF Restart, RecoverStale
<1>4. lease' # NoLease => lease'.stage = w
  BY <1>1, <1>3 DEF Accounted, LeaseEntry
<1>5. ASSUME client # "any", disk # checkpoint PROVE lease' # NoLease
  <2>1. InDoubt(w) /\ lease # NoLease /\ lease.stage = w
    BY <1>5 DEF Accounted
  <2>2. stage'[w].before = checkpoint
    BY <1>2, <2>1 DEF DoubtfulCall
  <2>3. runStatus' \notin TerminalRunStatus
    <3>1. runStatus \notin TerminalRunStatus
      BY <2>1 DEF ValidSnapshot, InDoubt
    <3> QED
      BY <3>1 DEF Restart, RecoverInterrupted, storeVars, TerminalRunStatus
  <2>4. ~PersistedResolutionStillValid
    BY <1>5, <2>1, <2>2 DEF PersistedResolutionStillValid
  <2>5. lease' = [lease EXCEPT !.state = "quarantined"]
    BY <2>1, <2>3, <2>4 DEF Restart, RecoverStale
  <2>6. lease'.state = "quarantined"
    BY <1>1, <2>5 DEF LeaseEntry
  <2> QED
    BY <2>6 DEF NoLease
<1> QED
  BY <1>1, <1>2, <1>4, <1>5 DEF Accounted, DoubtfulCall

LEMMA AccountedStep ==
  ASSUME MInv, Leased, PanelAware, ValidSnapshot, NEW w \in Stage, OneWrite(w), Attested(w), Accounted(w),
         [MissionNext]_vars
  PROVE  Accounted(w)'
<1>1. CASE UNCHANGED vars
  BY <1>1 DEF vars, storeVars, localVars, Accounted, InDoubt, IsUncertain, Completed
<1>2. CASE Crash
  BY <1>2 DEF Crash, storeVars, Accounted, InDoubt, IsUncertain, Completed, IdleAdvance, IdleOp
<1>3. CASE Gateway
  BY <1>3, AccountedRequest, AccountedResume
<1> QED
  BY <1>1, <1>2, <1>3, AccountedRunner, AccountedRestart DEF MissionNext

LEMMA AccountedInvariant ==
  ASSUME NEW w \in Stage, OneWrite(w)
  PROVE  MissionSpec => []Accounted(w)
<1>1. MissionInit => Attested(w) /\ Accounted(w)
  BY DEF MissionInit, Init, FreshStage, Attested, Accounted, IdleAdvance, IdleOp, Completed, AtWork, InDoubt, IsUncertain
<1>2. MInv /\ Leased /\ Attested(w) /\ [MissionNext]_vars => Attested(w)'
  BY AttestedStep
<1>3. MInv /\ Leased /\ PanelAware /\ ValidSnapshot /\ Attested(w) /\ Accounted(w) /\ [MissionNext]_vars => Accounted(w)'
  BY AccountedStep
<1> QED
  BY MissionInvariant, LeasedInvariant, PanelInvariant, MissionSnapshotsLoad, <1>1, <1>2, <1>3, PTL DEF MissionSpec

(* Of a mission that is driven from the panel, or never paused or           *)
(* cancelled: unless a write is running or uncertain the workspace is the   *)
(* recorded checkpoint, whatever stops, crashes, failures and resolutions   *)
(* came before.                                                             *)
THEOREM WorkspaceAttested ==
  ASSUME NEW w \in Stage, OneWrite(w)
  PROVE  MissionSpec => []DiskAttested
<1>1. Accounted(w) => DiskAttested
  BY DEF Accounted, DiskAttested, InDoubt, UnresolvedWrite, OneWrite
<1> QED
  BY AccountedInvariant, <1>1, PTL

(* And a change the record does not account for keeps the workspace locked. *)
THEOREM WorkspaceLocked ==
  ASSUME NEW w \in Stage, OneWrite(w)
  PROVE  MissionSpec => []UnaccountedChangeLocked
<1>1. Accounted(w) => UnaccountedChangeLocked
  BY DEF Accounted, UnaccountedChangeLocked
<1> QED
  BY AccountedInvariant, <1>1, PTL
=============================================================================
