--------------------------- MODULE PipelineRunStore ---------------------------
(***************************************************************************)
(* The durable record of one pipeline mission (core/pipeline-run-store.js):*)
(* the run status, its stages, approvals, artifacts, budget and workspace  *)
(* checkpoint.  The store serializes the mutations of a run and commits    *)
(* each one as a whole (see RunJournal), so one action is one method call. *)
(* A call the code rejects by throwing is an action that is not enabled.   *)
(*                                                                         *)
(* The arguments of an action are the ones the callers in core/gateway.js  *)
(* and core/pipeline-mission-runner.js pass.  Receipts and resolution      *)
(* markers are verified ones: the gateway's registries let no other in.    *)
(***************************************************************************)
EXTENDS Integers, FiniteSets

CONSTANTS
    Stage,          \* the ids of the stages of the pinned definition
    Kind,           \* what each stage is
    DependsOn,      \* the stages that must complete before it
    MaxAttempts,    \* metadata.retry.maxAttempts of each stage
    Digest,         \* workspace digests
    Baseline,       \* the digest observed when the mission is created
    ArtifactId,     \* ids of artifact envelopes
    Session,        \* chat sessions that may attach to the mission
    Usage,          \* what one department call may charge, and limits below
    MaxCalls,       \* budget.limits.maxCalls
    MaxRepairCycles,\* budget.limits.maxRepairCycles
    MaxRunArtifacts,\* MAX_RUN_ARTIFACTS
    None            \* JavaScript's null

StageKind == {"department", "approval", "action", "truth-gate"}

(* A write receipt names the digests before and after; a gate receipt the   *)
(* digests of the write receipts it rests on, which the pair <<stage,       *)
(* receipt>> stands for.                                                    *)
Receipt == [before : Digest, after : Digest]
GateReceipt == SUBSET (Stage \X Receipt)

Outcome == {"retry", "applied", "abandoned"}

(* What pipeline-config.js accepts as a definition: an action gets one      *)
(* attempt and depends on an approval.                                      *)
ASSUME StoreAssumption ==
    /\ IsFiniteSet(Stage)
    /\ Kind \in [Stage -> StageKind]
    /\ DependsOn \in [Stage -> SUBSET Stage]
    /\ MaxAttempts \in [Stage -> Nat \ {0}]
    /\ \A s \in Stage : Kind[s] = "action" =>
          /\ MaxAttempts[s] = 1
          /\ \E p \in DependsOn[s] : Kind[p] = "approval"
    /\ Baseline \in Digest
    /\ None \notin Digest \cup Receipt \cup Outcome
    /\ Usage \subseteq Nat
    /\ MaxCalls \in Nat
    /\ MaxRepairCycles \in Nat
    /\ MaxRunArtifacts \in Nat

VARIABLES
    runStatus,      \* status of the run, "absent" before create()
    stage,          \* the stage records
    checkpoint,     \* workspaceCheckpointDigest
    artifacts,      \* accepted envelopes: [id, stage]
    approvals,      \* approval records: [stage, status]
    budget,         \* consumed calls and repair cycles, exhausted flag
    attached,       \* attachedSessionIds
    lastClaim       \* executionClaimIds minted so far (random UUIDs in the code)

storeVars == <<runStatus, stage, checkpoint, artifacts, approvals, budget,
               attached, lastClaim>>

RunStatus == {"absent", "queued", "running", "paused", "budget_paused",
              "awaiting_approval", "blocked", "completed", "failed",
              "cancelled", "interrupted"}

TerminalRunStatus == {"completed", "failed", "cancelled"}

StageStatus == {"pending", "running", "awaiting_approval", "blocked",
                "budget_paused", "completed", "failed", "skipped", "cancelled",
                "interrupted", "uncertain"}

StageTransitions ==
    [pending           |-> {"running", "awaiting_approval", "blocked", "skipped",
                            "cancelled"},
     running           |-> {"awaiting_approval", "blocked", "budget_paused",
                            "interrupted", "uncertain", "completed", "failed",
                            "cancelled"},
     awaiting_approval |-> {"blocked", "completed", "failed", "cancelled"},
     blocked           |-> {"pending", "running", "failed", "skipped", "cancelled"},
     budget_paused     |-> {"running", "interrupted", "failed", "cancelled"},
     interrupted       |-> {"running", "failed", "cancelled"},
     uncertain         |-> {},
     failed            |-> {"pending", "running", "skipped", "cancelled"},
     completed         |-> {},
     skipped           |-> {},
     cancelled         |-> {}]

RunTransitions ==
    [absent            |-> {},
     queued            |-> {"running", "cancelled"},
     running           |-> {"paused", "budget_paused", "awaiting_approval",
                            "blocked", "completed", "failed", "cancelled",
                            "interrupted"},
     paused            |-> {"running", "cancelled"},
     budget_paused     |-> {"failed", "cancelled"},
     awaiting_approval |-> {"running", "blocked", "interrupted", "failed", "cancelled"},
     blocked           |-> {"running", "interrupted", "failed", "cancelled"},
     interrupted       |-> {"running", "failed", "cancelled"},
     completed         |-> {},
     failed            |-> {},
     cancelled         |-> {}]

Decision == {"approved", "rejected", "cancelled", "expired"}
ApprovalStatus == {"requested"} \cup Decision

StageRecord ==
    [status    : StageStatus,
     attempts  : Nat,
     claim     : Nat,                    \* executionClaimId, 0 for null
     uncertain : BOOLEAN,
     before    : Digest \cup {None},     \* workspaceDigestBefore
     receipt   : Receipt \cup {None},    \* actionReceipt
     gate      : GateReceipt,            \* truthGateReceipt, {} for none
     outcome   : Outcome \cup {None},    \* resolution.outcome
     consumed  : BOOLEAN]                \* resolution.retryConsumedAt is set

Budget == [calls : Nat, repairCycles : Nat, exhausted : BOOLEAN]

TypeOK ==
    /\ runStatus \in RunStatus
    /\ stage \in [Stage -> StageRecord]
    /\ checkpoint \in Digest
    /\ artifacts \subseteq [id : ArtifactId, stage : Stage]
    /\ approvals \subseteq [stage : Stage, status : ApprovalStatus]
    /\ budget \in Budget
    /\ attached \subseteq Session
    /\ lastClaim \in Nat

-----------------------------------------------------------------------------
IsWriteStage(s) == Kind[s] = "action"

Completed(s) == stage[s].status = "completed"

DependenciesReady(s) == \A d \in DependsOn[s] : Completed(d)

(* All stages a stage rests on, directly or not. *)
Upstream(s) ==
    {t \in Stage : \A S \in SUBSET Stage :
        (DependsOn[s] \subseteq S /\ \A x \in S : DependsOn[x] \subseteq S) => t \in S}

UpstreamWrites(s) == {t \in Upstream(s) : IsWriteStage(t)}

(* upstreamActionReceiptDigests() of the current record. *)
UpstreamReceipts(s) == {<<t, stage[t].receipt>> : t \in UpstreamWrites(s)}

ArtifactsOf(s) == {a \in artifacts : a.stage = s}

HasDurableCompletionReceipt(s) ==
    CASE Kind[s] = "truth-gate" -> stage[s].gate # {}
      [] IsWriteStage(s)        -> stage[s].receipt # None \/ stage[s].outcome = "applied"
      [] Kind[s] = "department" -> ArtifactsOf(s) # {}
      [] OTHER                  -> TRUE

IsUncertain(s) == stage[s].status = "uncertain" \/ stage[s].uncertain

UnresolvedWrite == \E s \in Stage :
    IsWriteStage(s) /\ (stage[s].status = "running" \/ IsUncertain(s))

StageActive == \E s \in Stage : stage[s].status = "running"

(* What validSnapshot() demands of a record before a later process will     *)
(* load it: _commit() of a mutation does not ask.                           *)
ValidSnapshot ==
    /\ runStatus \in TerminalRunStatus =>
          \A s \in Stage : stage[s].status # "running" /\ ~IsUncertain(s)
    /\ runStatus = "completed" =>
          \A s \in Stage : Completed(s) /\ HasDurableCompletionReceipt(s)
    /\ \A s \in Stage : Kind[s] = "truth-gate" /\ stage[s].gate # {} =>
          /\ \A t \in UpstreamWrites(s) : stage[t].receipt # None
          /\ stage[s].gate = UpstreamReceipts(s)

-----------------------------------------------------------------------------
FreshStage == [status |-> "pending", attempts |-> 0, claim |-> 0,
               uncertain |-> FALSE, before |-> None, receipt |-> None,
               gate |-> {}, outcome |-> None, consumed |-> FALSE]

Init ==
    /\ runStatus = "absent"
    /\ stage = [s \in Stage |-> FreshStage]
    /\ checkpoint = Baseline
    /\ artifacts = {}
    /\ approvals = {}
    /\ budget = [calls |-> 0, repairCycles |-> 0, exhausted |-> FALSE]
    /\ attached = {}
    /\ lastClaim = 0

Create ==
    /\ runStatus = "absent"
    /\ runStatus' = "queued"
    /\ UNCHANGED <<stage, checkpoint, artifacts, approvals, budget, attached, lastClaim>>

(* The entry check of _mutate() for event types other than "run.*". *)
Mutable == runStatus \notin TerminalRunStatus \cup {"absent"}

-----------------------------------------------------------------------------
(* Run level *)

(* Mutant: a run may end over a write in doubt. *)
EndsOverDoubt(to) ==
    /\ to \in RunTransitions[runStatus]
    /\ to = "completed" => \A s \in Stage : Completed(s) /\ HasDurableCompletionReceipt(s)

TransitionGuard(to) ==
    /\ to \in RunTransitions[runStatus]
    /\ to \in TerminalRunStatus => ~UnresolvedWrite /\ ~StageActive
    /\ to = "completed" => \A s \in Stage : Completed(s) /\ HasDurableCompletionReceipt(s)

Transition(to) ==
    /\ TransitionGuard(to)
    /\ runStatus' = to
    /\ UNCHANGED <<stage, checkpoint, artifacts, approvals, budget, attached, lastClaim>>

(* Mutant: a stopped write is treated like a read-only stage. *)
CutAsRead(s, r) == [r EXCEPT !.status = "interrupted", !.uncertain = FALSE]

Cut(s, r) == [r EXCEPT !.status = IF IsWriteStage(s) THEN "uncertain" ELSE "interrupted",
                       !.uncertain = IsWriteStage(s)]

(* cancel() and recoverInterrupted() close every running stage this way. *)
StopRunning(st) ==
    [s \in Stage |-> IF st[s].status = "running" THEN Cut(s, st[s]) ELSE st[s]]

Cancel ==
    /\ Mutable
    /\ runStatus' = IF UnresolvedWrite THEN "interrupted" ELSE "cancelled"
    /\ stage' = StopRunning(stage)
    /\ UNCHANGED <<checkpoint, artifacts, approvals, budget, attached, lastClaim>>

RecoverInterrupted ==
    /\ Mutable
    /\ runStatus = "running" \/ StageActive
    /\ runStatus' = "interrupted"
    /\ stage' = StopRunning(stage)
    /\ UNCHANGED <<checkpoint, artifacts, approvals, budget, attached, lastClaim>>

(* A marker the gateway verified against the digest it observed. *)
VerifiedMarker(s, m) ==
    /\ m.outcome = "retry" => m.digest = stage[s].before
    /\ m.outcome = "applied" => stage[s].before # None /\ m.digest # stage[s].before

ResolvedStatus(outcome) ==
    CASE outcome = "applied"   -> "completed"
      [] outcome = "abandoned" -> "failed"
      [] outcome = "retry"     -> "interrupted"

ApplyResolution(s, m) ==
    [stage[s] EXCEPT
        !.status    = ResolvedStatus(m.outcome),
        !.uncertain = FALSE,
        !.outcome   = m.outcome,
        !.consumed  = FALSE,
        !.receipt   = IF m.outcome = "applied"
                      THEN [before |-> stage[s].before, after |-> m.digest] ELSE @]

WithStatus(s, status) == [stage[s] EXCEPT !.status = status]

(* Every uncertain write needs a marker; the checkpoint moves to the digest *)
(* the applied and abandoned ones agree on.                                 *)
Resume(marker) ==
    /\ runStatus \in {"paused", "interrupted", "blocked"}
    /\ DOMAIN marker = {s \in Stage : IsUncertain(s)}
    /\ \A s \in DOMAIN marker : VerifiedMarker(s, marker[s])
    /\ LET settled == {s \in DOMAIN marker : marker[s].outcome # "retry"}
       IN  /\ \A s, t \in settled : marker[s].digest = marker[t].digest
           /\ checkpoint' = IF settled = {} THEN checkpoint
                            ELSE marker[CHOOSE s \in settled : TRUE].digest
    /\ stage' = [s \in Stage |->
          IF s \in DOMAIN marker THEN ApplyResolution(s, marker[s])
          ELSE IF runStatus = "blocked" /\ stage[s].status = "blocked" THEN WithStatus(s, "pending")
          ELSE stage[s]]
    /\ runStatus' = "running"
    /\ UNCHANGED <<artifacts, approvals, budget, attached, lastClaim>>

AttachSession(x) ==
    /\ Mutable
    /\ attached' = attached \cup {x}
    /\ UNCHANGED <<runStatus, stage, checkpoint, artifacts, approvals, budget, lastClaim>>

-----------------------------------------------------------------------------
(* Stage level: updateStage() as its callers use it *)

(* A write that was running ends in doubt however it is stopped. *)
EffectiveStatus(s, to) ==
    IF IsWriteStage(s) /\ stage[s].status = "running"
          /\ to \in {"blocked", "budget_paused", "failed", "cancelled", "interrupted"}
    THEN "uncertain" ELSE to

StageOpen(s) == runStatus = "running" /\ Kind[s] # "approval" /\ ~IsUncertain(s)

StageUpdateGuard(s, to) == StageOpen(s) /\ to \in StageTransitions[stage[s].status]

Stopped(s, status) == [stage[s] EXCEPT !.status = status,
                                       !.uncertain = @ \/ status = "uncertain"]

(* updateStage() to a status other than running or completed; a stage that  *)
(* has this status already keeps it.                                        *)
StopStage(s, to) ==
    /\ \/ StageUpdateGuard(s, EffectiveStatus(s, to))
       \/ StageOpen(s) /\ to = stage[s].status
    /\ stage' = [stage EXCEPT ![s] = Stopped(s, EffectiveStatus(s, to))]
    /\ UNCHANGED <<runStatus, checkpoint, artifacts, approvals, budget, attached, lastClaim>>

CrashRetryAuthorized(s) ==
    /\ IsWriteStage(s)
    /\ stage[s].status = "interrupted"
    /\ stage[s].outcome = "retry"
    /\ ~stage[s].consumed

(* Mutant: the first retry is free. *)
ChargeSecondRepair(s) ==
    IF stage[s].attempts <= 1 THEN budget
    ELSE [budget EXCEPT
            !.repairCycles = @ + 1,
            !.exhausted = @ \/ budget.repairCycles + 1 >= MaxRepairCycles]

(* A second attempt is a repair cycle of the mission budget. *)
ChargeRepair(s) ==
    IF stage[s].attempts = 0 THEN budget
    ELSE [budget EXCEPT
            !.repairCycles = @ + 1,
            !.exhausted = @ \/ budget.repairCycles + 1 >= MaxRepairCycles]

(* Mutant: dependencies are not checked. *)
ClaimAhead(s) ==
    /\ StageUpdateGuard(s, "running")
    /\ IsWriteStage(s) => stage[s].outcome \notin {"applied", "abandoned"}
    /\ stage[s].attempts < MaxAttempts[s] \/ CrashRetryAuthorized(s)
    /\ stage[s].attempts > 0 => budget.repairCycles < MaxRepairCycles

ClaimGuard(s) ==
    /\ StageUpdateGuard(s, "running")
    /\ stage[s].status = "pending" => DependenciesReady(s)
    /\ IsWriteStage(s) => stage[s].outcome \notin {"applied", "abandoned"}
    /\ stage[s].attempts < MaxAttempts[s] \/ CrashRetryAuthorized(s)
    /\ stage[s].attempts > 0 => budget.repairCycles < MaxRepairCycles

(* Mutant: a crash retry does not use up its authorization. *)
ClaimedUnmarked(s, digest) ==
    [stage[s] EXCEPT
        !.status   = "running",
        !.attempts = @ + 1,
        !.claim    = lastClaim + 1,
        !.before   = IF IsWriteStage(s) THEN digest ELSE @]

Claimed(s, digest) ==
    [stage[s] EXCEPT
        !.status   = "running",
        !.attempts = @ + 1,
        !.claim    = lastClaim + 1,
        !.before   = IF IsWriteStage(s) THEN digest ELSE @,
        !.consumed = @ \/ CrashRetryAuthorized(s)]

(* claimStage(): compare-and-set on the expected status; the runner claims  *)
(* a write with the checkpoint digest it loaded.                            *)
ClaimStage(s, expected, digest) ==
    /\ expected \in {"pending", "interrupted"}
    /\ stage[s].status = expected
    /\ ClaimGuard(s)
    /\ IsWriteStage(s) => digest = checkpoint
    /\ lastClaim' = lastClaim + 1
    /\ stage' = [stage EXCEPT ![s] = Claimed(s, digest)]
    /\ budget' = ChargeRepair(s)
    /\ UNCHANGED <<runStatus, checkpoint, artifacts, approvals, attached>>

HoldsClaim(s, c) == stage[s].claim = c

(* Mutant: the receipt keeps the digest observed before the write. *)
WrittenStale(s, after) ==
    [stage[s] EXCEPT !.status = "completed",
                     !.receipt = [before |-> stage[s].before, after |-> stage[s].before]]

Written(s, after) ==
    [stage[s] EXCEPT !.status = "completed",
                     !.receipt = [before |-> stage[s].before, after |-> after]]

CompleteAction(s, c, after) ==
    /\ IsWriteStage(s)
    /\ StageUpdateGuard(s, "completed")
    /\ stage[s].status = "running"
    /\ HoldsClaim(s, c)
    /\ stage[s].before # None
    /\ stage' = [stage EXCEPT ![s] = Written(s, after)]
    /\ checkpoint' = after
    /\ UNCHANGED <<runStatus, artifacts, approvals, budget, attached, lastClaim>>

Verified(s, cited) == [stage[s] EXCEPT !.status = "completed", !.gate = cited]

(* The gate's receipt must cite exactly the write receipts upstream of it.  *)
CompleteTruthGate(s, c, cited, digest) ==
    /\ Kind[s] = "truth-gate"
    /\ StageUpdateGuard(s, "completed")
    /\ HoldsClaim(s, c)
    /\ \A t \in UpstreamWrites(s) : stage[t].receipt # None
    /\ UpstreamReceipts(s) # {}
    /\ cited = UpstreamReceipts(s)
    /\ stage' = [stage EXCEPT ![s] = Verified(s, cited)]
    /\ checkpoint' = digest
    /\ UNCHANGED <<runStatus, artifacts, approvals, budget, attached, lastClaim>>

(* The status it fails from is not looked at: one that was interrupted      *)
(* meanwhile fails too.                                                     *)
FailStage(s, c) == HoldsClaim(s, c) /\ StopStage(s, "failed")

BlockStage(s) == StopStage(s, "blocked")

InterruptStage(s) == StopStage(s, "interrupted")

-----------------------------------------------------------------------------
(* Departments, artifacts, budget *)

(* applyBudgetDelta(): one metered field stands for all of them. *)
ChargeCalls(n) ==
    [budget EXCEPT !.calls = @ + n,
                   !.exhausted = \/ @
                                 \/ budget.calls + n >= MaxCalls
                                 \/ budget.repairCycles >= MaxRepairCycles]

DepartmentGuard(s, c) ==
    /\ runStatus = "running"
    /\ Kind[s] = "department"
    /\ stage[s].status = "running"
    /\ HoldsClaim(s, c)

FailDepartmentWithUsage(s, c, n) ==
    /\ DepartmentGuard(s, c)
    /\ budget' = ChargeCalls(n)
    /\ stage' = [stage EXCEPT ![s] = WithStatus(s, "failed")]
    /\ UNCHANGED <<runStatus, checkpoint, artifacts, approvals, attached, lastClaim>>

NewArtifact(id) ==
    /\ Cardinality(artifacts) < MaxRunArtifacts
    /\ \A a \in artifacts : a.id # id

CompleteDepartmentWithArtifact(s, c, id, n) ==
    /\ DepartmentGuard(s, c)
    /\ ArtifactsOf(s) = {}
    /\ NewArtifact(id)
    /\ budget' = ChargeCalls(n)
    /\ artifacts' = artifacts \cup {[id |-> id, stage |-> s]}
    /\ stage' = [stage EXCEPT ![s] = WithStatus(s, "completed")]
    /\ UNCHANGED <<runStatus, checkpoint, approvals, attached, lastClaim>>

RecordArtifact(s, id) ==
    /\ Mutable
    /\ NewArtifact(id)
    /\ artifacts' = artifacts \cup {[id |-> id, stage |-> s]}
    /\ UNCHANGED <<runStatus, stage, checkpoint, approvals, budget, attached, lastClaim>>

-----------------------------------------------------------------------------
(* Approvals *)

ApprovalGuard(s) ==
    /\ runStatus \in {"running", "paused", "awaiting_approval"}
    /\ Kind[s] = "approval"
    /\ DependenciesReady(s)
    /\ ~\E a \in approvals : a.stage = s /\ a.status \in Decision
    /\ stage[s].status \in {"pending", "awaiting_approval"}

(* Mutant: an approval that expired counts as given. *)
ExpiredCompletes(status) ==
    CASE status = "requested" -> "awaiting_approval"
      [] status \in {"approved", "expired"} -> "completed"
      [] status = "rejected"  -> "failed"
      [] status = "cancelled" -> "cancelled"

ApprovalStageStatus(status) ==
    CASE status = "requested" -> "awaiting_approval"
      [] status = "approved"  -> "completed"
      [] status = "rejected"  -> "failed"
      [] status \in {"cancelled", "expired"} -> "cancelled"

Answered(s, status) ==
    [stage[s] EXCEPT
        !.status   = ApprovalStageStatus(status),
        !.attempts = IF status = "requested" \/ @ = 0 THEN @ + 1 ELSE @]

RecordApproval(s, status) ==
    /\ ApprovalGuard(s)
    /\ status = "requested" =>
          /\ stage[s].status = "pending"
          /\ [stage |-> s, status |-> "requested"] \notin approvals
    /\ stage' = [stage EXCEPT ![s] = Answered(s, status)]
    /\ approvals' = approvals \cup {[stage |-> s, status |-> status]}
    /\ UNCHANGED <<runStatus, checkpoint, artifacts, budget, attached, lastClaim>>
-----------------------------------------------------------------------------
Marker == [outcome : Outcome, digest : Digest]

(* The targets transition() is called with by the gateway and the runner. *)
TransitionTarget == {"running", "paused", "budget_paused", "awaiting_approval",
                     "blocked", "interrupted", "failed", "completed"}

Claims == 1 .. lastClaim

RunNext ==
    \/ Create
    \/ \E to \in TransitionTarget : Transition(to)
    \/ Cancel
    \/ RecoverInterrupted
    \/ \E m \in [{s \in Stage : IsUncertain(s)} -> Marker] : Resume(m)
    \/ \E x \in Session : AttachSession(x)

StageNext(s) ==
    \/ \E e \in {"pending", "interrupted"}, d \in Digest : ClaimStage(s, e, d)
    \/ \E c \in Claims, d \in Digest : CompleteAction(s, c, d)
    \/ \E c \in Claims, d \in Digest, cited \in SUBSET UpstreamReceipts(s) :
          CompleteTruthGate(s, c, cited, d)
    \/ \E c \in Claims : FailStage(s, c)
    \/ BlockStage(s)
    \/ InterruptStage(s)
    \/ \E c \in Claims, n \in Usage : FailDepartmentWithUsage(s, c, n)
    \/ \E c \in Claims, id \in ArtifactId, n \in Usage :
          CompleteDepartmentWithArtifact(s, c, id, n)
    \/ \E id \in ArtifactId : RecordArtifact(s, id)
    \/ \E st \in ApprovalStatus : RecordApproval(s, st)

Next == RunNext \/ \E s \in Stage : StageNext(s)

Spec == Init /\ [][Next]_storeVars

-----------------------------------------------------------------------------
(* Properties *)

(* A stage that was ever started has all its dependencies completed, and    *)
(* stays so: pausing, blocking, re-arming, a restart and a retry never let  *)
(* updateStage() run a stage ahead of the graph, although it checks the     *)
(* dependencies only on the way out of "pending".                           *)
DependenciesBeforeStart ==
    \A s \in Stage : stage[s].attempts > 0 => DependenciesReady(s)

(* No write is ever attempted before a human approved every approval stage  *)
(* it depends on: the approval record itself exists, not just a status.     *)
ApprovedBeforeWrite ==
    \A s \in Stage : IsWriteStage(s) /\ stage[s].attempts > 0 =>
        \A p \in DependsOn[s] : Kind[p] = "approval" =>
            [stage |-> p, status |-> "approved"] \in approvals

(* A write stage counts as completed exactly when its receipt is on record, *)
(* so a truth gate downstream always has a digest to cite; and the          *)
(* `uncertain` flag and the status never disagree, for a write only.        *)
WriteRecordConsistent ==
    \A s \in Stage :
        /\ IsWriteStage(s) => (Completed(s) <=> stage[s].receipt # None)
        /\ stage[s].uncertain <=> stage[s].status = "uncertain"
        /\ stage[s].uncertain => IsWriteStage(s)

(* A repeated attempt is always a repair cycle on the budget, whatever let  *)
(* it happen (configured retries or a crash retry), and the cycles never    *)
(* pass the limit.                                                          *)
RetriesCharged ==
    /\ \A s \in Stage : stage[s].attempts <= 1 + budget.repairCycles
    /\ budget.repairCycles <= MaxRepairCycles

(* A write is repeated only on a verified no-write resolution that no other *)
(* attempt has used: without it the second run could apply the change twice.*)
NoBlindRewrite ==
    [][\A s \in Stage :
        IsWriteStage(s) /\ stage[s].attempts > 0 /\ stage'[s].attempts # stage[s].attempts
        => /\ stage[s].outcome = "retry" /\ ~stage[s].consumed
           /\ stage'[s].consumed]_storeVars

(* The record of a completed stage is frozen: no late answer, interrupt,    *)
(* cancel, restart or re-arm changes its status, claim, attempts or receipt.*)
CompletedFrozen ==
    [][\A s \in Stage : Completed(s) => stage'[s] = stage[s]]_storeVars

=============================================================================
