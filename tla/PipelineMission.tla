---------------------------- MODULE PipelineMission ----------------------------
(***************************************************************************)
(* One mission at work: the runner's advance() loop                        *)
(* (core/pipeline-mission-runner.js), the gateway's HTTP handlers and      *)
(* startup recovery (core/gateway.js), the workspace on disk and the       *)
(* workspace lease, over the durable record of PipelineRunStore.           *)
(*                                                                         *)
(* Every await is a point where the other parties may act, so a method     *)
(* that makes several store calls is several steps.  The runner's local    *)
(* state is `adv`, a request in progress is `op`; a crash loses both and   *)
(* keeps the store, the lease file and the workspace.                      *)
(***************************************************************************)
EXTENDS PipelineRunStore

CONSTANTS
    Rank,       \* position of a stage in the definition's array
    Client,     \* who may drive a mission in this instance
    Crashes     \* TRUE if the process may die and be started again

ASSUME MissionAssumption ==
    /\ Rank \in [Stage -> Nat]
    /\ \A s, t \in Stage : Rank[s] = Rank[t] => s = t
    /\ Client \subseteq {"any", "steady", "panel"}
    /\ Crashes \in BOOLEAN

VARIABLES
    disk,       \* digest of the workspace as it is on disk
    lease,      \* the workspace's entry in the lease file: its state and stage
    adv,        \* the advance() in pipelineAdvances, pc "off" when none
    op,         \* the HTTP request in progress, pc "idle" when none
    up,         \* the gateway process is alive
    client      \* who drives this mission; fixed

localVars == <<disk, lease, adv, op, up, client>>
vars == <<storeVars, localVars>>

(* A client of the HTTP API, one that never pauses or cancels, or the       *)
(* mission panel, which sends no "ask".                                     *)
Requests == [any    |-> {"start", "pause", "resume", "cancel", "ask", "approve", "reject"},
             steady |-> {"start", "resume", "ask", "approve", "reject"},
             panel  |-> {"start", "pause", "resume", "cancel", "approve", "reject"}]

Panel == client = "panel"

NoStage == "none"

(* s, e, d: the stage it works on and the status and checkpoint it loaded;  *)
(* c: its claim; to: the run status it will ask for; aborted: the signal.   *)
IdleAdvance == [pc |-> "off", s |-> NoStage, e |-> "pending", d |-> Baseline,
                c |-> 0, to |-> "running", aborted |-> FALSE]

(* kind: the request; left: stages still to interrupt; m: verified markers. *)
IdleOp == [pc |-> "idle", kind |-> "none", left |-> {}, m |-> <<>>]

NoLease == [state |-> "free", stage |-> NoStage]

MissionInit ==
    /\ Init
    /\ disk = Baseline
    /\ lease = NoLease
    /\ adv = IdleAdvance
    /\ op = IdleOp
    /\ up = TRUE
    /\ client \in Client

AllCompleted == \A s \in Stage : Completed(s)

-----------------------------------------------------------------------------
(* The runner *)

Goto(pc) == adv' = [adv EXCEPT !.pc = pc]
Ask(to) == adv' = [adv EXCEPT !.pc = "transit", !.to = to]
Finish == adv' = IdleAdvance

(* After a stage: the loop goes on only while the record it got back says   *)
(* the run is running.                                                      *)
Loop == IF runStatus = "running" THEN Goto("load") ELSE Finish

Ready(s) ==
    /\ stage[s].status = "pending"
          \/ (Kind[s] = "department" /\ stage[s].status = "interrupted")
    /\ DependenciesReady(s)

FirstReady(s) == Ready(s) /\ \A t \in Stage : Ready(t) => Rank[s] <= Rank[t]

LoadStop ==
    /\ adv.aborted \/ runStatus # "running"
    /\ Finish

LoadExhausted == budget.exhausted /\ ~AllCompleted /\ Ask("budget_paused")

LoadIdle ==
    /\ ~\E s \in Stage : Ready(s)
    /\ CASE AllCompleted -> Ask("completed")
         [] \E s \in Stage : stage[s].status = "failed" -> Ask("failed")
         [] OTHER -> Finish

LoadReady(s) ==
    /\ FirstReady(s)
    /\ adv' = [adv EXCEPT !.pc = IF Kind[s] = "approval" THEN "request" ELSE "claim",
                          !.s = s, !.e = stage[s].status, !.d = checkpoint]

Load ==
    /\ adv.pc = "load"
    /\ \/ LoadStop
       \/ /\ ~adv.aborted /\ runStatus = "running"
          /\ \/ LoadExhausted
             \/ /\ ~(budget.exhausted /\ ~AllCompleted)
                /\ LoadIdle \/ \E s \in Stage : LoadReady(s)
    /\ UNCHANGED <<storeVars, disk, lease, op, up, client>>

(* claimStage(): a lost race (run not running, status changed) goes round   *)
(* the loop; any other refusal escapes advance() and ends it.               *)
ClaimLost == runStatus # "running" \/ stage[adv.s].status # adv.e

Claim ==
    /\ adv.pc = "claim"
    /\ \/ /\ ClaimStage(adv.s, adv.e, adv.d)
          /\ adv' = [adv EXCEPT !.pc = IF IsWriteStage(adv.s) THEN "lease" ELSE "exec",
                                !.c = lastClaim']
       \/ /\ ~ENABLED ClaimStage(adv.s, adv.e, adv.d)
          /\ IF ClaimLost /\ Mutable THEN Goto("load") ELSE Finish
          /\ UNCHANGED storeVars
    /\ UNCHANGED <<disk, lease, op, up, client>>

(* acquire(): the entry must be free or already this stage's; a quarantined *)
(* one belongs to an earlier instance.                                      *)
Lease ==
    /\ adv.pc = "lease"
    /\ IF lease \in {NoLease, [state |-> "held", stage |-> adv.s]}
       THEN Goto("exec") /\ lease' = [state |-> "held", stage |-> adv.s]
       ELSE Goto("error") /\ UNCHANGED lease
    /\ UNCHANGED <<storeVars, disk, op, up, client>>

(* The executors.  A department or verifier answers or throws; a write      *)
(* checks the signal and the baseline, then applies its patch.              *)
Execute ==
    /\ adv.pc = "exec"
    /\ \/ Goto("error")
       \/ Kind[adv.s] = "department" /\ Goto("ok")
       \/ Kind[adv.s] = "department" /\ Goto("unavailable")
       \/ Kind[adv.s] = "truth-gate" /\ disk = adv.d /\ ~adv.aborted /\ Goto("ok")
       \/ IsWriteStage(adv.s) /\ disk = adv.d /\ ~adv.aborted /\ Goto("armed")
    /\ UNCHANGED <<storeVars, disk, lease, op, up, client>>

Apply ==
    /\ adv.pc = "armed"
    /\ \/ Goto("error") /\ UNCHANGED disk
       \/ Goto("wrote") /\ disk' \in Digest
    /\ UNCHANGED <<storeVars, lease, op, up, client>>

Applied ==
    /\ adv.pc = "wrote"
    /\ Goto("error") \/ (~adv.aborted /\ Goto("ok"))
    /\ UNCHANGED <<storeVars, disk, lease, op, up, client>>

(* A department's answer is dropped when the mission stopped meanwhile. *)
Accept ==
    /\ adv.pc = "ok"
    /\ IF Kind[adv.s] = "department" /\ (adv.aborted \/ runStatus # "running"
                                         \/ stage[adv.s].status # "running")
       THEN Loop ELSE Goto("store")
    /\ UNCHANGED <<storeVars, disk, lease, op, up, client>>

StoreDepartment ==
    \E id \in ArtifactId, n \in Usage : CompleteDepartmentWithArtifact(adv.s, adv.c, id, n)

StoreResult ==
    \/ StoreDepartment
    \/ CompleteAction(adv.s, adv.c, disk)
    \/ CompleteTruthGate(adv.s, adv.c, UpstreamReceipts(adv.s), adv.d)

Store ==
    /\ adv.pc = "store"
    /\ \/ /\ StoreResult
          /\ Goto(IF IsWriteStage(adv.s) THEN "release" ELSE "load")
       \/ /\ ~ENABLED StoreResult
          /\ Goto("error")
          /\ UNCHANGED storeVars
    /\ UNCHANGED <<disk, lease, op, up, client>>

(* release(), which may throw: the stage is completed, the lease stays.     *)
Release ==
    /\ adv.pc = "release"
    /\ \/ Goto("load") /\ lease' = NoLease
       \/ Goto("error") /\ UNCHANGED lease
    /\ UNCHANGED <<storeVars, disk, op, up, client>>

(* The catch clauses: a department that was aborted on a stopped run is     *)
(* quiet, one that knows its usage charges it.                              *)
Caught ==
    /\ adv.pc \in {"error", "unavailable"}
    /\ CASE Kind[adv.s] = "department" /\ adv.aborted /\ runStatus # "running" -> Finish
         [] adv.pc = "unavailable" -> Goto("block")
         [] OTHER -> Goto("fail") \/ (Kind[adv.s] = "department" /\ Goto("charge"))
    /\ UNCHANGED <<storeVars, disk, lease, op, up, client>>

Charge ==
    /\ adv.pc = "charge"
    /\ \/ \E n \in Usage : FailDepartmentWithUsage(adv.s, adv.c, n)
       \/ ~DepartmentGuard(adv.s, adv.c) /\ UNCHANGED storeVars
    /\ Goto("fail")
    /\ UNCHANGED <<disk, lease, op, up, client>>

Fail ==
    /\ adv.pc = "fail"
    /\ CASE ~HoldsClaim(adv.s, adv.c) -> Loop
         [] HoldsClaim(adv.s, adv.c) /\ stage[adv.s].status = "running" -> Goto("failStage")
         [] OTHER -> Ask(IF IsUncertain(adv.s) THEN "interrupted" ELSE "failed")
    /\ UNCHANGED <<storeVars, disk, lease, op, up, client>>

(* Mutant: the run is not told that its stage failed. *)
FailStageOnly ==
    /\ adv.pc = "failStage"
    /\ \/ FailStage(adv.s, adv.c) /\ Finish
       \/ ~ENABLED FailStage(adv.s, adv.c) /\ Finish /\ UNCHANGED storeVars
    /\ UNCHANGED <<disk, lease, op, up, client>>

FailClaimed ==
    /\ adv.pc = "failStage"
    /\ \/ /\ FailStage(adv.s, adv.c)
          /\ Ask(IF stage'[adv.s].status = "uncertain" THEN "interrupted" ELSE "failed")
       \/ ~ENABLED FailStage(adv.s, adv.c) /\ Finish /\ UNCHANGED storeVars
    /\ UNCHANGED <<disk, lease, op, up, client>>

Block ==
    /\ adv.pc = "block"
    /\ \/ BlockStage(adv.s) /\ Ask("blocked")
       \/ ~ENABLED BlockStage(adv.s) /\ Finish /\ UNCHANGED storeVars
    /\ UNCHANGED <<disk, lease, op, up, client>>

RequestApproval ==
    /\ adv.pc = "request"
    /\ \/ RecordApproval(adv.s, "requested") /\ Ask("awaiting_approval")
       \/ ~ENABLED RecordApproval(adv.s, "requested") /\ Finish /\ UNCHANGED storeVars
    /\ UNCHANGED <<disk, lease, op, up, client>>

(* transition() to the status asked for: done, already there, or refused;   *)
(* advance() returns or rejects.                                            *)
Transit ==
    /\ adv.pc = "transit"
    /\ Transition(adv.to) \/ (~TransitionGuard(adv.to) /\ UNCHANGED storeVars)
    /\ Finish
    /\ UNCHANGED <<disk, lease, op, up, client>>

Runner ==
    /\ up
    /\ \/ Load \/ Claim \/ Lease \/ Execute \/ Apply \/ Applied \/ Accept \/ Store
       \/ Release \/ Caught \/ Charge \/ Fail \/ FailClaimed \/ Block
       \/ RequestApproval \/ Transit
-----------------------------------------------------------------------------
(* The gateway *)

(* pipelineRunControls(): the buttons of the mission panel.  One request at *)
(* a time: the panel is busy until the answer is in.                        *)
Controls ==
    CASE runStatus = "queued"                                  -> {"start", "cancel"}
      [] runStatus = "running"                                 -> {"pause", "cancel"}
      [] runStatus \in {"paused", "interrupted", "blocked"}    -> {"resume", "cancel"}
      [] runStatus = "budget_paused"                           -> {"cancel"}
      [] runStatus = "awaiting_approval"                       ->
            {"cancel"} \cup IF \E s \in Stage : stage[s].status = "awaiting_approval"
                            THEN {"approve", "reject"} ELSE {}
      [] OTHER                                                 -> {}

Arrives(kind) == op.pc = "idle" /\ kind \in Requests[client] /\ (Panel => kind \in Controls)

(* schedulePipelineAdvance(): an advance in the map, aborted or not, is     *)
(* returned as it is.                                                       *)
Schedule == adv' = IF adv.pc = "off" THEN [IdleAdvance EXCEPT !.pc = "load"] ELSE adv

CreateRun == Create /\ UNCHANGED localVars

(* start: compare the workspace with the checkpoint, then the store call,   *)
(* which also accepts a run that is already running.                        *)
Start ==
    /\ Arrives("start")
    /\ Mutable /\ disk = checkpoint
    /\ op' = [op EXCEPT !.pc = "start", !.kind = "start"]
    /\ UNCHANGED <<storeVars, disk, lease, adv, up, client>>

StartCommit ==
    /\ op.pc = "start"
    /\ \/ /\ Transition("running") \/ (runStatus = "running" /\ UNCHANGED storeVars)
          /\ op' = [op EXCEPT !.pc = "schedule"]
       \/ /\ ~TransitionGuard("running") /\ runStatus # "running"
          /\ op' = IdleOp /\ UNCHANGED storeVars
    /\ UNCHANGED <<disk, lease, adv, up, client>>

Abort == adv' = IF adv.pc = "off" THEN adv ELSE [adv EXCEPT !.aborted = TRUE]

(* pause and cancel: interruptActivePipelineStage(), then the store call. *)
Stop(kind) ==
    /\ Arrives(kind)
    /\ Abort
    /\ op' = [op EXCEPT !.pc = "interrupt", !.kind = kind]
    /\ UNCHANGED <<storeVars, disk, lease, up, client>>

Interrupt ==
    /\ op.pc = "interrupt"
    /\ op' = [op EXCEPT !.pc = "each",
                        !.left = IF runStatus = "running"
                                 THEN {s \in Stage : stage[s].status = "running"} ELSE {}]
    /\ UNCHANGED <<storeVars, disk, lease, adv, up, client>>

(* One updateStage(interrupted) per active stage; a refusal ends the        *)
(* request.                                                                 *)
InterruptEach ==
    /\ op.pc = "each"
    /\ \/ \E s \in op.left :
            \/ InterruptStage(s) /\ op' = [op EXCEPT !.left = @ \ {s}]
            \/ ~ENABLED InterruptStage(s) /\ op' = IdleOp /\ UNCHANGED storeVars
       \/ op.left = {} /\ op' = [op EXCEPT !.pc = "final"] /\ UNCHANGED storeVars
    /\ UNCHANGED <<disk, lease, adv, up, client>>

(* Mutant: cancel ends the run whatever its writes are doing. *)
StopForced ==
    /\ op.pc = "final"
    /\ \/ op.kind = "pause" /\ (Transition("paused") \/ (~TransitionGuard("paused") /\ UNCHANGED storeVars))
       \/ /\ op.kind = "cancel" /\ Mutable
          /\ runStatus' = "cancelled"
          /\ UNCHANGED <<stage, checkpoint, artifacts, approvals, budget, attached, lastClaim>>
    /\ op' = IdleOp
    /\ UNCHANGED <<disk, lease, adv, up, client>>

StopFinal ==
    /\ op.pc = "final"
    /\ \/ op.kind = "pause" /\ (Transition("paused") \/ (~TransitionGuard("paused") /\ UNCHANGED storeVars))
       \/ op.kind = "cancel" /\ (Cancel \/ (~Mutable /\ UNCHANGED storeVars))
    /\ op' = IdleOp
    /\ UNCHANGED <<disk, lease, adv, up, client>>

UncertainStages == {s \in Stage : IsUncertain(s)}

(* resume: verify the markers, which the panel never sends, against the     *)
(* workspace as it is now ...                                               *)
ResumeVerify ==
    /\ Arrives("resume")
    /\ Panel => UncertainStages = {}
    /\ UncertainStages = {} => disk = checkpoint
    /\ \E m \in [UncertainStages -> [outcome : Outcome, digest : {disk}]] :
          /\ \A s \in UncertainStages : VerifiedMarker(s, m[s])
          /\ op' = [op EXCEPT !.pc = "resume", !.kind = "resume", !.m = m]
    /\ UNCHANGED <<storeVars, disk, lease, adv, up, client>>

(* ... or, on a run that an earlier request resumed, against the markers on *)
(* record, to finish what that request left undone ...                      *)
ResumeAgain ==
    /\ Arrives("resume") /\ ~Panel
    /\ UncertainStages = {} /\ runStatus = "running" /\ disk = checkpoint
    /\ \E s \in Stage : /\ stage[s].outcome # None
                        /\ VerifiedMarker(s, [outcome |-> stage[s].outcome, digest |-> disk])
    /\ op' = [op EXCEPT !.pc = "unlock", !.kind = "resume"]
    /\ UNCHANGED <<storeVars, disk, lease, adv, up, client>>

(* ... commit them ... *)
ResumeCommit ==
    /\ op.pc = "resume"
    /\ \/ Resume(op.m) /\ op' = [op EXCEPT !.pc = IF DOMAIN op.m = {} THEN "schedule" ELSE "unlock"]
       \/ ~ENABLED Resume(op.m) /\ op' = IdleOp /\ UNCHANGED storeVars
    /\ UNCHANGED <<disk, lease, adv, up, client>>

(* Mutant: a lease in use is lifted like a quarantined one. *)
LiftAnyLease ==
    /\ op.pc = "unlock"
    /\ op' = [op EXCEPT !.pc = "schedule"]
    /\ lease' = NoLease
    /\ UNCHANGED <<storeVars, disk, adv, up, client>>

(* ... lift the quarantine, which is refused unless a restart set it ... *)
ResolveQuarantine ==
    /\ op.pc = "unlock"
    /\ IF lease.state = "held" THEN op' = IdleOp /\ UNCHANGED lease
       ELSE op' = [op EXCEPT !.pc = "schedule"] /\ lease' = NoLease
    /\ UNCHANGED <<storeVars, disk, adv, up, client>>

ScheduleStep ==
    /\ op.pc = "schedule"
    /\ Schedule
    /\ op' = IdleOp
    /\ UNCHANGED <<storeVars, disk, lease, up, client>>

(* approval: record the decision (one already on record under the same id   *)
(* is accepted as it is), then move the run.                                *)
ApprovalOf(kind) == CASE kind = "ask"     -> {"requested"}
                      [] kind = "approve" -> {"approved"}
                      [] kind = "reject"  -> IF Panel THEN {"rejected"}
                                             ELSE Decision \ {"approved"}

Decide(kind) ==
    /\ Arrives(kind)
    /\ \E s \in Stage, status \in ApprovalOf(kind) :
       /\ Panel => stage[s].status = "awaiting_approval"
       /\ \/ RecordApproval(s, status)
          \/ Mutable /\ [stage |-> s, status |-> status] \in approvals /\ UNCHANGED storeVars
    /\ op' = [op EXCEPT !.pc = IF kind = "ask" THEN "idle" ELSE "decided", !.kind = kind]
    /\ UNCHANGED <<disk, lease, adv, up, client>>

Decided ==
    /\ op.pc = "decided"
    /\ LET to == IF op.kind = "approve" THEN "running" ELSE "failed"
       IN  \/ /\ Transition(to) \/ (runStatus = to /\ UNCHANGED storeVars)
              /\ op' = IF op.kind = "approve" THEN [op EXCEPT !.pc = "schedule"] ELSE IdleOp
           \/ ~TransitionGuard(to) /\ runStatus # to /\ op' = IdleOp /\ UNCHANGED storeVars
    /\ UNCHANGED <<disk, lease, adv, up, client>>

HandlerStep ==
    StartCommit \/ Interrupt \/ InterruptEach \/ StopFinal \/ ResumeCommit \/ ResolveQuarantine
    \/ ScheduleStep \/ Decided

Operator ==
    \/ CreateRun \/ Start \/ Stop("pause") \/ Stop("cancel") \/ ResumeVerify
    \/ ResumeAgain \/ Decide("ask") \/ Decide("approve") \/ Decide("reject")

Gateway == up /\ (HandlerStep \/ Operator)
-----------------------------------------------------------------------------
(* Process death and startup recovery *)

Crash ==
    /\ Crashes /\ up
    /\ up' = FALSE
    /\ adv' = IdleAdvance
    /\ op' = IdleOp
    /\ UNCHANGED <<storeVars, disk, lease, client>>

(* persistedResolutionStillValid(): a retry or abandon marker of the lease's *)
(* stage that still describes the workspace lifts the quarantine at startup. *)
PersistedResolutionStillValid ==
    \/ stage'[lease.stage].outcome = "retry" /\ disk = stage'[lease.stage].before
    \/ stage'[lease.stage].outcome = "abandoned" /\ disk = checkpoint

(* Mutant: the leases of the dead process are removed. *)
RemoveStale == NoLease

RecoverStale ==
    IF lease = NoLease \/ runStatus' \in TerminalRunStatus \/ PersistedResolutionStillValid
    THEN NoLease ELSE [lease EXCEPT !.state = "quarantined"]

(* recoverInterrupted(), then recoverStale() and the persisted markers. *)
Restart ==
    /\ ~up
    /\ up' = TRUE
    /\ RecoverInterrupted \/ (~(Mutable /\ (runStatus = "running" \/ StageActive)) /\ UNCHANGED storeVars)
    /\ lease' = RecoverStale
    /\ UNCHANGED <<disk, adv, op, client>>

MissionNext == Runner \/ Gateway \/ Crash \/ Restart

MissionSpec == MissionInit /\ [][MissionNext]_vars

(* The event loop runs the runner and a request in progress, executors      *)
(* answer or time out, and a dead process is started again; the operator    *)
(* owes nothing.                                                            *)
FairMissionSpec ==
    /\ MissionSpec
    /\ WF_vars(Runner)
    /\ WF_vars(up /\ HandlerStep)
    /\ WF_vars(Restart)

-----------------------------------------------------------------------------
(* Properties *)

(* Applying a patch happens under the mission's own lease, from the check   *)
(* of the baseline to the stored receipt, whatever pause, cancel or resume  *)
(* do to the record meanwhile.                                              *)
WritesUnderLease ==
    adv.pc \in {"armed", "wrote"} => lease = [state |-> "held", stage |-> adv.s]

(* A mission that reports completed left the workspace exactly as its truth *)
(* gate saw it, and the gate cites the receipt of a write that ended in     *)
(* that state, however often the mission was stopped, resolved or restarted *)
(* on the way.                                                              *)
CompletedMeansVerified ==
    runStatus = "completed" =>
        /\ disk = checkpoint
        /\ \A s \in Stage : Kind[s] = "truth-gate" =>
              \E t \in UpstreamWrites(s) : <<t, stage[t].receipt>> \in stage[s].gate
                                           /\ stage[t].receipt.after = disk

(* Unless a write is running or uncertain, the recorded checkpoint is the   *)
(* workspace on disk: no stop, crash point or failure loses a change.  Of a *)
(* mission driven from the panel, or never paused or cancelled:             *)
(* NoWriteFindingTrue shows what a client that pauses and resolves can do.  *)
DiskAttested == client # "any" => UnresolvedWrite \/ disk = checkpoint

(* A change the record does not account for keeps the workspace locked      *)
(* across a stop, a crash, a restart and a resolution, with the same        *)
(* proviso.                                                                 *)
UnaccountedChangeLocked == client # "any" /\ disk # checkpoint => lease # NoLease

(* Once a mission driven from the panel is over nothing touches the         *)
(* workspace.                                                               *)
NoWriteAfterEnd == [][Panel /\ disk' # disk => runStatus \notin TerminalRunStatus]_vars

(* Where a mission may come to rest in "running": over a stage that is      *)
(* blocked, in doubt or waiting for approval, an interrupted one that the   *)
(* runner does not pick up, one that has used up its attempts, or one that  *)
(* a pause that raced its claim left running.                               *)
NeedsOperator(s) ==
    \/ stage[s].status \in {"blocked", "uncertain", "awaiting_approval"}
    \/ stage[s].status = "interrupted" /\ Kind[s] # "department"
    \/ Kind[s] # "approval" /\ Ready(s) /\ ~ClaimGuard(s)
    \/ stage[s].status = "running" /\ adv.pc = "off"

(* A mission that is being driven leaves "running" for an approval wait, a  *)
(* block, a budget pause or an end, unless a stage needs the operator or a  *)
(* stop request broke the advance off.                                      *)
MissionSettles ==
    Panel /\ runStatus = "running" /\ adv.pc # "off" ~>
        runStatus # "running" \/ adv.aborted \/ \E s \in Stage : NeedsOperator(s)

(* The no-write finding a retry rests on is still true of the workspace. *)
NoWriteFindingTrue ==
    \A s \in Stage : CrashRetryAuthorized(s) => disk = stage[s].before
=============================================================================
