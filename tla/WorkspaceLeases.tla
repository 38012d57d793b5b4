---------------------------- MODULE WorkspaceLeases ----------------------------
(***************************************************************************)
(* Several missions, one workspace: the entry of that workspace in the     *)
(* lease file (core/workspace-lease-store.js), the write stages that take  *)
(* it (_runAction in core/pipeline-mission-runner.js) and the cleanup at   *)
(* startup (core/gateway.js).  A mission is reduced to its write stage;    *)
(* PipelineMission has the rest.  The store runs every operation alone, in *)
(* one process under one promise chain, so an operation is one step.       *)
(***************************************************************************)
EXTENDS Integers, FiniteSets

CONSTANTS
    Run,            \* missions pinned to the same workspace
    MaxLeases,      \* bound on the leases taken
    MaxRestarts     \* bound on the process instances

ASSUME LeaseAssumption ==
    /\ MaxLeases \in Nat
    /\ MaxRestarts \in Nat

NoRun == "none"

ASSUME RunAssumption == NoRun \notin Run

VARIABLES
    lease,      \* the entry of the workspace, NoLease when there is none
    write,      \* the write stage of each mission
    held,       \* the id of the lease acquire() returned to it
    lapsed,     \* missions whose write outlasted that lease (DEFAULT_TTL_MS)
    instance,   \* instanceId of the running process
    taken       \* leases created so far (their ids are random UUIDs)

vars == <<lease, write, held, lapsed, instance, taken>>

(* ready: to be claimed; claimed: stored as running, lease asked for;       *)
(* writing: in the executor; stored: completed, lease not yet released;     *)
(* completed; uncertain: stopped in doubt; retry, abandoned: resolved so;   *)
(* over: the mission is completed, failed or cancelled.                     *)
WriteStatus == {"ready", "claimed", "writing", "stored", "completed", "uncertain",
                "retry", "abandoned", "over"}

NoLease == [run |-> NoRun, id |-> 0, owner |-> 0, expired |-> FALSE, quarantined |-> FALSE]

Lease == [run : Run \cup {NoRun}, id : Nat, owner : Nat, expired : BOOLEAN,
          quarantined : BOOLEAN]

TypeOK ==
    /\ lease \in Lease
    /\ write \in [Run -> WriteStatus]
    /\ held \in [Run -> Nat]
    /\ lapsed \subseteq Run
    /\ instance \in Nat
    /\ taken \in Nat

Init ==
    /\ lease = NoLease
    /\ write = [r \in Run |-> "ready"]
    /\ held = [r \in Run |-> 0]
    /\ lapsed = {}
    /\ instance = 1
    /\ taken = 0

Moves(r, status) == write' = [write EXCEPT ![r] = status]

(* claimStage() comes before acquire(). *)
Claim(r) ==
    /\ write[r] = "ready"
    /\ Moves(r, "claimed")
    /\ UNCHANGED <<lease, held, lapsed, instance, taken>>

(* Mutant: an unexpired lease does not count unless it is quarantined. *)
QuarantineOnly == lease # NoLease /\ lease.quarantined

(* Mutant: a quarantine expires like a lease. *)
UnexpiredOnly == lease # NoLease /\ ~lease.expired

(* An entry counts while it is quarantined or has not expired.  It is never *)
(* this stage's own: the runner claims a write stage, and asks, only once.  *)
InForce == lease # NoLease /\ (lease.quarantined \/ ~lease.expired)

Acquire(r) ==
    /\ write[r] = "claimed"
    /\ ~InForce
    /\ taken < MaxLeases
    /\ taken' = taken + 1
    /\ lease' = [run |-> r, id |-> taken + 1, owner |-> instance, expired |-> FALSE,
                 quarantined |-> FALSE]
    /\ held' = [held EXCEPT ![r] = taken + 1]
    /\ Moves(r, "writing")
    /\ UNCHANGED <<lapsed, instance>>

(* A refusal is caught like a failed write: the stage ends in doubt. *)
Refused(r) ==
    /\ write[r] = "claimed"
    /\ InForce
    /\ Moves(r, "uncertain")
    /\ UNCHANGED <<lease, held, lapsed, instance, taken>>

(* The executor throws, or a pause or cancel cut it off: the lease stays. *)
FailWrite(r) ==
    /\ write[r] = "writing"
    /\ Moves(r, "uncertain")
    /\ UNCHANGED <<lease, held, lapsed, instance, taken>>

StoreReceipt(r) ==
    /\ write[r] = "writing"
    /\ Moves(r, "stored")
    /\ UNCHANGED <<lease, held, lapsed, instance, taken>>

Owns(r) == lease.run = r /\ lease.id = held[r] /\ lease.owner = instance

(* release() by lease id; a lease that is someone else's by now makes it    *)
(* throw, which fails the mission although its write is completed.          *)
Release(r) ==
    /\ write[r] = "stored"
    /\ IF Owns(r) \/ lease = NoLease
       THEN lease' = NoLease /\ Moves(r, "completed")
       ELSE UNCHANGED lease /\ Moves(r, "over")
    /\ UNCHANGED <<held, lapsed, instance, taken>>

Writing(r) == write[r] \in {"writing", "stored"}

(* Nothing renews a lease while its write runs. *)
Expire ==
    /\ lease # NoLease /\ ~lease.expired
    /\ lease' = [lease EXCEPT !.expired = TRUE]
    /\ lapsed' = lapsed \cup {r \in Run : Writing(r) /\ Owns(r)}
    /\ UNCHANGED <<write, held, instance, taken>>

(* Mutant: a verdict frees the workspace, whoever has it. *)
ResolveAny(r) ==
    /\ write[r] = "uncertain"
    /\ \E outcome \in {"completed", "retry", "abandoned"} : Moves(r, outcome)
    /\ lease' = NoLease
    /\ UNCHANGED <<held, lapsed, instance, taken>>

(* /resume with a verified marker: the record first, then the quarantine,   *)
(* which is lifted only if it is this mission's.                            *)
Resolve(r) ==
    /\ write[r] = "uncertain"
    /\ \E outcome \in {"completed", "retry", "abandoned"} : Moves(r, outcome)
    /\ lease' = IF lease.run = r /\ lease.quarantined THEN NoLease ELSE lease
    /\ UNCHANGED <<held, lapsed, instance, taken>>

(* The mission ends; a write in flight or in doubt keeps it from ending. *)
End(r) ==
    /\ write[r] \in {"ready", "completed", "retry", "abandoned"}
    /\ Moves(r, "over")
    /\ UNCHANGED <<lease, held, lapsed, instance, taken>>

(* recoverStale() removes the entry of a mission that is over and           *)
(* quarantines any other; a no-write marker lifts it if it still describes  *)
(* the workspace.                                                           *)
Recovered ==
    IF lease = NoLease THEN {NoLease}
    ELSE (IF write[lease.run] \in {"over", "retry", "abandoned"} THEN {NoLease} ELSE {})
         \cup (IF write[lease.run] = "over" THEN {} ELSE {[lease EXCEPT !.quarantined = TRUE]})

(* The process dies and is started again; recoverInterrupted() first puts a *)
(* write in flight in doubt.                                                *)
Restart ==
    /\ instance <= MaxRestarts
    /\ instance' = instance + 1
    /\ lease' \in Recovered
    /\ write' = [r \in Run |-> CASE write[r] \in {"claimed", "writing"} -> "uncertain"
                                 [] write[r] = "stored" -> "completed"
                                 [] OTHER -> write[r]]
    /\ UNCHANGED <<held, lapsed, taken>>

Next ==
    \/ \E r \in Run : \/ Claim(r) \/ Acquire(r) \/ Refused(r) \/ FailWrite(r)
                      \/ StoreReceipt(r) \/ Release(r) \/ Resolve(r) \/ End(r)
    \/ Expire
    \/ Restart

Spec == Init /\ [][Next]_vars

-----------------------------------------------------------------------------
(* Properties *)

(* A mission in its executor, or about to release, still owns the entry     *)
(* unless its write took longer than the lease: no restart, resolution or   *)
(* cleanup of another mission takes it away.                                *)
WriterOwnsLease == \A r \in Run : Writing(r) => Owns(r) \/ r \in lapsed

(* An action executor is joined by another one only when its own lease has  *)
(* run out under it.                                                        *)
OneWriter ==
    \A r, q \in Run : write[r] = "writing" /\ write[q] = "writing" /\ held[r] <= held[q]
                      => r = q \/ r \in lapsed

(* A quarantine over a write in doubt ends only with the verdict on that    *)
(* write: neither expiry, another mission nor a restart lifts it.           *)
QuarantineSticks ==
    [][lease.quarantined /\ write[lease.run] = "uncertain" /\ lease' # lease
       => lease'.quarantined \/ write'[lease.run] # "uncertain"]_vars
=============================================================================
