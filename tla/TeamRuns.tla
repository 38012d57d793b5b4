-------------------------------- MODULE TeamRuns --------------------------------
(***************************************************************************)
(* Runs of a team of model roles: a graph of tasks executed with bounded   *)
(* concurrency (core/engine/team/execute.ts), either by the team_delegate  *)
(* tool (core/engine/team/tool.ts), all of whose calls in a turn share one *)
(* gate of slots, or by a department of a mission (department.ts); and the *)
(* file of each run's events, which a restart closes                       *)
(* (core/team-run-store.js).                                               *)
(*                                                                         *)
(* An executor may ignore its abort signal: it then answers a run that no  *)
(* longer waits for it.                                                    *)
(***************************************************************************)
EXTENDS Naturals, SequencesExt, FiniteSets

CONSTANTS
    Call,           \* runs, each of one task graph
    Setup,          \* which of them are calls of the tool or departments, and their graphs
    MaxParallel,    \* limits.maxParallel
    MaxFaults,      \* bound on cancellations and process deaths
    MaxLost         \* bound on the rows that all files together lack at a death

ASSUME TeamAssumption ==
    /\ MaxParallel \in Nat \ {0} /\ MaxFaults \in Nat /\ MaxLost \in Nat
    /\ \A setup \in Setup : \A c \in Call :
          /\ setup[c].kind \in {"tool", "department"}
          /\ setup[c].graph \in Seq(SUBSET DOMAIN setup[c].graph)

VARIABLES
    run,        \* each run: its graph, its tasks and the queue of ready ones
    gate,       \* createConcurrencyGate(): the active count and who waits
    going,      \* executors that have not answered
    log,        \* each run's events, in the order they are emitted
    lost,       \* runs of an earlier process: the events their file lacks
    recovery,   \* and the rows that restarts appended to it
    sealing,    \* runs the restart gave a checkpoint but no terminal row yet
    life,       \* "up", or "recovering" after a death
    faults

vars == <<run, gate, going, log, lost, recovery, sealing, life, faults>>

Tool == {c \in Call : run[c].kind = "tool"}
Department == Call \ Tool

Row(type, task, status) == [type |-> type, task |-> task, status |-> status]

Init ==
    /\ \E setup \in Setup :
          run = [c \in Call |-> [kind |-> setup[c].kind, graph |-> setup[c].graph, pc |-> "idle",
                                 aborted |-> FALSE, task |-> <<>>, ready |-> <<>>]]
    /\ gate = [active |-> 0, queue |-> <<>>]
    /\ going = {}
    /\ log = [c \in Call |-> <<>>]
    /\ lost = [c \in {} |-> {}]
    /\ recovery = [c \in Call |-> <<>>]
    /\ sealing = {}
    /\ life = "up"
    /\ faults = 0

-----------------------------------------------------------------------------
(* The graph *)

Tasks(r) == DOMAIN r.graph

(* The tasks of S in the order of the graph. *)
InOrder(S) == CHOOSE s \in [1..Cardinality(S) -> S] : \A i, j \in 1..Cardinality(S) : i < j => s[i] < s[j]

(* validateTeamTaskGraph(): no set of tasks in which each waits for one.    *)
Valid(g) == \A S \in SUBSET DOMAIN g : S # {} => \E t \in S : g[t] \cap S = {}

In(r, statuses) == {t \in DOMAIN r.task : r.task[t] \in statuses}

(* "queued" is a task whose runner waits for a slot. *)
Active(r) == In(r, {"queued", "running"})

(* Mutant: a dependant is ready as soon as one dependency succeeded. *)
UnblockedByOne(r, t) == {u \in In(r, {"pending"}) : t \in r.graph[u]}

(* enqueueDependants() of t, which succeeded. *)
Unblocked(r, t) ==
    {u \in In(r, {"pending"}) : t \in r.graph[u] /\ \A d \in r.graph[u] : r.task[d] = "succeeded"}

(* blockTask() of the dependants of t, which failed, and of theirs.         *)
Blocked(r, t) ==
    LET pending == In(r, {"pending"})
        Closed(S) == \A u \in pending : r.graph[u] \cap (S \cup {t}) # {} => u \in S
    IN  {u \in pending : \A S \in SUBSET pending : Closed(S) => u \in S}

(* setResult(), then the dependants. *)
Settled(r, t, status) ==
    LET s == [r EXCEPT !.task[t] = status]
    IN  CASE status = "succeeded" -> [s EXCEPT !.ready = @ \o InOrder(Unblocked(s, t))]
          [] status = "failed" -> [s EXCEPT !.task = [u \in DOMAIN @ |-> IF u \in Blocked(s, t) THEN "blocked" ELSE @[u]]]
          [] status = "aborted" -> s

-----------------------------------------------------------------------------
(* The gate and the pump *)

AtMost(n, s) == SubSeq(s, 1, IF n < Len(s) THEN n ELSE Len(s))

(* Mutant: a released slot is not handed on. *)
ReleasedOnly == [active |-> gate.active - 1, queue |-> gate.queue]

(* A released slot goes to the first waiter. *)
Released ==
    IF gate.queue = <<>> THEN [gate EXCEPT !.active = @ - 1] ELSE [gate EXCEPT !.queue = Tail(@)]

Granted(c, t) ==
    IF c \in Tool /\ run[c].task[t] = "running" /\ gate.queue # <<>> THEN {Head(gate.queue)} ELSE {}

Woken(granted) ==
    [c \in Call |-> [run[c] EXCEPT !.task =
        [t \in DOMAIN @ |-> IF <<c, t>> \in granted THEN "running" ELSE @[t]]]]

Started(rows, t) == \E i \in DOMAIN rows : rows[i].type = "subagent.start" /\ rows[i].task = t

Starts(tasks) == [i \in DOMAIN tasks |-> Row("subagent.start", tasks[i], "running")]

GrantedStarts(c, granted) == Starts(InOrder({t \in Tasks(run[c]) : <<c, t>> \in granted}))

(* The rows that end a run: a task that never started is reported, except   *)
(* by a department that was aborted; the run is complete.                   *)
EndRows(c, r, rows) ==
    LET unstarted == InOrder({t \in Tasks(r) : ~Started(rows, t) /\ r.task[t] # "succeeded"})
        status == IF r.aborted THEN "interrupted" ELSE IF In(r, {"succeeded"}) = Tasks(r) THEN "completed" ELSE "failed"
        report == [i \in DOMAIN unstarted |-> Row("subagent.failed", unstarted[i], r.task[unstarted[i]])]
    IN  (IF c \in Department /\ r.aborted THEN <<>> ELSE report) \o <<Row("team.complete", 0, status)>>

(* pump(): run c, which is r by now and has logged rows, starts what it may *)
(* start; runners of the tool wait for a slot.                              *)
Launched(c, r, g, rows) ==
    LET launched == AtMost(MaxParallel - Cardinality(Active(r)), r.ready)
        free == IF c \in Department THEN MaxParallel ELSE MaxParallel - g.active
    IN  [begun |-> AtMost(free, launched),
         waiting |-> IF free < Len(launched) THEN SubSeq(launched, free + 1, Len(launched)) ELSE <<>>]

After(r, l) ==
    [r EXCEPT !.ready = SubSeq(@, Len(l.begun) + Len(l.waiting) + 1, Len(@)),
              !.task = [t \in DOMAIN @ |-> IF t \in ToSet(l.begun) THEN "running"
                                           ELSE IF t \in ToSet(l.waiting) THEN "queued" ELSE @[t]]]

Ended(r) == Active(r) = {} /\ In(r, {"pending"}) = {}

(* When all its tasks are settled the run returns.                          *)
Pump(c, r, others, g, rows, granted, answered) ==
    \E l \in {Launched(c, r, g, rows)} : \E s \in {After(r, l)} : \E own \in {rows \o Starts(l.begun)} :
        /\ run' = [others EXCEPT ![c] = IF Ended(s) THEN [s EXCEPT !.pc = "returned"] ELSE s]
        /\ gate' = IF c \in Department THEN g
                   ELSE [active |-> g.active + Len(l.begun),
                         queue |-> g.queue \o [i \in DOMAIN l.waiting |-> <<c, l.waiting[i]>>]]
        /\ going' = (going \ answered) \cup granted \cup {<<c, t>> : t \in ToSet(l.begun)}
        /\ log' = [d \in Call |->
                      IF d = c THEN own \o IF Ended(s) THEN EndRows(c, s, own) ELSE <<>>
                      ELSE log[d] \o GrantedStarts(d, granted)]

(* team_delegate, or a department: the graph is validated, tasks without    *)
(* dependencies are ready, and none starts after an abort.                  *)
Begin(c) ==
    LET r == run[c]
        free == {t \in Tasks(r) : r.graph[t] = {}}
        s == [r EXCEPT !.pc = "running",
                       !.task = [t \in Tasks(r) |-> IF r.aborted THEN "aborted" ELSE "pending"],
                       !.ready = IF r.aborted THEN <<>> ELSE InOrder(free)]
        start == <<Row("team.start", 0, "running")>>
    IN  /\ life = "up" /\ r.pc = "idle"
        /\ IF Valid(r.graph) THEN Pump(c, s, run, gate, start, {}, {})
           ELSE /\ run' = [run EXCEPT ![c].pc = "rejected"]
                /\ log' = [log EXCEPT ![c] =
                              Append(start, Row("team.complete", 0, IF r.aborted THEN "interrupted" ELSE "failed"))]
                /\ UNCHANGED <<gate, going>>
        /\ UNCHANGED <<lost, recovery, sealing, life, faults>>

(* The runner of t settles: it reports the task if that had started, gives  *)
(* the slot back, and the graph goes on; its executor may go on regardless. *)
Finish(c, t, status, answered) ==
    LET report == IF run[c].task[t] = "queued" THEN <<>>
                  ELSE <<Row(IF status = "succeeded" THEN "subagent.complete" ELSE "subagent.failed", t, status)>>
        g == IF c \in Tool /\ run[c].task[t] = "running" THEN Released ELSE gate
    IN  \E granted \in {Granted(c, t)} : \E woken \in {Woken(granted)} :
          \E r \in {Settled(woken[c], t, status)} : \E rows \in {log[c] \o report \o GrantedStarts(c, granted)} :
            Pump(c, r, woken, g, rows, granted, answered)

Executing(c, t) == run[c].pc = "running" /\ t \in In(run[c], {"running"})

(* Mutant: the answer of an executor nobody waits for any more is taken. *)
DeliveredLate(c, t) == run[c].pc = "running" /\ ~run[c].aborted

(* waitForTaskWithDeadline() passes on an answer that comes before the      *)
(* deadline or the abort.                                                   *)
Delivered(c, t) == Executing(c, t) /\ ~run[c].aborted

(* An executor answers, by a result or an error. *)
Answer(c, t, status) ==
    /\ <<c, t>> \in going
    /\ IF Delivered(c, t) THEN Finish(c, t, status, {<<c, t>>})
       ELSE /\ going' = going \ {<<c, t>>}
            /\ UNCHANGED <<run, gate, log>>
    /\ UNCHANGED <<lost, recovery, sealing, life, faults>>

(* Mutant: the hard ceiling only tells the user. *)
MaxRuntimeNotifies(c, t) == Executing(c, t) /\ ~run[c].aborted /\ UNCHANGED vars

(* The hard ceiling of a task's run time: the task fails, its executor need *)
(* not have noticed.                                                        *)
MaxRuntime(c, t) ==
    /\ Executing(c, t) /\ ~run[c].aborted
    /\ Finish(c, t, "failed", {})
    /\ UNCHANGED <<lost, recovery, sealing, life, faults>>

(* The runner of an aborted task gives up, in a slot or waiting for one. *)
Interrupted(c, t) ==
    /\ run[c].pc = "running" /\ run[c].aborted /\ t \in Active(run[c])
    /\ Finish(c, t, "aborted", {})
    /\ UNCHANGED <<lost, recovery, sealing, life, faults>>

Cancelled(r) ==
    [r EXCEPT !.aborted = TRUE, !.ready = <<>>,
              !.task = [t \in DOMAIN @ |-> IF @[t] = "pending" THEN "aborted" ELSE @[t]]]

(* abortQueued() for the calls of a turn that is cancelled, or for the      *)
(* department of a mission that is stopped. The waiters of the gate share   *)
(* the turn's signal, and each leaves the queue on it (onAbort()).          *)
Abort(calls) ==
    /\ life = "up" /\ faults < MaxFaults
    /\ \E c \in calls : run[c].pc = "running" /\ ~run[c].aborted
    /\ run' = [c \in Call |-> IF c \in calls /\ run[c].pc \in {"idle", "running"} THEN Cancelled(run[c]) ELSE run[c]]
    /\ gate' = [gate EXCEPT !.queue = IF calls = Tool THEN <<>> ELSE @]
    /\ faults' = faults + 1
    /\ UNCHANGED <<going, log, lost, recovery, sealing, life>>

-----------------------------------------------------------------------------
(* Death and recovery *)

Terminal == {"team.complete", "team.interrupted"}

(* A process appends events behind its runs' backs, swallows the errors and *)
(* drops the events of a turn that is finalized; which rows a file lacks is *)
(* chosen at the process's death, since nobody acts on it before a restart. *)
Kept(c) == DOMAIN log[c] \ lost[c]

Recorded(c, type) == {log[c][i].task : i \in {j \in Kept(c) : log[c][j].type = type}}

Begun == {c \in Call : log[c] # <<>>}

Crash ==
    /\ faults < MaxFaults
    /\ faults' = faults + 1
    /\ run' = [c \in Call |-> IF run[c].pc = "running" THEN [run[c] EXCEPT !.pc = "lost"] ELSE run[c]]
    /\ \E at \in [1..MaxLost -> UNION {{c} \X (0..Len(log[c])) : c \in Call}] :
          lost' = [c \in Begun |-> IF c \in DOMAIN lost THEN lost[c]
                                   ELSE {i \in DOMAIN log[c] : \E k \in 1..MaxLost : at[k] = <<c, i>>}]
    /\ gate' = [active |-> 0, queue |-> <<>>]
    /\ going' = {}
    /\ sealing' = {}
    /\ life' = "recovering"
    /\ UNCHANGED <<log, recovery>>

(* Mutant: a file that a recovery ended still counts as interrupted. *)
OpenAgain(c) ==
    /\ c \in DOMAIN lost
    /\ \E i \in Kept(c) : log[c][i].type = "team.start"
    /\ \A i \in Kept(c) : log[c][i].type \notin Terminal

(* A file that shows a start and whose last row does not end the run.       *)
Open(c) ==
    /\ c \in DOMAIN lost
    /\ \E i \in Kept(c) : log[c][i].type = "team.start"
    /\ IF recovery[c] # <<>> THEN Last(recovery[c]).type \notin Terminal
       ELSE \E i \in Kept(c) : log[c][i].type \notin Terminal /\ \A j \in Kept(c) : j <= i

(* recoverInterrupted(): an open file gets a checkpoint with a manifest of  *)
(* what it shows, then the row that ends it, with the same manifest.        *)
Checkpoint(c) ==
    /\ life = "recovering" /\ sealing = {} /\ Open(c)
    /\ recovery' = [recovery EXCEPT ![c] =
                      Append(@, [type |-> "team.checkpoint", started |-> Recorded(c, "subagent.start"),
                                 completed |-> Recorded(c, "subagent.complete"),
                                 failed |-> Recorded(c, "subagent.failed")])]
    /\ sealing' = {c}
    /\ UNCHANGED <<run, gate, going, log, lost, life, faults>>

Seal(c) ==
    /\ life = "recovering" /\ c \in sealing
    /\ recovery' = [recovery EXCEPT ![c] = Append(@, [Last(@) EXCEPT !.type = "team.interrupted"])]
    /\ sealing' = {}
    /\ UNCHANGED <<run, gate, going, log, lost, life, faults>>

(* The process comes up, whatever the recovery did: a file it cannot read   *)
(* is skipped, and an append that fails ends it anywhere.                   *)
Recovered ==
    /\ life = "recovering"
    /\ life' = "up"
    /\ sealing' = {}
    /\ UNCHANGED <<run, gate, going, log, lost, recovery, faults>>

-----------------------------------------------------------------------------
Task(c) == Tasks(run[c])

Next ==
    \/ \E c \in Call :
          \/ Begin(c) \/ Checkpoint(c) \/ Seal(c)
          \/ \E t \in Task(c) :
                \/ \E status \in {"succeeded", "failed"} : Answer(c, t, status)
                \/ MaxRuntime(c, t) \/ Interrupted(c, t)
    \/ Abort(Tool) \/ \E c \in Department : Abort({c})
    \/ Crash
    \/ Recovered

Spec == Init /\ [][Next]_vars

MaxTask == UNION {DOMAIN setup[c].graph : setup \in Setup, c \in Call}

(* The process runs its timers and reactions to an abort; nothing is        *)
(* expected of the providers.                                               *)
FairSpec ==
    /\ Spec
    /\ \A c \in Call : \A t \in MaxTask :
          WF_vars(t \in Task(c) /\ MaxRuntime(c, t)) /\ WF_vars(t \in Task(c) /\ Interrupted(c, t))

-----------------------------------------------------------------------------
(* Properties *)

InSlot == {w \in Tool \X MaxTask : run[w[1]].pc = "running" /\ w[2] \in In(run[w[1]], {"running"})}
InQueue == {w \in Tool \X MaxTask : run[w[1]].pc = "running" /\ w[2] \in In(run[w[1]], {"queued"}) /\ ~run[w[1]].aborted}

(* The calls of a turn share one gate without losing or inventing a slot:   *)
(* it counts the tasks that run, never more than maxParallel, it holds      *)
(* exactly the tasks that wait, and nobody waits while a slot is free --    *)
(* through answers, ceilings, cancellations and slots handed from one call  *)
(* to another (createConcurrencyGate()).                                    *)
SlotsExact ==
    /\ gate.active = Cardinality(InSlot) /\ gate.active <= MaxParallel
    /\ ToSet(gate.queue) = InQueue /\ IsInjective(gate.queue)
    /\ gate.queue # <<>> => gate.active = MaxParallel

Rows(c, types, t) == {i \in DOMAIN log[c] : log[c][i].type \in types /\ log[c][i].task = t}

(* A task starts only after each of its dependencies was reported complete, *)
(* since its prompt holds their artifacts (enqueueDependants()). A run that *)
(* returns accounts for every task, and blocks exactly the ones that some   *)
(* failure made impossible, however far away; an aborted run keeps what had *)
(* succeeded (blockTask(), abortQueued()).                                  *)
OutcomeJustified ==
    \A c \in Call :
        /\ \A t \in Task(c) : \A i \in Rows(c, {"subagent.start"}, t) :
              \A d \in run[c].graph[t] : \E j \in Rows(c, {"subagent.complete"}, d) : j < i
        /\ run[c].pc = "returned" =>
              \A t \in Task(c) :
                  LET deps == {run[c].task[d] : d \in run[c].graph[t]}
                  IN  /\ run[c].task[t] \in {"succeeded", "failed", "blocked", "aborted"}
                      /\ run[c].task[t] = "blocked" => deps \cap {"failed", "blocked"} # {}
                      /\ deps \cap {"failed", "blocked"} # {} => run[c].task[t] \in {"blocked", "aborted"}
                      /\ run[c].task[t] = "aborted" => run[c].aborted

(* The events of a run that returned tell its result, whatever late answers *)
(* came: one start per task that ran, one end per task -- none for a task   *)
(* an aborted department never started -- that matches the task's result,   *)
(* and one terminal event, the last (emitTerminal()).                       *)
EventsMatch ==
    \A c \in Call : run[c].pc = "returned" =>
        /\ Rows(c, {"team.complete"}, 0) = {Len(log[c])}
        /\ (Last(log[c]).status = "completed") = (In(run[c], {"succeeded"}) = Task(c) /\ ~run[c].aborted)
        /\ \A t \in Task(c) :
              LET starts == Rows(c, {"subagent.start"}, t)
                  ends == Rows(c, {"subagent.complete", "subagent.failed"}, t)
              IN  /\ Cardinality(starts) <= 1 /\ Cardinality(ends) <= 1
                  /\ ends = {} => starts = {} /\ c \in Department /\ run[c].aborted
                  /\ \A i \in ends : log[c][i].status = run[c].task[t]

(* What a restart writes is true, although the file lacks rows and the      *)
(* recovery is itself interrupted, fails half way or is repeated: no file   *)
(* ends twice or goes on behind its end; a manifest lists as completed only *)
(* tasks that succeeded and as failed none of them; and from a whole file   *)
(* it says exactly which tasks had succeeded and which were under way when  *)
(* the process died (recoverInterrupted()).                                 *)
RecoveryHonest ==
    \A c \in DOMAIN lost : \A i \in DOMAIN recovery[c] :
        LET m == recovery[c][i]
        IN  /\ \A j \in Kept(c) : log[c][j].type \notin Terminal
            /\ m.type \in Terminal => i = Len(recovery[c])
            /\ \A t \in Task(c) :
                  /\ t \in m.completed => t \in In(run[c], {"succeeded"})
                  /\ t \in m.failed => t \notin In(run[c], {"succeeded"})
                  /\ lost[c] = {} =>
                        /\ t \in In(run[c], {"succeeded"}) => t \in m.completed
                        /\ t \in In(run[c], {"running"}) <=> t \in m.started \ (m.completed \cup m.failed)

(* A run returns though a provider never answers and no executor heeds its  *)
(* signal: the ceiling, or the abort, settles every task that runs, blocked *)
(* or waiting tasks never keep it open (cleanupAndResolve()).               *)
CallReturns == \A c \in Call : (run[c].pc = "running") ~> (run[c].pc # "running")
=============================================================================
