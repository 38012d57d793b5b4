----------------------------- MODULE CronScheduler -----------------------------
(***************************************************************************)
(* Scheduled jobs: the registry that core/cron-store.js keeps in one JSON  *)
(* file, and the tick, trigger and stop of core/cron-scheduler.js, wired   *)
(* together by core/gateway.js.                                            *)
(*                                                                         *)
(* Time is counted in minutes.  A mutation of the store waits in the       *)
(* operation chain, changes the registry in memory, where list() and get() *)
(* see it at once, and only then writes the file; a failed write takes the *)
(* change back.  The scheduler runs at most one execution per job, which   *)
(* claims its run durably, calls back and closes the run.                  *)
(***************************************************************************)
EXTENDS Naturals, Sequences, SequencesExt, FiniteSets

CONSTANTS
    Job,            \* ids the registry may hand out
    Registered,     \* the jobs that an earlier session left in the registry
    Expression,     \* cron expressions; e stands for "every e-th minute"
    Outcome,        \* what a callback may come to: success, error or cancelled
    StaleAfter,     \* staleRunMs, in minutes
    MaxHistory,     \* maxHistory
    MaxMinute,      \* bound on the clock
    MaxRequests,    \* bound on create, update, delete and trigger requests
    MaxFaults,      \* bound on failed writes and process deaths
    None            \* null

(* What the file keeps of a run and of a job. *)
RunRecord == [id : Nat, status : {"running", "success", "error", "cancelled"}, started : Nat]

JobRecord ==
    [state : {"new", "live", "removed"}, expr : Nat, enabled : BOOLEAN,
     next : Nat \cup {None}, lastSlot : Nat \cup {None}, count : Nat, runs : Seq(RunRecord)]

ASSUME CronAssumption ==
    /\ IsFiniteSet(Job)
    /\ None \notin Nat \cup [Job -> JobRecord]
    /\ Registered \subseteq Job
    /\ Outcome \subseteq {"success", "error", "cancelled"}
    /\ Expression \subseteq Nat \ {0}
    /\ StaleAfter \in Nat \ {0} /\ MaxHistory \in Nat \ {0}
    /\ {MaxMinute, MaxRequests, MaxFaults} \subseteq Nat

VARIABLES
    now,        \* the clock
    mem,        \* this.state: the registry in memory
    disk,       \* cron-jobs.json
    chain,      \* operationChain: the mutations that wait, the first at work
    previous,   \* what a failed write restores, None between mutations
    exec,       \* inFlightByJob: the execution of each job
    tick,       \* jobs the tickPromise waits for; NoTick when it is null
    life,       \* of the process: "up", "stopping" (stop() awaits), "stopped", "down"
    spent,      \* how much of each bound is used
    starts,     \* history: callbacks started for a job and a slot
    unclosed    \* history: runs whose closing write failed, <<job, run>>

vars == <<now, mem, disk, chain, previous, exec, tick, life, spent, starts, unclosed>>

NoTick == {None}

(* A job before it is created and after it is removed is not in the file;   *)
(* ids are not used twice.                                                  *)
NoJob == [state |-> "new", expr |-> 0, enabled |-> FALSE, next |-> None,
          lastSlot |-> None, count |-> 0, runs |-> <<>>]
Removed == [NoJob EXCEPT !.state = "removed"]

Idle == [pc |-> "idle", slot |-> None, run |-> 0, status |-> None]

Live(j) == mem[j].state = "live"
RunningIn(runs) == {i \in 1..Len(runs) : runs[i].status = "running"}

-----------------------------------------------------------------------------
(* Mutators of the store *)

(* The first matching minute strictly after t. *)
nextCronRun(e, t) == ((t \div e) + 1) * e

NextRun(job) == IF job.enabled THEN nextCronRun(job.expr, now) ELSE None

Created(e, enabled) ==
    LET job == [NoJob EXCEPT !.state = "live", !.expr = e, !.enabled = enabled]
    IN  [job EXCEPT !.next = NextRun(job)]

Init ==
    /\ now = 0
    /\ \E e \in Expression :
          mem = [j \in Job |-> IF j \in Registered THEN Created(e, TRUE) ELSE NoJob]
    /\ disk = mem
    /\ chain = <<>>
    /\ previous = None
    /\ exec = [j \in Job |-> Idle]
    /\ tick = NoTick
    /\ life = "up"
    /\ spent = [requests |-> 0, faults |-> 0]
    /\ starts = [j \in Job |-> [t \in 0..MaxMinute |-> 0]]
    /\ unclosed = {}

(* Mutant: only the enabled flag decides. *)
UpdatedLate(job, e, enabled) ==
    LET new == [job EXCEPT !.expr = e, !.enabled = enabled]
    IN  IF enabled /\ job.enabled THEN new ELSE [new EXCEPT !.next = NextRun(new)]

(* update(), pause() and resume(): the next run is recomputed only when the *)
(* expression or the enabled flag changes.                                  *)
Updated(job, e, enabled) ==
    LET new == [job EXCEPT !.expr = e, !.enabled = enabled]
    IN  IF enabled /\ e = job.expr /\ job.enabled THEN job
        ELSE [new EXCEPT !.next = NextRun(new)]

(* beginRun() first breaks a claim that is older than staleRunMs ... *)
BrokenClaims(runs) ==
    [i \in 1..Len(runs) |->
        IF runs[i].status = "running" /\ now - runs[i].started >= StaleAfter
        THEN [runs[i] EXCEPT !.status = "cancelled"] ELSE runs[i]]

Refused(job, slot, runs) ==
    \/ RunningIn(runs) # {}
    \/ slot # None /\ (~job.enabled \/ job.lastSlot = slot)

Trimmed(runs) == SubSeq(runs, 1, IF Len(runs) < MaxHistory THEN Len(runs) ELSE MaxHistory)

(* ... then claims the run, for a slot or by hand, and moves a scheduled    *)
(* job on from the slot, not from the time it was due.                      *)
Begun(job, slot) ==
    LET runs == BrokenClaims(job.runs)
        run == [id |-> job.count + 1, status |-> "running", started |-> now]
    IN  IF Refused(job, slot, runs) THEN [job EXCEPT !.runs = runs]
        ELSE [job EXCEPT
                !.count = @ + 1,
                !.runs = Trimmed(<<run>> \o runs),
                !.lastSlot = IF slot = None THEN @ ELSE slot,
                !.next = IF slot = None THEN @ ELSE nextCronRun(job.expr, slot)]

(* finishRun() overwrites the status whatever it is. *)
Finished(job, run, status) ==
    [job EXCEPT !.runs = [i \in 1..Len(@) |->
        IF @[i].id = run THEN [@[i] EXCEPT !.status = status] ELSE @[i]]]

Request(kind, j, e, enabled) == [kind |-> kind, job |-> j, expr |-> e, enabled |-> enabled]

(* requireJob() and finishRun(): no such job, no such run. *)
Throws(m) ==
    /\ m.kind \in {"update", "begin", "finish"}
    /\ \/ ~Live(m.job)
       \/ /\ m.kind = "finish"
          /\ \A i \in 1..Len(mem[m.job].runs) : mem[m.job].runs[i].id # exec[m.job].run

(* What a mutation makes of its job. *)
Mutated(m) ==
    LET job == mem[m.job]
    IN  CASE m.kind = "create" -> Created(m.expr, m.enabled)
          [] m.kind = "update" -> Updated(job, m.expr, m.enabled)
          [] m.kind = "remove" -> IF Live(m.job) THEN Removed ELSE job
          [] m.kind = "begin"  -> Begun(job, exec[m.job].slot)
          [] m.kind = "finish" -> Finished(job, exec[m.job].run, exec[m.job].status)

Of(kind, j) == Request(kind, j, 0, FALSE)

-----------------------------------------------------------------------------
(* Executions: executeClaimed() *)

(* Mutant: the tick is not cleared when it rejects. *)
SettleKeepsTick(j, rejected) ==
    /\ exec' = [exec EXCEPT ![j] = Idle]
    /\ tick' = IF j \notin tick \/ rejected THEN tick ELSE IF tick = {j} THEN NoTick ELSE tick \ {j}

(* An execution that ends leaves inFlightByJob and the tick that awaits it; *)
(* one that rejects makes the tick reject, which no longer awaits the rest. *)
Settle(j, rejected) ==
    /\ exec' = [exec EXCEPT ![j] = Idle]
    /\ tick' = IF j \notin tick THEN tick
               ELSE IF rejected \/ tick = {j} THEN NoTick ELSE tick \ {j}

CountStart(j) ==
    starts' = IF exec[j].slot = None THEN starts ELSE [starts EXCEPT ![j][exec[j].slot] = @ + 1]

(* Mutant: a claim that stop() overtook is left as it is. *)
ClaimDropped(j) ==
    IF mem[j].count = previous[j].count \/ life = "stopping"
    THEN Settle(j, FALSE) /\ chain' = Tail(chain) /\ UNCHANGED starts
    ELSE /\ exec' = [exec EXCEPT ![j].pc = "run", ![j].run = mem[j].count]
         /\ CountStart(j)
         /\ chain' = Tail(chain)
         /\ UNCHANGED tick

(* beginRun() is written.  Nothing was claimed: the execution is over.      *)
(* stop() began meanwhile: the claim is closed as cancelled.  Else runJob   *)
(* is called.                                                               *)
ClaimWritten(j) ==
    LET run == mem[j].count
    IN  \/ /\ run = previous[j].count
           /\ Settle(j, FALSE)
           /\ chain' = Tail(chain)
           /\ UNCHANGED starts
        \/ /\ run # previous[j].count /\ life = "stopping"
           /\ exec' = [exec EXCEPT ![j].pc = "finish", ![j].run = run, ![j].status = "cancelled"]
           /\ chain' = Append(Tail(chain), Of("finish", j))
           /\ UNCHANGED <<tick, starts>>
        \/ /\ run # previous[j].count /\ life # "stopping"
           /\ exec' = [exec EXCEPT ![j].pc = "run", ![j].run = run]
           /\ CountStart(j)
           /\ chain' = Tail(chain)
           /\ UNCHANGED tick

(* runJob answers or throws. *)
RunEnds(j) ==
    /\ exec[j].pc = "run"
    /\ \E status \in Outcome :
          exec' = [exec EXCEPT ![j].pc = "finish", ![j].status = status]
    /\ chain' = Append(chain, Of("finish", j))
    /\ UNCHANGED <<now, mem, disk, previous, tick, life, spent, starts, unclosed>>

Begin(jobs, slot) ==
    /\ exec' = [j \in Job |-> IF j \in jobs THEN [Idle EXCEPT !.pc = "begin", !.slot = slot]
                              ELSE exec[j]]
    /\ chain' = chain \o [i \in 1..Cardinality(jobs) |-> Of("begin", SetToSeq(jobs)[i])]

Due(j) == Live(j) /\ mem[j].enabled /\ mem[j].next <= now

(* The timer: tick() returns the tick that is under way, execute() skips a  *)
(* job that is in flight.                                                   *)
Tick ==
    /\ life = "up" /\ tick = NoTick
    /\ LET jobs == {j \in Job : Due(j) /\ exec[j].pc = "idle"}
       IN  /\ jobs # {}
           /\ Begin(jobs, now)
           /\ tick' = jobs
    /\ UNCHANGED <<now, mem, disk, previous, life, spent, starts, unclosed>>

Spend(what, bound) == spent[what] < bound /\ spent' = [spent EXCEPT ![what] = @ + 1]

(* POST /trigger, which also runs a paused job. *)
Trigger(j) ==
    /\ life = "up" /\ Live(j) /\ exec[j].pc = "idle"
    /\ Spend("requests", MaxRequests)
    /\ Begin({j}, None)
    /\ UNCHANGED <<now, mem, disk, previous, tick, life, starts, unclosed>>

-----------------------------------------------------------------------------
(* The operation chain *)

Edits == {Request("create", j, e, b) : j \in Job, e \in Expression, b \in BOOLEAN}
         \cup {Request("update", j, e, b) : j \in Job, e \in Expression, b \in BOOLEAN}
         \cup {Of("remove", j) : j \in Job}

Editing == \E i \in 1..Len(chain) : chain[i] \in Edits

(* POST, PATCH, DELETE, /pause and /resume; one of them at a time. *)
Edit(m) ==
    /\ life = "up" /\ ~Editing
    /\ m.kind = "create" <=> mem[m.job].state = "new"
    /\ Spend("requests", MaxRequests)
    /\ chain' = Append(chain, m)
    /\ UNCHANGED <<now, mem, disk, previous, exec, tick, life, starts, unclosed>>

Mutate ==
    /\ chain # <<>> /\ previous = None
    /\ ~Throws(Head(chain))
    /\ previous' = mem
    /\ mem' = [mem EXCEPT ![Head(chain).job] = Mutated(Head(chain))]
    /\ UNCHANGED <<now, disk, chain, exec, tick, life, spent, starts, unclosed>>

(* The mutation is over, with an error or without a claim to act on. *)
Done(m, rejected) ==
    /\ chain' = Tail(chain)
    /\ IF m \in Edits THEN UNCHANGED <<exec, tick>> ELSE Settle(m.job, rejected)

(* The mutator throws. *)
Throw ==
    /\ chain # <<>> /\ previous = None
    /\ Throws(Head(chain))
    /\ Done(Head(chain), TRUE)
    /\ UNCHANGED <<now, mem, disk, previous, life, spent, starts, unclosed>>

(* Mutant: a claim is acknowledged and left for the next write. *)
WriteLater ==
    /\ previous # None
    /\ disk' = IF Head(chain).kind = "begin" THEN disk ELSE mem
    /\ previous' = None
    /\ IF Head(chain).kind = "begin" THEN ClaimWritten(Head(chain).job)
       ELSE Done(Head(chain), FALSE) /\ UNCHANGED starts
    /\ UNCHANGED <<now, mem, life, spent, unclosed>>

(* writeState(): the temporary file replaces the old one. *)
Write ==
    /\ previous # None
    /\ disk' = mem
    /\ previous' = None
    /\ IF Head(chain).kind = "begin" THEN ClaimWritten(Head(chain).job)
       ELSE Done(Head(chain), FALSE) /\ UNCHANGED starts
    /\ UNCHANGED <<now, mem, life, spent, unclosed>>

WriteFails ==
    /\ previous # None
    /\ Spend("faults", MaxFaults)
    /\ mem' = previous
    /\ previous' = None
    /\ Done(Head(chain), TRUE)
    /\ unclosed' = IF Head(chain).kind = "finish"
                   THEN unclosed \cup {<<Head(chain).job, exec[Head(chain).job].run>>} ELSE unclosed
    /\ UNCHANGED <<now, disk, life, starts>>

-----------------------------------------------------------------------------
(* The process *)

ClockTick ==
    /\ now < MaxMinute
    /\ now' = now + 1
    /\ UNCHANGED <<mem, disk, chain, previous, exec, tick, life, spent, starts, unclosed>>

(* stop(), called once the HTTP requests have ended ... *)
Stop ==
    /\ life = "up" /\ ~Editing
    /\ life' = "stopping"
    /\ UNCHANGED <<now, mem, disk, chain, previous, exec, tick, spent, starts, unclosed>>

(* Mutant: only the tick is awaited. *)
StopAwaitsTick ==
    /\ life = "stopping" /\ tick = NoTick
    /\ life' = "stopped"
    /\ UNCHANGED <<now, mem, disk, chain, previous, exec, tick, spent, starts, unclosed>>

(* ... resolves when the tick and every execution has settled. *)
StopResolves ==
    /\ life = "stopping" /\ tick = NoTick
    /\ \A j \in Job : exec[j].pc = "idle"
    /\ life' = "stopped"
    /\ UNCHANGED <<now, mem, disk, chain, previous, exec, tick, spent, starts, unclosed>>

(* The process dies, or exits after stop(). *)
Exit ==
    /\ life # "down"
    /\ life = "stopped" \/ spent.faults < MaxFaults
    /\ life' = "down"
    /\ spent' = IF life = "stopped" THEN spent ELSE [spent EXCEPT !.faults = @ + 1]
    /\ mem' = [j \in Job |-> NoJob]
    /\ chain' = <<>>
    /\ previous' = None
    /\ exec' = [j \in Job |-> Idle]
    /\ tick' = NoTick
    /\ UNCHANGED <<now, disk, starts, unclosed>>

(* normalizeState(): a run that was in progress is closed as cancelled.     *)
(* The history is in the order of the start times already.                  *)
Normalized(job) ==
    [job EXCEPT !.runs = [i \in 1..Len(@) |->
        IF @[i].status = "running" THEN [@[i] EXCEPT !.status = "cancelled"] ELSE @[i]]]

(* load(), which writes the recovered state back, then start(). *)
Restart ==
    /\ life = "down"
    /\ mem' = [j \in Job |-> Normalized(disk[j])]
    /\ disk' = mem'
    /\ life' = "up"
    /\ UNCHANGED <<now, chain, previous, exec, tick, spent, starts, unclosed>>

Chain == Mutate \/ Throw \/ Write \/ WriteFails

Next ==
    \/ ClockTick \/ Tick \/ Chain \/ Stop \/ StopResolves \/ Exit \/ Restart
    \/ \E j \in Job : RunEnds(j) \/ Trigger(j)
    \/ \E m \in Edits : Edit(m)

Spec == Init /\ [][Next]_vars

(* The timer fires, the event loop works off the chain, time passes; the    *)
(* operator owes nothing.                                                   *)
HungSpec == Spec /\ WF_vars(Tick) /\ WF_vars(Chain) /\ WF_vars(ClockTick) /\ WF_vars(StopResolves)

(* And every prompt ends. *)
FairSpec == HungSpec /\ \A j \in Job : WF_vars(RunEnds(j))

-----------------------------------------------------------------------------
(* Properties *)

(* Repeated ticks, overlapping triggers, failed writes, edits and restarts  *)
(* within the minute start a job at most once for a slot.                   *)
StartsOnce == \A j \in Job, t \in 0..MaxMinute : starts[j][t] <= 1

(* While a callback works, its claim is in the file, so that a crash leaves *)
(* a record of it, unless the job was removed. And no claim is leaked: a    *)
(* run is "running" in the registry only while its execution is in flight,  *)
(* or because the write that closes it failed; there is never a second one  *)
(* (beginRun(), finishRun()).                                               *)
ClaimsKept ==
    \A j \in Job :
        /\ exec[j].pc = "run" /\ disk[j].state = "live" =>
              \E i \in RunningIn(disk[j].runs) : disk[j].runs[i].id = exec[j].run
        /\ Cardinality(RunningIn(mem[j].runs)) <= 1
        /\ \A i \in RunningIn(mem[j].runs) :
              <<j, mem[j].runs[i].id>> \in unclosed \/ exec[j].pc # "idle"

(* Once stop() has resolved nothing of the scheduler is left running, in    *)
(* memory or in the file.                                                   *)
StopClosesRuns ==
    life = "stopped" =>
        /\ \A j \in Job : exec[j].pc = "idle"
        /\ \A j \in Job : \A i \in RunningIn(disk[j].runs) : <<j, disk[j].runs[i].id>> \in unclosed

(* An enabled job has a next run at a minute its expression matches, and no *)
(* matching minute of the future lies before it, whatever was edited.       *)
NoSlotSkipped ==
    \A j \in Job : Live(j) /\ mem[j].enabled =>
        /\ mem[j].next # None
        /\ mem[j].next % mem[j].expr = 0
        /\ \A t \in now + 1..mem[j].next - 1 : t % mem[j].expr # 0

Open(j) == \E r \in unclosed : r[1] = j

(* A job that is due is taken, paused, removed or overtaken by shutdown,    *)
(* however edits, triggers and failed writes of other jobs interleave,      *)
(* unless the record of its last run could not be closed.                   *)
DueJobTaken == \A j \in Job : life = "up" /\ Due(j) /\ ~Open(j) ~> life # "up" \/ ~Due(j) \/ Open(j)

(* A run that hangs past staleRunMs does not hold its job for ever. *)
WedgedJobHeals ==
    \A j \in Job :
        LET Wedged == /\ life = "up" /\ Due(j)
                      /\ \E i \in RunningIn(mem[j].runs) : now - mem[j].runs[i].started >= StaleAfter
        IN  Wedged ~> ~Wedged
=============================================================================
