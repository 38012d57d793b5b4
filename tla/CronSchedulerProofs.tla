------------------------- MODULE CronSchedulerProofs -------------------------
(* What the store and the scheduler of jobs keep, for any number of jobs,   *)
(* expressions, edits, failed writes, shutdowns and restarts.               *)
EXTENDS CronScheduler, FiniteSetTheorems, SequenceTheorems, TLAPS

(***************************************************************************)
(* The inductive invariant.                                                *)
(***************************************************************************)
EditKind == {"create", "update", "remove"}
StepKind == {"begin", "finish"}

Entry == [kind : EditKind \cup StepKind, job : Job, expr : Nat, enabled : BOOLEAN]

ExecState == [pc : {"idle", "begin", "run", "finish"}, slot : 0..MaxMinute \cup {None}, run : Nat,
              status : {"success", "error", "cancelled", None}]

TypeOK ==
  /\ now \in 0..MaxMinute
  /\ mem \in [Job -> JobRecord] /\ disk \in [Job -> JobRecord]
  /\ previous \in [Job -> JobRecord] \cup {None}
  /\ chain \in Seq(Entry)
  /\ exec \in [Job -> ExecState]
  /\ life \in {"up", "stopping", "stopped", "down"}
  /\ starts \in [Job -> [0..MaxMinute -> Nat]]
  /\ unclosed \subseteq Job \X Nat

(* A job that can be scheduled will be at the right minute. *)
OnTime(job, t0) ==
  job.state = "live" /\ job.enabled =>
      /\ job.next # None
      /\ job.next % job.expr = 0
      /\ \A t \in t0 + 1..job.next - 1 : t % job.expr # 0

(* What holds of the record of a job, in the file and in memory: only its   *)
(* last run can be open.                                                    *)
Sound(job, t0) ==
  /\ job.state # "live" => job.runs = <<>>
  /\ job.state = "live" => job.expr \in Expression
  /\ RunningIn(job.runs) \subseteq {1}
  /\ job.runs # <<>> => job.runs[1].id = job.count
  /\ job.lastSlot = None \/ job.lastSlot <= t0
  /\ OnTime(job, t0)

(* The slots a job was started for are not after the last one in its record. *)
Recorded(j) ==
  \A t \in 0..MaxMinute :
      /\ starts[j][t] <= 1
      /\ starts[j][t] > 0 =>
            /\ disk[j].state # "new"
            /\ disk[j].state = "live" => disk[j].lastSlot # None /\ t <= disk[j].lastSlot

(* A job is claimed in the file exactly while its execution works on it, or *)
(* because the claim could not be closed.                                   *)
Claimed(j) ==
  /\ exec[j].pc \in {"run", "finish"} =>
        /\ disk[j].state # "new"
        /\ disk[j].state = "live" => /\ 1 \in RunningIn(disk[j].runs)
                                     /\ disk[j].runs[1].id = exec[j].run
  /\ exec[j].pc = "finish" => exec[j].status \in {"success", "error", "cancelled"}
  /\ exec[j].pc \in {"idle", "begin"} /\ life # "down" =>
        \A i \in RunningIn(disk[j].runs) : <<j, disk[j].runs[i].id>> \in unclosed
  /\ exec[j].pc = "begin" /\ exec[j].slot # None =>
        exec[j].slot <= now /\ (disk[j].lastSlot = None \/ disk[j].lastSlot <= exec[j].slot)

(* Two mutations that cannot wait in the chain together. *)
Clash(m, n) ==
  \/ m.kind \in EditKind /\ n.kind \in EditKind
  \/ m.kind \in StepKind /\ n.kind \in StepKind /\ m.job = n.job

NoClash(c) == \A i, k \in 1..Len(c) : i # k => ~Clash(c[i], c[k])

(* A mutation that waits: an execution's is the one it is waiting for. *)
Waits(m) ==
  /\ m.kind \in EditKind => m \in Edits /\ life = "up"
  /\ m.kind \in StepKind => exec[m.job].pc = m.kind
  /\ m.kind = "create" => disk[m.job].state = "new"

ChainSound ==
  /\ \A m \in ToSet(chain) : Waits(m)
  /\ NoClash(chain)

(* What a mutation has made of the record of its job before it is written:  *)
(* a claim that is refused ...                                              *)
RefusedClaim(old, new) ==
  /\ new.count = old.count /\ new.lastSlot = old.lastSlot
  /\ Len(new.runs) = Len(old.runs)
  /\ \A i \in 1..Len(old.runs) : new.runs[i].id = old.runs[i].id
  /\ RunningIn(new.runs) \subseteq RunningIn(old.runs)

(* ... one that is made ... *)
MadeClaim(old, new, slot) ==
  /\ new.count = old.count + 1
  /\ 1 \in RunningIn(new.runs)
  /\ new.lastSlot = IF slot = None THEN old.lastSlot ELSE slot
  /\ slot # None => old.lastSlot # slot

(* ... and the others. *)
Pending(m, old, new, slot) ==
  \/ m.kind = "create" /\ new.state = "live" /\ new.runs = <<>> /\ new.lastSlot = None
  \/ /\ m.kind = "update" /\ new.state = "live" /\ old.state = "live"
     /\ new.runs = old.runs /\ new.lastSlot = old.lastSlot
  \/ m.kind = "remove" /\ new \in {Removed, old}
  \/ /\ m.kind = "begin" /\ new.state = "live" /\ old.state = "live"
     /\ RefusedClaim(old, new) \/ MadeClaim(old, new, slot)
  \/ /\ m.kind = "finish" /\ new.state = "live" /\ old.state = "live"
     /\ new.lastSlot = old.lastSlot /\ RunningIn(new.runs) = {}

(* The file and the registry in memory agree but for the mutation at work. *)
MemoryAndFile ==
  /\ previous = None /\ life # "down" => mem = disk
  /\ life = "down" => mem = [j \in Job |-> NoJob]
  /\ previous # None =>
        /\ previous = disk /\ chain # <<>> /\ life \in {"up", "stopping"}
        /\ \A j \in Job : j # Head(chain).job => mem[j] = disk[j]
        /\ Pending(Head(chain), disk[Head(chain).job], mem[Head(chain).job],
                   exec[Head(chain).job].slot)

Ended ==
  life \in {"stopped", "down"} => chain = <<>> /\ \A j \in Job : exec[j].pc = "idle"

IInv ==
  /\ TypeOK
  /\ \A j \in Job : Sound(disk[j], now) /\ Sound(mem[j], now)
  /\ \A j \in Job : Recorded(j)
  /\ \A j \in Job : Claimed(j)
  /\ ChainSound
  /\ MemoryAndFile
  /\ Ended

-----------------------------------------------------------------------------
(* Lemmas on the operators of the model. *)

(* Multiples of e are e apart. *)
LEMMA NextMultiple ==
  ASSUME NEW e \in Nat \ {0}, NEW k \in Nat, NEW m \in Nat, m * e > k * e
  PROVE  m * e >= (k + 1) * e
<1>1. m > k
  <2>1. CASE m <= k
    <3>1. PICK d \in Nat : k = m + d
      BY <2>1
    <3>2. k * e = m * e + d * e /\ d * e >= 0
      BY <3>1
    <3> QED
      BY <3>2
  <2> QED
    BY <2>1
<1>2. PICK d \in Nat : m = k + 1 + d
  BY <1>1
<1>3. m * e = (k + 1) * e + d * e /\ d * e >= 0
  BY <1>2
<1> QED
  BY <1>3

(* nextCronRun() is the first matching minute after t. *)
LEMMA FirstMatch ==
  ASSUME NEW e \in Nat \ {0}, NEW t \in Nat
  PROVE  /\ nextCronRun(e, t) \in Nat
         /\ nextCronRun(e, t) % e = 0
         /\ \A s \in t + 1..nextCronRun(e, t) - 1 : s % e # 0
<1>1. nextCronRun(e, t) \in Nat /\ nextCronRun(e, t) % e = 0
  BY DEF nextCronRun
<1>2. ASSUME NEW s \in t + 1..nextCronRun(e, t) - 1, s % e = 0 PROVE FALSE
  <2> DEFINE k == t \div e
             m == s \div e
  <2>1. k \in Nat /\ k * e <= t /\ k * e \in Nat /\ nextCronRun(e, t) = (k + 1) * e
    BY DEF nextCronRun
  <2>2. s \in Nat /\ s > t /\ s < (k + 1) * e
    BY <1>1, <2>1
  <2>3. m \in Nat /\ s = m * e
    BY <1>2, <2>2
  <2> HIDE DEF k, m
  <2>4. m * e >= (k + 1) * e
    BY <2>1, <2>2, <2>3, NextMultiple
  <2> QED
    BY <1>1, <2>1, <2>2, <2>3, <2>4
<1> QED
  BY <1>1, <1>2

(* A finite set as a sequence: each element once. *)
LEMMA EachOnce ==
  ASSUME NEW S, IsFiniteSet(S)
  PROVE  /\ Cardinality(S) \in Nat
         /\ SetToSeq(S) \in [1..Cardinality(S) -> S]
         /\ \A i, k \in 1..Cardinality(S) : SetToSeq(S)[i] = SetToSeq(S)[k] => i = k
<1>1. Cardinality(S) \in Nat /\ ExistsBijection(1..Cardinality(S), S)
  BY FS_CardinalityType
<1>2. \E f \in [1..Cardinality(S) -> S] : IsInjective(f)
  BY <1>1 DEF ExistsBijection, Bijection, Injection, IsInjective
<1>3. SetToSeq(S) \in [1..Cardinality(S) -> S] /\ IsInjective(SetToSeq(S))
  BY <1>2 DEF SetToSeq
<1> QED
  BY <1>1, <1>3 DEF IsInjective

(* Chains: taking the first mutation, and adding one that clashes with none. *)
LEMMA ClashSymmetric == \A m, n : Clash(m, n) => Clash(n, m)
BY DEF Clash

(* What is left of a chain when its first mutation is over. *)
LEMMA Dequeued ==
  ASSUME NEW c \in Seq(Entry), c # <<>>, NoClash(c)
  PROVE  /\ Head(c) \in Entry /\ Head(c) \in ToSet(c)
         /\ Tail(c) \in Seq(Entry) /\ NoClash(Tail(c))
         /\ \A m \in ToSet(Tail(c)) : m \in ToSet(c) /\ m \in Entry /\ ~Clash(Head(c), m)
<1>1. Len(c) \in Nat \ {0} /\ DOMAIN c = 1..Len(c) /\ Head(c) = c[1]
  BY EmptySeq, LenProperties
<1>2. /\ Head(c) \in Entry /\ Tail(c) \in Seq(Entry) /\ Len(Tail(c)) = Len(c) - 1
      /\ \A i \in 1..Len(Tail(c)) : Tail(c)[i] = c[i + 1]
  BY HeadTailProperties
<1>3. DOMAIN Tail(c) = 1..Len(c) - 1
  BY <1>2, LenProperties
<1>4. \A i \in 1..Len(c) : c[i] \in ToSet(c) /\ c[i] \in Entry
  BY <1>1, ElementOfSeq DEF ToSet
<1>5. NoClash(Tail(c))
  BY <1>1, <1>2 DEF NoClash
<1>6. ASSUME NEW m \in ToSet(Tail(c)) PROVE m \in ToSet(c) /\ m \in Entry /\ ~Clash(Head(c), m)
  <2>1. PICK i \in 1..Len(c) - 1 : m = c[i + 1]
    BY <1>2, <1>3 DEF ToSet
  <2> QED
    BY <1>1, <1>4, <2>1 DEF NoClash
<1> QED
  BY <1>1, <1>2, <1>4, <1>5, <1>6

(* A chain with one mutation more, which clashes with none of it. *)
LEMMA Enqueued ==
  ASSUME NEW c \in Seq(Entry), NoClash(c), NEW m \in Entry, \A n \in ToSet(c) : ~Clash(n, m)
  PROVE  /\ Append(c, m) \in Seq(Entry) /\ NoClash(Append(c, m))
         /\ ToSet(Append(c, m)) = ToSet(c) \cup {m}
         /\ c # <<>> => Append(c, m) # <<>> /\ Head(Append(c, m)) = Head(c)
<1> DEFINE d == Append(c, m)
<1>1. Len(c) \in Nat /\ DOMAIN c = 1..Len(c)
  BY LenProperties
<1>2. /\ d \in Seq(Entry) /\ Len(d) = Len(c) + 1 /\ d[Len(c) + 1] = m
      /\ \A i \in 1..Len(c) : d[i] = c[i]
  OBVIOUS
<1>3. DOMAIN d = 1..Len(c) + 1
  BY <1>2, LenProperties
<1> HIDE DEF d
<1>4. \A i \in 1..Len(c) : ~Clash(d[i], m) /\ ~Clash(m, d[i])
  BY <1>1, <1>2, ClashSymmetric DEF ToSet
<1>5. NoClash(d)
  <2>1. ASSUME NEW i \in 1..Len(c) + 1, NEW k \in 1..Len(c) + 1, i # k PROVE ~Clash(d[i], d[k])
    <3>1. CASE i = Len(c) + 1
      BY <1>1, <1>2, <1>4, <2>1, <3>1
    <3>2. CASE k = Len(c) + 1
      BY <1>1, <1>2, <1>4, <2>1, <3>2
    <3>3. CASE i \in 1..Len(c) /\ k \in 1..Len(c)
      BY <1>2, <2>1, <3>3 DEF NoClash
    <3> QED
      BY <1>1, <3>1, <3>2, <3>3
  <2> QED
    BY <1>2, <2>1 DEF NoClash
<1>6. ToSet(d) = ToSet(c) \cup {m}
  <2>1. \A x \in ToSet(d) : x \in ToSet(c) \cup {m}
    BY <1>1, <1>2, <1>3 DEF ToSet
  <2>2. \A x \in ToSet(c) : x \in ToSet(d)
    BY <1>1, <1>2, <1>3 DEF ToSet
  <2>3. m \in ToSet(d)
    BY <1>1, <1>2, <1>3 DEF ToSet
  <2> QED
    BY <2>1, <2>2, <2>3
<1>7. c # <<>> => d # <<>> /\ Head(d) = Head(c)
  <2>1. c # <<>> => Len(c) >= 1
    BY EmptySeq
  <2>2. Len(d) # 0
    BY <1>1, <1>2
  <2>3. d # <<>>
    BY <2>2, EmptySeq
  <2> QED
    BY <1>1, <1>2, <2>1, <2>3
<1> QED
  BY <1>2, <1>5, <1>6, <1>7 DEF d

-----------------------------------------------------------------------------
(* Lemmas on the record of a job. *)

(* The assumptions on the constants, one by one. *)
LEMMA Constants ==
  /\ IsFiniteSet(Job) /\ None \notin Nat /\ None \notin [Job -> JobRecord]
  /\ Expression \subseteq Nat \ {0} /\ StaleAfter \in Nat \ {0} /\ MaxHistory \in Nat \ {0}
  /\ MaxMinute \in Nat /\ Outcome \subseteq {"success", "error", "cancelled"}
BY CronAssumption

(* A matching minute computed from now, or from a slot that has passed, is  *)
(* on time.                                                                 *)
LEMMA Scheduled ==
  ASSUME NEW e \in Expression, NEW t \in Nat, now \in Nat, t <= now,
         NEW job \in JobRecord, job.expr = e, job.next = nextCronRun(e, t)
  PROVE  OnTime(job, now)
<1>1. e \in Nat \ {0}
  BY Constants
<1> DEFINE n == nextCronRun(e, t)
<1>2. n \in Nat /\ n % e = 0 /\ \A s \in t + 1..n - 1 : s % e # 0
  BY <1>1, FirstMatch
<1> HIDE DEF n
<1>3. \A s \in now + 1..n - 1 : s \in t + 1..n - 1
  BY <1>2
<1>4. n # None
  BY <1>2, Constants
<1>5. job.next = n
  BY DEF n
<1> QED
  BY <1>2, <1>3, <1>4, <1>5 DEF OnTime

(* A job that is not there is a record like the others, and has no runs. *)
LEMMA NoJobTyped == NoJob \in JobRecord /\ Removed \in JobRecord /\ NoJob.runs = <<>> /\ Removed.runs = <<>>
<1>1. <<>> \in Seq(RunRecord)
  BY EmptySeq
<1> QED
  BY <1>1 DEF NoJob, Removed, JobRecord

(* An empty history has no open run. *)
LEMMA NoneRunning == RunningIn(<<>>) = {}
BY DEF RunningIn

(* There is nothing wrong with a job that is not there. *)
LEMMA AbsentSound ==
  ASSUME NEW job \in {NoJob, Removed} PROVE job \in JobRecord /\ Sound(job, now)
<1>1. /\ job \in JobRecord /\ job.runs = <<>> /\ job.state # "live" /\ job.lastSlot = None
  <2>1. CASE job = NoJob
    BY <2>1, NoJobTyped DEF NoJob
  <2>2. CASE job = Removed
    BY <2>2, NoJobTyped DEF NoJob, Removed
  <2> QED
    BY <2>1, <2>2
<1> QED
  BY <1>1, NoneRunning DEF Sound, OnTime

(* create() makes a sound record without runs. *)
LEMMA CreatedSound ==
  ASSUME NEW e \in Expression, NEW b \in BOOLEAN, now \in Nat
  PROVE  LET new == Created(e, b)
         IN  /\ new \in JobRecord /\ Sound(new, now)
             /\ new.state = "live" /\ new.runs = <<>> /\ new.lastSlot = None
<1> DEFINE job == [NoJob EXCEPT !.state = "live", !.expr = e, !.enabled = b]
           new == Created(e, b)
<1>1. e \in Nat \ {0} /\ nextCronRun(e, now) \in Nat
  BY Constants, FirstMatch
<1>2. /\ job \in JobRecord /\ job.state = "live" /\ job.runs = <<>> /\ job.lastSlot = None
      /\ job.expr = e /\ job.enabled = b
  <2>1. NoJob \in JobRecord /\ NoJob.runs = <<>> /\ NoJob.lastSlot = None
    BY NoJobTyped DEF NoJob
  <2> QED
    BY <1>1, <2>1 DEF JobRecord
<1> HIDE DEF job
<1>3. new = [job EXCEPT !.next = IF b THEN nextCronRun(e, now) ELSE None]
  BY <1>2 DEF Created, NextRun, job
<1>4. /\ new.state = "live" /\ new.runs = <<>> /\ new.lastSlot = None /\ new.expr = e /\ new.enabled = b
      /\ b => new.next = nextCronRun(e, now)
      /\ new \in JobRecord
  BY <1>1, <1>2, <1>3 DEF JobRecord
<1> HIDE DEF new
<1>5. OnTime(new, now)
  <2>1. CASE b
    BY <1>4, <2>1, Scheduled
  <2>2. CASE ~b
    BY <1>4, <2>2 DEF OnTime
  <2> QED
    BY <2>1, <2>2
<1>6. Sound(new, now)
  BY <1>4, <1>5, NoneRunning DEF Sound
<1> QED
  BY <1>4, <1>6 DEF new

(* update() keeps a record sound, its runs and its last slot. *)
LEMMA UpdatedSound ==
  ASSUME NEW job \in JobRecord, Sound(job, now), job.state = "live", NEW e \in Expression, NEW b \in BOOLEAN, now \in Nat
  PROVE  LET new == Updated(job, e, b)
         IN  /\ new \in JobRecord /\ Sound(new, now)
             /\ new.state = "live" /\ new.runs = job.runs /\ new.lastSlot = job.lastSlot
<1> DEFINE new == Updated(job, e, b)
<1>1. CASE b /\ e = job.expr /\ job.enabled
  BY <1>1 DEF Updated
<1>2. CASE ~(b /\ e = job.expr /\ job.enabled)
  <2>1. e \in Nat \ {0} /\ nextCronRun(e, now) \in Nat
    BY Constants, FirstMatch
  <2>2. new = [job EXCEPT !.expr = e, !.enabled = b, !.next = IF b THEN nextCronRun(e, now) ELSE None]
    BY <1>2 DEF Updated, NextRun, JobRecord
  <2>3. /\ new \in JobRecord
        /\ new.state = "live" /\ new.runs = job.runs /\ new.lastSlot = job.lastSlot /\ new.count = job.count
        /\ new.expr = e /\ new.enabled = b /\ (b => new.next = nextCronRun(e, now))
    BY <2>1, <2>2 DEF JobRecord
  <2> HIDE DEF new
  <2>4. OnTime(new, now)
    <3>1. CASE b
      BY <2>3, <3>1, Scheduled
    <3>2. CASE ~b
      BY <2>3, <3>2 DEF OnTime
    <3> QED
      BY <3>1, <3>2
  <2>5. Sound(new, now)
    BY <2>3, <2>4 DEF Sound
  <2> QED
    BY <2>3, <2>5 DEF new
<1> QED
  BY <1>1, <1>2

(* A history with some of its runs closed. *)
Closing(runs, closed, status) ==
  [i \in 1..Len(runs) |-> IF i \in closed THEN [runs[i] EXCEPT !.status = status] ELSE runs[i]]

(* Closing runs changes neither their number nor their ids. *)
LEMMA ClosedRuns ==
  ASSUME NEW runs \in Seq(RunRecord), NEW closed, NEW status \in {"success", "error", "cancelled"}
  PROVE  LET new == Closing(runs, closed, status)
         IN  /\ new \in Seq(RunRecord) /\ Len(new) = Len(runs)
             /\ \A i \in 1..Len(runs) : new[i].id = runs[i].id
             /\ RunningIn(new) = {i \in RunningIn(runs) : i \notin closed}
<1> DEFINE new == Closing(runs, closed, status)
<1>0. new = [i \in 1..Len(runs) |-> IF i \in closed THEN [runs[i] EXCEPT !.status = status] ELSE runs[i]]
  BY DEF Closing
<1> HIDE DEF new
<1>1. Len(runs) \in Nat /\ \A i \in 1..Len(runs) : runs[i] \in RunRecord
  BY LenProperties, ElementOfSeq
<1>2. \A i \in 1..Len(runs) : new[i] \in RunRecord
  BY <1>0, <1>1 DEF RunRecord
<1>3. new \in [1..Len(runs) -> RunRecord]
  BY <1>0, <1>2
<1>4. new \in Seq(RunRecord) /\ Len(new) = Len(runs)
  BY <1>1, <1>3
<1>5. \A i \in 1..Len(runs) :
        /\ new[i].id = runs[i].id
        /\ new[i].status = "running" <=> runs[i].status = "running" /\ i \notin closed
  BY <1>0, <1>1 DEF RunRecord
<1>6. RunningIn(new) = {i \in RunningIn(runs) : i \notin closed}
  BY <1>4, <1>5 DEF RunningIn
<1> QED
  BY <1>4, <1>5, <1>6 DEF new

(* A history with at most its first run open is still one when runs close. *)
LEMMA SameRuns ==
  ASSUME NEW job \in JobRecord, Sound(job, now), job.state = "live",
         NEW new \in JobRecord, new.state = "live", new.count = job.count,
         new.lastSlot = job.lastSlot, new.expr = job.expr, new.enabled = job.enabled, new.next = job.next,
         Len(new.runs) = Len(job.runs), \A i \in 1..Len(job.runs) : new.runs[i].id = job.runs[i].id,
         RunningIn(new.runs) \subseteq RunningIn(job.runs)
  PROVE  Sound(new, now)
<1>1. job.runs \in Seq(RunRecord) /\ new.runs \in Seq(RunRecord)
  BY DEF JobRecord
<1>2. new.runs # <<>> => job.runs # <<>> /\ 1 \in 1..Len(job.runs)
  BY <1>1, EmptySeq
<1>3. new.runs # <<>> => new.runs[1].id = new.count
  BY <1>2 DEF Sound
<1>4. OnTime(new, now)
  BY DEF Sound, OnTime
<1> QED
  BY <1>3, <1>4 DEF Sound

(* finishRun() closes the open run. *)
LEMMA FinishedSound ==
  ASSUME NEW job \in JobRecord, Sound(job, now), job.state = "live", NEW run \in Nat,
         1 \in RunningIn(job.runs), job.runs[1].id = run, NEW status \in {"success", "error", "cancelled"}
  PROVE  LET new == Finished(job, run, status)
         IN  /\ new \in JobRecord /\ Sound(new, now)
             /\ new.state = "live" /\ new.lastSlot = job.lastSlot /\ RunningIn(new.runs) = {}
<1> DEFINE closed == {i \in 1..Len(job.runs) : job.runs[i].id = run}
           runs == Closing(job.runs, closed, status)
           new == Finished(job, run, status)
<1>1. job.runs \in Seq(RunRecord)
  BY DEF JobRecord
<1>2. /\ runs \in Seq(RunRecord) /\ Len(runs) = Len(job.runs)
      /\ \A i \in 1..Len(job.runs) : runs[i].id = job.runs[i].id
      /\ RunningIn(runs) = {i \in RunningIn(job.runs) : i \notin closed}
  <2> HIDE DEF closed
  <2> QED
    BY <1>1, ClosedRuns
<1>3. new = [job EXCEPT !.runs = runs]
  BY DEF Finished, Closing
<1>4. 1 \in closed
  BY DEF RunningIn
<1> HIDE DEF runs, closed, new
<1>5. /\ new \in JobRecord /\ new.runs = runs /\ new.state = "live" /\ new.count = job.count
      /\ new.lastSlot = job.lastSlot /\ new.expr = job.expr /\ new.enabled = job.enabled /\ new.next = job.next
  BY <1>2, <1>3 DEF JobRecord
<1>6. RunningIn(runs) = {}
  BY <1>2, <1>4 DEF Sound
<1>7. Sound(new, now)
  BY <1>2, <1>5, <1>6, SameRuns
<1> QED
  BY <1>5, <1>6, <1>7 DEF new

(* A restart closes every run. *)
LEMMA NormalizedSound ==
  ASSUME NEW job \in JobRecord, Sound(job, now)
  PROVE  LET new == Normalized(job)
         IN  /\ new \in JobRecord /\ Sound(new, now)
             /\ new.state = job.state /\ new.lastSlot = job.lastSlot /\ RunningIn(new.runs) = {}
<1> DEFINE closed == RunningIn(job.runs)
           runs == Closing(job.runs, closed, "cancelled")
           new == Normalized(job)
<1>1. job.runs \in Seq(RunRecord)
  BY DEF JobRecord
<1>2. /\ runs \in Seq(RunRecord) /\ Len(runs) = Len(job.runs)
      /\ \A i \in 1..Len(job.runs) : runs[i].id = job.runs[i].id
      /\ RunningIn(runs) = {i \in RunningIn(job.runs) : i \notin closed}
  <2> HIDE DEF closed
  <2> QED
    BY <1>1, ClosedRuns
<1>3. new = [job EXCEPT !.runs = runs]
  <2>1. runs = [i \in 1..Len(job.runs) |-> IF job.runs[i].status = "running"
                  THEN [job.runs[i] EXCEPT !.status = "cancelled"] ELSE job.runs[i]]
    BY DEF RunningIn, Closing
  <2> HIDE DEF runs
  <2> QED
    BY <2>1 DEF Normalized
<1>4. RunningIn(runs) = {}
  BY <1>2
<1> HIDE DEF runs, closed, new
<1>5. /\ new \in JobRecord /\ new.runs = runs /\ new.state = job.state /\ new.count = job.count
      /\ new.lastSlot = job.lastSlot /\ new.expr = job.expr /\ new.enabled = job.enabled /\ new.next = job.next
  BY <1>2, <1>3 DEF JobRecord
<1>6. Sound(new, now)
  <2>1. CASE job.state = "live"
    BY <1>2, <1>4, <1>5, <2>1, SameRuns
  <2>2. CASE job.state # "live"
    <3>1. job.runs = <<>>
      BY <2>2 DEF Sound
    <3>2. runs = <<>>
      BY <1>2, <3>1, EmptySeq
    <3> QED
      BY <1>4, <1>5, <2>2, <3>2 DEF Sound, OnTime
  <2> QED
    BY <2>1, <2>2
<1> QED
  BY <1>4, <1>5, <1>6 DEF new

(* The history of a run that is claimed: the run first, and then what fits. *)
LEMMA ClaimedRuns ==
  ASSUME NEW runs \in Seq(RunRecord), RunningIn(runs) = {}, NEW run \in RunRecord, run.status = "running"
  PROVE  LET new == Trimmed(<<run>> \o runs)
         IN  new \in Seq(RunRecord) /\ new # <<>> /\ new[1] = run /\ RunningIn(new) = {1}
<1> DEFINE all == <<run>> \o runs
           n == IF Len(all) < MaxHistory THEN Len(all) ELSE MaxHistory
           new == Trimmed(all)
<1>1. Len(runs) \in Nat
  BY LenProperties
<1>2. /\ <<run>> \in Seq(RunRecord) /\ Len(<<run>>) = 1 /\ <<run>>[1] = run
  OBVIOUS
<1>3. /\ all \in Seq(RunRecord) /\ Len(all) = 1 + Len(runs) /\ all[1] = run
      /\ \A i \in 2..Len(all) : all[i] = runs[i - 1]
  <2> HIDE DEF all
  <2>1. /\ all \in Seq(RunRecord) /\ Len(all) = 1 + Len(runs)
        /\ \A i \in 1..1 + Len(runs) : all[i] = IF i <= 1 THEN <<run>>[i] ELSE runs[i - 1]
    BY <1>2, ConcatProperties DEF all
  <2> QED
    BY <1>1, <1>2, <2>1
<1> HIDE DEF all
<1>4. n \in 1..Len(all)
  BY <1>1, <1>3, Constants
<1>5. new = SubSeq(all, 1, n)
  BY DEF Trimmed
<1> HIDE DEF n, new
<1>6. \A i \in 1..n : all[i] \in RunRecord
  BY <1>3, <1>4, ElementOfSeq
<1>7. /\ new \in Seq(RunRecord) /\ Len(new) = n
      /\ \A i \in 1..n : new[i] = all[i]
  <2>1. \A i \in 1..n - 1 + 1 : new[i] = all[1 + i - 1]
    BY <1>4, <1>5, <1>6, SubSeqProperties
  <2>2. new \in Seq(RunRecord) /\ Len(new) = n
    BY <1>4, <1>5, <1>6, SubSeqProperties
  <2> QED
    BY <1>4, <2>1, <2>2
<1>8. \A i \in 2..n : new[i].status # "running"
  <2>1. ASSUME NEW i \in 2..n PROVE new[i].status # "running"
    <3>1. new[i] = runs[i - 1] /\ i - 1 \in 1..Len(runs)
      BY <1>1, <1>3, <1>4, <1>7
    <3> QED
      BY <3>1 DEF RunningIn
  <2> QED
    BY <2>1
<1>9. RunningIn(new) = {1} /\ new[1] = run
  <2>1. 1 \in 1..n /\ new[1] = run
    BY <1>3, <1>4, <1>7
  <2>2. \A i \in 1..n : new[i].status = "running" <=> i = 1
    BY <1>4, <1>8, <2>1
  <2> QED
    BY <1>7, <2>1, <2>2 DEF RunningIn
<1>10. new # <<>>
  BY <1>4, <1>7, EmptySeq
<1> QED
  BY <1>7, <1>9, <1>10 DEF new, all

(* beginRun() breaks stale claims, and then refuses or claims. *)
LEMMA BegunSound ==
  ASSUME NEW job \in JobRecord, Sound(job, now), job.state = "live", now \in Nat,
         NEW slot \in 0..MaxMinute \cup {None},
         slot # None => slot <= now /\ (job.lastSlot = None \/ job.lastSlot <= slot)
  PROVE  LET new == Begun(job, slot)
         IN  /\ new \in JobRecord /\ Sound(new, now) /\ new.state = "live"
             /\ RefusedClaim(job, new) \/ MadeClaim(job, new, slot)
<1> DEFINE closed == {i \in 1..Len(job.runs) :
                        job.runs[i].status = "running" /\ now - job.runs[i].started >= StaleAfter}
           runs == Closing(job.runs, closed, "cancelled")
           new == Begun(job, slot)
           run == [id |-> job.count + 1, status |-> "running", started |-> now]
           all == Trimmed(<<run>> \o runs)
<1>1. job.runs \in Seq(RunRecord)
  BY DEF JobRecord
<1>2. /\ runs \in Seq(RunRecord) /\ Len(runs) = Len(job.runs)
      /\ \A i \in 1..Len(job.runs) : runs[i].id = job.runs[i].id
      /\ RunningIn(runs) \subseteq RunningIn(job.runs)
  <2> HIDE DEF closed
  <2>1. /\ runs \in Seq(RunRecord) /\ Len(runs) = Len(job.runs)
        /\ \A i \in 1..Len(job.runs) : runs[i].id = job.runs[i].id
        /\ RunningIn(runs) = {i \in RunningIn(job.runs) : i \notin closed}
    BY <1>1, ClosedRuns
  <2> QED
    BY <2>1
<1>3. BrokenClaims(job.runs) = runs
  BY DEF BrokenClaims, Closing
<1> HIDE DEF closed, runs
<1>4. CASE Refused(job, slot, runs)
  <2>1. new = [job EXCEPT !.runs = runs]
    BY <1>3, <1>4 DEF Begun
  <2> HIDE DEF new
  <2>2. /\ new \in JobRecord /\ new.runs = runs /\ new.state = "live" /\ new.count = job.count
        /\ new.lastSlot = job.lastSlot /\ new.expr = job.expr /\ new.enabled = job.enabled /\ new.next = job.next
    BY <1>2, <2>1 DEF JobRecord
  <2>3. Sound(new, now)
    BY <1>2, <2>2, SameRuns
  <2>4. RefusedClaim(job, new)
    BY <1>2, <2>2 DEF RefusedClaim
  <2> QED
    BY <2>2, <2>3, <2>4 DEF new
<1>5. CASE ~Refused(job, slot, runs)
  <2>1. RunningIn(runs) = {} /\ (slot # None => job.enabled /\ job.lastSlot # slot)
    BY <1>5 DEF Refused
  <2>2. run \in RunRecord /\ run.status = "running" /\ run.id = job.count + 1
    BY DEF RunRecord, JobRecord
  <2>3. new = [job EXCEPT !.count = job.count + 1, !.runs = all,
                          !.lastSlot = IF slot = None THEN job.lastSlot ELSE slot,
                          !.next = IF slot = None THEN job.next ELSE nextCronRun(job.expr, slot)]
    BY <1>3, <1>5 DEF Begun
  <2> HIDE DEF run
  <2>4. all \in Seq(RunRecord) /\ all # <<>> /\ all[1] = run /\ RunningIn(all) = {1}
    BY <1>2, <2>1, <2>2, ClaimedRuns
  <2> HIDE DEF all, new
  <2>5. job.expr \in Expression /\ job.expr \in Nat \ {0} /\ (slot # None => slot \in Nat)
    <3>1. job.expr \in Expression
      BY DEF Sound
    <3>2. job.expr \in Nat \ {0}
      BY <3>1, Constants
    <3>3. slot # None => slot \in 0..MaxMinute
      OBVIOUS
    <3>4. slot # None => slot \in Nat
      BY <3>3
    <3> QED
      BY <3>1, <3>2, <3>4
  <2>6. slot # None => nextCronRun(job.expr, slot) \in Nat
    BY <2>5, FirstMatch
  <2>7. /\ new \in JobRecord /\ new.runs = all /\ new.state = "live" /\ new.count = job.count + 1
        /\ new.lastSlot = IF slot = None THEN job.lastSlot ELSE slot
        /\ new.next = IF slot = None THEN job.next ELSE nextCronRun(job.expr, slot)
        /\ new.expr = job.expr /\ new.enabled = job.enabled
    <3> DEFINE last == IF slot = None THEN job.lastSlot ELSE slot
               next == IF slot = None THEN job.next ELSE nextCronRun(job.expr, slot)
    <3>1. last \in Nat \cup {None} /\ next \in Nat \cup {None}
      BY <2>5, <2>6 DEF JobRecord
    <3>2. new = [job EXCEPT !.count = job.count + 1, !.runs = all, !.lastSlot = last, !.next = next]
      BY <2>3
    <3> HIDE DEF last, next
    <3>3. /\ new \in JobRecord /\ new.runs = all /\ new.state = "live" /\ new.count = job.count + 1
          /\ new.lastSlot = last /\ new.next = next /\ new.expr = job.expr /\ new.enabled = job.enabled
      <4>1. job.count + 1 \in Nat
        BY DEF JobRecord
      <4>2. new \in JobRecord
        BY <2>4, <3>1, <3>2, <4>1 DEF JobRecord
      <4>3. /\ new.runs = all /\ new.state = "live" /\ new.count = job.count + 1
            /\ new.lastSlot = last /\ new.next = next
        BY <3>2 DEF JobRecord
      <4>4. new.expr = job.expr /\ new.enabled = job.enabled
        BY <3>2 DEF JobRecord
      <4> QED
        BY <4>2, <4>3, <4>4
    <3> QED
      BY <3>3 DEF last, next
  <2>8. OnTime(new, now)
    <3>1. CASE slot = None
      BY <2>7, <3>1 DEF Sound, OnTime
    <3>2. CASE slot # None
      BY <2>5, <2>7, <3>2, Scheduled
    <3> QED
      BY <3>1, <3>2
  <2>9. Sound(new, now)
    BY <2>2, <2>4, <2>7, <2>8 DEF Sound
  <2>10. MadeClaim(job, new, slot)
    BY <2>1, <2>4, <2>7 DEF MadeClaim
  <2> QED
    BY <2>7, <2>9, <2>10 DEF new
<1> QED
  BY <1>4, <1>5

(* What the mutation at the head of the chain makes of its job. *)
LEMMA Changes ==
  ASSUME IInv, chain # <<>>, previous = None, ~Throws(Head(chain))
  PROVE  LET m == Head(chain)
         IN  /\ m \in Entry
             /\ Mutated(m) \in JobRecord /\ Sound(Mutated(m), now)
             /\ Pending(m, disk[m.job], Mutated(m), exec[m.job].slot)
<1> DEFINE m == Head(chain)
           j == m.job
           new == Mutated(m)
<1>1. m \in Entry /\ Waits(m) /\ j \in Job /\ m.kind \in EditKind \cup StepKind
  BY Dequeued DEF IInv, TypeOK, ChainSound, Entry
<1>2. mem[j] = disk[j] /\ disk[j] \in JobRecord /\ Sound(disk[j], now) /\ now \in Nat
  BY <1>1 DEF IInv, TypeOK, MemoryAndFile, Ended
<1> HIDE DEF m
<1>3. CASE m.kind = "create"
  <2>1. m.expr \in Expression /\ m.enabled \in BOOLEAN
    BY <1>1, <1>3 DEF Waits, EditKind, Edits, Request, Of, Entry
  <2>2. new = Created(m.expr, m.enabled)
    BY <1>3 DEF Mutated
  <2>3. /\ new \in JobRecord /\ Sound(new, now) /\ new.state = "live" /\ new.runs = <<>> /\ new.lastSlot = None
    BY <1>2, <2>1, <2>2, CreatedSound
  <2> HIDE DEF new
  <2> QED
    BY <1>1, <1>3, <2>3 DEF Pending, m, new
<1>4. CASE m.kind = "update"
  <2>1. m.expr \in Expression /\ m.enabled \in BOOLEAN
    BY <1>1, <1>4 DEF Waits, EditKind, Edits, Request, Of, Entry
  <2>2. new = Updated(disk[j], m.expr, m.enabled) /\ disk[j].state = "live"
    BY <1>2, <1>4 DEF Mutated, Throws, Live, m
  <2>3. /\ new \in JobRecord /\ Sound(new, now) /\ new.state = "live"
        /\ new.runs = disk[j].runs /\ new.lastSlot = disk[j].lastSlot
    BY <1>2, <2>1, <2>2, UpdatedSound
  <2> HIDE DEF new
  <2> QED
    BY <1>1, <1>4, <2>2, <2>3 DEF Pending, m, new
<1>5. CASE m.kind = "remove"
  <2>1. new \in {Removed, disk[j]}
    BY <1>2, <1>5 DEF Mutated
  <2>2. new \in JobRecord /\ Sound(new, now)
    BY <1>2, <2>1, AbsentSound
  <2> HIDE DEF new
  <2> QED
    BY <1>1, <1>5, <2>1, <2>2 DEF Pending, m, new
<1>6. CASE m.kind = "begin"
  <2>1. new = Begun(disk[j], exec[j].slot) /\ disk[j].state = "live"
    BY <1>2, <1>6 DEF Mutated, Throws, Live, m
  <2>2. /\ exec[j].slot \in 0..MaxMinute \cup {None}
        /\ exec[j].slot # None =>
             exec[j].slot <= now /\ (disk[j].lastSlot = None \/ disk[j].lastSlot <= exec[j].slot)
    BY <1>1, <1>6 DEF Waits, StepKind, IInv, Claimed, TypeOK, ExecState
  <2>3. /\ new \in JobRecord /\ Sound(new, now) /\ new.state = "live"
        /\ RefusedClaim(disk[j], new) \/ MadeClaim(disk[j], new, exec[j].slot)
    <3> HIDE DEF new
    <3> QED
      BY <1>2, <2>1, <2>2, BegunSound
  <2> HIDE DEF new
  <2> QED
    BY <1>1, <1>6, <2>1, <2>3 DEF Pending, m, new
<1>7. CASE m.kind = "finish"
  <2>1. new = Finished(disk[j], exec[j].run, exec[j].status) /\ disk[j].state = "live"
    BY <1>2, <1>7 DEF Mutated, Throws, Live, m
  <2>2. /\ 1 \in RunningIn(disk[j].runs) /\ disk[j].runs[1].id = exec[j].run
        /\ exec[j].status \in {"success", "error", "cancelled"} /\ exec[j].run \in Nat
    BY <1>1, <1>7, <2>1 DEF Waits, StepKind, IInv, Claimed, TypeOK, ExecState
  <2>3. /\ new \in JobRecord /\ Sound(new, now) /\ new.state = "live"
        /\ new.lastSlot = disk[j].lastSlot /\ RunningIn(new.runs) = {}
    <3> HIDE DEF new
    <3> DEFINE job == disk[j]
               run == exec[j].run
               status == exec[j].status
    <3>1. /\ job \in JobRecord /\ Sound(job, now) /\ job.state = "live"
          /\ job.runs[1].id = run /\ run \in Nat /\ status \in {"success", "error", "cancelled"}
          /\ new = Finished(job, run, status) /\ 1 \in RunningIn(job.runs)
      BY <1>2, <2>1, <2>2
    <3> HIDE DEF job, run, status
    <3>2. /\ new \in JobRecord /\ Sound(new, now) /\ new.state = "live"
          /\ new.lastSlot = job.lastSlot /\ RunningIn(new.runs) = {}
      BY <3>1, FinishedSound
    <3> QED
      BY <3>2 DEF job
  <2> HIDE DEF new
  <2> QED
    BY <1>1, <1>7, <2>1, <2>3 DEF Pending, m, new
<1> QED
  BY <1>1, <1>3, <1>4, <1>5, <1>6, <1>7 DEF EditKind, StepKind

-----------------------------------------------------------------------------
(* Lemmas on the chain. *)

(* Requests of a client are not steps of an execution. *)
LEMMA EditEntries ==
  ASSUME NEW m \in Edits PROVE m \in Entry /\ m.kind \in EditKind
<1>1. Expression \subseteq Nat
  BY Constants
<1>2. CASE m \in {Request("create", j, e, b) : j \in Job, e \in Expression, b \in BOOLEAN}
  <2>1. PICK j \in Job, e \in Expression, b \in BOOLEAN : m = Request("create", j, e, b)
    BY <1>2
  <2> QED
    BY <1>1, <2>1 DEF Request, Entry, EditKind
<1>3. CASE m \in {Request("update", j, e, b) : j \in Job, e \in Expression, b \in BOOLEAN}
  <2>1. PICK j \in Job, e \in Expression, b \in BOOLEAN : m = Request("update", j, e, b)
    BY <1>3
  <2> QED
    BY <1>1, <2>1 DEF Request, Entry, EditKind
<1>4. CASE m \in {Of("remove", j) : j \in Job}
  <2>1. PICK j \in Job : m = Of("remove", j)
    BY <1>4
  <2> QED
    BY <2>1 DEF Of, Request, Entry, EditKind
<1> QED
  BY <1>2, <1>3, <1>4 DEF Edits

(* A step of an execution is no request of a client. *)
LEMMA StepEntries ==
  ASSUME NEW k \in StepKind, NEW j \in Job
  PROVE  Of(k, j) \in Entry /\ Of(k, j).kind = k /\ Of(k, j).job = j /\ Of(k, j).kind \notin EditKind
BY DEF Of, Request, Entry, EditKind, StepKind

(* The chain of a state: its mutations are typed, and none is a request     *)
(* when no request is under way.                                            *)
LEMMA InChain ==
  ASSUME TypeOK, ChainSound
  PROVE  /\ \A m \in ToSet(chain) : m \in Entry /\ m.job \in Job /\ m.kind \in EditKind \cup StepKind
         /\ ~Editing => \A m \in ToSet(chain) : m.kind \in StepKind
         /\ \A m \in ToSet(chain) : m.kind \in EditKind <=> m \in Edits
<1>1. chain \in Seq(Entry) /\ DOMAIN chain = 1..Len(chain)
  BY LenProperties DEF TypeOK
<1>2. \A m \in ToSet(chain) : \E i \in 1..Len(chain) : m = chain[i]
  BY <1>1 DEF ToSet
<1>3. \A m \in ToSet(chain) : m \in Entry /\ m.job \in Job /\ m.kind \in EditKind \cup StepKind
  <2>1. \A m \in ToSet(chain) : m \in Entry
    BY <1>1, <1>2, ElementOfSeq
  <2>2. \A m \in Entry : m.job \in Job /\ m.kind \in EditKind \cup StepKind
    BY DEF Entry
  <2> QED
    BY <2>1, <2>2
<1>4. \A m \in ToSet(chain) : m.kind \in EditKind <=> m \in Edits
  BY EditEntries DEF ChainSound, Waits
<1>5. ~Editing => \A m \in ToSet(chain) : m.kind \in StepKind
  BY <1>2, <1>3, <1>4 DEF Editing
<1> QED
  BY <1>3, <1>4, <1>5

(* A mutation keeps waiting while its execution and its job stay as they    *)
(* are and, if it is a request, the process goes on.                        *)
LEMMA StillWaits ==
  ASSUME NEW m \in Entry, Waits(m), life' = life \/ m.kind \notin EditKind,
         m.kind \in StepKind => exec'[m.job].pc = exec[m.job].pc,
         m.kind = "create" => disk'[m.job].state = disk[m.job].state
  PROVE  Waits(m)'
BY DEF Waits

(* What is claimed in the file stays so while the execution is where it is. *)
LEMMA StillClaimed ==
  ASSUME NEW j \in Job, Claimed(j), exec'[j] = exec[j], disk'[j] = disk[j],
         life' # "down" => life # "down", unclosed \subseteq unclosed', now' = now
  PROVE  Claimed(j)'
BY DEF Claimed

(* Nothing that was started is forgotten. *)
LEMMA StillRecorded ==
  ASSUME NEW j \in Job, Recorded(j), starts'[j] = starts[j], disk'[j] = disk[j] PROVE Recorded(j)'
BY DEF Recorded

(* An execution that has nothing to do. *)
LEMMA Idleness == Idle \in ExecState /\ Idle.pc = "idle"
BY DEF Idle, ExecState

-----------------------------------------------------------------------------
(* Init, and the steps of time and of the process, keep the invariant. *)

(* The registry of an earlier session is a sound start. *)
LEMMA InitIInv == Init => IInv
<1> SUFFICES ASSUME Init PROVE IInv
  OBVIOUS
<1>1. now = 0 /\ now \in Nat /\ MaxMinute \in Nat
  BY Constants DEF Init
<1>2. PICK e \in Expression : mem = [j \in Job |-> IF j \in Registered THEN Created(e, TRUE) ELSE NoJob]
  BY DEF Init
<1>3. /\ Created(e, TRUE) \in JobRecord /\ Sound(Created(e, TRUE), now) /\ Created(e, TRUE).runs = <<>>
  BY <1>1, CreatedSound
<1>4. NoJob \in JobRecord /\ Sound(NoJob, now) /\ NoJob.runs = <<>>
  BY AbsentSound, NoJobTyped
<1>5. \A j \in Job : mem[j] \in JobRecord /\ Sound(mem[j], now) /\ mem[j].runs = <<>>
  BY <1>2, <1>3, <1>4
<1>6. mem \in [Job -> JobRecord] /\ disk = mem
  BY <1>2, <1>3, <1>4 DEF Init
<1>7. chain = <<>> /\ chain \in Seq(Entry) /\ ToSet(chain) = {} /\ Len(chain) = 0
  BY EmptySeq DEF Init, ToSet
<1>8. TypeOK
  <2>1. exec \in [Job -> ExecState] /\ starts \in [Job -> [0..MaxMinute -> Nat]]
    BY Idleness DEF Init
  <2>2. now \in 0..MaxMinute /\ previous = None /\ life = "up" /\ unclosed = {}
    BY <1>1 DEF Init
  <2> QED
    BY <1>6, <1>7, <2>1, <2>2 DEF TypeOK
<1>9. \A j \in Job : Recorded(j)
  BY <1>1 DEF Init, Recorded
<1>10. \A j \in Job : Claimed(j)
  BY <1>5, <1>6, Idleness, NoneRunning DEF Init, Claimed
<1>11. ChainSound
  BY <1>7 DEF ChainSound, NoClash
<1>12. MemoryAndFile /\ Ended
  BY <1>6 DEF Init, MemoryAndFile, Ended
<1> QED
  BY <1>5, <1>6, <1>8, <1>9, <1>10, <1>11, <1>12 DEF IInv

(* Time only makes sound records older. *)
LEMMA ClockTickKeeps == ASSUME IInv, ClockTick PROVE IInv'
<1> USE DEF ClockTick
<1>1. now \in Nat /\ now' = now + 1 /\ now' \in 0..MaxMinute
  BY Constants DEF IInv, TypeOK
<1>2. TypeOK'
  BY <1>1 DEF IInv, TypeOK
<1>3. ASSUME NEW job \in JobRecord, Sound(job, now) PROVE Sound(job, now')
  <2>1. OnTime(job, now')
    <3>1. \A t \in now' + 1..job.next - 1 : job.next \in Nat => t \in now + 1..job.next - 1
      BY <1>1
    <3>2. job.next # None => job.next \in Nat
      BY DEF JobRecord
    <3> QED
      BY <1>3, <3>1, <3>2 DEF Sound, OnTime
  <2>2. job.lastSlot = None \/ job.lastSlot <= now'
    BY <1>1, <1>3 DEF Sound, JobRecord
  <2> QED
    BY <1>3, <2>1, <2>2 DEF Sound
<1>4. \A j \in Job : Sound(disk'[j], now') /\ Sound(mem'[j], now')
  BY <1>3 DEF IInv, TypeOK
<1>5. \A j \in Job : Recorded(j)'
  BY StillRecorded DEF IInv
<1>6. ASSUME NEW j \in Job PROVE Claimed(j)'
  <2>1. exec[j] \in ExecState
    BY DEF IInv, TypeOK
  <2>2. exec[j].slot # None => exec[j].slot \in Nat
    BY <2>1 DEF ExecState
  <2> QED
    BY <1>1, <2>2 DEF IInv, Claimed
<1>7. ChainSound'
  BY InChain, StillWaits DEF IInv, ChainSound
<1>8. MemoryAndFile' /\ Ended'
  BY DEF IInv, MemoryAndFile, Ended
<1> QED
  BY <1>2, <1>4, <1>5, <1>6, <1>7, <1>8 DEF IInv

(* stop() is called when no request waits in the chain. *)
LEMMA StopKeeps == ASSUME IInv, Stop PROVE IInv'
<1> USE DEF Stop
<1>1. TypeOK'
  BY DEF IInv, TypeOK
<1>2. \A j \in Job : Recorded(j)' /\ Claimed(j)'
  BY StillRecorded, StillClaimed DEF IInv
<1>3. ChainSound'
  <2>1. \A m \in ToSet(chain) : m \in Entry /\ m.kind \in StepKind /\ m.kind \notin EditKind
    BY InChain DEF IInv, EditKind, StepKind
  <2> QED
    BY <2>1, StillWaits DEF IInv, ChainSound
<1>4. MemoryAndFile' /\ Ended'
  BY DEF IInv, MemoryAndFile, Ended
<1> QED
  BY <1>1, <1>2, <1>3, <1>4 DEF IInv

(* When every execution has settled, nothing waits in the chain. *)
LEMMA StopResolvesKeeps == ASSUME IInv, StopResolves PROVE IInv'
<1> USE DEF StopResolves
<1>1. TypeOK'
  BY DEF IInv, TypeOK
<1>2. \A j \in Job : Recorded(j)' /\ Claimed(j)'
  BY StillRecorded, StillClaimed DEF IInv
<1>3. ToSet(chain) = {}
  <2>1. ASSUME NEW m \in ToSet(chain) PROVE FALSE
    <3>1. m.job \in Job /\ Waits(m) /\ m.kind \in EditKind \cup StepKind
      BY InChain DEF IInv, ChainSound
    <3> QED
      BY <3>1 DEF Waits, StepKind
  <2> QED
    BY <2>1
<1>4. chain = <<>>
  BY <1>3, Dequeued DEF IInv, TypeOK, ChainSound
<1>5. ChainSound'
  BY <1>3 DEF IInv, ChainSound
<1>6. MemoryAndFile' /\ Ended'
  BY <1>4 DEF IInv, MemoryAndFile, Ended
<1> QED
  BY <1>1, <1>2, <1>5, <1>6 DEF IInv

(* What dies with the process is not in the file. *)
LEMMA ExitKeeps == ASSUME IInv, Exit PROVE IInv'
<1> USE DEF Exit
<1>1. chain' = <<>> /\ chain' \in Seq(Entry) /\ ToSet(chain') = {} /\ Len(chain') = 0
  BY EmptySeq DEF ToSet
<1>2. NoJob \in JobRecord /\ Sound(NoJob, now)
  BY AbsentSound
<1>3. TypeOK'
  BY <1>1, <1>2, Idleness DEF IInv, TypeOK
<1>4. \A j \in Job : Recorded(j)'
  BY StillRecorded DEF IInv
<1>5. \A j \in Job : Claimed(j)'
  BY Idleness DEF Claimed
<1>6. ChainSound'
  BY <1>1 DEF ChainSound, NoClash
<1>7. MemoryAndFile' /\ Ended'
  BY Idleness DEF MemoryAndFile, Ended
<1>8. \A j \in Job : Sound(disk'[j], now') /\ Sound(mem'[j], now')
  BY <1>2 DEF IInv
<1> QED
  BY <1>3, <1>4, <1>5, <1>6, <1>7, <1>8 DEF IInv

(* load() closes what the last process left open. *)
LEMMA RestartKeeps == ASSUME IInv, Restart PROVE IInv'
<1> USE DEF Restart
<1>1. \A j \in Job : LET new == Normalized(disk[j])
                     IN  /\ new \in JobRecord /\ Sound(new, now)
                         /\ new.state = disk[j].state /\ new.lastSlot = disk[j].lastSlot
                         /\ RunningIn(new.runs) = {}
  BY NormalizedSound DEF IInv, TypeOK
<1>2. mem' = [j \in Job |-> Normalized(disk[j])] /\ disk' = mem'
  OBVIOUS
<1>3. mem' \in [Job -> JobRecord]
  BY <1>1, <1>2
<1>4. TypeOK'
  BY <1>2, <1>3 DEF IInv, TypeOK
<1>5. \A j \in Job : /\ Sound(disk'[j], now') /\ Sound(mem'[j], now')
                     /\ disk'[j].state = disk[j].state /\ disk'[j].lastSlot = disk[j].lastSlot
                     /\ RunningIn(disk'[j].runs) = {}
  BY <1>1, <1>2
<1>6. \A j \in Job : Recorded(j)'
  BY <1>5 DEF IInv, Recorded
<1>7. chain = <<>> /\ (\A j \in Job : exec[j].pc = "idle") /\ ToSet(chain) = {} /\ previous = None
  BY EmptySeq DEF IInv, Ended, MemoryAndFile, ToSet
<1>8. \A j \in Job : Claimed(j)'
  BY <1>5, <1>7 DEF Claimed
<1>9. ChainSound'
  BY <1>7 DEF IInv, ChainSound
<1>10. MemoryAndFile' /\ Ended'
  BY <1>2, <1>7 DEF MemoryAndFile, Ended
<1> QED
  BY <1>4, <1>5, <1>6, <1>8, <1>9, <1>10 DEF IInv

-----------------------------------------------------------------------------
(* The steps of the chain. *)

(* The first mutation of the chain, and what holds of it. *)
LEMMA First ==
  ASSUME IInv, chain # <<>>
  PROVE  LET m == Head(chain)
         IN  /\ m \in Entry /\ m.job \in Job /\ m.kind \in EditKind \cup StepKind
             /\ Waits(m) /\ m \in ToSet(chain)
             /\ m \in Edits <=> m.kind \in EditKind
             /\ m \in Edits <=> m.kind \notin StepKind
             /\ life \in {"up", "stopping"}
<1> DEFINE m == Head(chain)
<1>1. m \in ToSet(chain)
  BY Dequeued DEF IInv, TypeOK, ChainSound
<1>2. /\ m \in Entry /\ m.job \in Job /\ m.kind \in EditKind \cup StepKind
      /\ m \in Edits <=> m.kind \in EditKind
  BY <1>1, InChain DEF IInv
<1>3. m.kind \in EditKind <=> m.kind \notin StepKind
  BY <1>2 DEF EditKind, StepKind
<1>4. Waits(m) /\ life \in {"up", "stopping"}
  BY <1>1 DEF IInv, ChainSound, Ended, TypeOK
<1> QED
  BY <1>1, <1>2, <1>3, <1>4

(* The rest of the chain goes on waiting when the first mutation leaves. *)
LEMMA RestWaits ==
  ASSUME IInv, chain # <<>>, life' = life,
         \A j \in Job : exec'[j].pc = exec[j].pc \/ (Head(chain).kind \in StepKind /\ j = Head(chain).job),
         \A j \in Job : disk'[j].state = disk[j].state \/ Head(chain).kind \in EditKind
  PROVE  /\ Tail(chain) \in Seq(Entry) /\ NoClash(Tail(chain))
         /\ \A m \in ToSet(Tail(chain)) : m \in Entry /\ m \in ToSet(chain) /\ ~Clash(Head(chain), m) /\ Waits(m)'
<1>1. /\ Tail(chain) \in Seq(Entry) /\ NoClash(Tail(chain))
      /\ \A m \in ToSet(Tail(chain)) : m \in ToSet(chain) /\ m \in Entry /\ ~Clash(Head(chain), m)
  BY Dequeued DEF IInv, TypeOK, ChainSound
<1>2. ASSUME NEW m \in ToSet(Tail(chain)) PROVE Waits(m)'
  <2>1. m \in Entry /\ m.job \in Job /\ Waits(m) /\ ~Clash(Head(chain), m)
    BY <1>1, <1>2, InChain DEF IInv, ChainSound
  <2>2. m.kind \in StepKind => exec'[m.job].pc = exec[m.job].pc
    BY <2>1 DEF Clash
  <2>3. m.kind = "create" => disk'[m.job].state = disk[m.job].state
    BY <2>1 DEF Clash, EditKind
  <2> QED
    BY <2>1, <2>2, <2>3, StillWaits
<1> QED
  BY <1>1, <1>2

(* What a mutation that is over does to its execution. *)
LEMMA DoneSettles ==
  ASSUME IInv, chain # <<>>, NEW rejected \in BOOLEAN, Done(Head(chain), rejected)
  PROVE  LET m == Head(chain)
         IN  /\ chain' = Tail(chain)
             /\ exec' \in [Job -> ExecState]
             /\ \A j \in Job : exec'[j] = IF m.kind \in StepKind /\ j = m.job THEN Idle ELSE exec[j]
<1> DEFINE m == Head(chain)
<1>1. m.job \in Job /\ (m \in Edits <=> m.kind \notin StepKind) /\ exec \in [Job -> ExecState]
  BY First DEF IInv, TypeOK
<1>2. CASE m \in Edits
  BY <1>1, <1>2 DEF Done
<1>3. CASE m \notin Edits
  <2>1. exec' = [exec EXCEPT ![m.job] = Idle]
    BY <1>3 DEF Done, Settle
  <2> QED
    BY <1>1, <1>3, <2>1, Idleness DEF Done
<1> QED
  BY <1>2, <1>3

(* A mutation changes the registry in memory, and only its own job. *)
LEMMA MutateKeeps == ASSUME IInv, Mutate PROVE IInv'
<1> DEFINE m == Head(chain)
           j == m.job
<1>1. /\ chain # <<>> /\ previous = None /\ ~Throws(m)
      /\ previous' = mem /\ mem' = [mem EXCEPT ![j] = Mutated(m)]
      /\ UNCHANGED <<now, disk, chain, exec, tick, life, spent, starts, unclosed>>
  BY DEF Mutate
<1>2. m \in Entry /\ j \in Job /\ life \in {"up", "stopping"}
  BY <1>1, First
<1>3. mem = disk /\ disk \in [Job -> JobRecord] /\ mem # None
  BY <1>1, <1>2, Constants DEF IInv, MemoryAndFile, TypeOK
<1>4. /\ Mutated(m) \in JobRecord /\ Sound(Mutated(m), now)
      /\ Pending(m, disk[j], Mutated(m), exec[j].slot)
  BY <1>1, Changes
<1> HIDE DEF m, j
<1>5. /\ mem' \in [Job -> JobRecord] /\ mem'[j] = Mutated(m)
      /\ \A i \in Job : i # j => mem'[i] = disk[i]
  BY <1>1, <1>2, <1>3, <1>4
<1>6. TypeOK'
  BY <1>1, <1>3, <1>5 DEF IInv, TypeOK
<1>7. \A i \in Job : Sound(disk'[i], now') /\ Sound(mem'[i], now')
  <2>1. \A i \in Job : Sound(disk[i], now)
    BY DEF IInv
  <2> QED
    BY <1>1, <1>4, <1>5, <2>1
<1>8. \A i \in Job : Recorded(i)' /\ Claimed(i)'
  BY <1>1, StillRecorded, StillClaimed DEF IInv
<1>9. ChainSound'
  BY <1>1, InChain, StillWaits DEF IInv, ChainSound
<1>10. MemoryAndFile'
  <2>1. Pending(m, disk'[j], mem'[j], exec'[j].slot)
    BY <1>1, <1>4, <1>5
  <2> QED
    BY <1>1, <1>2, <1>3, <1>5, <2>1 DEF MemoryAndFile, m, j
<1>11. Ended'
  BY <1>1 DEF IInv, Ended
<1> QED
  BY <1>6, <1>7, <1>8, <1>9, <1>10, <1>11 DEF IInv

(* A mutator that throws had nothing to close. *)
LEMMA ThrowKeeps == ASSUME IInv, Throw PROVE IInv'
<1> DEFINE m == Head(chain)
           j == m.job
<1>1. /\ chain # <<>> /\ previous = None /\ Throws(m) /\ Done(m, TRUE)
      /\ UNCHANGED <<now, mem, disk, previous, life, spent, starts, unclosed>>
  BY DEF Throw
<1>2. /\ m \in Entry /\ j \in Job /\ Waits(m) /\ life \in {"up", "stopping"}
  BY <1>1, First
<1>3. /\ chain' = Tail(chain) /\ exec' \in [Job -> ExecState]
      /\ \A i \in Job : exec'[i] = IF m.kind \in StepKind /\ i = j THEN Idle ELSE exec[i]
  BY <1>1, DoneSettles
<1>4. mem = disk
  BY <1>1, <1>2 DEF IInv, MemoryAndFile
<1> HIDE DEF m, j
<1>5. /\ Tail(chain) \in Seq(Entry) /\ NoClash(Tail(chain))
      /\ \A n \in ToSet(Tail(chain)) : Waits(n)'
  BY <1>1, <1>3, RestWaits DEF m, j
<1>6. TypeOK'
  BY <1>1, <1>3, <1>5 DEF IInv, TypeOK
<1>7. \A i \in Job : Recorded(i)'
  BY <1>1, StillRecorded DEF IInv
<1>8. ASSUME NEW i \in Job PROVE Claimed(i)'
  <2>1. CASE m.kind \in StepKind /\ i = j
    <3>1. exec'[j] = Idle
      BY <1>2, <1>3, <2>1
    <3>2. RunningIn(disk[j].runs) = {}
      <4>1. Sound(disk[j], now) /\ Claimed(j) /\ exec[j].pc = m.kind /\ disk[j] \in JobRecord
        BY <1>2, <2>1 DEF IInv, Waits, TypeOK, j
      <4>2. disk[j].state # "live"
        <5>1. SUFFICES ASSUME disk[j].state = "live" PROVE FALSE
          OBVIOUS
        <5>2. m.kind = "finish" /\ \A k \in 1..Len(disk[j].runs) : disk[j].runs[k].id # exec[j].run
          BY <1>1, <1>4, <5>1 DEF Throws, Live, j
        <5> QED
          BY <4>1, <5>1, <5>2 DEF Claimed, RunningIn
      <4> QED
        BY <4>1, <4>2, NoneRunning DEF Sound
    <3> QED
      BY <1>1, <2>1, <3>1, <3>2, Idleness DEF Claimed
  <2>2. CASE ~(m.kind \in StepKind /\ i = j)
    BY <1>1, <1>3, <2>2, StillClaimed DEF IInv
  <2> QED
    BY <2>1, <2>2
<1>9. ChainSound'
  BY <1>3, <1>5 DEF ChainSound
<1>10. MemoryAndFile' /\ Ended'
  BY <1>1, <1>2, <1>4 DEF IInv, MemoryAndFile, Ended
<1> QED
  BY <1>1, <1>6, <1>7, <1>8, <1>9, <1>10 DEF IInv

(* A failed write takes the change back; a claim it leaves open is counted. *)
LEMMA WriteFailsKeeps == ASSUME IInv, WriteFails PROVE IInv'
<1> DEFINE m == Head(chain)
           j == m.job
<1>1. /\ previous # None /\ mem' = previous /\ previous' = None /\ Done(m, TRUE)
      /\ unclosed' = IF m.kind = "finish" THEN unclosed \cup {<<j, exec[j].run>>} ELSE unclosed
      /\ UNCHANGED <<now, disk, life, starts>>
  BY DEF WriteFails
<1>2. /\ previous = disk /\ chain # <<>> /\ life \in {"up", "stopping"}
      /\ Pending(m, disk[j], mem[j], exec[j].slot)
  BY <1>1 DEF IInv, MemoryAndFile
<1>3. m \in Entry /\ j \in Job /\ Waits(m)
  BY <1>2, First
<1>4. /\ chain' = Tail(chain) /\ exec' \in [Job -> ExecState]
      /\ \A i \in Job : exec'[i] = IF m.kind \in StepKind /\ i = j THEN Idle ELSE exec[i]
  BY <1>1, <1>2, DoneSettles
<1> HIDE DEF m, j
<1>5. /\ Tail(chain) \in Seq(Entry) /\ NoClash(Tail(chain))
      /\ \A n \in ToSet(Tail(chain)) : Waits(n)'
  BY <1>1, <1>2, <1>4, RestWaits DEF m, j
<1>6. TypeOK'
  <2>1. exec[j].run \in Nat
    BY <1>3 DEF IInv, TypeOK, ExecState
  <2>2. unclosed' \subseteq Job \X Nat
    BY <1>1, <1>3, <2>1 DEF IInv, TypeOK
  <2> QED
    BY <1>1, <1>2, <1>4, <1>5, <2>2 DEF IInv, TypeOK
<1>7. \A i \in Job : Recorded(i)'
  BY <1>1, StillRecorded DEF IInv
<1>8. ASSUME NEW i \in Job PROVE Claimed(i)'
  <2>1. CASE m.kind \in StepKind /\ i = j
    <3>1. exec'[j] = Idle /\ disk' = disk
      BY <1>1, <1>3, <1>4, <2>1
    <3>2. Sound(disk[j], now) /\ Claimed(j) /\ exec[j].pc = m.kind
      BY <1>3, <2>1 DEF IInv, Waits, j
    <3>3. CASE m.kind = "begin"
      BY <1>1, <1>2, <2>1, <3>1, <3>2, <3>3, Idleness DEF Claimed
    <3>4. CASE m.kind = "finish"
      <4>1. disk[j].state = "live"
        BY <1>2, <3>4 DEF Pending
      <4>2. \A k \in RunningIn(disk[j].runs) : disk[j].runs[k].id = exec[j].run
        BY <3>2, <3>4, <4>1 DEF Sound, Claimed
      <4> QED
        BY <1>1, <2>1, <3>1, <3>4, <4>2, Idleness DEF Claimed
    <3> QED
      BY <2>1, <3>3, <3>4 DEF StepKind
  <2>2. CASE ~(m.kind \in StepKind /\ i = j)
    BY <1>1, <1>4, <2>2, StillClaimed DEF IInv
  <2> QED
    BY <2>1, <2>2
<1>9. ChainSound'
  BY <1>4, <1>5 DEF ChainSound
<1>10. MemoryAndFile' /\ Ended'
  BY <1>1, <1>2 DEF IInv, MemoryAndFile, Ended
<1> QED
  BY <1>1, <1>2, <1>6, <1>7, <1>8, <1>9, <1>10 DEF IInv

(* The writing of a mutation: what all kinds have in common. *)
LEMMA Written ==
  ASSUME IInv, Write
  PROVE  LET m == Head(chain)
         IN  /\ chain # <<>> /\ previous = disk /\ life \in {"up", "stopping"}
             /\ m \in Entry /\ m.job \in Job /\ m.kind \in EditKind \cup StepKind /\ Waits(m)
             /\ Pending(m, disk[m.job], mem[m.job], exec[m.job].slot)
             /\ disk' \in [Job -> JobRecord] /\ \A i \in Job : Sound(disk'[i], now') /\ Sound(mem'[i], now')
             /\ \A i \in Job : i # m.job => disk'[i] = disk[i]
             /\ disk'[m.job] = mem[m.job]
             /\ MemoryAndFile'
<1> DEFINE m == Head(chain)
<1>1. /\ previous # None /\ disk' = mem /\ previous' = None
      /\ UNCHANGED <<now, mem, life, spent, unclosed>>
  BY DEF Write
<1>2. /\ chain # <<>> /\ previous = disk /\ life \in {"up", "stopping"}
      /\ Pending(m, disk[m.job], mem[m.job], exec[m.job].slot)
      /\ \A i \in Job : i # m.job => mem[i] = disk[i]
  BY <1>1 DEF IInv, MemoryAndFile
<1>3. m \in Entry /\ m.job \in Job /\ m.kind \in EditKind \cup StepKind /\ Waits(m)
  BY <1>2, First
<1> HIDE DEF m
<1>4. disk' \in [Job -> JobRecord] /\ \A i \in Job : Sound(disk'[i], now') /\ Sound(mem'[i], now')
  BY <1>1 DEF IInv, TypeOK
<1>5. MemoryAndFile'
  BY <1>1, <1>2 DEF MemoryAndFile
<1> QED
  BY <1>1, <1>2, <1>3, <1>4, <1>5 DEF m

(* A job that keeps its place in the registry and its last slot. *)
LEMMA SameSlots ==
  ASSUME NEW j \in Job, Recorded(j), starts'[j] = starts[j],
         disk'[j].state = disk[j].state, disk'[j].lastSlot = disk[j].lastSlot
  PROVE  Recorded(j)'
BY DEF Recorded

(* The file takes over a request of a client. *)
LEMMA EditWritten ==
  ASSUME IInv, Write, Head(chain).kind \in EditKind PROVE IInv'
<1> DEFINE m == Head(chain)
<1>0. PICK j \in Job : j = m.job
  BY Written
<1>1. /\ UNCHANGED <<now, mem, life, spent, unclosed, starts>> /\ Done(m, FALSE) /\ previous' = None
  BY DEF Write, EditKind
<1>2. /\ chain # <<>> /\ j \in Job /\ Waits(m) /\ Pending(m, disk[j], mem[j], exec[j].slot)
      /\ disk' \in [Job -> JobRecord] /\ \A i \in Job : Sound(disk'[i], now') /\ Sound(mem'[i], now')
      /\ \A i \in Job : i # j => disk'[i] = disk[i]
      /\ disk'[j] = mem[j] /\ life \in {"up", "stopping"} /\ MemoryAndFile'
  BY <1>0, Written
<1>3. m.kind \notin StepKind
  BY DEF EditKind, StepKind
<1>4. chain' = Tail(chain) /\ exec' \in [Job -> ExecState] /\ \A i \in Job : exec'[i] = exec[i]
  BY <1>0, <1>1, <1>2, <1>3, DoneSettles
<1>5. /\ Tail(chain) \in Seq(Entry) /\ NoClash(Tail(chain))
      /\ \A n \in ToSet(Tail(chain)) : Waits(n)'
  BY <1>1, <1>2, <1>4, <1>0, RestWaits
<1>6. m.kind \in {"create", "update", "remove"}
  BY DEF EditKind
<1>7. m.kind = "create" => disk[j].state = "new"
  BY <1>0, <1>2 DEF Waits
<1> HIDE DEF m
<1>8. TypeOK'
  BY <1>1, <1>2, <1>4, <1>5 DEF IInv, TypeOK
<1>9. ASSUME NEW i \in Job, i # j PROVE Recorded(i)' /\ Claimed(i)'
  BY <1>1, <1>2, <1>4, <1>9, StillRecorded, StillClaimed DEF IInv
<1>10. Recorded(j) /\ Claimed(j) /\ Sound(disk[j], now)
  BY <1>2 DEF IInv
<1>11. ASSUME m.kind = "create" PROVE Recorded(j)' /\ Claimed(j)'
  <2>1. mem[j].state = "live" /\ mem[j].runs = <<>> /\ mem[j].lastSlot = None
    BY <1>2, <1>11 DEF Pending
  <2>2. Recorded(j)'
    BY <1>1, <1>2, <1>7, <1>10, <1>11 DEF Recorded
  <2>3. Claimed(j)'
    BY <1>1, <1>2, <1>4, <1>7, <1>10, <1>11, <2>1, NoneRunning DEF Claimed
  <2> QED
    BY <2>2, <2>3
<1>12. ASSUME m.kind = "update" PROVE Recorded(j)' /\ Claimed(j)'
  <2>1. mem[j].state = "live" /\ disk[j].state = "live" /\ mem[j].runs = disk[j].runs /\ mem[j].lastSlot = disk[j].lastSlot
    BY <1>2, <1>12 DEF Pending
  <2>2. Recorded(j)'
    BY <1>1, <1>2, <1>10, <2>1, SameSlots
  <2>3. Claimed(j)'
    BY <1>1, <1>2, <1>4, <1>10, <2>1 DEF Claimed
  <2> QED
    BY <2>2, <2>3
<1>13. ASSUME m.kind = "remove" PROVE Recorded(j)' /\ Claimed(j)'
  <2>1. mem[j] \in {Removed, disk[j]}
    BY <1>2, <1>13 DEF Pending
  <2>2. CASE mem[j] = disk[j]
    BY <1>1, <1>2, <1>4, <1>10, <2>2, StillRecorded, StillClaimed
  <2>3. CASE mem[j] = Removed
    <3>1. Removed.state = "removed" /\ Removed.runs = <<>> /\ Removed.lastSlot = None
      BY DEF Removed, NoJob
    <3>2. Recorded(j)'
      BY <1>1, <1>2, <1>10, <2>3, <3>1 DEF Recorded
    <3>3. Claimed(j)'
      BY <1>1, <1>2, <1>4, <1>10, <2>3, <3>1, NoneRunning DEF Claimed
    <3> QED
      BY <3>2, <3>3
  <2> QED
    BY <2>1, <2>2, <2>3
<1>14. Recorded(j)' /\ Claimed(j)'
  BY <1>6, <1>11, <1>12, <1>13
<1>15. ChainSound'
  BY <1>4, <1>5 DEF ChainSound
<1>16. Ended'
  BY <1>1, <1>2 DEF Ended
<1> QED
  BY <1>2, <1>8, <1>9, <1>14, <1>15, <1>16 DEF IInv

(* The file takes over the end of a run: its execution is over. *)
LEMMA FinishWritten ==
  ASSUME IInv, Write, Head(chain).kind = "finish" PROVE IInv'
<1> DEFINE m == Head(chain)
<1>0. PICK j \in Job : j = m.job
  BY Written
<1>1. /\ UNCHANGED <<now, mem, life, spent, unclosed, starts>> /\ Done(m, FALSE) /\ previous' = None
  BY DEF Write
<1>2. /\ chain # <<>> /\ j \in Job /\ Waits(m) /\ Pending(m, disk[j], mem[j], exec[j].slot)
      /\ disk' \in [Job -> JobRecord] /\ \A i \in Job : Sound(disk'[i], now') /\ Sound(mem'[i], now')
      /\ \A i \in Job : i # j => disk'[i] = disk[i]
      /\ disk'[j] = mem[j] /\ life \in {"up", "stopping"} /\ MemoryAndFile'
  BY <1>0, Written
<1>3. m.kind = "finish" /\ m.kind \in StepKind
  BY DEF StepKind
<1>4. /\ chain' = Tail(chain) /\ exec' \in [Job -> ExecState]
      /\ \A i \in Job : exec'[i] = IF i = j THEN Idle ELSE exec[i]
  BY <1>0, <1>1, <1>2, <1>3, DoneSettles
<1>5. mem[j].state = "live" /\ disk[j].state = "live" /\ mem[j].lastSlot = disk[j].lastSlot /\ RunningIn(mem[j].runs) = {}
  BY <1>2, <1>3 DEF Pending
<1>6. /\ Tail(chain) \in Seq(Entry) /\ NoClash(Tail(chain))
      /\ \A n \in ToSet(Tail(chain)) : Waits(n)'
  BY <1>1, <1>2, <1>3, <1>4, <1>5, <1>0, RestWaits
<1> HIDE DEF m
<1>7. TypeOK'
  BY <1>1, <1>2, <1>4, <1>6 DEF IInv, TypeOK
<1>8. ASSUME NEW i \in Job, i # j PROVE Recorded(i)' /\ Claimed(i)'
  BY <1>1, <1>2, <1>4, <1>8, StillRecorded, StillClaimed DEF IInv
<1>9. Recorded(j)'
  BY <1>1, <1>2, <1>5, SameSlots DEF IInv
<1>10. Claimed(j)'
  BY <1>2, <1>4, <1>5, Idleness DEF Claimed
<1>11. ChainSound'
  BY <1>4, <1>6 DEF ChainSound
<1>12. Ended'
  BY <1>1, <1>2 DEF Ended
<1> QED
  BY <1>2, <1>7, <1>8, <1>9, <1>10, <1>11, <1>12 DEF IInv

(* The file takes over a claim, or that it was refused. No earlier start was *)
(* for the slot, which lies after the last one in the record.               *)
LEMMA BeginWritten ==
  ASSUME IInv, Write, Head(chain).kind = "begin" PROVE IInv'
<1> DEFINE m == Head(chain)
<1>0. PICK j \in Job : j = m.job
  BY Written
<1> DEFINE old == disk[j]
           new == mem[j]
           slot == exec[j].slot
<1>1. UNCHANGED <<now, mem, life, spent, unclosed>> /\ ClaimWritten(j) /\ previous' = None
  BY <1>0 DEF Write
<1>2. /\ chain # <<>> /\ j \in Job /\ Waits(m) /\ Pending(m, old, new, slot)
      /\ disk' \in [Job -> JobRecord] /\ \A i \in Job : Sound(disk'[i], now') /\ Sound(mem'[i], now')
      /\ \A i \in Job : i # j => disk'[i] = disk[i]
      /\ disk'[j] = new /\ life \in {"up", "stopping"} /\ MemoryAndFile' /\ previous = disk
  BY <1>0, Written
<1>3. m.kind = "begin" /\ m.kind \in StepKind /\ exec[j].pc = "begin"
  BY <1>0, <1>2 DEF StepKind, Waits
<1>4. new.state = "live" /\ old.state = "live" /\ (RefusedClaim(old, new) \/ MadeClaim(old, new, slot))
  BY <1>2, <1>3 DEF Pending
<1>5. /\ Recorded(j) /\ Claimed(j) /\ Sound(old, now) /\ Sound(new, now) /\ old \in JobRecord /\ new \in JobRecord
      /\ exec \in [Job -> ExecState] /\ exec[j] \in ExecState /\ slot \in 0..MaxMinute \cup {None}
  BY <1>2 DEF IInv, TypeOK, ExecState
<1>6. ASSUME \A i \in Job : i # j => exec'[i] = exec[i]
      PROVE  /\ Tail(chain) \in Seq(Entry) /\ NoClash(Tail(chain))
             /\ \A n \in ToSet(Tail(chain)) : n \in Entry /\ ~Clash(m, n) /\ Waits(n)'
  BY <1>1, <1>2, <1>3, <1>4, <1>6, <1>0, RestWaits
<1> HIDE DEF m, old, new, slot
<1>7. Ended'
  BY <1>1, <1>2 DEF Ended
<1>8. ASSUME NEW i \in Job, i # j, exec'[i] = exec[i], starts'[i] = starts[i] PROVE Recorded(i)' /\ Claimed(i)'
  BY <1>1, <1>2, <1>8, StillRecorded, StillClaimed DEF IInv
<1>9. CASE new.count = old.count
  <2>1. RefusedClaim(old, new)
    BY <1>4, <1>5, <1>9 DEF MadeClaim, JobRecord
  <2>2. Settle(j, FALSE) /\ chain' = Tail(chain) /\ UNCHANGED starts
    BY <1>1, <1>2, <1>9 DEF ClaimWritten, old, new
  <2>3. exec' \in [Job -> ExecState] /\ \A i \in Job : exec'[i] = IF i = j THEN Idle ELSE exec[i]
    BY <1>2, <1>5, <2>2, Idleness DEF Settle
  <2>4. ChainSound' /\ chain' \in Seq(Entry)
    BY <1>6, <2>2, <2>3 DEF ChainSound
  <2>5. TypeOK'
    BY <1>1, <1>2, <2>2, <2>3, <2>4 DEF IInv, TypeOK
  <2>6. Recorded(j)'
    BY <1>2, <1>4, <1>5, <2>1, <2>2, SameSlots DEF RefusedClaim, old
  <2>7. Claimed(j)'
    <3>1. \A k \in RunningIn(new.runs) : k \in RunningIn(old.runs) /\ new.runs[k].id = old.runs[k].id
      BY <2>1 DEF RefusedClaim, RunningIn
    <3>2. \A k \in RunningIn(old.runs) : <<j, old.runs[k].id>> \in unclosed
      BY <1>2, <1>3, <1>5 DEF Claimed, old
    <3> QED
      BY <1>1, <1>2, <2>3, <3>1, <3>2, Idleness DEF Claimed
  <2> QED
    BY <1>2, <1>7, <1>8, <2>2, <2>3, <2>4, <2>5, <2>6, <2>7 DEF IInv
<1>10. CASE new.count # old.count
  <2>1. MadeClaim(old, new, slot)
    BY <1>4, <1>10 DEF RefusedClaim
  <2>2. /\ 1 \in RunningIn(new.runs) /\ new.runs[1].id = new.count /\ new.count \in Nat
    <3>1. 1 \in RunningIn(new.runs) /\ new.runs # <<>>
      BY <1>5, <2>1, NoneRunning DEF MadeClaim
    <3> QED
      BY <1>5, <3>1 DEF Sound, JobRecord
  <2>3. \A t \in 0..MaxMinute : starts[j][t] > 0 =>
          /\ new.lastSlot # None /\ t <= new.lastSlot
          /\ slot # None => t # slot
    <3>1. SUFFICES ASSUME NEW t \in 0..MaxMinute, starts[j][t] > 0
                   PROVE  new.lastSlot # None /\ t <= new.lastSlot /\ (slot # None => t # slot)
      OBVIOUS
    <3>2. old.lastSlot # None /\ t <= old.lastSlot
      BY <1>4, <1>5, <3>1 DEF Recorded, old
    <3>3. CASE slot = None
      BY <2>1, <3>2, <3>3 DEF MadeClaim
    <3>4. CASE slot # None
      <4>1. old.lastSlot <= slot /\ old.lastSlot # slot /\ new.lastSlot = slot
        BY <1>3, <1>5, <2>1, <3>2, <3>4 DEF Claimed, MadeClaim, old, slot
      <4>2. slot \in Nat /\ old.lastSlot \in Nat /\ t \in Nat
        BY <1>5, <3>2, <3>4, Constants DEF JobRecord
      <4> QED
        BY <3>2, <3>4, <4>1, <4>2, Constants
    <3> QED
      BY <3>3, <3>4
  <2>4. CASE life = "stopping"
    <3> DEFINE f == Of("finish", j)
    <3>1. /\ exec' = [exec EXCEPT ![j].pc = "finish", ![j].run = new.count, ![j].status = "cancelled"]
          /\ chain' = Append(Tail(chain), f) /\ UNCHANGED <<tick, starts>>
      BY <1>1, <1>2, <1>10, <2>4 DEF ClaimWritten, old, new
    <3>2. /\ exec' \in [Job -> ExecState] /\ \A i \in Job : i # j => exec'[i] = exec[i]
          /\ exec'[j].pc = "finish" /\ exec'[j].run = new.count /\ exec'[j].status = "cancelled"
      BY <1>2, <1>5, <2>2, <3>1 DEF ExecState
    <3>3. f \in Entry /\ f.kind = "finish" /\ f.job = j /\ f.kind \notin EditKind /\ f.kind \in StepKind
      BY <1>2, StepEntries DEF StepKind
    <3> HIDE DEF f
    <3>4. /\ Tail(chain) \in Seq(Entry) /\ NoClash(Tail(chain))
          /\ \A n \in ToSet(Tail(chain)) : n \in Entry /\ ~Clash(m, n) /\ Waits(n)'
      BY <1>6, <3>2
    <3>5. \A n \in ToSet(Tail(chain)) : ~Clash(n, f)
      BY <1>0, <1>3, <3>3, <3>4 DEF Clash
    <3>6. chain' \in Seq(Entry) /\ NoClash(chain') /\ ToSet(chain') = ToSet(Tail(chain)) \cup {f}
      BY <3>1, <3>3, <3>4, <3>5, Enqueued
    <3>7. Waits(f)'
      BY <3>2, <3>3 DEF Waits
    <3>8. ChainSound'
      BY <3>4, <3>6, <3>7 DEF ChainSound
    <3>9. TypeOK'
      BY <1>1, <1>2, <3>1, <3>2, <3>6 DEF IInv, TypeOK
    <3>10. Recorded(j)'
      BY <1>2, <1>4, <1>5, <2>3, <3>1 DEF Recorded
    <3>11. Claimed(j)'
      BY <1>2, <1>4, <2>2, <3>2, Constants DEF Claimed
    <3> QED
      BY <1>2, <1>7, <1>8, <3>1, <3>2, <3>8, <3>9, <3>10, <3>11 DEF IInv
  <2>5. CASE life # "stopping"
    <3>1. /\ exec' = [exec EXCEPT ![j].pc = "run", ![j].run = new.count]
          /\ CountStart(j) /\ chain' = Tail(chain)
      BY <1>1, <1>2, <1>10, <2>5 DEF ClaimWritten, old, new
    <3>2. /\ exec' \in [Job -> ExecState] /\ \A i \in Job : i # j => exec'[i] = exec[i]
          /\ exec'[j].pc = "run" /\ exec'[j].run = new.count
      BY <1>2, <1>5, <2>2, <3>1 DEF ExecState
    <3>3. ChainSound' /\ chain' \in Seq(Entry)
      BY <1>6, <3>1, <3>2 DEF ChainSound
    <3>4. /\ starts' \in [Job -> [0..MaxMinute -> Nat]] /\ \A i \in Job : i # j => starts'[i] = starts[i]
          /\ \A t \in 0..MaxMinute : starts'[j][t] = IF t = slot THEN starts[j][t] + 1 ELSE starts[j][t]
      <4>1. starts \in [Job -> [0..MaxMinute -> Nat]]
        BY DEF IInv, TypeOK
      <4>2. CASE slot = None
        <5>1. starts' = starts
          BY <3>1, <4>2 DEF CountStart, slot
        <5>2. \A t \in 0..MaxMinute : t # slot
          BY <4>2, Constants
        <5> QED
          BY <4>1, <5>1, <5>2
      <4>3. CASE slot # None
        <5>1. starts' = [starts EXCEPT ![j][slot] = @ + 1] /\ slot \in 0..MaxMinute
          BY <1>5, <3>1, <4>3 DEF CountStart, slot
        <5>2. starts[j] \in [0..MaxMinute -> Nat] /\ starts[j][slot] + 1 \in Nat
          <6>1. starts[j] \in [0..MaxMinute -> Nat]
            BY <4>1
          <6>2. starts[j][slot] \in Nat
            BY <5>1, <6>1
          <6> QED
            BY <6>1, <6>2
        <5>3. starts' = [starts EXCEPT ![j] = [starts[j] EXCEPT ![slot] = starts[j][slot] + 1]]
          BY <5>1
        <5>4. /\ [starts[j] EXCEPT ![slot] = starts[j][slot] + 1] \in [0..MaxMinute -> Nat]
              /\ starts'[j] = [starts[j] EXCEPT ![slot] = starts[j][slot] + 1]
          BY <4>1, <5>1, <5>2, <5>3
        <5> QED
          BY <4>1, <5>2, <5>3, <5>4
      <4> QED
        BY <4>2, <4>3
    <3>5. TypeOK'
      BY <1>1, <1>2, <3>2, <3>3, <3>4 DEF IInv, TypeOK
    <3>6. Recorded(j)'
      <4>1. ASSUME NEW t \in 0..MaxMinute
            PROVE  /\ starts'[j][t] <= 1
                   /\ starts'[j][t] > 0 => new.lastSlot # None /\ t <= new.lastSlot
        <5>1. starts[j][t] \in Nat /\ starts[j][t] <= 1 /\ t \in Nat
          <6>1. starts \in [Job -> [0..MaxMinute -> Nat]]
            BY DEF IInv, TypeOK
          <6>2. starts[j] \in [0..MaxMinute -> Nat] /\ MaxMinute \in Nat
            BY <6>1, Constants
          <6>3. starts[j][t] <= 1
            BY <1>5 DEF Recorded
          <6> QED
            BY <6>2, <6>3
        <5>2. CASE t = slot
          <6>1. slot # None /\ new.lastSlot = t
            BY <2>1, <5>1, <5>2, Constants DEF MadeClaim
          <6>2. ~(starts[j][t] > 0)
            BY <2>3, <5>2, <6>1
          <6> QED
            BY <3>4, <5>1, <5>2, <6>1, <6>2
        <5>3. CASE t # slot
          BY <2>3, <3>4, <5>1, <5>3
        <5> QED
          BY <5>2, <5>3
      <4> QED
        BY <1>2, <1>4, <4>1 DEF Recorded
    <3>7. Claimed(j)'
      BY <1>2, <1>4, <2>2, <3>2 DEF Claimed
    <3> QED
      BY <1>2, <1>7, <1>8, <3>2, <3>3, <3>4, <3>5, <3>6, <3>7 DEF IInv
  <2> QED
    BY <2>4, <2>5
<1> QED
  BY <1>9, <1>10

(* So every write keeps the invariant. *)
LEMMA WriteKeeps == ASSUME IInv, Write PROVE IInv'
<1>1. Head(chain).kind \in EditKind \cup StepKind
  BY Written
<1> QED
  BY <1>1, EditWritten, FinishWritten, BeginWritten DEF StepKind

-----------------------------------------------------------------------------
(* The steps of executions and clients. *)

(* A callback that answered waits for its run to be closed. *)
LEMMA RunEndsKeeps == ASSUME IInv, NEW j \in Job, RunEnds(j) PROVE IInv'
<1> DEFINE f == Of("finish", j)
<1>1. PICK status \in Outcome : exec' = [exec EXCEPT ![j].pc = "finish", ![j].status = status]
  BY DEF RunEnds
<1>2. /\ exec[j].pc = "run" /\ chain' = Append(chain, f)
      /\ UNCHANGED <<now, mem, disk, previous, tick, life, spent, starts, unclosed>>
  BY DEF RunEnds
<1>3. status \in {"success", "error", "cancelled"} /\ exec \in [Job -> ExecState]
  BY Constants DEF IInv, TypeOK
<1>4. /\ exec' \in [Job -> ExecState] /\ \A i \in Job : i # j => exec'[i] = exec[i]
      /\ exec'[j].pc = "finish" /\ exec'[j].status = status /\ exec'[j].run = exec[j].run
      /\ \A i \in Job : exec'[i].slot = exec[i].slot
  BY <1>1, <1>3 DEF ExecState
<1>5. f \in Entry /\ f.kind = "finish" /\ f.job = j /\ f.kind \notin EditKind /\ f.kind \in StepKind
  BY StepEntries DEF StepKind
<1> HIDE DEF f
<1>6. /\ chain \in Seq(Entry) /\ NoClash(chain)
      /\ \A m \in ToSet(chain) : m \in Entry /\ m.job \in Job /\ m.kind \in EditKind \cup StepKind /\ Waits(m)
  BY InChain DEF IInv, TypeOK, ChainSound
<1>7. \A m \in ToSet(chain) : m.kind \in StepKind => m.job # j
  BY <1>2, <1>6 DEF Waits, StepKind
<1>8. \A m \in ToSet(chain) : ~Clash(m, f)
  BY <1>5, <1>7 DEF Clash
<1>9. /\ chain' \in Seq(Entry) /\ NoClash(chain') /\ ToSet(chain') = ToSet(chain) \cup {f}
      /\ chain # <<>> => chain' # <<>> /\ Head(chain') = Head(chain)
  BY <1>2, <1>5, <1>6, <1>8, Enqueued
<1>10. \A m \in ToSet(chain) : Waits(m)'
  BY <1>2, <1>4, <1>6, <1>7, StillWaits
<1>11. Waits(f)'
  BY <1>4, <1>5 DEF Waits
<1>12. ChainSound'
  BY <1>9, <1>10, <1>11 DEF ChainSound
<1>13. TypeOK'
  BY <1>2, <1>4, <1>9 DEF IInv, TypeOK
<1>14. \A i \in Job : Recorded(i)'
  BY <1>2, StillRecorded DEF IInv
<1>15. \A i \in Job : i # j => Claimed(i)'
  BY <1>2, <1>4, StillClaimed DEF IInv
<1>16. Claimed(j)'
  BY <1>2, <1>3, <1>4 DEF IInv, Claimed
<1>17. MemoryAndFile'
  <2>1. previous # None => chain # <<>> /\ Head(chain).job \in Job
    BY First DEF IInv, MemoryAndFile
  <2> QED
    BY <1>2, <1>4, <1>9, <2>1 DEF IInv, MemoryAndFile
<1>18. Ended'
  BY <1>2 DEF IInv, Ended
<1> QED
  BY <1>2, <1>12, <1>13, <1>14, <1>15, <1>16, <1>17, <1>18 DEF IInv

(* Two chains none of whose mutations clash make one. *)
LEMMA Joined ==
  ASSUME NEW c \in Seq(Entry), NoClash(c), NEW d \in Seq(Entry), NoClash(d),
         \A m \in ToSet(c), n \in ToSet(d) : ~Clash(m, n)
  PROVE  /\ c \o d \in Seq(Entry) /\ NoClash(c \o d)
         /\ ToSet(c \o d) = ToSet(c) \cup ToSet(d)
         /\ c # <<>> => c \o d # <<>> /\ Head(c \o d) = Head(c)
<1> DEFINE e == c \o d
<1>1. /\ Len(c) \in Nat /\ DOMAIN c = 1..Len(c)
      /\ Len(d) \in Nat /\ DOMAIN d = 1..Len(d)
  BY LenProperties
<1>2. /\ e \in Seq(Entry) /\ Len(e) = Len(c) + Len(d)
      /\ \A i \in 1..Len(c) + Len(d) : e[i] = IF i <= Len(c) THEN c[i] ELSE d[i - Len(c)]
  BY ConcatProperties
<1>3. DOMAIN e = 1..Len(c) + Len(d)
  BY <1>2, LenProperties
<1> HIDE DEF e
<1>4. /\ \A i \in 1..Len(c) : e[i] = c[i] /\ c[i] \in ToSet(c)
      /\ \A i \in Len(c) + 1..Len(c) + Len(d) :
            e[i] = d[i - Len(c)] /\ i - Len(c) \in 1..Len(d) /\ d[i - Len(c)] \in ToSet(d)
      /\ \A i \in 1..Len(d) : i + Len(c) \in 1..Len(c) + Len(d) /\ d[i] = e[i + Len(c)]
  <2>1. \A i \in 1..Len(c) : e[i] = c[i] /\ c[i] \in ToSet(c)
    BY <1>1, <1>2 DEF ToSet
  <2>2. \A i \in 1..Len(d) : d[i] \in ToSet(d)
    BY <1>1 DEF ToSet
  <2>3. \A i \in Len(c) + 1..Len(c) + Len(d) : e[i] = d[i - Len(c)] /\ i - Len(c) \in 1..Len(d)
    BY <1>1, <1>2
  <2>4. \A i \in 1..Len(d) : i + Len(c) \in 1..Len(c) + Len(d) /\ d[i] = e[i + Len(c)]
    BY <1>1, <1>2
  <2> QED
    BY <2>1, <2>2, <2>3, <2>4
<1>5. NoClash(e)
  <2>1. ASSUME NEW i \in 1..Len(c) + Len(d), NEW k \in 1..Len(c) + Len(d), i # k PROVE ~Clash(e[i], e[k])
    <3>1. CASE i \in 1..Len(c) /\ k \in 1..Len(c)
      BY <1>4, <2>1, <3>1 DEF NoClash
    <3>2. CASE i \in 1..Len(c) /\ k \in Len(c) + 1..Len(c) + Len(d)
      BY <1>4, <3>2
    <3>3. CASE k \in 1..Len(c) /\ i \in Len(c) + 1..Len(c) + Len(d)
      BY <1>4, <3>3, ClashSymmetric
    <3>4. CASE i \in Len(c) + 1..Len(c) + Len(d) /\ k \in Len(c) + 1..Len(c) + Len(d)
      <4>1. i - Len(c) # k - Len(c)
        BY <1>1, <2>1, <3>4
      <4> QED
        BY <1>4, <3>4, <4>1 DEF NoClash
    <3> QED
      BY <1>1, <3>1, <3>2, <3>3, <3>4
  <2> QED
    BY <1>2, <2>1 DEF NoClash
<1>6. ToSet(e) = ToSet(c) \cup ToSet(d)
  <2>1. \A x \in ToSet(e) : x \in ToSet(c) \cup ToSet(d)
    <3>1. ASSUME NEW i \in 1..Len(c) + Len(d) PROVE e[i] \in ToSet(c) \cup ToSet(d)
      <4>1. CASE i \in 1..Len(c)
        BY <1>4, <4>1
      <4>2. CASE i \in Len(c) + 1..Len(c) + Len(d)
        BY <1>4, <4>2
      <4> QED
        BY <1>1, <4>1, <4>2
    <3> QED
      BY <1>3, <3>1 DEF ToSet
  <2>2. \A x \in ToSet(c) : x \in ToSet(e)
    BY <1>1, <1>3, <1>4 DEF ToSet
  <2>3. \A x \in ToSet(d) : x \in ToSet(e)
    BY <1>1, <1>3, <1>4 DEF ToSet
  <2> QED
    BY <2>1, <2>2, <2>3
<1>7. c # <<>> => e # <<>> /\ Head(e) = Head(c)
  <2>1. SUFFICES ASSUME c # <<>> PROVE e # <<>> /\ Head(e) = Head(c)
    OBVIOUS
  <2>2. Len(c) >= 1
    BY <2>1, EmptySeq
  <2>3. Len(e) # 0 /\ e[1] = c[1]
    BY <1>1, <1>2, <1>4, <2>2
  <2> QED
    BY <1>2, <2>3, EmptySeq
<1> QED
  BY <1>2, <1>5, <1>6, <1>7 DEF e

(* tick() and trigger() begin executions of idle jobs. *)
LEMMA BeginKeeps ==
  ASSUME IInv, NEW jobs \in SUBSET Job, NEW slot \in {now, None}, Begin(jobs, slot),
         \A j \in jobs : exec[j].pc = "idle", life = "up",
         UNCHANGED <<now, mem, disk, previous, life, starts, unclosed>>
  PROVE  IInv'
<1> DEFINE n == Cardinality(jobs)
           s == SetToSeq(jobs)
           d == [i \in 1..n |-> Of("begin", s[i])]
           new == [Idle EXCEPT !.pc = "begin", !.slot = slot]
<1>1. n \in Nat /\ s \in [1..n -> jobs] /\ \A i, k \in 1..n : s[i] = s[k] => i = k
  <2>1. IsFiniteSet(jobs)
    BY Constants, FS_Subset
  <2> QED
    BY <2>1, EachOnce
<1>2. chain' = chain \o d /\ exec' = [j \in Job |-> IF j \in jobs THEN new ELSE exec[j]]
  BY DEF Begin
<1>3. slot \in 0..MaxMinute \cup {None} /\ now \in Nat
  BY Constants DEF IInv, TypeOK
<1>4. new \in ExecState /\ new.pc = "begin" /\ new.slot = slot
  BY <1>3 DEF Idle, ExecState
<1> HIDE DEF n, s, new
<1>5. /\ exec' \in [Job -> ExecState]
      /\ \A j \in jobs : exec'[j] = new
      /\ \A j \in Job : j \notin jobs => exec'[j] = exec[j]
  BY <1>2, <1>4 DEF IInv, TypeOK
<1>6. \A j \in jobs : LET m == Of("begin", j)
                      IN  m \in Entry /\ m.kind = "begin" /\ m.job = j /\ m.kind \notin EditKind /\ m.kind \in StepKind
  BY StepEntries DEF StepKind
<1>7. /\ d \in Seq(Entry) /\ Len(d) = n /\ \A i \in 1..n : d[i] = Of("begin", s[i]) /\ s[i] \in jobs
  <2>1. \A i \in 1..n : s[i] \in jobs /\ Of("begin", s[i]) \in Entry
    BY <1>1, <1>6
  <2>2. d \in [1..n -> Entry]
    BY <2>1
  <2> QED
    BY <1>1, <2>1, <2>2
<1>8. DOMAIN d = 1..n
  OBVIOUS
<1> HIDE DEF d
<1>9. NoClash(d)
  <2>1. ASSUME NEW i \in 1..n, NEW k \in 1..n, i # k PROVE ~Clash(d[i], d[k])
    BY <1>1, <1>6, <1>7, <2>1 DEF Clash
  <2> QED
    BY <1>7, <2>1 DEF NoClash
<1>10. \A m \in ToSet(d) : \E j \in jobs : m = Of("begin", j)
  BY <1>7, <1>8 DEF ToSet
<1>11. /\ chain \in Seq(Entry) /\ NoClash(chain)
       /\ \A m \in ToSet(chain) : m \in Entry /\ m.job \in Job /\ m.kind \in EditKind \cup StepKind /\ Waits(m)
  BY InChain DEF IInv, TypeOK, ChainSound
<1>12. \A m \in ToSet(chain) : m.kind \in StepKind => m.job \notin jobs
  BY <1>11 DEF Waits, StepKind
<1>13. \A m \in ToSet(chain), k \in ToSet(d) : ~Clash(m, k)
  BY <1>6, <1>10, <1>12 DEF Clash
<1>14. /\ chain' \in Seq(Entry) /\ NoClash(chain') /\ ToSet(chain') = ToSet(chain) \cup ToSet(d)
       /\ chain # <<>> => chain' # <<>> /\ Head(chain') = Head(chain)
  BY <1>2, <1>7, <1>9, <1>11, <1>13, Joined
<1>15. \A m \in ToSet(chain) : Waits(m)'
  BY <1>5, <1>11, <1>12, StillWaits
<1>16. \A j \in jobs : Waits(Of("begin", j))'
  BY <1>4, <1>5, <1>6 DEF Waits
<1>17. ChainSound'
  BY <1>10, <1>14, <1>15, <1>16 DEF ChainSound
<1>18. TypeOK'
  BY <1>5, <1>14 DEF IInv, TypeOK
<1>19. \A j \in Job : Recorded(j)'
  BY StillRecorded DEF IInv
<1>20. ASSUME NEW j \in Job PROVE Claimed(j)'
  <2>1. CASE j \in jobs
    <3>1. exec'[j].pc = "begin" /\ exec'[j].slot = slot
      BY <1>4, <1>5, <2>1
    <3>2. Claimed(j) /\ Sound(disk[j], now) /\ exec[j].pc = "idle"
      BY <2>1 DEF IInv
    <3>3. slot # None => slot <= now /\ (disk[j].lastSlot = None \/ disk[j].lastSlot <= slot)
      BY <1>3, <3>2 DEF Sound
    <3> QED
      BY <3>1, <3>2, <3>3 DEF Claimed
  <2>2. CASE j \notin jobs
    BY <1>5, <2>2, StillClaimed DEF IInv
  <2> QED
    BY <2>1, <2>2
<1>21. MemoryAndFile'
  <2>1. CASE previous = None
    BY <2>1 DEF IInv, MemoryAndFile
  <2>2. CASE previous # None
    <3> DEFINE m == Head(chain)
    <3>1. /\ chain # <<>> /\ m.job \in Job /\ m \in ToSet(chain)
          /\ Pending(m, disk[m.job], mem[m.job], exec[m.job].slot)
      BY <2>2, First DEF IInv, MemoryAndFile
    <3> HIDE DEF m
    <3>2. Pending(m, disk[m.job], mem[m.job], exec'[m.job].slot)
      <4>1. CASE m.kind \in StepKind
        <5>1. exec'[m.job] = exec[m.job]
          BY <1>5, <1>12, <3>1, <4>1
        <5> QED
          BY <3>1, <5>1
      <4>2. CASE m.kind \notin StepKind
        BY <3>1, <4>2 DEF Pending, StepKind
      <4> QED
        BY <4>1, <4>2
    <3> QED
      BY <1>14, <2>2, <3>1, <3>2 DEF IInv, MemoryAndFile, m
  <2> QED
    BY <2>1, <2>2
<1>22. Ended'
  BY DEF Ended
<1> QED
  BY <1>17, <1>18, <1>19, <1>20, <1>21, <1>22 DEF IInv

(* tick() takes the due jobs that are not in flight. *)
LEMMA TickKeeps == ASSUME IInv, Tick PROVE IInv'
<1> DEFINE jobs == {j \in Job : Due(j) /\ exec[j].pc = "idle"}
<1>1. /\ life = "up" /\ Begin(jobs, now) /\ UNCHANGED <<now, mem, disk, previous, life, spent, starts, unclosed>>
  BY DEF Tick
<1>2. jobs \in SUBSET Job /\ \A j \in jobs : exec[j].pc = "idle"
  OBVIOUS
<1> HIDE DEF jobs
<1> QED
  BY <1>1, <1>2, BeginKeeps

(* trigger() takes a job that is not in flight. *)
LEMMA TriggerKeeps == ASSUME IInv, NEW j \in Job, Trigger(j) PROVE IInv'
<1>1. /\ life = "up" /\ exec[j].pc = "idle" /\ Begin({j}, None)
      /\ UNCHANGED <<now, mem, disk, previous, life, starts, unclosed>>
  BY DEF Trigger
<1> QED
  BY <1>1, BeginKeeps

(* A request joins a chain without one. *)
LEMMA EditKeeps == ASSUME IInv, NEW m \in Edits, Edit(m) PROVE IInv'
<1>1. /\ life = "up" /\ ~Editing /\ (m.kind = "create" <=> mem[m.job].state = "new")
      /\ chain' = Append(chain, m)
      /\ UNCHANGED <<now, mem, disk, previous, exec, tick, life, starts, unclosed>>
  BY DEF Edit
<1>2. m \in Entry /\ m.kind \in EditKind /\ m.kind \notin StepKind /\ m.job \in Job
  BY EditEntries DEF Entry, EditKind, StepKind
<1>3. /\ chain \in Seq(Entry) /\ NoClash(chain)
      /\ \A k \in ToSet(chain) : k \in Entry /\ k.job \in Job /\ k.kind \in StepKind /\ Waits(k)
  BY <1>1, InChain DEF IInv, TypeOK, ChainSound
<1>4. \A k \in ToSet(chain) : ~Clash(k, m)
  BY <1>2, <1>3 DEF Clash, EditKind, StepKind
<1>5. /\ chain' \in Seq(Entry) /\ NoClash(chain') /\ ToSet(chain') = ToSet(chain) \cup {m}
      /\ chain # <<>> => chain' # <<>> /\ Head(chain') = Head(chain)
  BY <1>1, <1>2, <1>3, <1>4, Enqueued
<1>6. \A k \in ToSet(chain) : Waits(k)'
  BY <1>1, <1>3, StillWaits
<1>7. m.kind = "create" => disk[m.job].state = "new"
  <2>1. SUFFICES ASSUME mem[m.job].state = "new" PROVE disk[m.job].state = "new"
    BY <1>1
  <2>2. CASE previous = None
    BY <1>1, <2>1, <2>2 DEF IInv, MemoryAndFile
  <2>3. CASE previous # None
    <3>1. /\ chain # <<>> /\ \A j \in Job : j # Head(chain).job => mem[j] = disk[j]
          /\ Pending(Head(chain), disk[Head(chain).job], mem[Head(chain).job], exec[Head(chain).job].slot)
      BY <2>3 DEF IInv, MemoryAndFile
    <3>2. Head(chain).kind \in StepKind
      BY <1>3, <3>1, First
    <3>3. mem[Head(chain).job].state = "live"
      BY <3>1, <3>2 DEF Pending, StepKind
    <3> QED
      BY <1>2, <2>1, <3>1, <3>3
  <2> QED
    BY <2>2, <2>3
<1>8. Waits(m)'
  BY <1>1, <1>2, <1>7 DEF Waits
<1>9. ChainSound'
  BY <1>5, <1>6, <1>8 DEF ChainSound
<1>10. TypeOK'
  BY <1>1, <1>5 DEF IInv, TypeOK
<1>11. \A j \in Job : Recorded(j)' /\ Claimed(j)'
  BY <1>1, StillRecorded, StillClaimed DEF IInv
<1>12. MemoryAndFile' /\ Ended'
  BY <1>1, <1>5 DEF IInv, MemoryAndFile, Ended
<1> QED
  BY <1>1, <1>9, <1>10, <1>11, <1>12 DEF IInv

(* Stuttering changes nothing. *)
LEMMA StutterKeeps == ASSUME IInv, UNCHANGED vars PROVE IInv'
BY DEF vars, IInv, TypeOK, Recorded, Claimed, ChainSound, Waits, MemoryAndFile, Ended

-----------------------------------------------------------------------------
(* Results. *)

(* So the invariant always holds. *)
LEMMA Invariance == Spec => []IInv
<1>1. Init => IInv
  BY InitIInv
<1>2. IInv /\ [Next]_vars => IInv'
  <2>1. SUFFICES ASSUME IInv, [Next]_vars PROVE IInv'
    OBVIOUS
  <2> QED
    BY <2>1, ClockTickKeeps, TickKeeps, MutateKeeps, ThrowKeeps, WriteKeeps, WriteFailsKeeps, StopKeeps,
       StopResolvesKeeps, ExitKeeps, RestartKeeps, RunEndsKeeps, TriggerKeeps, EditKeeps, StutterKeeps
       DEF Next, Chain
<1> QED
  BY <1>1, <1>2, PTL DEF Spec

(* The registry, the chain and the executions are always well formed: what  *)
(* cron-store.js and cron-scheduler.js keep has the shape they rely on.     *)
THEOREM CronTypeCorrect == Spec => []TypeOK
<1>1. IInv => TypeOK
  BY DEF IInv
<1> QED
  BY <1>1, Invariance, PTL

(* The callback of a job starts at most once for a slot (beginRun()), for   *)
(* any jobs, edits, failed writes, shutdowns and restarts.                  *)
THEOREM SlotStartsOnce == Spec => []StartsOnce
<1>1. IInv => StartsOnce
  BY DEF IInv, Recorded, StartsOnce
<1> QED
  BY <1>1, Invariance, PTL

(* A claim is in the file while the callback works, there is never a second *)
(* one, and none is leaked but by a failed write of finishRun().            *)
THEOREM ClaimsHeld == Spec => []ClaimsKept
<1>1. ASSUME IInv, NEW j \in Job
      PROVE  /\ exec[j].pc = "run" /\ disk[j].state = "live" =>
                    \E i \in RunningIn(disk[j].runs) : disk[j].runs[i].id = exec[j].run
             /\ Cardinality(RunningIn(mem[j].runs)) <= 1
             /\ \A i \in RunningIn(mem[j].runs) :
                    <<j, mem[j].runs[i].id>> \in unclosed \/ exec[j].pc # "idle"
  <2>1. Claimed(j) /\ Sound(mem[j], now) /\ Sound(disk[j], now)
    BY <1>1 DEF IInv
  <2>2. exec[j].pc = "run" /\ disk[j].state = "live" =>
            \E i \in RunningIn(disk[j].runs) : disk[j].runs[i].id = exec[j].run
    BY <2>1 DEF Claimed
  <2>3. Cardinality(RunningIn(mem[j].runs)) <= 1
    <3>1. IsFiniteSet({1}) /\ Cardinality({1}) = 1
      BY FS_Singleton
    <3>2. RunningIn(mem[j].runs) \in SUBSET {1}
      BY <2>1 DEF Sound
    <3> QED
      BY <3>1, <3>2, FS_Subset
  <2>4. ASSUME exec[j].pc = "idle", NEW i \in RunningIn(mem[j].runs) PROVE <<j, mem[j].runs[i].id>> \in unclosed
    <3>1. life # "down"
      BY <1>1, <2>4, NoJobTyped, NoneRunning DEF IInv, MemoryAndFile
    <3>2. CASE mem[j] = disk[j]
      BY <2>1, <2>4, <3>1, <3>2 DEF Claimed
    <3>3. CASE mem[j] # disk[j]
      <4> DEFINE m == Head(chain)
      <4>1. /\ chain # <<>> /\ m.job = j /\ Pending(m, disk[j], mem[j], exec[j].slot)
        BY <1>1, <3>1, <3>3 DEF IInv, MemoryAndFile
      <4>2. m.kind \notin StepKind
        BY <1>1, <2>4, <4>1, First DEF Waits, StepKind
      <4> HIDE DEF m
      <4>3. mem[j].runs = disk[j].runs \/ mem[j].runs = <<>>
        BY <4>1, <4>2, NoJobTyped DEF Pending, StepKind
      <4> QED
        BY <2>1, <2>4, <3>1, <4>3, NoneRunning DEF Claimed
    <3> QED
      BY <3>2, <3>3
  <2> QED
    BY <2>2, <2>3, <2>4
<1>2. IInv => ClaimsKept
  BY <1>1 DEF ClaimsKept
<1> QED
  BY <1>2, Invariance, PTL

(* stop() leaves no execution at work and no claim open in the file, but    *)
(* one whose closing write failed.                                          *)
THEOREM StopLeavesNothing == Spec => []StopClosesRuns
<1>1. IInv => StopClosesRuns
  BY DEF IInv, Ended, Claimed, StopClosesRuns
<1> QED
  BY <1>1, Invariance, PTL

(* Whatever is edited, an enabled job keeps a next run, at the first minute *)
(* its expression matches (nextCronRun()).                                  *)
THEOREM NothingSkipped == Spec => []NoSlotSkipped
<1>1. IInv => NoSlotSkipped
  BY DEF IInv, Sound, OnTime, NoSlotSkipped, Live
<1> QED
  BY <1>1, Invariance, PTL
=============================================================================
