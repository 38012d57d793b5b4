---------------------------- MODULE TeamRunsProofs ----------------------------
(* The slots, the results and the logs of a team's runs, for any number of  *)
(* runs, any task graphs and any limit.                                     *)
EXTENDS TeamRuns, FiniteSetTheorems, SequenceTheorems, TLAPS

-----------------------------------------------------------------------------
(* The record of a run *)

Status == {"pending", "queued", "running", "succeeded", "failed", "blocked", "aborted"}

RunPc == {"idle", "running", "returned", "rejected", "lost"}

(* The records of a run of n tasks; one that has not begun has no results. *)
RunOf(n) ==
    [kind : {"tool", "department"}, graph : [1..n -> SUBSET (1..n)], pc : RunPc, aborted : BOOLEAN,
     task : {<<>>} \cup [1..n -> Status], ready : Seq(1..n)]

(* Why a task has its status: what the dependants of a task may assume of   *)
(* it, and what it makes impossible.                                        *)
Justified(graph, task, aborted) ==
    \A t \in DOMAIN graph :
        /\ task[t] \in {"queued", "running", "succeeded", "failed"} => \A d \in graph[t] : task[d] = "succeeded"
        /\ task[t] = "blocked" => \E d \in graph[t] : task[d] \in {"failed", "blocked"}
        /\ (\E d \in graph[t] : task[d] \in {"failed", "blocked"}) => task[t] \in {"blocked", "aborted"}
        /\ task[t] = "aborted" => aborted

(* The ready queue: each task once, still pending, with all it waits for. *)
Queue(graph, task, ready) ==
    /\ IsInjective(ready)
    /\ \A t \in ToSet(ready) : task[t] = "pending" /\ \A d \in graph[t] : task[d] = "succeeded"

Fit(n, r) ==
    /\ r \in RunOf(n)
    /\ r.pc \in {"idle", "rejected"} => r.task = <<>> /\ r.ready = <<>>
    /\ r.pc \in {"running", "returned"} =>
          /\ r.task \in [1..n -> Status]
          /\ Justified(r.graph, r.task, r.aborted)
          /\ Queue(r.graph, r.task, r.ready)
          /\ r.aborted => r.ready = <<>>
    /\ r.pc = "returned" => Ended(r)
    /\ r.pc = "lost" => r.task \in [1..n -> Status]

-----------------------------------------------------------------------------
(* The log of a run *)

EventType == {"team.start", "subagent.start", "subagent.complete", "subagent.failed", "team.complete"}

Event == [type : EventType, task : Nat, status : Status \cup {"completed", "interrupted"}]

Marks(rows, types, t) == {i \in DOMAIN rows : rows[i].type \in types /\ rows[i].task = t}

Begins(rows, t) == Marks(rows, {"subagent.start"}, t)
Ends(rows, t) == Marks(rows, {"subagent.complete", "subagent.failed"}, t)

Reported(rows, t, status) ==
    /\ \E i \in DOMAIN rows : Begins(rows, t) = {i}
    /\ \E j \in DOMAIN rows :
          /\ Ends(rows, t) = {j}
          /\ rows[j].status = status
          /\ status = "succeeded" <=> rows[j].type = "subagent.complete"

(* What the log of a run tells of task t. *)
Account(rows, t, status) ==
    CASE status \in {"pending", "queued", "blocked"} -> Begins(rows, t) = {} /\ Ends(rows, t) = {}
      [] status = "running" -> (\E i \in DOMAIN rows : Begins(rows, t) = {i}) /\ Ends(rows, t) = {}
      [] status \in {"succeeded", "failed"} -> Reported(rows, t, status)
      [] status = "aborted" -> (Begins(rows, t) = {} /\ Ends(rows, t) = {}) \/ Reported(rows, t, status)

(* A task starts after what it depends on was reported complete. *)
Ordered(graph, rows) ==
    \A i \in DOMAIN rows : rows[i].type = "subagent.start" =>
        \A t \in DOMAIN graph : rows[i].task = t =>
            \A d \in graph[t] : \E j \in DOMAIN rows : j < i /\ rows[j].type = "subagent.complete" /\ rows[j].task = d

(* A row that ends a run is its last one. *)
ClosedOnce(rows) ==
    \A i \in DOMAIN rows : rows[i].type \in Terminal => i = Len(rows) /\ rows[i].task = 0

(* The log of a run that is over, unless its process died.                  *)
Sealed(rows) == rows # <<>> /\ Last(rows).type = "team.complete"

(* The log of a run under way, or whose process died. *)
Told(graph, task, rows) ==
    /\ rows # <<>>
    /\ \A i \in DOMAIN rows : rows[i].type \notin Terminal
    /\ \A t \in DOMAIN graph : Account(rows, t, task[t])

(* The log of a run that returned. *)
Matches(r, rows) ==
    /\ (Last(rows).status = "completed") = (In(r, {"succeeded"}) = Tasks(r) /\ ~r.aborted)
    /\ \A t \in Tasks(r) :
          /\ Begins(rows, t) = {} \/ \E i \in DOMAIN rows : Begins(rows, t) = {i}
          /\ Ends(rows, t) = {} \/ \E i \in DOMAIN rows : Ends(rows, t) = {i}
          /\ Ends(rows, t) = {} => Begins(rows, t) = {} /\ r.kind = "department" /\ r.aborted
          /\ \A i \in Ends(rows, t) :
                 rows[i].status = r.task[t] /\ (r.task[t] = "succeeded" <=> rows[i].type = "subagent.complete")

Chronicle(r, rows) ==
    /\ rows \in Seq(Event)
    /\ Ordered(r.graph, rows)
    /\ ClosedOnce(rows)
    /\ r.pc = "idle" => rows = <<>>
    /\ r.pc \in {"running", "lost"} => Told(r.graph, r.task, rows)
    /\ r.pc = "returned" => Sealed(rows) /\ Matches(r, rows)
    /\ r.pc = "rejected" => Sealed(rows) /\ \A t \in DOMAIN r.graph : Ends(rows, t) = {}

-----------------------------------------------------------------------------
(* The gate *)

SlotsOf(R) ==
    {w \in Call \X MaxTask : R[w[1]].kind = "tool" /\ R[w[1]].pc = "running" /\ w[2] \in In(R[w[1]], {"running"})}

WaitersOf(R) ==
    {w \in Call \X MaxTask : /\ R[w[1]].kind = "tool" /\ R[w[1]].pc = "running" /\ ~R[w[1]].aborted
                             /\ w[2] \in In(R[w[1]], {"queued"})}

Gated(R, g) ==
    /\ g \in [active : Nat, queue : Seq(Call \X MaxTask)]
    /\ IsFiniteSet(SlotsOf(R))
    /\ g.active = Cardinality(SlotsOf(R)) /\ g.active <= MaxParallel
    /\ IsInjective(g.queue) /\ ToSet(g.queue) = WaitersOf(R)
    /\ g.queue # <<>> => g.active = MaxParallel

-----------------------------------------------------------------------------
(* All of it *)

(* The runs are those of one setup. *)
Configured(R) ==
    /\ DOMAIN R = Call
    /\ \E setup \in Setup : \A c \in Call : R[c].kind = setup[c].kind /\ R[c].graph = setup[c].graph

(* The runs, the gate and the logs fit together. *)
Steady(R, g, L) ==
    /\ Configured(R)
    /\ \A c \in Call : \E n \in Nat : Fit(n, R[c])
    /\ \A c \in Call : Chronicle(R[c], L[c])
    /\ Gated(R, g)

Manifest ==
    [type : {"team.checkpoint", "team.interrupted"}, started : SUBSET Nat, completed : SUBSET Nat, failed : SUBSET Nat]

(* What a row of the recovery says of a run r whose file lacks some rows.   *)
TrueOf(r, rows, missing, m) ==
    /\ \A j \in DOMAIN rows \ missing : rows[j].type \notin Terminal
    /\ \A t \in DOMAIN r.graph :
          /\ t \in m.completed => t \in In(r, {"succeeded"})
          /\ t \in m.failed => t \notin In(r, {"succeeded"})
          /\ missing = {} =>
                /\ t \in In(r, {"succeeded"}) => t \in m.completed
                /\ t \in In(r, {"running"}) <=> t \in m.started \ (m.completed \cup m.failed)

(* All of its recovery. *)
File(r, rows, missing, q) ==
    \A i \in DOMAIN q : (q[i].type \in Terminal => i = Len(q)) /\ TrueOf(r, rows, missing, q[i])

(* The run and the file of c belong to an earlier process.                  *)
Past(c) ==
    /\ c \in Call /\ run[c].pc \notin {"idle", "running"}
    /\ File(run[c], log[c], lost[c], recovery[c])

(* A file whose recovery has not ended it. *)
Halfway(c) == c \in DOMAIN lost /\ recovery[c] # <<>> /\ Last(recovery[c]).type = "team.checkpoint"

(* A restart ends one file after the other, with no run under way. *)
Restarting ==
    /\ life \in {"up", "recovering"}
    /\ life = "recovering" => \A c \in Call : run[c].pc # "running"
    /\ DOMAIN recovery = Call /\ \A c \in Call : recovery[c] \in Seq(Manifest)
    /\ \A c \in DOMAIN lost : Past(c)
    /\ \A c \in Call : c \notin DOMAIN lost => recovery[c] = <<>>
    /\ sealing = {} \/ (life = "recovering" /\ \E c \in Call : sealing = {c} /\ Halfway(c))

IInv == DOMAIN log = Call /\ Steady(run, gate, log) /\ Restarting

-----------------------------------------------------------------------------
(* Sequences *)

(* A part of a sequence, from one place to another. *)
LEMMA Part ==
  ASSUME NEW S, NEW s \in Seq(S), NEW m \in Nat \ {0}, NEW n \in Int, n <= Len(s)
  PROVE  /\ SubSeq(s, m, n) \in Seq(S)
         /\ Len(SubSeq(s, m, n)) = IF m <= n THEN n - m + 1 ELSE 0
         /\ DOMAIN SubSeq(s, m, n) = 1..(n - m + 1)
         /\ \A i \in 1..(n - m + 1) : SubSeq(s, m, n)[i] = s[m + i - 1]
         /\ ToSet(SubSeq(s, m, n)) \subseteq ToSet(s)
<1> DEFINE p == SubSeq(s, m, n)
<1>1. Len(s) \in Nat /\ DOMAIN s = 1..Len(s) /\ \A i \in 1..Len(s) : s[i] \in S
  BY LenProperties, ElementOfSeq
<1>2. \A i \in m..n : s[i] \in S
  BY <1>1
<1>3. /\ p \in Seq(S) /\ Len(p) = IF m <= n THEN n - m + 1 ELSE 0
      /\ \A i \in 1..(n - m + 1) : p[i] = s[m + i - 1]
  BY <1>2, SubSeqProperties
<1>4. DOMAIN p = 1..Len(p)
  BY <1>3, LenProperties
<1>5. DOMAIN p = 1..(n - m + 1)
  BY <1>3, <1>4
<1>6. \A i \in 1..(n - m + 1) : m + i - 1 \in DOMAIN s
  BY <1>1
<1> HIDE DEF p
<1>7. ToSet(p) \subseteq ToSet(s)
  BY <1>3, <1>5, <1>6 DEF ToSet
<1> QED
  BY <1>3, <1>5, <1>7 DEF p

(* A sequence without repetition has as many elements as it is long. *)
LEMMA Counted ==
  ASSUME NEW S, NEW s \in Seq(S), IsInjective(s)
  PROVE  IsFiniteSet(ToSet(s)) /\ Cardinality(ToSet(s)) = Len(s)
<1>1. Len(s) \in Nat /\ DOMAIN s = 1..Len(s) /\ s \in [1..Len(s) -> S]
  BY LenProperties
<1>2. s \in [1..Len(s) -> ToSet(s)] /\ \A x \in ToSet(s) : \E i \in 1..Len(s) : s[i] = x
  BY <1>1 DEF ToSet
<1>3. s \in Bijection(1..Len(s), ToSet(s))
  BY <1>1, <1>2 DEF Bijection, Injection, Surjection, IsInjective
<1>4. ExistsBijection(1..Len(s), ToSet(s))
  BY <1>3 DEF ExistsBijection
<1>5. IsFiniteSet(1..Len(s)) /\ Cardinality(1..Len(s)) = Len(s)
  BY <1>1, FS_Interval
<1> QED
  BY <1>4, <1>5, FS_Bijection

(* One sequence after another. *)
LEMMA Chained ==
  ASSUME NEW S, NEW s \in Seq(S), NEW q \in Seq(S)
  PROVE  /\ s \o q \in Seq(S)
         /\ ToSet(s \o q) = ToSet(s) \cup ToSet(q)
         /\ IsInjective(s) /\ IsInjective(q) /\ ToSet(s) \cap ToSet(q) = {} => IsInjective(s \o q)
<1> DEFINE e == s \o q
<1>1. /\ Len(s) \in Nat /\ DOMAIN s = 1..Len(s)
      /\ Len(q) \in Nat /\ DOMAIN q = 1..Len(q)
  BY LenProperties
<1>2. /\ e \in Seq(S) /\ Len(e) = Len(s) + Len(q)
      /\ \A i \in 1..Len(s) + Len(q) : e[i] = IF i <= Len(s) THEN s[i] ELSE q[i - Len(s)]
  BY ConcatProperties
<1>3. DOMAIN e = 1..Len(s) + Len(q)
  BY <1>2, LenProperties
<1> HIDE DEF e
<1>4. /\ \A i \in 1..Len(s) : e[i] = s[i] /\ i \in DOMAIN e
      /\ \A i \in 1..Len(q) : e[Len(s) + i] = q[i] /\ Len(s) + i \in DOMAIN e
      /\ \A i \in DOMAIN e : i \in 1..Len(s) \/ (i - Len(s) \in 1..Len(q) /\ i > Len(s) /\ e[i] = q[i - Len(s)])
  BY <1>1, <1>2, <1>3
<1>5. ToSet(e) = ToSet(s) \cup ToSet(q)
  <2>1. \A x \in ToSet(s) \cup ToSet(q) : x \in ToSet(e)
    BY <1>1, <1>4 DEF ToSet
  <2>2. \A x \in ToSet(e) : x \in ToSet(s) \cup ToSet(q)
    BY <1>1, <1>4 DEF ToSet
  <2> QED
    BY <2>1, <2>2
<1>6. ASSUME IsInjective(s), IsInjective(q), ToSet(s) \cap ToSet(q) = {} PROVE IsInjective(e)
  <2> SUFFICES ASSUME NEW i \in DOMAIN e, NEW j \in DOMAIN e, e[i] = e[j] PROVE i = j
    BY DEF IsInjective
  <2>1. CASE i \in 1..Len(s) /\ j \in 1..Len(s)
    BY <1>1, <1>4, <1>6, <2>1 DEF IsInjective
  <2>2. CASE i \notin 1..Len(s) /\ j \notin 1..Len(s)
    <3>1. i - Len(s) \in DOMAIN q /\ j - Len(s) \in DOMAIN q /\ q[i - Len(s)] = q[j - Len(s)]
      BY <1>1, <1>4, <2>2
    <3>2. i - Len(s) = j - Len(s)
      BY <1>6, <3>1 DEF IsInjective
    <3> QED
      BY <1>1, <1>3, <3>2
  <2>3. CASE (i \in 1..Len(s)) # (j \in 1..Len(s))
    <3>1. e[i] \in ToSet(s) \cap ToSet(q)
      BY <1>1, <1>4, <2>3 DEF ToSet
    <3> QED
      BY <1>6, <3>1
  <2> QED
    BY <2>1, <2>2, <2>3
<1> QED
  BY <1>2, <1>5, <1>6 DEF e

(* The empty sequence. *)
LEMMA Nothing ==
  /\ \A S : <<>> \in Seq(S)
  /\ ToSet(<<>>) = {} /\ IsInjective(<<>>) /\ Len(<<>>) = 0
  /\ \A S : \A s \in Seq(S) : (ToSet(s) = {} => s = <<>>) /\ s \o <<>> = s
<1>1. ToSet(<<>>) = {} /\ IsInjective(<<>>)
  BY DEF ToSet, IsInjective
<1>2. ASSUME NEW S, NEW s \in Seq(S) PROVE (ToSet(s) = {} => s = <<>>) /\ s \o <<>> = s
  <2>1. Len(s) \in Nat /\ DOMAIN s = 1..Len(s)
    BY LenProperties
  <2>2. ASSUME ToSet(s) = {} PROVE s = <<>>
    <3>1. \A i \in 1..Len(s) : s[i] \in ToSet(s)
      BY <2>1 DEF ToSet
    <3>2. Len(s) = 0
      BY <2>1, <2>2, <3>1
    <3> QED
      BY <3>2, EmptySeq
  <2> QED
    BY <2>2, ConcatEmptySeq
<1> QED
  BY <1>1, <1>2, EmptySeq

(* A sequence of one. *)
LEMMA One ==
  ASSUME NEW S, NEW x \in S
  PROVE  /\ <<x>> \in Seq(S) /\ Len(<<x>>) = 1 /\ DOMAIN <<x>> = {1} /\ <<x>>[1] = x
         /\ ToSet(<<x>>) = {x} /\ IsInjective(<<x>>)
<1>1. <<x>> \in Seq(S) /\ Len(<<x>>) = 1 /\ <<x>>[1] = x
  OBVIOUS
<1>2. DOMAIN <<x>> = {1}
  OBVIOUS
<1> QED
  BY <1>1, <1>2 DEF ToSet, IsInjective

(* A sequence without its first elements, and those elements. *)
LEMMA Split ==
  ASSUME NEW S, NEW s \in Seq(S), IsInjective(s), NEW n \in 0..Len(s)
  PROVE  /\ SubSeq(s, 1, n) \in Seq(S) /\ SubSeq(s, n + 1, Len(s)) \in Seq(S)
         /\ Len(SubSeq(s, 1, n)) = n /\ Len(SubSeq(s, n + 1, Len(s))) = Len(s) - n
         /\ IsInjective(SubSeq(s, 1, n)) /\ IsInjective(SubSeq(s, n + 1, Len(s)))
         /\ ToSet(s) = ToSet(SubSeq(s, 1, n)) \cup ToSet(SubSeq(s, n + 1, Len(s)))
         /\ ToSet(SubSeq(s, 1, n)) \cap ToSet(SubSeq(s, n + 1, Len(s))) = {}
<1> DEFINE p == SubSeq(s, 1, n)
           q == SubSeq(s, n + 1, Len(s))
<1>1. Len(s) \in Nat /\ DOMAIN s = 1..Len(s)
  BY LenProperties
<1>0. n \in Int /\ 0 <= n /\ n <= Len(s)
  BY <1>1
<1>2. /\ p \in Seq(S) /\ Len(p) = n /\ DOMAIN p = 1..n
      /\ \A i \in 1..n : p[i] = s[i]
  BY <1>1, Part
<1>3. /\ q \in Seq(S) /\ Len(q) = Len(s) - n /\ DOMAIN q = 1..(Len(s) - n)
      /\ \A i \in 1..(Len(s) - n) : q[i] = s[n + i]
  <2>1. n + 1 \in Nat \ {0} /\ Len(s) \in Int /\ Len(s) - (n + 1) + 1 = Len(s) - n
    BY <1>1
  <2>2. /\ q \in Seq(S) /\ Len(q) = (IF n + 1 <= Len(s) THEN Len(s) - (n + 1) + 1 ELSE 0)
        /\ DOMAIN q = 1..(Len(s) - (n + 1) + 1)
        /\ \A i \in 1..(Len(s) - (n + 1) + 1) : q[i] = s[(n + 1) + i - 1]
    BY <1>1, <2>1, Part
  <2> HIDE DEF q
  <2>3. q \in Seq(S) /\ Len(q) = Len(s) - n
    <3>1. CASE n < Len(s)
      <4>1. n + 1 <= Len(s)
        BY <1>0, <1>1, <3>1
      <4> QED
        BY <1>1, <2>1, <2>2, <4>1
    <3>2. CASE n = Len(s)
      <4>1. ~(n + 1 <= Len(s)) /\ Len(s) - n = 0
        BY <1>0, <1>1, <3>2
      <4> QED
        BY <2>2, <4>1
    <3>3. n < Len(s) \/ n = Len(s)
      <4> DEFINE k == Len(s)
      <4>1. k \in Nat /\ n \in 0..k
        BY <1>1
      <4> HIDE DEF k
      <4>2. n < k \/ n = k
        BY <4>1
      <4> QED
        BY <4>2 DEF k
    <3> QED
      BY <3>1, <3>2, <3>3
  <2>4. DOMAIN q = 1..(Len(s) - n)
    BY <2>1, <2>2
  <2>5. ASSUME NEW i \in 1..(Len(s) - n) PROVE q[i] = s[n + i]
    <3>1. i \in 1..(Len(s) - (n + 1) + 1) /\ (n + 1) + i - 1 = n + i
      BY <1>1, <2>1
    <3>2. q[i] = s[(n + 1) + i - 1]
      BY <2>2, <3>1
    <3> QED
      BY <3>1, <3>2
  <2> QED
    BY <2>3, <2>4, <2>5
<1> HIDE DEF p, q
<1>4. IsInjective(p)
  BY <1>1, <1>2 DEF IsInjective
<1>10. ASSUME NEW i \in DOMAIN q, NEW j \in DOMAIN q, q[i] = q[j] PROVE i = j
  <2>1. n + i \in DOMAIN s /\ n + j \in DOMAIN s /\ s[n + i] = s[n + j]
    BY <1>1, <1>3, <1>10
  <2>2. n + i = n + j
    BY <2>1 DEF IsInjective
  <2> QED
    BY <1>1, <1>3, <2>2
<1>11. IsInjective(q)
  BY <1>10 DEF IsInjective
<1>5. ToSet(s) = ToSet(p) \cup ToSet(q)
  <2>1. ASSUME NEW i \in DOMAIN s PROVE s[i] \in ToSet(p) \cup ToSet(q)
    <3>1. CASE i <= n
      BY <1>1, <1>2, <3>1 DEF ToSet
    <3>2. CASE i > n
      <4>1. i - n \in DOMAIN q /\ q[i - n] = s[i]
        BY <1>1, <1>3, <3>2
      <4> QED
        BY <4>1 DEF ToSet
    <3> QED
      BY <1>1, <3>1, <3>2
  <2>2. ToSet(p) \subseteq ToSet(s)
    BY <1>1, <1>2 DEF ToSet
  <2>3. ToSet(q) \subseteq ToSet(s)
    BY <1>1, <1>3 DEF ToSet
  <2>4. ToSet(s) \subseteq ToSet(p) \cup ToSet(q)
    BY <2>1 DEF ToSet
  <2> QED
    BY <2>2, <2>3, <2>4
<1>6. ToSet(p) \cap ToSet(q) = {}
  <2> SUFFICES ASSUME NEW i \in DOMAIN p, NEW j \in DOMAIN q, p[i] = q[j] PROVE FALSE
    BY DEF ToSet
  <2>1. i \in DOMAIN s /\ n + j \in DOMAIN s /\ s[i] = s[n + j] /\ i < n + j
    BY <1>1, <1>2, <1>3
  <2> QED
    BY <2>1 DEF IsInjective
<1> QED
  BY <1>2, <1>3, <1>4, <1>11, <1>5, <1>6 DEF p, q

(* The first of at most m elements of a sequence. *)
LEMMA Taken ==
  ASSUME NEW S, NEW s \in Seq(S), NEW m \in Int
  PROVE  \E n \in 0..Len(s) : /\ AtMost(m, s) = SubSeq(s, 1, n)
                              /\ n = (IF m < 0 THEN 0 ELSE IF m < Len(s) THEN m ELSE Len(s))
<1>1. Len(s) \in Nat
  BY LenProperties
<1>2. CASE m < 0
  <2>1. AtMost(m, s) = SubSeq(s, 1, m)
    BY <1>1, <1>2 DEF AtMost
  <2>2. SubSeq(s, 1, m) = <<>> /\ SubSeq(s, 1, 0) = <<>>
    BY <1>2, SubSeqEmpty
  <2> QED
    BY <1>1, <1>2, <2>1, <2>2
<1>3. CASE m >= 0
  BY <1>1, <1>3 DEF AtMost
<1> QED
  BY <1>2, <1>3

(* The tasks of a set in the order of the graph are each of them, once. *)
LEMMA Listed ==
  ASSUME NEW n \in Nat, NEW S \in SUBSET (1..n)
  PROVE  InOrder(S) \in Seq(S) /\ IsInjective(InOrder(S)) /\ ToSet(InOrder(S)) = S
<1> DEFINE k == Cardinality(S)
           below(t) == {u \in S : u <= t}
           rank == [t \in S |-> Cardinality(below(t))]
           Increasing(s) == \A i, j \in 1..k : i < j => s[i] < s[j]
<1>0. \A t \in S : t \in Int
  OBVIOUS
<1>1. IsFiniteSet(1..n)
  BY FS_Interval
<1>2. IsFiniteSet(S) /\ k \in Nat
  BY <1>1, FS_Subset, FS_CardinalityType
<1>3. ASSUME NEW t \in S PROVE below(t) \in SUBSET S /\ IsFiniteSet(below(t)) /\ rank[t] \in 1..k
  <2>1. below(t) \in SUBSET S /\ t \in below(t)
    OBVIOUS
  <2>2. IsFiniteSet(below(t)) /\ Cardinality(below(t)) <= k /\ Cardinality(below(t)) \in Nat
    BY <1>2, <2>1, FS_Subset, FS_CardinalityType
  <2>3. Cardinality(below(t)) # 0
    BY <2>1, <2>2, FS_EmptySet
  <2> QED
    BY <1>2, <2>1, <2>2, <2>3
<1>4. ASSUME NEW t \in S, NEW u \in S, t < u PROVE rank[t] < rank[u]
  <2>0. t \in Int /\ u \in Int
    BY <1>0
  <2>3. ASSUME NEW v \in S, v <= t PROVE v <= u
    <3>1. v \in Int
      BY <1>0
    <3> QED
      BY <1>4, <2>0, <2>3, <3>1
  <2>4. u <= u /\ ~(u <= t)
    BY <1>4, <2>0
  <2>1. below(t) \in SUBSET below(u) /\ u \in below(u) /\ u \notin below(t)
    BY <2>3, <2>4
  <2>2. below(t) # below(u)
    BY <2>1
  <2>5. Cardinality(below(t)) <= Cardinality(below(u)) /\ Cardinality(below(t)) # Cardinality(below(u))
    BY <1>3, <2>1, <2>2, FS_Subset
  <2> QED
    BY <1>3, <2>5
<1> HIDE DEF rank, k
<1>5. rank \in [S -> 1..k]
  BY <1>3 DEF rank
<1>6. \A t, u \in S : rank[t] = rank[u] => t = u
  BY <1>4, <1>5
<1>7. rank \in Injection(S, 1..k)
  BY <1>5, <1>6 DEF Injection, IsInjective
<1>8. IsFiniteSet(1..k) /\ Cardinality(1..k) = k
  BY <1>2, FS_Interval
<1>9. rank \in Surjection(S, 1..k)
  BY <1>7, <1>8, FS_Injection DEF k
<1>10. \A i \in 1..k : \E t \in S : rank[t] = i
  BY <1>9 DEF Surjection
<1> DEFINE r == [i \in 1..k |-> CHOOSE t \in S : rank[t] = i]
<1>11. \A i \in 1..k : r[i] \in S /\ rank[r[i]] = i
  BY <1>10
<1>12. r \in [1..k -> S] /\ Increasing(r)
  <2>1. r \in [1..k -> S]
    BY <1>11
  <2>2. ASSUME NEW i \in 1..k, NEW j \in 1..k, i < j PROVE r[i] < r[j]
    <3>1. r[i] \in S /\ r[j] \in S /\ rank[r[i]] = i /\ rank[r[j]] = j
      BY <1>11
    <3> HIDE DEF r
    <3>2. r[j] < r[i] => j < i
      BY <1>4, <3>1
    <3>3. r[i] # r[j] /\ ~(j < i)
      BY <1>2, <2>2, <3>1
    <3>4. r[i] \in Int /\ r[j] \in Int
      BY <1>0, <3>1
    <3> QED
      BY <3>2, <3>3, <3>4
  <2> QED
    BY <2>1, <2>2
<1> DEFINE o == InOrder(S)
<1>13. o \in [1..k -> S] /\ Increasing(o)
  <2>1. \E s \in [1..k -> S] : Increasing(s)
    BY <1>12
  <2>2. o = CHOOSE s \in [1..k -> S] : Increasing(s)
    BY DEF InOrder, k
  <2> QED
    BY <2>1, <2>2
<1> HIDE DEF o
<1>14. \A i, j \in 1..k : o[i] = o[j] => i = j
  <2> SUFFICES ASSUME NEW i \in 1..k, NEW j \in 1..k, o[i] = o[j] PROVE i = j
    OBVIOUS
  <2>1. o[i] \in Int /\ o[j] \in Int
    BY <1>0, <1>13
  <2>2. ~(i < j) /\ ~(j < i)
    BY <1>13, <2>1
  <2> QED
    BY <1>2, <2>2
<1>15. IsInjective(o) /\ DOMAIN o = 1..k
  BY <1>13, <1>14 DEF IsInjective
<1>16. o \in Injection(1..k, S)
  BY <1>13, <1>15 DEF Injection
<1>17. o \in Surjection(1..k, S)
  BY <1>2, <1>8, <1>16, FS_Injection DEF k
<1>18. ToSet(o) = S
  BY <1>13, <1>17 DEF ToSet, Surjection
<1>19. o \in Seq(S)
  BY <1>2, <1>13, IsASeq
<1> QED
  BY <1>15, <1>18, <1>19 DEF o

-----------------------------------------------------------------------------
(* What rows tell *)

(* Rows behind rows. *)
LEMMA Longer ==
  ASSUME NEW rows \in Seq(Event), NEW q \in Seq(Event)
  PROVE  /\ rows \o q \in Seq(Event) /\ Len(rows) \in Nat /\ Len(q) \in Nat
         /\ DOMAIN rows = 1..Len(rows) /\ DOMAIN q = 1..Len(q)
         /\ Len(rows \o q) = Len(rows) + Len(q) /\ DOMAIN (rows \o q) = 1..(Len(rows) + Len(q))
         /\ \A i \in DOMAIN rows : i \in DOMAIN (rows \o q) /\ (rows \o q)[i] = rows[i]
         /\ \A k \in DOMAIN q : Len(rows) + k \in DOMAIN (rows \o q) /\ (rows \o q)[Len(rows) + k] = q[k]
         /\ \A i \in DOMAIN (rows \o q) : i \in DOMAIN rows \/ \E k \in DOMAIN q : i = Len(rows) + k
<1> DEFINE e == rows \o q
           a == Len(rows)
           b == Len(q)
<1>1. a \in Nat /\ b \in Nat /\ DOMAIN rows = 1..a /\ DOMAIN q = 1..b
  BY LenProperties
<1>2. /\ e \in Seq(Event) /\ Len(e) = a + b
      /\ \A i \in 1..a + b : e[i] = IF i <= a THEN rows[i] ELSE q[i - a]
  BY ConcatProperties
<1>3. DOMAIN e = 1..a + b
  BY <1>2, LenProperties
<1> HIDE DEF e, a, b
<1>4. \A i \in 1..a : i \in 1..(a + b) /\ i <= a
  BY <1>1
<1>5. \A k \in 1..b : a + k \in 1..(a + b) /\ ~(a + k <= a) /\ (a + k) - a = k
  BY <1>1
<1>6. ASSUME NEW i \in 1..(a + b) PROVE i \in 1..a \/ \E k \in 1..b : i = a + k
  <2>1. CASE i <= a
    BY <1>1, <2>1
  <2>2. CASE ~(i <= a)
    <3>1. i - a \in 1..b /\ i = a + (i - a)
      BY <1>1, <2>2
    <3> QED
      BY <3>1
  <2> QED
    BY <2>1, <2>2
<1>7. \A i \in 1..a : e[i] = rows[i]
  BY <1>2, <1>4
<1>8. \A k \in 1..b : e[a + k] = q[k]
  BY <1>2, <1>5
<1> QED
  BY <1>1, <1>2, <1>3, <1>4, <1>5, <1>6, <1>7, <1>8 DEF e, a, b

(* Of the rows of a task, and what it adds to them. *)
LEMMA MarksAfter ==
  ASSUME NEW rows \in Seq(Event), NEW q \in Seq(Event), NEW types, NEW t
  PROVE  Marks(rows \o q, types, t) = Marks(rows, types, t) \cup {Len(rows) + k : k \in Marks(q, types, t)}
<1> DEFINE e == rows \o q
           a == Len(rows)
<1>1. /\ \A i \in DOMAIN rows : i \in DOMAIN e /\ e[i] = rows[i]
      /\ \A k \in DOMAIN q : a + k \in DOMAIN e /\ e[a + k] = q[k]
      /\ \A i \in DOMAIN e : i \in DOMAIN rows \/ \E k \in DOMAIN q : i = a + k
  BY Longer
<1> HIDE DEF e, a
<1>2. ASSUME NEW i \in Marks(e, types, t) PROVE i \in Marks(rows, types, t) \cup {a + k : k \in Marks(q, types, t)}
  <2>1. i \in DOMAIN e /\ e[i].type \in types /\ e[i].task = t
    BY DEF Marks
  <2>2. CASE i \in DOMAIN rows
    BY <1>1, <2>1, <2>2 DEF Marks
  <2>3. CASE \E k \in DOMAIN q : i = a + k
    <3>1. PICK k \in DOMAIN q : i = a + k
      BY <2>3
    <3>2. k \in Marks(q, types, t)
      BY <1>1, <2>1, <3>1 DEF Marks
    <3> QED
      BY <3>1, <3>2
  <2> QED
    BY <1>1, <2>1, <2>2, <2>3
<1>3. Marks(rows, types, t) \subseteq Marks(e, types, t)
  BY <1>1 DEF Marks
<1>4. ASSUME NEW k \in Marks(q, types, t) PROVE a + k \in Marks(e, types, t)
  <2>1. k \in DOMAIN q /\ q[k].type \in types /\ q[k].task = t
    BY DEF Marks
  <2> QED
    BY <1>1, <2>1 DEF Marks
<1>5. {a + k : k \in Marks(q, types, t)} \subseteq Marks(e, types, t)
  BY <1>4
<1>6. Marks(e, types, t) \subseteq Marks(rows, types, t) \cup {a + k : k \in Marks(q, types, t)}
  BY <1>2
<1>7. Marks(e, types, t) = Marks(rows, types, t) \cup {a + k : k \in Marks(q, types, t)}
  BY <1>3, <1>5, <1>6
<1> QED
  BY <1>7 DEF e, a

(* Rows of other tasks leave the rows of a task as they are. *)
LEMMA MarksKept ==
  ASSUME NEW rows \in Seq(Event), NEW q \in Seq(Event), NEW types, NEW t, Marks(q, types, t) = {}
  PROVE  Marks(rows \o q, types, t) = Marks(rows, types, t)
<1>1. \A k \in Marks(q, types, t) : FALSE
  OBVIOUS
<1> DEFINE e == Marks(rows \o q, types, t)
           a == Len(rows)
           m == Marks(q, types, t)
<1>2. e = Marks(rows, types, t) \cup {a + k : k \in m}
  BY MarksAfter
<1> HIDE DEF e, a
<1>3. \A i : i \in e <=> i \in Marks(rows, types, t)
  BY <1>1, <1>2
<1>4. e = Marks(rows, types, t)
  BY <1>3
<1> QED
  BY <1>4 DEF e

(* Rows that do not tell of a task change nothing of its account. *)
LEMMA Unmentioned ==
  ASSUME NEW rows \in Seq(Event), NEW q \in Seq(Event), NEW t, NEW status \in Status,
         Begins(q, t) = {}, Ends(q, t) = {}, Account(rows, t, status)
  PROVE  Account(rows \o q, t, status)
<1>1. Begins(rows \o q, t) = Begins(rows, t)
  BY MarksKept DEF Begins
<1>2. Ends(rows \o q, t) = Ends(rows, t)
  BY MarksKept DEF Ends
<1>3. \A i \in DOMAIN rows : i \in DOMAIN (rows \o q) /\ (rows \o q)[i] = rows[i]
  BY Longer
<1> DEFINE e == rows \o q
<1> HIDE DEF e
<1>4. /\ Begins(e, t) = Begins(rows, t) /\ Ends(e, t) = Ends(rows, t)
      /\ \A i \in DOMAIN rows : i \in DOMAIN e /\ e[i] = rows[i]
  BY <1>1, <1>2, <1>3 DEF e
<1>5. \A s : Reported(rows, t, s) => Reported(e, t, s)
  BY <1>4 DEF Reported
<1>6. (\E i \in DOMAIN rows : Begins(rows, t) = {i}) => \E i \in DOMAIN e : Begins(e, t) = {i}
  BY <1>4
<1>7. Account(e, t, status)
  BY <1>4, <1>5, <1>6 DEF Account, Status
<1> QED
  BY <1>7 DEF e

(* A task that has not started starts. *)
LEMMA Mentioned ==
  ASSUME NEW rows \in Seq(Event), NEW q \in Seq(Event), NEW t, NEW status \in {"pending", "queued"},
         NEW k \in DOMAIN q, Begins(q, t) = {k}, Ends(q, t) = {}, Account(rows, t, status)
  PROVE  Account(rows \o q, t, "running")
<1>1. Begins(rows, t) = {} /\ Ends(rows, t) = {}
  BY DEF Account
<1>2. Begins(rows \o q, t) = {Len(rows) + k} /\ Ends(rows \o q, t) = {}
  BY <1>1, MarksAfter DEF Begins, Ends
<1>3. Len(rows) + k \in DOMAIN (rows \o q)
  BY Longer
<1> QED
  BY <1>2, <1>3 DEF Account

(* Row k of q reports the end of task t. *)
Closing(q, k, t, status) ==
    /\ Begins(q, t) = {} /\ Ends(q, t) = {k} /\ q[k].status = status
    /\ status = "succeeded" <=> q[k].type = "subagent.complete"

(* A task that runs is reported. *)
LEMMA Closed ==
  ASSUME NEW rows \in Seq(Event), NEW q \in Seq(Event), NEW t, NEW status \in {"succeeded", "failed", "aborted"},
         NEW k \in DOMAIN q, Closing(q, k, t, status), Account(rows, t, "running")
  PROVE  Account(rows \o q, t, status)
<1>1. PICK i \in DOMAIN rows : Begins(rows, t) = {i} /\ Ends(rows, t) = {}
  BY DEF Account
<1>2. Begins(rows \o q, t) = {i} /\ Ends(rows \o q, t) = {Len(rows) + k}
  BY <1>1, MarksAfter DEF Begins, Ends, Closing
<1>3. /\ i \in DOMAIN (rows \o q) /\ Len(rows) + k \in DOMAIN (rows \o q)
      /\ (rows \o q)[Len(rows) + k] = q[k]
  BY Longer
<1> QED
  BY <1>2, <1>3 DEF Account, Reported, Closing

(* Rows of one type, one for each of some tasks. *)
OneEach(q, type, s) ==
    /\ q \in Seq(Event) /\ DOMAIN q = DOMAIN s
    /\ \A i \in DOMAIN s : q[i].type = type /\ q[i].task = s[i]

(* Such rows mark each element of the sequence once, and nothing else. *)
LEMMA OneEachMarks ==
  ASSUME NEW s, IsInjective(s), NEW q, NEW type, OneEach(q, type, s), NEW types, NEW t
  PROVE  /\ type \in types /\ t \in ToSet(s) => \E k \in DOMAIN q : s[k] = t /\ Marks(q, types, t) = {k}
         /\ ~(type \in types /\ t \in ToSet(s)) => Marks(q, types, t) = {}
<1>1. CASE type \in types /\ t \in ToSet(s)
  <2>1. PICK k \in DOMAIN s : s[k] = t
    BY <1>1 DEF ToSet
  <2>2. \A j \in DOMAIN s : s[j] = t => j = k
    BY <2>1 DEF IsInjective
  <2>3. Marks(q, types, t) = {k}
    BY <1>1, <2>1, <2>2 DEF Marks, OneEach
  <2> QED
    BY <1>1, <2>1, <2>3 DEF OneEach
<1>2. CASE ~(type \in types /\ t \in ToSet(s))
  BY <1>2 DEF Marks, OneEach, ToSet
<1> QED
  BY <1>1, <1>2

(* The starts of some tasks are one row for each. *)
LEMMA StartRows ==
  ASSUME NEW n \in Nat, NEW s \in Seq(1..n)
  PROVE  OneEach(Starts(s), "subagent.start", s)
<1>1. Len(s) \in Nat /\ DOMAIN s = 1..Len(s) /\ \A i \in DOMAIN s : s[i] \in 1..n
  BY LenProperties, ElementOfSeq
<1>2. /\ DOMAIN Starts(s) = 1..Len(s)
      /\ \A i \in 1..Len(s) : /\ Starts(s)[i] = [type |-> "subagent.start", task |-> s[i], status |-> "running"]
                              /\ Starts(s)[i] \in Event
  BY <1>1 DEF Starts, Row, Event, EventType, Status
<1>3. Starts(s) \in [1..Len(s) -> Event]
  BY <1>1, <1>2 DEF Starts
<1>4. Starts(s) \in Seq(Event)
  BY <1>1, <1>3, IsASeq
<1> QED
  BY <1>1, <1>2, <1>4 DEF OneEach

-----------------------------------------------------------------------------
(* The log of a run under way *)

Logged(graph, task, rows) == rows \in Seq(Event) /\ Told(graph, task, rows) /\ Ordered(graph, rows)

(* Rows behind a log keep the order of its starts when theirs are in order. *)
LEMMA StillOrdered ==
  ASSUME NEW graph, NEW rows \in Seq(Event), NEW q \in Seq(Event), Ordered(graph, rows),
         \A k \in DOMAIN q : q[k].type = "subagent.start" =>
             \A t \in DOMAIN graph : q[k].task = t =>
                 \A d \in graph[t] : \E j \in DOMAIN rows : rows[j].type = "subagent.complete" /\ rows[j].task = d
  PROVE  Ordered(graph, rows \o q)
<1> DEFINE e == rows \o q
           a == Len(rows)
<1>1. /\ \A i \in DOMAIN rows : i \in DOMAIN e /\ e[i] = rows[i]
      /\ \A k \in DOMAIN q : a + k \in DOMAIN e /\ e[a + k] = q[k]
      /\ \A i \in DOMAIN e : i \in DOMAIN rows \/ \E k \in DOMAIN q : i = a + k
  BY Longer
<1>2. DOMAIN rows = 1..a /\ DOMAIN q = 1..Len(q) /\ a \in Nat /\ Len(q) \in Nat
  BY Longer
<1> HIDE DEF e, a
<1>3. ASSUME NEW i \in DOMAIN e, e[i].type = "subagent.start", NEW t \in DOMAIN graph, e[i].task = t, NEW d \in graph[t]
      PROVE  \E j \in DOMAIN e : j < i /\ e[j].type = "subagent.complete" /\ e[j].task = d
  <2>1. CASE i \in DOMAIN rows
    <3>1. rows[i].type = "subagent.start" /\ rows[i].task = t
      BY <1>1, <1>3, <2>1
    <3>2. PICK j \in DOMAIN rows : j < i /\ rows[j].type = "subagent.complete" /\ rows[j].task = d
      BY <1>3, <2>1, <3>1 DEF Ordered
    <3> QED
      BY <1>1, <3>2
  <2>2. CASE \E k \in DOMAIN q : i = a + k
    <3>1. PICK k \in DOMAIN q : i = a + k
      BY <2>2
    <3>2. q[k].type = "subagent.start" /\ q[k].task = t
      BY <1>1, <1>3, <3>1
    <3>3. PICK j \in DOMAIN rows : rows[j].type = "subagent.complete" /\ rows[j].task = d
      BY <1>3, <3>2
    <3>4. j < i
      BY <1>2, <3>1
    <3> QED
      BY <1>1, <3>3, <3>4
  <2> QED
    BY <1>1, <2>1, <2>2
<1>4. Ordered(graph, e)
  BY <1>3 DEF Ordered
<1> QED
  BY <1>4 DEF e

(* So do rows without a start. *)
LEMMA OrderedWithoutStart ==
  ASSUME NEW graph, NEW rows \in Seq(Event), NEW q \in Seq(Event), Ordered(graph, rows),
         \A k \in DOMAIN q : q[k].type # "subagent.start"
  PROVE  Ordered(graph, rows \o q)
BY StillOrdered

(* Rows of tasks behind the log of a run under way leave it one. *)
LEMMA StillTold ==
  ASSUME NEW rows \in Seq(Event), NEW q \in Seq(Event), rows # <<>>,
         \A i \in DOMAIN rows : rows[i].type \notin Terminal, \A k \in DOMAIN q : q[k].type \notin Terminal
  PROVE  rows \o q # <<>> /\ \A i \in DOMAIN (rows \o q) : (rows \o q)[i].type \notin Terminal
<1> DEFINE e == rows \o q
           a == Len(rows)
<1>1. /\ \A i \in DOMAIN rows : i \in DOMAIN e /\ e[i] = rows[i]
      /\ \A k \in DOMAIN q : a + k \in DOMAIN e /\ e[a + k] = q[k]
      /\ \A i \in DOMAIN e : i \in DOMAIN rows \/ \E k \in DOMAIN q : i = a + k
  BY Longer
<1>2. e # <<>>
  BY ConcatEqualIffEmpty, ConcatSimplifications
<1> HIDE DEF e, a
<1>3. \A i \in DOMAIN e : e[i].type \notin Terminal
  BY <1>1
<1> QED
  BY <1>2, <1>3 DEF e

(* What the log does not tell of: that a task waits for a slot, or will     *)
(* never start.                                                             *)
LEMMA LoggedQuietly ==
  ASSUME NEW n \in Nat, NEW graph \in [1..n -> SUBSET (1..n)], NEW task \in [1..n -> Status], NEW rows,
         Logged(graph, task, rows), NEW next,
         \A t \in 1..n : \/ next[t] = task[t]
                         \/ task[t] \in {"pending", "queued"} /\ next[t] \in {"queued", "blocked", "aborted"}
  PROVE  Logged(graph, next, rows)
<1>1. DOMAIN graph = 1..n
  OBVIOUS
<1>2. ASSUME NEW t \in 1..n PROVE Account(rows, t, next[t])
  <2>1. Account(rows, t, task[t])
    BY <1>1 DEF Logged, Told
  <2>2. CASE task[t] \in {"pending", "queued"} /\ next[t] \in {"queued", "blocked", "aborted"}
    <3>1. Begins(rows, t) = {} /\ Ends(rows, t) = {}
      BY <2>1, <2>2 DEF Account
    <3> QED
      BY <2>2, <3>1 DEF Account
  <2> QED
    BY <2>1, <2>2
<1> QED
  BY <1>1, <1>2 DEF Logged, Told

(* A task that runs is settled and reported. *)
LEMMA LoggedEnd ==
  ASSUME NEW n \in Nat, NEW graph \in [1..n -> SUBSET (1..n)], NEW task \in [1..n -> Status], NEW rows,
         Logged(graph, task, rows), NEW t \in 1..n, task[t] = "running",
         NEW status \in {"succeeded", "failed", "aborted"},
         NEW row \in Event, row.task = t, row.status = status,
         row.type \in {"subagent.complete", "subagent.failed"}, status = "succeeded" <=> row.type = "subagent.complete"
  PROVE  Logged(graph, [task EXCEPT ![t] = status], rows \o <<row>>)
<1> DEFINE next == [task EXCEPT ![t] = status]
           q == <<row>>
<1>1. rows \in Seq(Event) /\ Ordered(graph, rows) /\ DOMAIN graph = 1..n
      /\ rows # <<>> /\ (\A i \in DOMAIN rows : rows[i].type \notin Terminal)
      /\ \A u \in 1..n : Account(rows, u, task[u])
  BY DEF Logged, Told
<1>2. \A u \in 1..n : next[u] = IF u = t THEN status ELSE task[u]
  OBVIOUS
<1>3. q \in Seq(Event) /\ DOMAIN q = {1} /\ q[1] = row
  BY One
<1> HIDE DEF next, q
<1>4. Begins(q, t) = {} /\ Ends(q, t) = {1}
  BY <1>3 DEF Begins, Ends, Marks
<1>5. Account(rows \o q, t, status)
  <2>1. PICK k \in DOMAIN q : Closing(q, k, t, status)
    BY <1>3, <1>4 DEF Closing
  <2>2. Account(rows, t, "running") /\ rows \in Seq(Event)
    BY <1>1
  <2> QED
    BY <1>3, <1>4, <2>1, <2>2, Closed
<1>6. ASSUME NEW u \in 1..n, u # t PROVE Account(rows \o q, u, task[u])
  <2>1. Begins(q, u) = {} /\ Ends(q, u) = {}
    BY <1>3, <1>6 DEF Begins, Ends, Marks
  <2> QED
    BY <1>1, <1>3, <2>1, Unmentioned
<1>7. \A u \in 1..n : Account(rows \o q, u, next[u])
  BY <1>2, <1>5, <1>6
<1>8. Ordered(graph, rows \o q)
  BY <1>1, <1>3, OrderedWithoutStart
<1>9. rows \o q # <<>> /\ \A i \in DOMAIN (rows \o q) : (rows \o q)[i].type \notin Terminal
  BY <1>1, <1>3, StillTold DEF Terminal
<1>10. rows \o q \in Seq(Event)
  BY <1>1, <1>3, Longer
<1>11. Logged(graph, next, rows \o q)
  BY <1>1, <1>7, <1>8, <1>9, <1>10 DEF Logged, Told
<1> QED
  BY <1>11 DEF next, q

(* A task that was started or waits for a slot is settled; it is reported   *)
(* if it had started.                                                       *)
LEMMA LoggedReport ==
  ASSUME NEW n \in Nat, NEW graph \in [1..n -> SUBSET (1..n)], NEW task \in [1..n -> Status], NEW rows,
         Logged(graph, task, rows), NEW t \in 1..n, task[t] \in {"queued", "running"},
         NEW status \in {"succeeded", "failed", "aborted"}, task[t] = "queued" => status = "aborted",
         NEW report,
         report = IF task[t] = "queued" THEN <<>>
                  ELSE <<Row(IF status = "succeeded" THEN "subagent.complete" ELSE "subagent.failed", t, status)>>
  PROVE  Logged(graph, [task EXCEPT ![t] = status], rows \o report)
<1>1. CASE task[t] = "queued"
  <2> DEFINE next == [task EXCEPT ![t] = status]
  <2>1. rows \o report = rows
    BY <1>1, Nothing DEF Logged
  <2>2. \A u \in 1..n : next[u] = task[u] \/ (task[u] \in {"pending", "queued"} /\ next[u] = "aborted")
    BY <1>1
  <2> HIDE DEF next
  <2>3. Logged(graph, next, rows)
    BY <2>2, LoggedQuietly
  <2> QED
    BY <2>1, <2>3 DEF next
<1>2. CASE task[t] = "running"
  <2> DEFINE row == Row(IF status = "succeeded" THEN "subagent.complete" ELSE "subagent.failed", t, status)
  <2>1. report = <<row>>
    BY <1>2
  <2>2. row \in Event /\ row.task = t /\ row.status = status
    BY DEF Row, Event, EventType, Status
  <2>3. row.type \in {"subagent.complete", "subagent.failed"} /\ (status = "succeeded" <=> row.type = "subagent.complete")
    BY DEF Row
  <2> HIDE DEF row
  <2> QED
    BY <1>2, <2>1, <2>2, <2>3, LoggedEnd
<1> QED
  BY <1>1, <1>2

(* Tasks whose dependencies were reported complete start. *)
LEMMA LoggedStarts ==
  ASSUME NEW n \in Nat, NEW graph \in [1..n -> SUBSET (1..n)], NEW task \in [1..n -> Status], NEW rows,
         Logged(graph, task, rows), NEW s \in Seq(1..n), IsInjective(s),
         \A t \in ToSet(s) : task[t] \in {"pending", "queued"} /\ \A d \in graph[t] : task[d] = "succeeded",
         NEW next, \A t \in 1..n : next[t] = IF t \in ToSet(s) THEN "running" ELSE task[t]
  PROVE  Logged(graph, next, rows \o Starts(s))
<1> DEFINE q == Starts(s)
<1>1. rows \in Seq(Event) /\ Ordered(graph, rows) /\ DOMAIN graph = 1..n
      /\ rows # <<>> /\ (\A i \in DOMAIN rows : rows[i].type \notin Terminal)
      /\ \A u \in 1..n : Account(rows, u, task[u])
  BY DEF Logged, Told
<1>2. OneEach(q, "subagent.start", s)
  BY StartRows
<1>3. /\ q \in Seq(Event) /\ DOMAIN q = DOMAIN s
      /\ \A i \in DOMAIN s : q[i].type = "subagent.start" /\ q[i].task = s[i] /\ s[i] \in ToSet(s)
  BY <1>2 DEF OneEach, ToSet
<1> HIDE DEF q
<1>4. ASSUME NEW t \in 1..n PROVE Account(rows \o q, t, next[t])
  <2>1. Ends(q, t) = {}
    BY <1>2, OneEachMarks DEF Ends
  <2>2. CASE t \in ToSet(s)
    <3>1. \E k \in DOMAIN q : s[k] = t /\ Marks(q, {"subagent.start"}, t) = {k}
      BY <1>2, <2>2, OneEachMarks
    <3>2. PICK k \in DOMAIN q : Begins(q, t) = {k}
      BY <3>1 DEF Begins
    <3>3. task[t] \in {"pending", "queued"} /\ Account(rows, t, task[t]) /\ next[t] = "running"
      BY <1>1, <2>2
    <3>5. rows \in Seq(Event) /\ q \in Seq(Event)
      BY <1>1, <1>3
    <3>4. Account(rows \o q, t, "running")
      BY <2>1, <3>2, <3>3, <3>5, Mentioned, Zenon
    <3> QED
      BY <3>3, <3>4
  <2>3. CASE t \notin ToSet(s)
    <3>1. Begins(q, t) = {}
      BY <1>2, <2>3, OneEachMarks DEF Begins
    <3> QED
      BY <1>1, <1>3, <2>1, <2>3, <3>1, Unmentioned
  <2> QED
    BY <2>2, <2>3
<1>5. Ordered(graph, rows \o q)
  <2>1. ASSUME NEW k \in DOMAIN q, NEW t \in DOMAIN graph, q[k].task = t, NEW d \in graph[t]
        PROVE  \E j \in DOMAIN rows : rows[j].type = "subagent.complete" /\ rows[j].task = d
    <3>1. d \in 1..n /\ task[d] = "succeeded"
      BY <1>1, <1>3, <2>1
    <3>2. Reported(rows, d, "succeeded")
      BY <1>1, <3>1 DEF Account
    <3>3. PICK j \in DOMAIN rows : Ends(rows, d) = {j} /\ rows[j].type = "subagent.complete"
      BY <3>2 DEF Reported
    <3>4. rows[j].task = d
      BY <3>3 DEF Ends, Marks
    <3> QED
      BY <3>3, <3>4
  <2>2. \A k \in DOMAIN q : q[k].type = "subagent.start" =>
            \A t \in DOMAIN graph : q[k].task = t =>
                \A d \in graph[t] : \E j \in DOMAIN rows : rows[j].type = "subagent.complete" /\ rows[j].task = d
    BY <2>1
  <2> QED
    BY <1>1, <1>3, <2>2, StillOrdered
<1>6. rows \o q # <<>> /\ \A i \in DOMAIN (rows \o q) : (rows \o q)[i].type \notin Terminal
  BY <1>1, <1>3, StillTold DEF Terminal
<1>7. rows \o q \in Seq(Event)
  BY <1>1, <1>3, Longer
<1>8. Logged(graph, next, rows \o q)
  BY <1>1, <1>4, <1>5, <1>6, <1>7 DEF Logged, Told
<1> QED
  BY <1>8 DEF q

-----------------------------------------------------------------------------
(* The results *)

(* What a failure blocks is pending, and is closed and justified: no        *)
(* dependant is forgotten, and each has a reason.                           *)
LEMMA BlockedSet ==
  ASSUME NEW n \in Nat, NEW r, r.graph \in [1..n -> SUBSET (1..n)], r.task \in [1..n -> Status], NEW t
  PROVE  /\ \A u \in Blocked(r, t) : u \in 1..n /\ r.task[u] = "pending"
         /\ \A u \in 1..n : r.task[u] = "pending" /\ (\E d \in r.graph[u] : d \in Blocked(r, t) \/ d = t)
                => u \in Blocked(r, t)
         /\ \A u \in Blocked(r, t) : \E d \in r.graph[u] : d \in Blocked(r, t) \/ d = t
<1> DEFINE pending == In(r, {"pending"})
           shut(S) == \A u \in pending : r.graph[u] \cap (S \cup {t}) # {} => u \in S
           b == Blocked(r, t)
<1>1. \A u : u \in pending <=> u \in 1..n /\ r.task[u] = "pending"
  BY DEF In
<1>2. \A u : u \in b <=> u \in pending /\ \A S \in SUBSET pending : shut(S) => u \in S
  BY DEF Blocked
<1> HIDE DEF pending, b
<1>3. ASSUME NEW u \in pending, NEW d \in r.graph[u], d \in b \/ d = t PROVE u \in b
  <2> SUFFICES ASSUME NEW S \in SUBSET pending, shut(S) PROVE u \in S
    BY <1>2
  <2>1. d \in S \cup {t}
    BY <1>2, <1>3
  <2> QED
    BY <2>1
<1>4. ASSUME NEW u \in b PROVE \E d \in r.graph[u] : d \in b \/ d = t
  <2> SUFFICES ASSUME \A d \in r.graph[u] : d \notin b /\ d # t PROVE FALSE
    OBVIOUS
  <2> DEFINE S == b \ {u}
  <2>1. S \in SUBSET pending
    BY <1>2
  <2>2. ASSUME NEW v \in pending, NEW d \in r.graph[v], d \in S \/ d = t PROVE v \in S
    BY <1>3, <2>2
  <2>3. shut(S)
    BY <2>2
  <2>4. u \in S
    BY <1>2, <2>1, <2>3
  <2> QED
    BY <2>4
<1> QED
  BY <1>1, <1>2, <1>3, <1>4 DEF b

(* Results stay justified when a task that runs succeeds, *)
LEMMA JustifiedSuccess ==
  ASSUME NEW n \in Nat, NEW graph \in [1..n -> SUBSET (1..n)], NEW task \in [1..n -> Status], NEW aborted,
         Justified(graph, task, aborted), NEW t \in 1..n, task[t] = "running",
         NEW next, next \in [1..n -> Status], next[t] = "succeeded", \A u \in 1..n : u # t => next[u] = task[u]
  PROVE  Justified(graph, next, aborted)
BY DEF Justified

(* Task t fails and blocks the set B of what depends on it. *)
Blocking(n, graph, task, next, t, B) ==
    /\ next[t] = "failed"
    /\ \A u \in 1..n : u # t => next[u] = IF u \in B THEN "blocked" ELSE task[u]
    /\ \A u \in B : u \in 1..n /\ u # t /\ task[u] = "pending"
    /\ \A u \in 1..n : u # t /\ task[u] = "pending" /\ (\E d \in graph[u] : d \in B \/ d = t) => u \in B
    /\ \A u \in B : \E d \in graph[u] : d \in B \/ d = t

(* Results stay justified when a task fails and its dependants are blocked, *)
LEMMA JustifiedFailure ==
  ASSUME NEW n \in Nat, NEW graph \in [1..n -> SUBSET (1..n)], NEW task \in [1..n -> Status], NEW aborted,
         Justified(graph, task, aborted), NEW t \in 1..n, task[t] = "running",
         NEW next \in [1..n -> Status], NEW B, Blocking(n, graph, task, next, t, B)
  PROVE  Justified(graph, next, aborted)
<1> USE DEF Blocking
<1> SUFFICES ASSUME NEW u \in 1..n
             PROVE  /\ next[u] \in {"queued", "running", "succeeded", "failed"} => \A d \in graph[u] : next[d] = "succeeded"
                    /\ next[u] = "blocked" => \E d \in graph[u] : next[d] \in {"failed", "blocked"}
                    /\ (\E d \in graph[u] : next[d] \in {"failed", "blocked"}) => next[u] \in {"blocked", "aborted"}
                    /\ next[u] = "aborted" => aborted
  BY DEF Justified
<1>1. /\ task[u] \in {"queued", "running", "succeeded", "failed"} => \A d \in graph[u] : task[d] = "succeeded"
      /\ task[u] = "blocked" => \E d \in graph[u] : task[d] \in {"failed", "blocked"}
      /\ (\E d \in graph[u] : task[d] \in {"failed", "blocked"}) => task[u] \in {"blocked", "aborted"}
      /\ task[u] = "aborted" => aborted
      /\ task[u] \in Status /\ graph[u] \subseteq 1..n
  BY DEF Justified
<1>2. \A d \in 1..n : /\ task[d] = "succeeded" => next[d] = "succeeded"
                      /\ task[d] \in {"failed", "blocked"} => next[d] = task[d]
                      /\ next[d] \in {"failed", "blocked"} => task[d] \in {"failed", "blocked"} \/ d = t \/ d \in B
  OBVIOUS
<1>3. CASE u = t
  BY <1>1, <1>2, <1>3
<1>4. CASE u \in B
  <2>1. next[u] = "blocked"
    BY <1>4
  <2>2. PICK d \in graph[u] : d \in B \/ d = t
    BY <1>4
  <2>3. next[d] \in {"failed", "blocked"}
    BY <2>2
  <2> QED
    BY <2>1, <2>2, <2>3
<1>5. CASE u # t /\ u \notin B
  <2>1. next[u] = task[u]
    BY <1>5
  <2>2. ASSUME NEW d \in graph[u], next[d] \in {"failed", "blocked"} PROVE next[u] \in {"blocked", "aborted"}
    <3>1. CASE task[d] \in {"failed", "blocked"}
      BY <1>1, <2>1, <3>1
    <3>2. CASE d = t \/ d \in B
      <4>1. task[u] # "pending" /\ task[d] # "succeeded"
        BY <1>5, <3>2
      <4> QED
        BY <1>1, <2>1, <4>1 DEF Status
    <3> QED
      BY <1>1, <1>2, <2>2, <3>1, <3>2
  <2> QED
    BY <1>1, <1>2, <2>1, <2>2
<1> QED
  BY <1>3, <1>4, <1>5

(* when one is aborted, *)
LEMMA JustifiedAbort ==
  ASSUME NEW n \in Nat, NEW graph \in [1..n -> SUBSET (1..n)], NEW task \in [1..n -> Status],
         Justified(graph, task, TRUE), NEW t \in 1..n, task[t] \in {"queued", "running"},
         NEW next, next \in [1..n -> Status], next[t] = "aborted", \A u \in 1..n : u # t => next[u] = task[u]
  PROVE  Justified(graph, next, TRUE)
BY DEF Justified

(* when all that are pending are, *)
LEMMA JustifiedCancel ==
  ASSUME NEW n \in Nat, NEW graph \in [1..n -> SUBSET (1..n)], NEW task \in [1..n -> Status], NEW aborted,
         Justified(graph, task, aborted), NEW next, next \in [1..n -> Status],
         \A u \in 1..n : next[u] = IF task[u] = "pending" THEN "aborted" ELSE task[u]
  PROVE  Justified(graph, next, TRUE)
BY DEF Justified

(* and when tasks without open dependencies start or wait for a slot. *)
LEMMA JustifiedLaunch ==
  ASSUME NEW n \in Nat, NEW graph \in [1..n -> SUBSET (1..n)], NEW task \in [1..n -> Status], NEW aborted,
         Justified(graph, task, aborted), NEW next, next \in [1..n -> Status],
         \A u \in 1..n : \/ next[u] = task[u]
                         \/ /\ task[u] \in {"pending", "queued"} /\ next[u] \in {"queued", "running"}
                            /\ \A d \in graph[u] : task[d] = "succeeded"
  PROVE  Justified(graph, next, aborted)
BY DEF Justified, Status

(* What a record of a run of n tasks consists of. *)
LEMMA RunParts ==
  ASSUME NEW n \in Nat, NEW r \in RunOf(n)
  PROVE  /\ r.kind \in {"tool", "department"} /\ r.graph \in [1..n -> SUBSET (1..n)] /\ r.pc \in RunPc
         /\ r.aborted \in BOOLEAN /\ r.task \in {<<>>} \cup [1..n -> Status] /\ r.ready \in Seq(1..n)
         /\ DOMAIN r.graph = 1..n /\ Tasks(r) = 1..n
BY DEF RunOf, Tasks

-----------------------------------------------------------------------------
(* The record of a run as its tasks settle and start *)

(* A run that is under way, with what holds of it then. *)
Running(n, r) ==
    /\ r \in RunOf(n) /\ r.pc = "running"
    /\ r.task \in [1..n -> Status]
    /\ Justified(r.graph, r.task, r.aborted)
    /\ Queue(r.graph, r.task, r.ready)
    /\ r.aborted => r.ready = <<>>

(* It is what a fitting record whose run is under way is. *)
LEMMA RunningFits ==
  ASSUME NEW n, NEW r, r.pc = "running" PROVE Fit(n, r) <=> Running(n, r)
BY DEF Fit, Running, RunPc

Results == {"succeeded", "failed", "blocked", "aborted"}

(* The results run r has are those it has as s. *)
Final(r, s) == \A t \in DOMAIN r.task : r.task[t] \in Results => t \in DOMAIN s.task /\ s.task[t] = r.task[t]

(* Results stay when only tasks without one change. *)
LEMMA ResultsStay ==
  ASSUME NEW n \in Nat, NEW r, r.task \in [1..n -> Status], NEW s, s.task \in [1..n -> Status],
         \A t \in 1..n : r.task[t] \in {"pending", "queued", "running"} \/ s.task[t] = r.task[t]
  PROVE  Final(r, s)
BY DEF Final, Results

(* A run that does not change keeps its results, and one that keeps them in *)
(* each of two steps does in both.                                          *)
LEMMA ResultsChained ==
  /\ \A r, s : s.task = r.task => Final(r, s)
  /\ \A r, s, e : Final(r, s) /\ Final(s, e) => Final(r, e)
<1>1. \A r, s : s.task = r.task => Final(r, s)
  BY DEF Final
<1>2. \A r, s, e : Final(r, s) /\ Final(s, e) => Final(r, e)
  BY DEF Final
<1> QED
  BY <1>1, <1>2

(* The ready queue is not touched by a task that leaves its slot. *)
LEMMA QueueKept ==
  ASSUME NEW n \in Nat, NEW graph \in [1..n -> SUBSET (1..n)], NEW task \in [1..n -> Status], NEW ready \in Seq(1..n),
         Queue(graph, task, ready), NEW next \in [1..n -> Status],
         \A u \in 1..n : \/ next[u] = task[u]
                         \/ task[u] \notin {"pending", "succeeded"}
                         \/ task[u] = "pending" /\ \E d \in graph[u] : task[d] # "succeeded"
  PROVE  Queue(graph, next, ready)
<1>1. \A u \in ToSet(ready) : u \in 1..n
  <2>1. Len(ready) \in Nat /\ DOMAIN ready = 1..Len(ready) /\ \A i \in DOMAIN ready : ready[i] \in 1..n
    BY LenProperties, ElementOfSeq
  <2> QED
    BY <2>1 DEF ToSet
<1> QED
  BY <1>1 DEF Queue

(* A set of tasks that become ready joins the queue. *)
LEMMA QueueJoined ==
  ASSUME NEW n \in Nat, NEW graph \in [1..n -> SUBSET (1..n)], NEW task \in [1..n -> Status], NEW ready \in Seq(1..n),
         Queue(graph, task, ready), NEW S \in SUBSET (1..n), S \cap ToSet(ready) = {},
         \A t \in S : task[t] = "pending" /\ \A d \in graph[t] : task[d] = "succeeded"
  PROVE  ready \o InOrder(S) \in Seq(1..n) /\ Queue(graph, task, ready \o InOrder(S))
<1>1. InOrder(S) \in Seq(S) /\ IsInjective(InOrder(S)) /\ ToSet(InOrder(S)) = S
  BY Listed
<1>2. InOrder(S) \in Seq(1..n)
  BY <1>1, SeqMonotonic
<1>3. /\ ready \o InOrder(S) \in Seq(1..n) /\ ToSet(ready \o InOrder(S)) = ToSet(ready) \cup S
      /\ IsInjective(ready \o InOrder(S))
  BY <1>1, <1>2, Chained DEF Queue
<1> QED
  BY <1>3 DEF Queue

(* setResult() of an active task. *)
LEMMA RunningSettled ==
  ASSUME NEW n \in Nat, NEW r, Running(n, r), NEW t \in 1..n, r.task[t] \in {"queued", "running"},
         NEW status \in {"succeeded", "failed", "aborted"},
         status = "aborted" => r.aborted, status # "aborted" => r.task[t] = "running" /\ ~r.aborted
  PROVE  LET s == Settled(r, t, status)
         IN  /\ Running(n, s)
             /\ s.kind = r.kind /\ s.graph = r.graph /\ s.aborted = r.aborted
             /\ s.task[t] = status
             /\ \A u \in 1..n : u # t => s.task[u] = r.task[u] \/ (r.task[u] = "pending" /\ s.task[u] = "blocked")
<1> DEFINE s == Settled(r, t, status)
           m == [r EXCEPT !.task[t] = status]
           task == [r.task EXCEPT ![t] = status]
           graph == r.graph
<1>1. /\ r \in RunOf(n) /\ graph \in [1..n -> SUBSET (1..n)] /\ r.ready \in Seq(1..n) /\ r.task \in [1..n -> Status]
      /\ Justified(graph, r.task, r.aborted) /\ Queue(graph, r.task, r.ready) /\ (r.aborted => r.ready = <<>>)
      /\ r.pc = "running" /\ r.aborted \in BOOLEAN
  BY RunParts DEF Running
<1>2. /\ m \in RunOf(n) /\ m.task = task /\ m.graph = graph /\ m.ready = r.ready /\ m.aborted = r.aborted
      /\ m.kind = r.kind /\ m.pc = "running"
  BY <1>1 DEF RunOf, Status
<1>3. task \in [1..n -> Status] /\ task[t] = status /\ \A u \in 1..n : u # t => task[u] = r.task[u]
  BY <1>1 DEF Status
<1> HIDE DEF m, task
<1>4. CASE status = "succeeded"
  <2> DEFINE ready == r.ready \o InOrder(Unblocked(m, t))
  <2>1. s = [m EXCEPT !.ready = ready]
    BY <1>2, <1>4 DEF Settled, m
  <2>2. Justified(graph, task, r.aborted)
    BY <1>1, <1>3, <1>4, JustifiedSuccess
  <2>3. Queue(graph, task, r.ready)
    BY <1>1, <1>3, <1>4, QueueKept
  <2>4. \A u \in Unblocked(m, t) : /\ u \in 1..n /\ task[u] = "pending" /\ t \in graph[u]
                                   /\ \A d \in graph[u] : task[d] = "succeeded"
    BY <1>2, <1>3 DEF Unblocked, In
  <2>5. Unblocked(m, t) \cap ToSet(r.ready) = {}
    <3> SUFFICES ASSUME NEW u \in Unblocked(m, t), u \in ToSet(r.ready) PROVE FALSE
      OBVIOUS
    <3>1. r.task[t] = "succeeded"
      BY <1>1, <2>4 DEF Queue
    <3> QED
      BY <3>1
  <2>6. ready \in Seq(1..n) /\ Queue(graph, task, ready)
    BY <1>1, <1>3, <2>3, <2>4, <2>5, QueueJoined
  <2> HIDE DEF ready
  <2>7. /\ s \in RunOf(n) /\ s.task = task /\ s.graph = graph /\ s.ready = ready /\ s.aborted = r.aborted
        /\ s.kind = r.kind /\ s.pc = "running"
    BY <1>2, <2>1, <2>6 DEF RunOf
  <2> HIDE DEF s
  <2>8. Running(n, s)
    BY <1>1, <1>3, <1>4, <2>2, <2>6, <2>7 DEF Running
  <2> QED
    BY <1>3, <2>7, <2>8 DEF s
<1>5. CASE status = "failed"
  <2> DEFINE b == Blocked(m, t)
             next == [u \in 1..n |-> IF u \in b THEN "blocked" ELSE task[u]]
  <2>11. m.graph \in [1..n -> SUBSET (1..n)] /\ m.task \in [1..n -> Status]
    BY <1>1, <1>2, <1>3
  <2>12. /\ \A u \in Blocked(m, t) : u \in 1..n /\ m.task[u] = "pending"
         /\ \A u \in 1..n : m.task[u] = "pending" /\ (\E d \in m.graph[u] : d \in Blocked(m, t) \/ d = t)
                => u \in Blocked(m, t)
         /\ \A u \in Blocked(m, t) : \E d \in m.graph[u] : d \in Blocked(m, t) \/ d = t
    BY <2>11, BlockedSet
  <2>1. /\ \A u \in b : u \in 1..n /\ task[u] = "pending"
        /\ \A u \in 1..n : task[u] = "pending" /\ (\E d \in graph[u] : d \in b \/ d = t) => u \in b
        /\ \A u \in b : \E d \in graph[u] : d \in b \/ d = t
    BY <1>2, <2>12
  <2>2. s = [m EXCEPT !.task = next]
    BY <1>2, <1>3, <1>5 DEF Settled, m
  <2> HIDE DEF b
  <2>3. /\ next \in [1..n -> Status]
        /\ \A u \in 1..n : next[u] = IF u \in b THEN "blocked" ELSE task[u]
    BY <1>3 DEF Status
  <2> HIDE DEF next
  <2>4. t \notin b /\ \A u \in b : u # t /\ r.task[u] = "pending"
    BY <1>3, <1>5, <2>1
  <2>5. next[t] = "failed" /\ \A u \in 1..n : u # t => next[u] = IF u \in b THEN "blocked" ELSE r.task[u]
    BY <1>3, <1>5, <2>3, <2>4
  <2>6. Justified(graph, next, r.aborted)
    <3>1. \A u \in 1..n : u # t /\ r.task[u] = "pending" /\ (\E d \in graph[u] : d \in b \/ d = t) => u \in b
      BY <1>3, <2>1
    <3>2. r.task[t] = "running"
      BY <1>5
    <3>3. \A u \in b : u \in 1..n /\ u # t /\ r.task[u] = "pending"
      BY <2>1, <2>4
    <3>4. \A u \in b : \E d \in graph[u] : d \in b \/ d = t
      BY <2>1
    <3>5. graph \in [1..n -> SUBSET (1..n)] /\ r.task \in [1..n -> Status] /\ Justified(graph, r.task, r.aborted)
      BY <1>1
    <3>6. Blocking(n, graph, r.task, next, t, b)
      BY <2>5, <3>1, <3>3, <3>4 DEF Blocking
    <3> QED
      BY <2>3, <3>2, <3>5, <3>6, JustifiedFailure
  <2>7. Queue(graph, next, r.ready)
    <3>1. ASSUME NEW u \in 1..n
          PROVE  \/ next[u] = r.task[u]
                 \/ r.task[u] \notin {"pending", "succeeded"}
                 \/ r.task[u] = "pending" /\ \E d \in graph[u] : r.task[d] # "succeeded"
      BY <1>5, <2>1, <2>4, <2>5
    <3> QED
      BY <1>1, <2>3, <3>1, QueueKept
  <2>8. /\ s \in RunOf(n) /\ s.task = next /\ s.graph = graph /\ s.ready = r.ready /\ s.aborted = r.aborted
        /\ s.kind = r.kind /\ s.pc = "running"
    BY <1>2, <2>2, <2>3 DEF RunOf
  <2> HIDE DEF s
  <2>9. Running(n, s)
    BY <1>1, <2>3, <2>6, <2>7, <2>8 DEF Running
  <2>10. \A u \in 1..n : u # t => s.task[u] = r.task[u] \/ (r.task[u] = "pending" /\ s.task[u] = "blocked")
    BY <2>4, <2>5, <2>8
  <2> QED
    BY <1>5, <2>5, <2>8, <2>9, <2>10 DEF s
<1>6. CASE status = "aborted"
  <2>1. s = m
    BY <1>6 DEF Settled, m
  <2> HIDE DEF s
  <2>2. r.aborted = TRUE
    BY <1>1, <1>6
  <2>3. Justified(graph, task, TRUE)
    BY <1>1, <1>3, <1>6, <2>2, JustifiedAbort
  <2>4. Queue(graph, task, r.ready)
    BY <1>1, <1>3, QueueKept
  <2>5. Running(n, s)
    BY <1>1, <1>2, <1>3, <2>1, <2>2, <2>3, <2>4 DEF Running
  <2> QED
    BY <1>2, <1>3, <2>1, <2>5 DEF s
<1> QED
  BY <1>4, <1>5, <1>6

(* The number of active tasks is one. *)
LEMMA ActiveCount ==
  ASSUME NEW n \in Nat, NEW r, Running(n, r) PROVE Cardinality(Active(r)) \in Nat
<1>1. Active(r) \in SUBSET (1..n)
  BY DEF Active, In, Running
<1>2. IsFiniteSet(1..n)
  BY FS_Interval
<1> QED
  BY <1>1, <1>2, FS_Subset, FS_CardinalityType

(* The tasks of a sequence that begin and those that wait, with some slots  *)
(* free.                                                                    *)
Dealt(s, free, begun, waiting) ==
    /\ begun = AtMost(free, s)
    /\ waiting = IF free < Len(s) THEN SubSeq(s, free + 1, Len(s)) ELSE <<>>

(* With some free slots, the tasks of a sequence begin or wait, and none    *)
(* waits while a slot is left.                                              *)
LEMMA BeginOrWait ==
  ASSUME NEW S, NEW s \in Seq(S), IsInjective(s), NEW free \in Nat,
         NEW begun, NEW waiting, Dealt(s, free, begun, waiting)
  PROVE  /\ begun \in Seq(S) /\ waiting \in Seq(S) /\ IsInjective(begun) /\ IsInjective(waiting)
         /\ ToSet(s) = ToSet(begun) \cup ToSet(waiting) /\ ToSet(begun) \cap ToSet(waiting) = {}
         /\ Len(begun) + Len(waiting) = Len(s) /\ Len(begun) <= free
         /\ waiting # <<>> => Len(begun) = free
<1> USE DEF Dealt
<1>1. Len(s) \in Nat
  BY LenProperties
<1>2. PICK b \in 0..Len(s) :
         /\ begun = SubSeq(s, 1, b)
         /\ b = (IF free < 0 THEN 0 ELSE IF free < Len(s) THEN free ELSE Len(s))
  <2>1. free \in Int
    OBVIOUS
  <2>2. \E b \in 0..Len(s) :
           /\ AtMost(free, s) = SubSeq(s, 1, b)
           /\ b = (IF free < 0 THEN 0 ELSE IF free < Len(s) THEN free ELSE Len(s))
    BY <2>1, Taken
  <2> QED
    BY <2>2
<1>3. waiting = SubSeq(s, b + 1, Len(s)) /\ b <= free /\ (b = free \/ (b = Len(s) /\ waiting = <<>>))
  <2>1. CASE free < Len(s)
    <3>1. b = free
      BY <1>1, <1>2, <2>1
    <3> QED
      BY <2>1, <3>1
  <2>2. CASE ~(free < Len(s))
    <3>1. b = Len(s) /\ b <= free
      BY <1>1, <1>2, <2>2
    <3>2. waiting = <<>>
      BY <1>1, <2>2
    <3>3. SubSeq(s, Len(s) + 1, Len(s)) = <<>>
      BY <1>1, SubSeqEmpty
    <3> QED
      BY <3>1, <3>2, <3>3
  <2> QED
    BY <2>1, <2>2
<1>4. /\ begun \in Seq(S) /\ waiting \in Seq(S) /\ Len(begun) = b /\ Len(waiting) = Len(s) - b
      /\ IsInjective(begun) /\ IsInjective(waiting)
      /\ ToSet(s) = ToSet(begun) \cup ToSet(waiting) /\ ToSet(begun) \cap ToSet(waiting) = {}
  <2>1. b \in 0..Len(s)
    OBVIOUS
  <2>2. begun = SubSeq(s, 1, b) /\ waiting = SubSeq(s, b + 1, Len(s))
    BY <1>2, <1>3
  <2>3. /\ SubSeq(s, 1, b) \in Seq(S) /\ SubSeq(s, b + 1, Len(s)) \in Seq(S)
        /\ Len(SubSeq(s, 1, b)) = b /\ Len(SubSeq(s, b + 1, Len(s))) = Len(s) - b
        /\ IsInjective(SubSeq(s, 1, b)) /\ IsInjective(SubSeq(s, b + 1, Len(s)))
        /\ ToSet(s) = ToSet(SubSeq(s, 1, b)) \cup ToSet(SubSeq(s, b + 1, Len(s)))
        /\ ToSet(SubSeq(s, 1, b)) \cap ToSet(SubSeq(s, b + 1, Len(s))) = {}
    BY <2>1, Split
  <2> QED
    BY <2>2, <2>3
<1>5. Len(begun) + Len(waiting) = Len(s) /\ Len(begun) <= free
  <2> DEFINE k == Len(s)
  <2>1. k \in Nat /\ b \in 0..k /\ Len(begun) = b /\ Len(waiting) = k - b /\ b <= free
    BY <1>1, <1>3, <1>4
  <2> HIDE DEF k
  <2>2. Len(begun) + Len(waiting) = k /\ Len(begun) <= free
    BY <2>1
  <2> QED
    BY <2>2 DEF k
<1>6. waiting # <<>> => Len(begun) = free
  BY <1>3, <1>4
<1> QED
  BY <1>4, <1>5, <1>6

(* What l starts is at the front of the ready queue of r.                   *)
FromFront(n, r, l, rest) ==
    /\ rest = SubSeq(r.ready, Len(l.begun) + Len(l.waiting) + 1, Len(r.ready))
    /\ l.begun \in Seq(1..n) /\ l.waiting \in Seq(1..n) /\ rest \in Seq(1..n)
    /\ IsInjective(l.begun) /\ IsInjective(l.waiting) /\ IsInjective(rest)
    /\ ToSet(r.ready) = ToSet(l.begun) \cup ToSet(l.waiting) \cup ToSet(rest)
    /\ ToSet(l.begun) \cap ToSet(l.waiting) = {}
    /\ (ToSet(l.begun) \cup ToSet(l.waiting)) \cap ToSet(rest) = {}

(* The pump takes tasks from the front of the ready queue: the ones for     *)
(* which there is a slot begin, the others wait, and without a limit of the *)
(* gate none does.                                                          *)
LEMMA LaunchedParts ==
  ASSUME NEW n \in Nat, NEW c, NEW r, Running(n, r), NEW g, g.active \in Nat, g.active <= MaxParallel, NEW rows
  PROVE  LET l == Launched(c, r, g, rows)
         IN  /\ \E rest : FromFront(n, r, l, rest)
             /\ c \in Department => l.waiting = <<>>
             /\ c \notin Department =>
                   /\ Len(l.begun) <= MaxParallel - g.active
                   /\ l.waiting # <<>> => Len(l.begun) = MaxParallel - g.active
<1> DEFINE ready == r.ready
           l == Launched(c, r, g, rows)
           room == MaxParallel - Cardinality(Active(r))
           free == IF c \in Department THEN MaxParallel ELSE MaxParallel - g.active
           launched == AtMost(room, ready)
           begun == AtMost(free, launched)
           waiting == IF free < Len(launched) THEN SubSeq(launched, free + 1, Len(launched)) ELSE <<>>
<1>1. l.begun = begun /\ l.waiting = waiting
  BY DEF Launched
<1>2. ready \in Seq(1..n) /\ IsInjective(ready)
  BY RunParts DEF Running, Queue
<1>3. MaxParallel \in Nat \ {0}
  BY TeamAssumption
<1>4. room \in Int /\ room <= MaxParallel
  BY <1>3, ActiveCount
<1>5. free \in Nat /\ (c \in Department => free = MaxParallel) /\ (c \notin Department => free = MaxParallel - g.active)
  BY <1>3
<1> HIDE DEF l, room, free, ready
<1>6. PICK k \in 0..Len(ready) : launched = SubSeq(ready, 1, k) /\ k <= MaxParallel
  <2>1. PICK k \in 0..Len(ready) :
           /\ launched = SubSeq(ready, 1, k)
           /\ k = (IF room < 0 THEN 0 ELSE IF room < Len(ready) THEN room ELSE Len(ready))
    BY <1>2, <1>4, Taken
  <2>2. k <= MaxParallel
    BY <1>3, <1>4, <2>1
  <2> QED
    BY <2>1, <2>2
<1> DEFINE rest == SubSeq(ready, k + 1, Len(ready))
<1> HIDE DEF launched
<1>7. /\ launched \in Seq(1..n) /\ rest \in Seq(1..n) /\ Len(launched) = k /\ k \in Nat
      /\ IsInjective(launched) /\ IsInjective(rest)
      /\ ToSet(ready) = ToSet(launched) \cup ToSet(rest) /\ ToSet(launched) \cap ToSet(rest) = {}
  <2> DEFINE first == SubSeq(ready, 1, k)
  <2>1. /\ first \in Seq(1..n) /\ rest \in Seq(1..n) /\ Len(first) = k
        /\ IsInjective(first) /\ IsInjective(rest)
        /\ ToSet(ready) = ToSet(first) \cup ToSet(rest) /\ ToSet(first) \cap ToSet(rest) = {}
    BY <1>2, Split
  <2>2. k \in Nat
    BY <1>2, LenProperties
  <2>3. launched = first
    BY <1>6
  <2> HIDE DEF first, rest
  <2> QED
    BY <2>1, <2>2, <2>3
<1> HIDE DEF rest
<1>10. /\ begun \in Seq(1..n) /\ waiting \in Seq(1..n)
       /\ IsInjective(begun) /\ IsInjective(waiting)
       /\ ToSet(launched) = ToSet(begun) \cup ToSet(waiting) /\ ToSet(begun) \cap ToSet(waiting) = {}
       /\ Len(begun) + Len(waiting) = Len(launched) /\ Len(begun) <= free
       /\ waiting # <<>> => Len(begun) = free
  <2>1. free \in Nat /\ launched \in Seq(1..n) /\ IsInjective(launched)
    BY <1>5, <1>7
  <2>2. Dealt(launched, free, begun, waiting)
    BY DEF Dealt
  <2> HIDE DEF begun, waiting
  <2> QED
    BY <2>1, <2>2, BeginOrWait
<1> HIDE DEF begun, waiting
<1>11. Len(begun) \in Nat /\ Len(waiting) \in Nat /\ Len(begun) + Len(waiting) = k
  BY <1>7, <1>10, LenProperties
<1>12. rest = SubSeq(r.ready, Len(begun) + Len(waiting) + 1, Len(r.ready))
  BY <1>11 DEF rest, ready
<1>13. ASSUME c \in Department PROVE waiting = <<>>
  <2> SUFFICES ASSUME waiting # <<>> PROVE FALSE
    OBVIOUS
  <2>1. Len(begun) = MaxParallel
    BY <1>5, <1>10, <1>13
  <2>2. Len(waiting) = 0
    BY <1>3, <1>6, <1>11, <2>1
  <2> QED
    BY <1>10, <2>2, EmptySeq
<1>14. c \notin Department => Len(begun) <= MaxParallel - g.active
  BY <1>5, <1>10
<1>15. c \notin Department /\ waiting # <<>> => Len(begun) = MaxParallel - g.active
  BY <1>5, <1>10
<1>16. FromFront(n, r, l, rest)
  BY <1>1, <1>7, <1>10, <1>12 DEF ready, FromFront
<1> QED
  BY <1>1, <1>13, <1>14, <1>15, <1>16 DEF l

(* The tasks of a sequence are tasks. *)
LEMMA InSeq ==
  ASSUME NEW n \in Nat, NEW s \in Seq(1..n), NEW t \in ToSet(s) PROVE t \in 1..n
<1>1. DOMAIN s = 1..Len(s) /\ \A i \in DOMAIN s : s[i] \in 1..n
  BY LenProperties, ElementOfSeq
<1> QED
  BY <1>1 DEF ToSet

(* pump(): a run under way remains one, what starts was ready, and nothing  *)
(* else changes.                                                            *)
LEMMA RunningLaunched ==
  ASSUME NEW n \in Nat, NEW r, Running(n, r), NEW l, NEW rest, FromFront(n, r, l, rest)
  PROVE  LET s == After(r, l)
         IN  /\ Running(n, s) /\ s.kind = r.kind /\ s.graph = r.graph /\ s.aborted = r.aborted
             /\ \A u \in 1..n : s.task[u] = IF u \in ToSet(l.begun) THEN "running"
                                            ELSE IF u \in ToSet(l.waiting) THEN "queued" ELSE r.task[u]
             /\ \A u \in ToSet(l.begun) \cup ToSet(l.waiting) :
                    u \in 1..n /\ r.task[u] = "pending" /\ \A d \in r.graph[u] : r.task[d] = "succeeded"
<1> DEFINE s == After(r, l)
           next == [t \in 1..n |-> IF t \in ToSet(l.begun) THEN "running"
                                   ELSE IF t \in ToSet(l.waiting) THEN "queued" ELSE r.task[t]]
<1>1. /\ r \in RunOf(n) /\ r.graph \in [1..n -> SUBSET (1..n)] /\ r.ready \in Seq(1..n) /\ r.task \in [1..n -> Status]
      /\ Justified(r.graph, r.task, r.aborted) /\ Queue(r.graph, r.task, r.ready) /\ (r.aborted => r.ready = <<>>)
      /\ r.pc = "running" /\ r.aborted \in BOOLEAN
  BY RunParts DEF Running
<1>2. s = [r EXCEPT !.ready = rest, !.task = next]
  BY <1>1 DEF After, FromFront
<1>3. rest \in Seq(1..n)
  BY DEF FromFront
<1>4. next \in [1..n -> Status] /\ \A u \in 1..n : next[u] = IF u \in ToSet(l.begun) THEN "running"
                                                            ELSE IF u \in ToSet(l.waiting) THEN "queued" ELSE r.task[u]
  BY <1>1 DEF Status
<1> HIDE DEF next
<1>5. /\ s \in RunOf(n) /\ s.task = next /\ s.ready = rest
      /\ s.graph = r.graph /\ s.aborted = r.aborted /\ s.kind = r.kind /\ s.pc = "running"
  BY <1>1, <1>2, <1>3, <1>4 DEF RunOf
<1>6. \A u \in ToSet(l.begun) \cup ToSet(l.waiting) :
          u \in 1..n /\ r.task[u] = "pending" /\ \A d \in r.graph[u] : r.task[d] = "succeeded"
  BY <1>1, InSeq DEF FromFront, Queue
<1>7. Justified(r.graph, next, r.aborted)
  <2>1. \A u \in 1..n : \/ next[u] = r.task[u]
                        \/ /\ r.task[u] \in {"pending", "queued"} /\ next[u] \in {"queued", "running"}
                           /\ \A d \in r.graph[u] : r.task[d] = "succeeded"
    BY <1>4, <1>6
  <2> QED
    BY <1>1, <1>4, <2>1, JustifiedLaunch
<1>8. Queue(r.graph, next, rest)
  <2>1. IsInjective(rest)
    BY DEF FromFront
  <2>2. ASSUME NEW t \in ToSet(rest)
        PROVE  next[t] = "pending" /\ \A d \in r.graph[t] : next[d] = "succeeded"
    <3>1. t \in 1..n /\ r.task[t] = "pending" /\ \A d \in r.graph[t] : r.task[d] = "succeeded"
      BY <1>1, <1>3, InSeq DEF FromFront, Queue
    <3>2. t \notin ToSet(l.begun) /\ t \notin ToSet(l.waiting)
      BY DEF FromFront
    <3>3. ASSUME NEW d \in r.graph[t] PROVE next[d] = "succeeded"
      <4>1. d \in 1..n /\ r.task[d] = "succeeded"
        BY <1>1, <3>1
      <4> QED
        BY <1>4, <1>6, <4>1
    <3> QED
      BY <1>4, <3>1, <3>2, <3>3
  <2> QED
    BY <2>1, <2>2 DEF Queue
<1>9. r.aborted => rest = <<>>
  <2> SUFFICES ASSUME r.aborted PROVE rest = <<>>
    OBVIOUS
  <2>1. ToSet(r.ready) = {}
    BY <1>1, Nothing
  <2>2. ToSet(rest) = {}
    BY <2>1 DEF FromFront
  <2> QED
    BY <1>3, <2>2, Nothing
<1> HIDE DEF s
<1>10. Running(n, s)
  BY <1>1, <1>4, <1>5, <1>7, <1>8, <1>9 DEF Running
<1> QED
  BY <1>4, <1>5, <1>6, <1>10 DEF s

(* A run whose tasks are all settled may return. *)
LEMMA ReturnedFits ==
  ASSUME NEW n \in Nat, NEW s, Running(n, s), Ended(s)
  PROVE  LET e == [s EXCEPT !.pc = "returned"]
         IN  /\ Fit(n, e) /\ e.pc = "returned" /\ e.kind = s.kind /\ e.graph = s.graph /\ e.aborted = s.aborted
             /\ e.task = s.task
<1> DEFINE e == [s EXCEPT !.pc = "returned"]
<1>1. /\ s \in RunOf(n) /\ s.task \in [1..n -> Status] /\ s.ready \in Seq(1..n)
      /\ Justified(s.graph, s.task, s.aborted) /\ Queue(s.graph, s.task, s.ready) /\ (s.aborted => s.ready = <<>>)
  BY RunParts DEF Running
<1>2. /\ e \in RunOf(n) /\ e.pc = "returned" /\ e.kind = s.kind /\ e.graph = s.graph /\ e.aborted = s.aborted
      /\ e.task = s.task /\ e.ready = s.ready
  BY <1>1 DEF RunOf, RunPc
<1> HIDE DEF e
<1>3. Ended(e)
  BY <1>2 DEF Ended, Active, In
<1> QED
  BY <1>1, <1>2, <1>3 DEF Fit, e

-----------------------------------------------------------------------------
(* The rows that end the log of a run *)

(* The reports of the tasks that never started, but for silent ones. *)
Reports(n, s, silent, rows, q) ==
    /\ q \in Seq(Event)
    /\ \A k \in DOMAIN q : q[k].type = "subagent.failed"
    /\ \A t \in 1..n : /\ Begins(q, t) = {}
                       /\ IF Started(rows, t) \/ s.task[t] = "succeeded" \/ t \in silent THEN Ends(q, t) = {}
                          ELSE \E k \in DOMAIN q : Ends(q, t) = {k} /\ q[k].status = s.task[t]

TerminalStatus(s) ==
    IF s.aborted THEN "interrupted" ELSE IF In(s, {"succeeded"}) = Tasks(s) THEN "completed" ELSE "failed"

(* A department that was aborted reports none. *)
Silent(c, s) == IF c \in Department /\ s.aborted THEN Tasks(s) ELSE {}

(* What EndRows() consists of. *)
LEMMA EndRowsParts ==
  ASSUME NEW n \in Nat, NEW s, Running(n, s), NEW c, NEW rows
  PROVE  \E q : /\ Reports(n, s, Silent(c, s), rows, q)
                /\ EndRows(c, s, rows) = q \o <<Row("team.complete", 0, TerminalStatus(s))>>
<1> DEFINE S == {t \in Tasks(s) : ~Started(rows, t) /\ s.task[t] # "succeeded"}
           u == InOrder(S)
           report == [i \in DOMAIN u |-> Row("subagent.failed", u[i], s.task[u[i]])]
           q == IF c \in Department /\ s.aborted THEN <<>> ELSE report
           silent == Silent(c, s)
<1>1. EndRows(c, s, rows) = q \o <<Row("team.complete", 0, TerminalStatus(s))>>
  BY DEF EndRows, TerminalStatus
<1>2. Tasks(s) = 1..n /\ s.task \in [1..n -> Status]
  BY RunParts DEF Running
<1>3. S \in SUBSET (1..n) /\ \A t \in 1..n : t \in S <=> ~Started(rows, t) /\ s.task[t] # "succeeded"
  BY <1>2
<1>4. u \in Seq(S) /\ IsInjective(u) /\ ToSet(u) = S
  BY <1>3, Listed
<1> HIDE DEF S, u
<1>5. Len(u) \in Nat /\ DOMAIN u = 1..Len(u) /\ \A i \in DOMAIN u : u[i] \in S
  BY <1>4, LenProperties, ElementOfSeq
<1>6. \A i \in DOMAIN u : /\ report[i] = [type |-> "subagent.failed", task |-> u[i], status |-> s.task[u[i]]]
                          /\ report[i] \in Event
  <2> SUFFICES ASSUME NEW i \in DOMAIN u
               PROVE  /\ report[i] = [type |-> "subagent.failed", task |-> u[i], status |-> s.task[u[i]]]
                      /\ report[i] \in Event
    OBVIOUS
  <2>1. u[i] \in 1..n /\ s.task[u[i]] \in Status
    BY <1>2, <1>3, <1>5
  <2>2. report[i] = [type |-> "subagent.failed", task |-> u[i], status |-> s.task[u[i]]]
    BY DEF Row
  <2> HIDE DEF report
  <2> QED
    BY <2>1, <2>2 DEF Event, EventType
<1>7. report \in [1..Len(u) -> Event]
  BY <1>5, <1>6
<1>8. report \in Seq(Event) /\ DOMAIN report = DOMAIN u
  BY <1>5, <1>7, IsASeq
<1> HIDE DEF report
<1>9. OneEach(report, "subagent.failed", u)
  BY <1>6, <1>8 DEF OneEach
<1>10. Reports(n, s, silent, rows, q)
  <2>1. CASE c \in Department /\ s.aborted
    <3>1. q = <<>> /\ silent = 1..n
      BY <1>2, <2>1 DEF Silent
    <3>2. \A types, t : Marks(<<>>, types, t) = {}
      BY DEF Marks
    <3> HIDE DEF q, silent
    <3> QED
      BY <3>1, <3>2, Nothing DEF Reports, Begins, Ends
  <2>2. CASE ~(c \in Department /\ s.aborted)
    <3>1. q = report /\ silent = {}
      BY <2>2 DEF Silent
    <3> HIDE DEF q, silent
    <3>2. \A k \in DOMAIN q : q[k].type = "subagent.failed"
      BY <1>9, <3>1 DEF OneEach
    <3>3. ASSUME NEW t \in 1..n
          PROVE  /\ Begins(q, t) = {}
                 /\ IF Started(rows, t) \/ s.task[t] = "succeeded" THEN Ends(q, t) = {}
                    ELSE \E k \in DOMAIN q : Ends(q, t) = {k} /\ q[k].status = s.task[t]
      <4>1. Begins(q, t) = {}
        BY <1>4, <1>9, <3>1, OneEachMarks DEF Begins
      <4>2. CASE t \in S
        <5>1. PICK k \in DOMAIN q : u[k] = t /\ Marks(q, {"subagent.complete", "subagent.failed"}, t) = {k}
          BY <1>4, <1>9, <3>1, <4>2, OneEachMarks
        <5>2. q[k].status = s.task[t]
          BY <1>6, <1>8, <3>1, <5>1
        <5> QED
          BY <1>3, <4>1, <4>2, <5>1, <5>2 DEF Ends
      <4>3. CASE t \notin S
        <5>1. Ends(q, t) = {}
          BY <1>4, <1>9, <3>1, <4>3, OneEachMarks DEF Ends
        <5> QED
          BY <1>3, <4>1, <4>3, <5>1
      <4> QED
        BY <4>2, <4>3
    <3> QED
      BY <1>8, <3>1, <3>2, <3>3 DEF Reports
  <2> QED
    BY <2>1, <2>2
<1> QED
  BY <1>1, <1>10

(* The account of a settled task that never started, and of one that did. *)
LEMMA Unstarted ==
  ASSUME NEW rows, NEW t, NEW status \in {"succeeded", "failed", "blocked", "aborted"}, Account(rows, t, status)
  PROVE  IF Started(rows, t) \/ status = "succeeded" THEN Reported(rows, t, status)
         ELSE Begins(rows, t) = {} /\ Ends(rows, t) = {}
<1>1. Started(rows, t) <=> Begins(rows, t) # {}
  BY DEF Started, Begins, Marks
<1>2. Reported(rows, t, status) => Begins(rows, t) # {}
  BY DEF Reported
<1> QED
  BY <1>1, <1>2 DEF Account

(* A run that ends has settled each of its tasks. *)
LEMMA AllSettled ==
  ASSUME NEW n \in Nat, NEW s, Running(n, s), Ended(s), NEW t \in 1..n
  PROVE  s.task[t] \in {"succeeded", "failed", "blocked", "aborted"}
<1>1. s.task \in [1..n -> Status]
  BY DEF Running
<1> QED
  BY <1>1 DEF Ended, Active, In, Status

(* emitTerminal(): behind the rows that end a run its log tells the result. *)
LEMMA LoggedResult ==
  ASSUME NEW n \in Nat, NEW s, Running(n, s), Ended(s), NEW silent,
         silent # {} => s.kind = "department" /\ s.aborted,
         NEW rows, Logged(s.graph, s.task, rows), NEW q, Reports(n, s, silent, rows, q),
         NEW e, e.pc = "returned", e.kind = s.kind, e.graph = s.graph, e.aborted = s.aborted, e.task = s.task
  PROVE  Chronicle(e, rows \o (q \o <<Row("team.complete", 0, TerminalStatus(s))>>))
<1> DEFINE close == Row("team.complete", 0, TerminalStatus(s))
           tail == q \o <<close>>
           all == rows \o tail
<1>1. /\ rows \in Seq(Event) /\ Ordered(s.graph, rows) /\ (\A i \in DOMAIN rows : rows[i].type \notin Terminal)
      /\ Tasks(s) = 1..n /\ DOMAIN s.graph = 1..n /\ \A t \in 1..n : Account(rows, t, s.task[t])
  BY RunParts DEF Logged, Told, Running
<1>2. q \in Seq(Event) /\ (\A k \in DOMAIN q : q[k].type = "subagent.failed")
  BY DEF Reports
<1>3. close = [type |-> "team.complete", task |-> 0, status |-> TerminalStatus(s)] /\ close \in Event
  BY DEF Row, Event, EventType, TerminalStatus, Status
<1> HIDE DEF close
<1>4. <<close>> \in Seq(Event) /\ Len(<<close>>) = 1 /\ DOMAIN <<close>> = {1} /\ <<close>>[1] = close
  BY <1>3, One
<1>5. /\ tail \in Seq(Event) /\ Len(q) \in Nat /\ Len(tail) = Len(q) + 1 /\ DOMAIN tail = 1..Len(q) + 1
      /\ DOMAIN q = 1..Len(q)
      /\ (\A i \in DOMAIN q : i \in DOMAIN tail /\ tail[i] = q[i]) /\ tail[Len(q) + 1] = close
  BY <1>2, <1>4, Longer
<1>6. ASSUME NEW types, NEW t \in 1..n PROVE Marks(tail, types, t) = Marks(q, types, t)
  <2> DEFINE one == <<close>>
  <2>1. Marks(one, types, t) = {}
    BY <1>3, <1>4 DEF Marks
  <2>2. q \in Seq(Event) /\ one \in Seq(Event)
    BY <1>2, <1>4
  <2> HIDE DEF one
  <2>3. Marks(q \o one, types, t) = Marks(q, types, t)
    BY <2>1, <2>2, MarksKept
  <2> QED
    BY <2>3 DEF one
<1> HIDE DEF tail
<1>7. /\ all \in Seq(Event) /\ Len(rows) \in Nat /\ DOMAIN rows = 1..Len(rows) /\ Len(tail) = Len(q) + 1
      /\ Len(all) = Len(rows) + (Len(q) + 1) /\ DOMAIN all = 1..(Len(rows) + (Len(q) + 1))
      /\ (\A i \in DOMAIN rows : i \in DOMAIN all /\ all[i] = rows[i])
      /\ (\A k \in DOMAIN tail : Len(rows) + k \in DOMAIN all /\ all[Len(rows) + k] = tail[k])
      /\ (\A i \in DOMAIN all : i \in DOMAIN rows \/ \E k \in DOMAIN tail : i = Len(rows) + k)
  <2>1. rows \in Seq(Event) /\ tail \in Seq(Event)
    BY <1>1, <1>5
  <2>2. /\ all \in Seq(Event) /\ Len(rows) \in Nat /\ DOMAIN rows = 1..Len(rows)
        /\ Len(all) = Len(rows) + Len(tail) /\ DOMAIN all = 1..(Len(rows) + Len(tail))
        /\ (\A i \in DOMAIN rows : i \in DOMAIN all /\ all[i] = rows[i])
        /\ (\A k \in DOMAIN tail : Len(rows) + k \in DOMAIN all /\ all[Len(rows) + k] = tail[k])
        /\ (\A i \in DOMAIN all : i \in DOMAIN rows \/ \E k \in DOMAIN tail : i = Len(rows) + k)
    BY <2>1, Longer
  <2> HIDE DEF all
  <2>3. Len(tail) = Len(q) + 1
    BY <1>5
  <2> QED
    BY <2>2, <2>3
<1>8. Ordered(s.graph, all)
  <2>1. \A k \in DOMAIN tail : tail[k].type # "subagent.start"
    BY <1>2, <1>3, <1>5
  <2> QED
    BY <1>1, <1>5, <2>1, OrderedWithoutStart
<1>9. ASSUME NEW t \in 1..n
      PROVE  /\ Begins(all, t) = Begins(rows, t)
             /\ Ends(tail, t) = Ends(q, t)
             /\ Ends(q, t) = {} => Ends(all, t) = Ends(rows, t)
             /\ Ends(rows, t) = {} => Ends(all, t) = {Len(rows) + k : k \in Ends(q, t)}
  <2>1. Begins(q, t) = {}
    BY DEF Reports
  <2>2. Begins(tail, t) = {} /\ Ends(tail, t) = Ends(q, t)
    BY <1>6, <2>1 DEF Begins, Ends
  <2>3. Begins(all, t) = Begins(rows, t)
    BY <1>1, <1>5, <2>2, MarksKept DEF Begins
  <2>4. Ends(q, t) = {} => Ends(all, t) = Ends(rows, t)
    BY <1>1, <1>5, <2>2, MarksKept DEF Ends
  <2>5. Ends(all, t) = Ends(rows, t) \cup {Len(rows) + k : k \in Ends(tail, t)}
    BY <1>1, <1>5, MarksAfter DEF Ends
  <2> QED
    BY <2>2, <2>3, <2>4, <2>5
<1> HIDE DEF all
<1>10. ClosedOnce(all) /\ Last(all) = close /\ Sealed(all)
  <2>1. all[Len(all)] = close
    <3>1. Len(q) + 1 \in DOMAIN tail
      BY <1>5
    <3> QED
      BY <1>5, <1>7, <3>1
  <2>2. ASSUME NEW i \in DOMAIN all, all[i].type \in Terminal PROVE i = Len(all) /\ all[i].task = 0
    <3>1. i \notin DOMAIN rows
      BY <1>1, <1>7, <2>2
    <3>2. PICK k \in DOMAIN tail : i = Len(rows) + k
      BY <1>7, <3>1
    <3>3. all[i] = tail[k]
      BY <1>7, <3>2
    <3>4. k \notin DOMAIN q
      BY <1>2, <1>5, <2>2, <3>3 DEF Terminal
    <3>5. k = Len(q) + 1
      BY <1>5, <3>4
    <3> QED
      BY <1>3, <1>5, <1>7, <3>2, <3>3, <3>5
  <2>3. all # <<>>
    <3>1. Len(all) # 0
      BY <1>5, <1>7
    <3> QED
      BY <1>7, <3>1, EmptySeq
  <2> QED
    BY <1>3, <2>1, <2>2, <2>3 DEF ClosedOnce, Last, Sealed
<1>11. Matches(e, all)
  <2>1. (Last(all).status = "completed") = (In(e, {"succeeded"}) = Tasks(e) /\ ~e.aborted)
    <3>1. In(e, {"succeeded"}) = In(s, {"succeeded"}) /\ Tasks(e) = Tasks(s) /\ e.aborted = s.aborted
      BY DEF In, Tasks
    <3>2. s.aborted \in BOOLEAN
      BY RunParts DEF Running
    <3> QED
      BY <1>3, <1>10, <3>1, <3>2 DEF TerminalStatus
  <2>2. ASSUME NEW t \in 1..n
        PROVE  /\ Begins(all, t) = {} \/ \E i \in DOMAIN all : Begins(all, t) = {i}
               /\ Ends(all, t) = {} \/ \E i \in DOMAIN all : Ends(all, t) = {i}
               /\ Ends(all, t) = {} => Begins(all, t) = {} /\ s.kind = "department" /\ s.aborted
               /\ \A i \in Ends(all, t) :
                      all[i].status = s.task[t] /\ (s.task[t] = "succeeded" <=> all[i].type = "subagent.complete")
    <3>1. s.task[t] \in {"succeeded", "failed", "blocked", "aborted"}
      BY AllSettled
    <3>2. IF Started(rows, t) \/ s.task[t] = "succeeded" THEN Reported(rows, t, s.task[t])
          ELSE Begins(rows, t) = {} /\ Ends(rows, t) = {}
      BY <1>1, <3>1, Unstarted
    <3>3. IF Started(rows, t) \/ s.task[t] = "succeeded" \/ t \in silent THEN Ends(q, t) = {}
          ELSE \E k \in DOMAIN q : Ends(q, t) = {k} /\ q[k].status = s.task[t]
      BY DEF Reports
    <3>4. CASE Started(rows, t) \/ s.task[t] = "succeeded"
      <4>1. Begins(all, t) = Begins(rows, t) /\ Ends(all, t) = Ends(rows, t) /\ Reported(rows, t, s.task[t])
        BY <1>9, <3>2, <3>3, <3>4
      <4>2. PICK i \in DOMAIN rows, j \in DOMAIN rows :
                /\ Begins(rows, t) = {i} /\ Ends(rows, t) = {j} /\ rows[j].status = s.task[t]
                /\ s.task[t] = "succeeded" <=> rows[j].type = "subagent.complete"
        BY <4>1 DEF Reported
      <4>3. i \in DOMAIN all /\ j \in DOMAIN all /\ all[j] = rows[j]
        BY <1>7, <4>2
      <4> QED
        BY <4>1, <4>2, <4>3
    <3>5. CASE ~(Started(rows, t) \/ s.task[t] = "succeeded") /\ t \in silent
      <4>1. Begins(all, t) = {} /\ Ends(all, t) = {}
        BY <1>9, <3>2, <3>3, <3>5
      <4> QED
        BY <3>5, <4>1
    <3>6. CASE ~(Started(rows, t) \/ s.task[t] = "succeeded") /\ t \notin silent
      <4>1. PICK k \in DOMAIN q : Ends(q, t) = {k} /\ q[k].status = s.task[t]
        BY <3>3, <3>6
      <4>2. Begins(all, t) = {} /\ Ends(all, t) = {Len(rows) + k}
        BY <1>9, <3>2, <3>6, <4>1
      <4>3. Len(rows) + k \in DOMAIN all /\ all[Len(rows) + k] = q[k] /\ k \in DOMAIN q
        BY <1>5, <1>7, <4>1
      <4>4. q[k].type = "subagent.failed" /\ s.task[t] # "succeeded"
        BY <1>2, <3>6, <4>3
      <4> QED
        BY <4>1, <4>2, <4>3, <4>4
    <3> QED
      BY <3>4, <3>5, <3>6
  <2>3. Tasks(e) = 1..n
    BY <1>1 DEF Tasks
  <2> QED
    BY <2>1, <2>2, <2>3 DEF Matches
<1> QED
  BY <1>7, <1>8, <1>10, <1>11 DEF Chronicle, close, tail, all

-----------------------------------------------------------------------------
(* The gate as tasks start *)

(* The tasks of a run are among the tasks of all. *)
LEMMA TasksOfSetup ==
  ASSUME NEW R, Configured(R), NEW c \in Call, NEW t \in DOMAIN R[c].graph PROVE t \in MaxTask
<1>1. PICK setup \in Setup : R[c].graph = setup[c].graph
  BY DEF Configured
<1>2. t \in DOMAIN setup[c].graph
  BY <1>1
<1> QED
  BY <1>2 DEF MaxTask

Places(c, s) == [i \in DOMAIN s |-> <<c, s[i]>>]

PlacesOf(c, S) == {<<c, t>> : t \in S}

(* The places of the tasks of a sequence, in its order. *)
LEMMA PlacesProperties ==
  ASSUME NEW c \in Call, NEW n \in Nat, 1..n \subseteq MaxTask, NEW s \in Seq(1..n), IsInjective(s)
  PROVE  /\ Places(c, s) \in Seq(Call \X MaxTask) /\ IsInjective(Places(c, s)) /\ Len(Places(c, s)) = Len(s)
         /\ ToSet(Places(c, s)) = PlacesOf(c, ToSet(s))
<1> DEFINE p == Places(c, s)
<1>1. Len(s) \in Nat /\ DOMAIN s = 1..Len(s) /\ \A i \in DOMAIN s : s[i] \in 1..n
  BY LenProperties, ElementOfSeq
<1>2. DOMAIN p = 1..Len(s) /\ \A i \in 1..Len(s) : p[i] = <<c, s[i]>>
  BY <1>1 DEF Places
<1>3. p \in [1..Len(s) -> Call \X MaxTask]
  BY <1>1 DEF Places
<1>4. p \in Seq(Call \X MaxTask)
  BY <1>1, <1>3, IsASeq
<1> HIDE DEF p
<1>5. Len(p) = Len(s)
  <2> DEFINE k == Len(s)
  <2>1. k \in Nat /\ DOMAIN p = 1..k
    BY <1>1, <1>2
  <2> HIDE DEF k
  <2>2. Len(p) = k
    BY <1>4, <2>1, LenProperties
  <2> QED
    BY <2>2 DEF k
<1>6. IsInjective(p)
  BY <1>1, <1>2 DEF IsInjective
<1>7. ToSet(p) = PlacesOf(c, ToSet(s))
  BY <1>1, <1>2 DEF ToSet, PlacesOf
<1> QED
  BY <1>4, <1>5, <1>6, <1>7 DEF p

(* Tasks take free slots, and the ones behind them wait. *)
Taking(R1, R2, g, c, begun, waiting) ==
    /\ SlotsOf(R2) = SlotsOf(R1) \cup PlacesOf(c, ToSet(begun))
    /\ SlotsOf(R1) \cap PlacesOf(c, ToSet(begun)) = {}
    /\ WaitersOf(R2) = WaitersOf(R1) \cup PlacesOf(c, ToSet(waiting))
    /\ WaitersOf(R1) \cap PlacesOf(c, ToSet(waiting)) = {}
    /\ Len(begun) <= MaxParallel - g.active
    /\ waiting # <<>> => Len(begun) = MaxParallel - g.active

(* Slots are taken and waiters queue: the gate remains exact. *)
LEMMA GateTaken ==
  ASSUME NEW R1, NEW R2, NEW g, Gated(R1, g), NEW c \in Call, NEW n \in Nat, 1..n \subseteq MaxTask,
         NEW begun \in Seq(1..n), IsInjective(begun), NEW waiting \in Seq(1..n), IsInjective(waiting),
         Taking(R1, R2, g, c, begun, waiting)
  PROVE  Gated(R2, [active |-> g.active + Len(begun), queue |-> g.queue \o Places(c, waiting)])
<1> DEFINE g2 == [active |-> g.active + Len(begun), queue |-> g.queue \o Places(c, waiting)]
           b == PlacesOf(c, ToSet(begun))
           w == PlacesOf(c, ToSet(waiting))
<1>1. /\ g.active \in Nat /\ g.queue \in Seq(Call \X MaxTask) /\ IsFiniteSet(SlotsOf(R1))
      /\ g.active = Cardinality(SlotsOf(R1)) /\ g.active <= MaxParallel /\ IsInjective(g.queue)
      /\ ToSet(g.queue) = WaitersOf(R1) /\ (g.queue # <<>> => g.active = MaxParallel) /\ MaxParallel \in Nat
  BY TeamAssumption DEF Gated
<1>2. /\ Places(c, begun) \in Seq(Call \X MaxTask) /\ IsInjective(Places(c, begun))
      /\ Len(Places(c, begun)) = Len(begun) /\ ToSet(Places(c, begun)) = b
  BY PlacesProperties
<1>3. /\ Places(c, waiting) \in Seq(Call \X MaxTask) /\ IsInjective(Places(c, waiting))
      /\ Len(Places(c, waiting)) = Len(waiting) /\ ToSet(Places(c, waiting)) = w
  BY PlacesProperties
<1>4. IsFiniteSet(b) /\ Cardinality(b) = Len(begun) /\ Len(begun) \in Nat /\ Len(waiting) \in Nat
  BY <1>2, Counted, LenProperties
<1>5. /\ SlotsOf(R2) = SlotsOf(R1) \cup b /\ SlotsOf(R1) \cap b = {}
      /\ WaitersOf(R2) = WaitersOf(R1) \cup w /\ WaitersOf(R1) \cap w = {}
      /\ Len(begun) <= MaxParallel - g.active /\ (waiting # <<>> => Len(begun) = MaxParallel - g.active)
  BY DEF Taking
<1> HIDE DEF b, w
<1>6. IsFiniteSet(SlotsOf(R2)) /\ Cardinality(SlotsOf(R2)) = Cardinality(SlotsOf(R1)) + Cardinality(b)
  <2>1. IsFiniteSet(SlotsOf(R1) \cap b) /\ Cardinality(SlotsOf(R1) \cap b) = 0
    BY <1>5, FS_EmptySet
  <2>2. /\ IsFiniteSet(SlotsOf(R1) \cup b)
        /\ Cardinality(SlotsOf(R1) \cup b)
              = Cardinality(SlotsOf(R1)) + Cardinality(b) - Cardinality(SlotsOf(R1) \cap b)
    BY <1>1, <1>4, FS_Union
  <2>3. Cardinality(SlotsOf(R1)) \in Nat /\ Cardinality(b) \in Nat
    BY <1>1, <1>4, FS_CardinalityType
  <2> QED
    BY <1>5, <2>1, <2>2, <2>3
<1>7. /\ g2.queue \in Seq(Call \X MaxTask) /\ ToSet(g2.queue) = WaitersOf(R2) /\ IsInjective(g2.queue)
  <2>1. /\ g.queue \o Places(c, waiting) \in Seq(Call \X MaxTask)
        /\ ToSet(g.queue \o Places(c, waiting)) = ToSet(g.queue) \cup ToSet(Places(c, waiting))
        /\ IsInjective(g.queue \o Places(c, waiting))
    BY <1>1, <1>3, <1>5, Chained
  <2> QED
    BY <1>1, <1>3, <1>5, <2>1
<1>8. g2.queue # <<>> => g2.active = MaxParallel
  <2>1. CASE waiting # <<>>
    BY <1>1, <1>4, <1>5, <2>1
  <2>2. CASE waiting = <<>>
    <3>1. Places(c, waiting) = <<>>
      BY <1>3, <2>2, EmptySeq
    <3>2. g2.queue = g.queue
      BY <1>1, <3>1, Nothing
    <3> QED
      BY <1>1, <1>4, <1>5, <3>2
  <2> QED
    BY <2>1, <2>2
<1>9. g2.active \in Nat /\ g2.active <= MaxParallel /\ g2.active = Cardinality(SlotsOf(R2))
  BY <1>1, <1>4, <1>5, <1>6
<1>10. g2 \in [active : Nat, queue : Seq(Call \X MaxTask)]
  BY <1>7, <1>9
<1> QED
  BY <1>6, <1>7, <1>8, <1>9, <1>10 DEF Gated

(* The slots and the waiters of one run. *)
SlotsIn(r) == IF r.kind = "tool" /\ r.pc = "running" THEN In(r, {"running"}) ELSE {}
WaitingIn(r) == IF r.kind = "tool" /\ r.pc = "running" /\ ~r.aborted THEN In(r, {"queued"}) ELSE {}

(* A run that changes changes its own slots and waiters. *)
LEMMA SlotsChanged ==
  ASSUME NEW R1, NEW R2, NEW c \in Call, NEW e, R2[c] = e, \A d \in Call : d # c => R2[d] = R1[d],
         SlotsIn(e) \subseteq MaxTask, WaitingIn(e) \subseteq MaxTask
  PROVE  /\ SlotsOf(R2) = {w \in SlotsOf(R1) : w[1] # c} \cup PlacesOf(c, SlotsIn(e))
         /\ WaitersOf(R2) = {w \in WaitersOf(R1) : w[1] # c} \cup PlacesOf(c, WaitingIn(e))
<1>2. SlotsOf(R2) = {w \in SlotsOf(R1) : w[1] # c} \cup PlacesOf(c, SlotsIn(e))
  <2>1. ASSUME NEW w \in Call \X MaxTask
        PROVE  w \in SlotsOf(R2) <=> w \in {v \in SlotsOf(R1) : v[1] # c} \cup PlacesOf(c, SlotsIn(e))
    <3>1. w = <<w[1], w[2]>> /\ w[1] \in Call
      OBVIOUS
    <3>2. w \in PlacesOf(c, SlotsIn(e)) <=> w[1] = c /\ w[2] \in SlotsIn(e)
      BY <3>1 DEF PlacesOf
    <3> QED
      BY <3>1, <3>2 DEF SlotsOf, SlotsIn
  <2>2. PlacesOf(c, SlotsIn(e)) \subseteq Call \X MaxTask /\ SlotsOf(R1) \subseteq Call \X MaxTask
        /\ SlotsOf(R2) \subseteq Call \X MaxTask
    BY DEF PlacesOf, SlotsOf
  <2> QED
    BY <2>1, <2>2
<1>3. WaitersOf(R2) = {w \in WaitersOf(R1) : w[1] # c} \cup PlacesOf(c, WaitingIn(e))
  <2>1. ASSUME NEW w \in Call \X MaxTask
        PROVE  w \in WaitersOf(R2) <=> w \in {v \in WaitersOf(R1) : v[1] # c} \cup PlacesOf(c, WaitingIn(e))
    <3>1. w = <<w[1], w[2]>> /\ w[1] \in Call
      OBVIOUS
    <3>2. w \in PlacesOf(c, WaitingIn(e)) <=> w[1] = c /\ w[2] \in WaitingIn(e)
      BY <3>1 DEF PlacesOf
    <3> QED
      BY <3>1, <3>2 DEF WaitersOf, WaitingIn
  <2>2. PlacesOf(c, WaitingIn(e)) \subseteq Call \X MaxTask /\ WaitersOf(R1) \subseteq Call \X MaxTask
        /\ WaitersOf(R2) \subseteq Call \X MaxTask
    BY DEF PlacesOf, WaitersOf
  <2> QED
    BY <2>1, <2>2
<1> QED
  BY <1>2, <1>3

(* and those it has are in the slots and among the waiters. *)
LEMMA SlotsOwn ==
  ASSUME NEW R, NEW c \in Call, SlotsIn(R[c]) \subseteq MaxTask, WaitingIn(R[c]) \subseteq MaxTask
  PROVE  /\ {w \in SlotsOf(R) : w[1] = c} = PlacesOf(c, SlotsIn(R[c]))
         /\ {w \in WaitersOf(R) : w[1] = c} = PlacesOf(c, WaitingIn(R[c]))
<1>1. ASSUME NEW w \in Call \X MaxTask
      PROVE  /\ w \in {v \in SlotsOf(R) : v[1] = c} <=> w \in PlacesOf(c, SlotsIn(R[c]))
             /\ w \in {v \in WaitersOf(R) : v[1] = c} <=> w \in PlacesOf(c, WaitingIn(R[c]))
  <2>1. w = <<w[1], w[2]>> /\ w[1] \in Call
    OBVIOUS
  <2>2. \A S : w \in PlacesOf(c, S) <=> w[1] = c /\ w[2] \in S
    BY <2>1 DEF PlacesOf
  <2> QED
    BY <2>1, <2>2 DEF SlotsOf, SlotsIn, WaitersOf, WaitingIn
<1>2. /\ PlacesOf(c, SlotsIn(R[c])) \subseteq Call \X MaxTask /\ SlotsOf(R) \subseteq Call \X MaxTask
      /\ PlacesOf(c, WaitingIn(R[c])) \subseteq Call \X MaxTask /\ WaitersOf(R) \subseteq Call \X MaxTask
  BY DEF PlacesOf, SlotsOf, WaitersOf
<1> QED
  BY <1>1, <1>2

(* The record that the pump leaves of r when it starts l. *)
Left(r, l, e) ==
    \/ e = After(r, l)
    \/ Ended(After(r, l)) /\ e = [After(r, l) EXCEPT !.pc = "returned"]

(* The slots and the waiters of a run under way that the pump starts.       *)
LEMMA SlotsLaunched ==
  ASSUME NEW n \in Nat, NEW r, Running(n, r), r.kind = "tool", NEW l, NEW rest, FromFront(n, r, l, rest),
         NEW e, Left(r, l, e)
  PROVE  /\ SlotsIn(e) = SlotsIn(r) \cup ToSet(l.begun) /\ SlotsIn(r) \cap ToSet(l.begun) = {}
         /\ WaitingIn(e) = WaitingIn(r) \cup ToSet(l.waiting) /\ WaitingIn(r) \cap ToSet(l.waiting) = {}
<1> DEFINE s == After(r, l)
<1>1. /\ Running(n, s) /\ s.kind = r.kind /\ s.graph = r.graph /\ s.aborted = r.aborted
      /\ \A u \in 1..n : s.task[u] = IF u \in ToSet(l.begun) THEN "running"
                                     ELSE IF u \in ToSet(l.waiting) THEN "queued" ELSE r.task[u]
      /\ \A u \in ToSet(l.begun) \cup ToSet(l.waiting) : u \in 1..n /\ r.task[u] = "pending"
  BY RunningLaunched
<1>2. /\ r.pc = "running" /\ r.task \in [1..n -> Status] /\ r.aborted \in BOOLEAN
      /\ s.pc = "running" /\ s.task \in [1..n -> Status] /\ s \in RunOf(n)
  BY <1>1, RunParts DEF Running
<1>3. ToSet(l.begun) \cap ToSet(l.waiting) = {} /\ ToSet(l.waiting) \subseteq ToSet(r.ready)
  BY DEF FromFront
<1>4. r.aborted => ToSet(l.waiting) = {}
  BY <1>3, Nothing DEF Running
<1> HIDE DEF s
<1>5. \A u : /\ u \in In(r, {"running"}) <=> u \in 1..n /\ r.task[u] = "running"
             /\ u \in In(r, {"queued"}) <=> u \in 1..n /\ r.task[u] = "queued"
             /\ u \in In(s, {"running"}) <=> u \in 1..n /\ s.task[u] = "running"
             /\ u \in In(s, {"queued"}) <=> u \in 1..n /\ s.task[u] = "queued"
  BY <1>2 DEF In
<1>6. /\ In(s, {"running"}) = In(r, {"running"}) \cup ToSet(l.begun) /\ In(r, {"running"}) \cap ToSet(l.begun) = {}
      /\ In(s, {"queued"}) = In(r, {"queued"}) \cup ToSet(l.waiting) /\ In(r, {"queued"}) \cap ToSet(l.waiting) = {}
  <2>1. \A u : u \in In(s, {"running"}) <=> u \in In(r, {"running"}) \/ u \in ToSet(l.begun)
    BY <1>1, <1>3, <1>5
  <2>2. \A u : u \in In(s, {"queued"}) <=> u \in In(r, {"queued"}) \/ u \in ToSet(l.waiting)
    BY <1>1, <1>3, <1>5
  <2>3. \A u : ~(u \in In(r, {"running"}) /\ u \in ToSet(l.begun)) /\ ~(u \in In(r, {"queued"}) /\ u \in ToSet(l.waiting))
    BY <1>1, <1>5
  <2> QED
    BY <2>1, <2>2, <2>3
<1>7. SlotsIn(s) = In(s, {"running"}) /\ WaitingIn(s) = IF r.aborted THEN {} ELSE In(s, {"queued"})
  BY <1>1, <1>2 DEF SlotsIn, WaitingIn
<1>8. SlotsIn(e) = In(s, {"running"}) /\ WaitingIn(e) = IF r.aborted THEN {} ELSE In(s, {"queued"})
  <2>1. CASE e = s
    BY <1>7, <2>1
  <2>2. CASE Ended(s) /\ e = [s EXCEPT !.pc = "returned"]
    <3>1. e.pc = "returned"
      BY <1>2, <2>2 DEF RunOf
    <3>2. In(s, {"running"}) = {} /\ In(s, {"queued"}) = {}
      BY <2>2 DEF Ended, Active, In
    <3>3. SlotsIn(e) = {} /\ WaitingIn(e) = {}
      BY <3>1 DEF SlotsIn, WaitingIn
    <3> QED
      BY <3>2, <3>3
  <2> QED
    BY <2>1, <2>2 DEF s, Left
<1>9. SlotsIn(r) = In(r, {"running"}) /\ WaitingIn(r) = IF r.aborted THEN {} ELSE In(r, {"queued"})
  BY <1>2 DEF SlotsIn, WaitingIn
<1> QED
  BY <1>4, <1>6, <1>8, <1>9

(* What l starts of r has a slot, and it lets nobody wait with one free. *)
Admitted(r, g, l) ==
    IF r.kind = "tool" THEN /\ Len(l.begun) <= MaxParallel - g.active
                            /\ l.waiting # <<>> => Len(l.begun) = MaxParallel - g.active
    ELSE l.waiting = <<>>

(* pump() keeps the gate exact. *)
LEMMA GatePumped ==
  ASSUME NEW R, Configured(R), NEW c \in Call, NEW n \in Nat, Running(n, R[c]), NEW g, Gated(R, g),
         NEW l, NEW rest, FromFront(n, R[c], l, rest), Admitted(R[c], g, l),
         NEW e, Left(R[c], l, e)
  PROVE  Gated([R EXCEPT ![c] = e], IF R[c].kind # "tool" THEN g
                                    ELSE [active |-> g.active + Len(l.begun), queue |-> g.queue \o Places(c, l.waiting)])
<1> DEFINE r == R[c]
           R2 == [R EXCEPT ![c] = e]
<1>1. 1..n \subseteq MaxTask
  <2>1. DOMAIN R[c].graph = 1..n
    BY RunParts DEF Running
  <2> QED
    BY <2>1, TasksOfSetup
<1>2. e.kind = r.kind /\ e.pc \in {"running", "returned"} /\ DOMAIN e.task = 1..n /\ DOMAIN r.task = 1..n /\ r.pc = "running"
  <2>1. Running(n, After(r, l)) /\ After(r, l).kind = r.kind
    BY RunningLaunched
  <2>2. After(r, l) \in RunOf(n) /\ After(r, l).task \in [1..n -> Status] /\ After(r, l).pc = "running"
    BY <2>1 DEF Running
  <2>3. e = After(r, l) \/ e = [After(r, l) EXCEPT !.pc = "returned"]
    BY DEF Left
  <2> DEFINE s == After(r, l)
  <2> HIDE DEF s
  <2>4. s \in RunOf(n) /\ s.kind = r.kind /\ s.task \in [1..n -> Status] /\ s.pc = "running"
        /\ (e = s \/ e = [s EXCEPT !.pc = "returned"])
    BY <2>1, <2>2, <2>3 DEF s
  <2>5. e.kind = r.kind /\ e.pc \in {"running", "returned"} /\ DOMAIN e.task = 1..n
    BY <2>4 DEF RunOf
  <2>6. DOMAIN r.task = 1..n /\ r.pc = "running"
    BY DEF Running
  <2> QED
    BY <2>5, <2>6
<1>3. /\ SlotsIn(e) \subseteq MaxTask /\ WaitingIn(e) \subseteq MaxTask
      /\ SlotsIn(r) \subseteq MaxTask /\ WaitingIn(r) \subseteq MaxTask
  BY <1>1, <1>2 DEF SlotsIn, WaitingIn, In
<1>4. DOMAIN R = Call
  BY DEF Configured
<1>5. /\ SlotsOf(R2) = {w \in SlotsOf(R) : w[1] # c} \cup PlacesOf(c, SlotsIn(e))
      /\ WaitersOf(R2) = {w \in WaitersOf(R) : w[1] # c} \cup PlacesOf(c, WaitingIn(e))
  <2>1. SlotsIn(e) \subseteq MaxTask /\ WaitingIn(e) \subseteq MaxTask
    BY <1>3
  <2>2. R2[c] = e /\ \A d \in Call : d # c => R2[d] = R[d]
    BY <1>4
  <2> HIDE DEF R2
  <2> QED
    BY <2>1, <2>2, SlotsChanged
<1>6. /\ {w \in SlotsOf(R) : w[1] = c} = PlacesOf(c, SlotsIn(r))
      /\ {w \in WaitersOf(R) : w[1] = c} = PlacesOf(c, WaitingIn(r))
  BY <1>3, SlotsOwn
<1> HIDE DEF R2, r
<1>7. CASE r.kind # "tool"
  <2>1. SlotsIn(e) = {} /\ WaitingIn(e) = {} /\ SlotsIn(r) = {} /\ WaitingIn(r) = {}
    BY <1>2, <1>7 DEF SlotsIn, WaitingIn
  <2>2. PlacesOf(c, {}) = {}
    BY DEF PlacesOf
  <2>3. SlotsOf(R2) = SlotsOf(R) /\ WaitersOf(R2) = WaitersOf(R)
    BY <1>5, <1>6, <2>1, <2>2
  <2>4. Gated(R2, g)
    BY <2>3 DEF Gated
  <2> QED
    BY <1>7, <2>4 DEF R2, r
<1>8. CASE r.kind = "tool"
  <2>1. /\ SlotsIn(e) = SlotsIn(r) \cup ToSet(l.begun) /\ SlotsIn(r) \cap ToSet(l.begun) = {}
        /\ WaitingIn(e) = WaitingIn(r) \cup ToSet(l.waiting) /\ WaitingIn(r) \cap ToSet(l.waiting) = {}
    BY <1>8, SlotsLaunched DEF r
  <2>2. ASSUME NEW S, NEW A, NEW B, {w \in S : w[1] = c} = PlacesOf(c, A), A \cap B = {}
        PROVE  /\ S \cup PlacesOf(c, B) = {w \in S : w[1] # c} \cup PlacesOf(c, A \cup B)
               /\ S \cap PlacesOf(c, B) = {}
    <3>1. \A C : \A w : w \in PlacesOf(c, C) <=> \E t \in C : w = <<c, t>>
      BY DEF PlacesOf
    <3>2. \A w : w \in S /\ w[1] = c <=> \E t \in A : w = <<c, t>>
      BY <2>2, <3>1
    <3>3. S \cap PlacesOf(c, B) = {}
      <4> SUFFICES ASSUME NEW w \in S, w \in PlacesOf(c, B) PROVE FALSE
        OBVIOUS
      <4>1. PICK t \in B : w = <<c, t>>
        BY <3>1
      <4>2. PICK u \in A : w = <<c, u>>
        BY <3>2, <4>1
      <4> QED
        BY <2>2, <4>1, <4>2
    <3>4. \A w : w \in S \cup PlacesOf(c, B) <=> w \in {v \in S : v[1] # c} \cup PlacesOf(c, A \cup B)
      BY <3>1, <3>2
    <3> QED
      BY <3>3, <3>4
  <2>3. /\ SlotsOf(R2) = SlotsOf(R) \cup PlacesOf(c, ToSet(l.begun))
        /\ SlotsOf(R) \cap PlacesOf(c, ToSet(l.begun)) = {}
        /\ WaitersOf(R2) = WaitersOf(R) \cup PlacesOf(c, ToSet(l.waiting))
        /\ WaitersOf(R) \cap PlacesOf(c, ToSet(l.waiting)) = {}
    <3>1. /\ SlotsOf(R) \cup PlacesOf(c, ToSet(l.begun))
                = {w \in SlotsOf(R) : w[1] # c} \cup PlacesOf(c, SlotsIn(r) \cup ToSet(l.begun))
          /\ SlotsOf(R) \cap PlacesOf(c, ToSet(l.begun)) = {}
      BY <1>6, <2>1, <2>2
    <3>2. /\ WaitersOf(R) \cup PlacesOf(c, ToSet(l.waiting))
                = {w \in WaitersOf(R) : w[1] # c} \cup PlacesOf(c, WaitingIn(r) \cup ToSet(l.waiting))
          /\ WaitersOf(R) \cap PlacesOf(c, ToSet(l.waiting)) = {}
      BY <1>6, <2>1, <2>2
    <3> QED
      BY <1>5, <2>1, <3>1, <3>2
  <2>4. Taking(R, R2, g, c, l.begun, l.waiting)
    BY <1>8, <2>3 DEF Taking, Admitted, r
  <2>5. l.begun \in Seq(1..n) /\ l.waiting \in Seq(1..n) /\ IsInjective(l.begun) /\ IsInjective(l.waiting)
    BY DEF FromFront
  <2>6. Gated(R2, [active |-> g.active + Len(l.begun), queue |-> g.queue \o Places(c, l.waiting)])
    BY <1>1, <2>4, <2>5, GateTaken
  <2> QED
    BY <1>8, <2>6 DEF R2, r
<1> QED
  BY <1>7, <1>8

-----------------------------------------------------------------------------
(* pump(), as a whole *)

(* The record e and the log that the pump leaves of r, which is s when the  *)
(* tasks of l have started.                                                 *)
Pumped(c, r, l, rows, s, own, e, all) ==
    /\ s = After(r, l) /\ own = rows \o Starts(l.begun)
    /\ e = IF Ended(s) THEN [s EXCEPT !.pc = "returned"] ELSE s
    /\ all = own \o IF Ended(s) THEN EndRows(c, s, own) ELSE <<>>

(* They are those of a run under way, or of one that returned.              *)
LEMMA RunPumped ==
  ASSUME NEW n \in Nat, NEW r, Running(n, r), NEW rows, Logged(r.graph, r.task, rows),
         NEW l, NEW rest, FromFront(n, r, l, rest),
         NEW c, c \in Department => r.kind = "department",
         NEW s, NEW own, NEW e, NEW all, Pumped(c, r, l, rows, s, own, e, all)
  PROVE  /\ Fit(n, e) /\ e.kind = r.kind /\ e.graph = r.graph
         /\ Chronicle(e, all)
         /\ e.pc = IF Ended(s) THEN "returned" ELSE "running"
         /\ Final(r, e)
<1>0. s = After(r, l) /\ own = rows \o Starts(l.begun)
  BY DEF Pumped
<1>1. /\ Running(n, s) /\ s.kind = r.kind /\ s.graph = r.graph /\ s.aborted = r.aborted
      /\ \A u \in 1..n : s.task[u] = IF u \in ToSet(l.begun) THEN "running"
                                     ELSE IF u \in ToSet(l.waiting) THEN "queued" ELSE r.task[u]
      /\ \A u \in ToSet(l.begun) \cup ToSet(l.waiting) :
             u \in 1..n /\ r.task[u] = "pending" /\ \A d \in r.graph[u] : r.task[d] = "succeeded"
  BY <1>0, RunningLaunched
<1>2. /\ r.graph \in [1..n -> SUBSET (1..n)] /\ r.task \in [1..n -> Status]
      /\ s.task \in [1..n -> Status] /\ s.pc = "running" /\ s.aborted \in BOOLEAN
  BY <1>1, RunParts DEF Running
<1>3. /\ l.begun \in Seq(1..n) /\ IsInjective(l.begun)
      /\ ToSet(l.begun) \cap ToSet(l.waiting) = {}
  BY DEF FromFront
<1>4. Logged(s.graph, s.task, own)
  <2> DEFINE mid == [u \in 1..n |-> IF u \in ToSet(l.begun) THEN "running" ELSE r.task[u]]
  <2>1. mid \in [1..n -> Status] /\ \A u \in 1..n : mid[u] = IF u \in ToSet(l.begun) THEN "running" ELSE r.task[u]
    BY <1>2 DEF Status
  <2> HIDE DEF mid
  <2>2. Logged(r.graph, mid, own)
    <3>1. \A t \in ToSet(l.begun) : r.task[t] \in {"pending", "queued"} /\ \A d \in r.graph[t] : r.task[d] = "succeeded"
      BY <1>1
    <3> QED
      BY <1>0, <1>2, <1>3, <2>1, <3>1, LoggedStarts
  <2>3. \A u \in 1..n : \/ s.task[u] = mid[u]
                        \/ mid[u] \in {"pending", "queued"} /\ s.task[u] \in {"queued", "blocked", "aborted"}
    BY <1>1, <1>3, <2>1
  <2>4. Logged(r.graph, s.task, own)
    BY <1>2, <2>1, <2>2, <2>3, LoggedQuietly
  <2> QED
    BY <1>1, <2>4
<1>7. Final(r, s)
  <2>1. \A t \in 1..n : r.task[t] \in {"pending", "queued", "running"} \/ s.task[t] = r.task[t]
    BY <1>1
  <2> QED
    BY <1>2, <2>1, ResultsStay
<1>5. CASE Ended(s)
  <2>1. e = [s EXCEPT !.pc = "returned"]
    BY <1>5 DEF Pumped
  <2>2. /\ Fit(n, e) /\ e.pc = "returned" /\ e.kind = s.kind /\ e.graph = s.graph /\ e.aborted = s.aborted
        /\ e.task = s.task
    BY <1>1, <1>5, <2>1, ReturnedFits
  <2>3. PICK q : /\ Reports(n, s, Silent(c, s), own, q)
                 /\ EndRows(c, s, own) = q \o <<Row("team.complete", 0, TerminalStatus(s))>>
    <3>1. Running(n, s)
      BY <1>1
    <3>2. \E q : /\ Reports(n, s, Silent(c, s), own, q)
                  /\ EndRows(c, s, own) = q \o <<Row("team.complete", 0, TerminalStatus(s))>>
      BY <3>1, EndRowsParts
    <3> QED
      BY <3>2
  <2>4. Silent(c, s) # {} => s.kind = "department" /\ s.aborted
    BY <1>1 DEF Silent
  <2>5. Chronicle(e, own \o (q \o <<Row("team.complete", 0, TerminalStatus(s))>>))
    BY <1>1, <1>4, <1>5, <2>2, <2>3, <2>4, LoggedResult
  <2>6. all = own \o (q \o <<Row("team.complete", 0, TerminalStatus(s))>>)
    BY <1>5, <2>3 DEF Pumped
  <2>8. Final(r, e)
    BY <1>7, <2>2, ResultsChained
  <2> QED
    BY <1>1, <1>5, <2>2, <2>5, <2>6, <2>8
<1>6. CASE ~Ended(s)
  <2>1. e = s /\ all = own
    <3>1. own \in Seq(Event)
      BY <1>4 DEF Logged
    <3> QED
      BY <1>6, <3>1, Nothing DEF Pumped
  <2>2. Fit(n, e)
    BY <1>1, <1>2, <2>1, RunningFits
  <2>3. Chronicle(e, all)
    <3>1. ClosedOnce(own)
      BY <1>4 DEF Logged, Told, ClosedOnce
    <3> QED
      BY <1>2, <1>4, <2>1, <3>1 DEF Chronicle, Logged
  <2> QED
    BY <1>1, <1>2, <1>6, <1>7, <2>1, <2>2, <2>3
<1> QED
  BY <1>5, <1>6

(* The runs and the logs before the pump of c, others being those apart     *)
(* from it.                                                                 *)
Before(c, R, L, others, granted) ==
    /\ R[c].pc = "running" /\ R[c].kind = run[c].kind
    /\ DOMAIN others = Call /\ \A d \in Call : d # c => others[d] = R[d]
    /\ \A d \in Call : d # c => L[d] = log[d] \o GrantedStarts(d, granted)

(* pump() takes a steady state, with run c under way, to one. *)
LEMMA PumpKeeps ==
  ASSUME NEW R, NEW g, NEW L, Steady(R, g, L), NEW c \in Call, NEW others, NEW granted, NEW answered,
         Before(c, R, L, others, granted), Pump(c, R[c], others, g, L[c], granted, answered)
  PROVE  /\ Steady(run', gate', log') /\ DOMAIN log' = Call
         /\ \A d \in Call : d # c => run'[d] = R[d] /\ log'[d] = L[d]
         /\ Final(R[c], run'[c])
<1> DEFINE r == R[c]
<1>0. /\ r.pc = "running" /\ r.kind = run[c].kind
      /\ DOMAIN others = Call /\ \A d \in Call : d # c => others[d] = R[d]
      /\ \A d \in Call : d # c => L[d] = log[d] \o GrantedStarts(d, granted)
  BY DEF Before
<1>1. PICK n \in Nat : Fit(n, r)
  BY DEF Steady
<1>2. Running(n, r) /\ Logged(r.graph, r.task, L[c])
  <2>1. Running(n, r)
    BY <1>0, <1>1, RunningFits
  <2>2. Chronicle(r, L[c])
    BY DEF Steady
  <2> QED
    BY <1>0, <2>2, <2>1 DEF Chronicle, Logged
<1>3. g.active \in Nat /\ g.active <= MaxParallel
  BY DEF Steady, Gated
<1>17. PICK l \in {Launched(c, r, g, L[c])} :
       \E s \in {After(r, l)} : \E own \in {L[c] \o Starts(l.begun)} :
         /\ run' = [others EXCEPT ![c] = IF Ended(s) THEN [s EXCEPT !.pc = "returned"] ELSE s]
         /\ gate' = IF c \in Department THEN g
                    ELSE [active |-> g.active + Len(l.begun),
                          queue |-> g.queue \o [i \in DOMAIN l.waiting |-> <<c, l.waiting[i]>>]]
         /\ log' = [d \in Call |->
                       IF d = c THEN own \o IF Ended(s) THEN EndRows(c, s, own) ELSE <<>>
                       ELSE log[d] \o GrantedStarts(d, granted)]
  BY DEF Pump
<1>4. PICK s \in {After(r, l)}, own \in {L[c] \o Starts(l.begun)} :
         /\ run' = [others EXCEPT ![c] = IF Ended(s) THEN [s EXCEPT !.pc = "returned"] ELSE s]
         /\ gate' = IF c \in Department THEN g
                    ELSE [active |-> g.active + Len(l.begun),
                          queue |-> g.queue \o [i \in DOMAIN l.waiting |-> <<c, l.waiting[i]>>]]
         /\ log' = [d \in Call |->
                       IF d = c THEN own \o IF Ended(s) THEN EndRows(c, s, own) ELSE <<>>
                       ELSE log[d] \o GrantedStarts(d, granted)]
  BY <1>17
<1>16. l = Launched(c, r, g, L[c]) /\ s = After(r, l) /\ own = L[c] \o Starts(l.begun)
  OBVIOUS
<1>5. PICK rest : FromFront(n, r, l, rest)
  BY <1>2, <1>3, <1>16, LaunchedParts
<1>6. /\ c \in Department => l.waiting = <<>>
      /\ c \notin Department => /\ Len(l.begun) <= MaxParallel - g.active
                                /\ l.waiting # <<>> => Len(l.begun) = MaxParallel - g.active
  BY <1>2, <1>3, <1>16, LaunchedParts
<1>7. c \in Department <=> r.kind # "tool"
  BY <1>0 DEF Department, Tool
<1>8. r.kind \in {"tool", "department"}
  BY <1>2, RunParts DEF Running
<1> DEFINE e == IF Ended(s) THEN [s EXCEPT !.pc = "returned"] ELSE s
           all == own \o IF Ended(s) THEN EndRows(c, s, own) ELSE <<>>
<1>9. /\ Fit(n, e) /\ e.kind = r.kind /\ e.graph = r.graph /\ Chronicle(e, all)
      /\ e.pc = (IF Ended(s) THEN "returned" ELSE "running")
      /\ Final(r, e)
  <2>1. c \in Department => r.kind = "department"
    BY <1>7, <1>8
  <2>2. Pumped(c, r, l, L[c], s, own, e, all)
    BY <1>16 DEF Pumped
  <2> HIDE DEF r, e, all
  <2> QED
    BY <1>2, <1>5, <2>1, <2>2, RunPumped
<1>10. Left(r, l, e)
  BY <1>16 DEF Left
<1>11. /\ DOMAIN run' = Call /\ run'[c] = e /\ \A d \in Call : d # c => run'[d] = R[d]
       /\ DOMAIN log' = Call /\ log'[c] = all /\ \A d \in Call : d # c => log'[d] = L[d]
  BY <1>0, <1>4
<1>12. run' = [R EXCEPT ![c] = e]
  BY <1>0, <1>4 DEF Steady, Configured
<1> HIDE DEF e, all, r
<1>13. Configured(run')
  <2>1. PICK setup \in Setup : \A d \in Call : R[d].kind = setup[d].kind /\ R[d].graph = setup[d].graph
    BY DEF Steady, Configured
  <2>2. ASSUME NEW d \in Call PROVE run'[d].kind = setup[d].kind /\ run'[d].graph = setup[d].graph
    BY <1>9, <1>11, <2>1 DEF r
  <2> QED
    BY <1>11, <2>1, <2>2 DEF Configured
<1>14. ASSUME NEW d \in Call PROVE (\E m \in Nat : Fit(m, run'[d])) /\ Chronicle(run'[d], log'[d])
  BY <1>9, <1>11 DEF Steady
<1>15. Gated(run', gate')
  <2>1. Configured(R) /\ Gated(R, g)
    BY DEF Steady
  <2>2. Gated([R EXCEPT ![c] = e], IF r.kind # "tool" THEN g
                                   ELSE [active |-> g.active + Len(l.begun), queue |-> g.queue \o Places(c, l.waiting)])
    <3>1. Admitted(r, g, l)
      BY <1>6, <1>7 DEF Admitted
    <3> QED
      BY <1>2, <1>5, <1>10, <2>1, <3>1, GatePumped DEF r
  <2>3. gate' = IF r.kind # "tool" THEN g
                ELSE [active |-> g.active + Len(l.begun), queue |-> g.queue \o Places(c, l.waiting)]
    BY <1>4, <1>7 DEF Places
  <2> QED
    BY <1>12, <2>2, <2>3
<1>18. Final(R[c], run'[c])
  BY <1>9, <1>11 DEF r
<1> QED
  BY <1>9, <1>11, <1>13, <1>14, <1>15, <1>18 DEF Steady

-----------------------------------------------------------------------------
(* A slot handed on *)

(* Run d is given slots for tasks that wait, and w is its record r with     *)
(* these running.                                                           *)
Grants(n, d, task, granted) == \A u : <<d, u>> \in granted => u \in 1..n /\ task[u] = "queued"

GrantedTasks(n, d, granted, S) == S \in SUBSET (1..n) /\ \A u \in 1..n : u \in S <=> <<d, u>> \in granted

WokenTo(d, granted, r, w) ==
    w = [r EXCEPT !.task = [t \in DOMAIN @ |-> IF <<d, t>> \in granted THEN "running" ELSE @[t]]]

(* That record is the one of a run under way.                               *)
WokenInto(n, d, granted, r, w) ==
    /\ Running(n, w) /\ w.kind = r.kind /\ w.graph = r.graph /\ w.aborted = r.aborted
    /\ \A u \in 1..n : w.task[u] = IF <<d, u>> \in granted THEN "running" ELSE r.task[u]

(* A run under way remains one when waiting tasks of it are given a slot. *)
LEMMA WokenRun ==
  ASSUME NEW n \in Nat, NEW d, NEW r, Running(n, r), NEW granted, Grants(n, d, r.task, granted),
         NEW w, WokenTo(d, granted, r, w)
  PROVE  WokenInto(n, d, granted, r, w)
<1> DEFINE next == [u \in 1..n |-> IF <<d, u>> \in granted THEN "running" ELSE r.task[u]]
<1>1. /\ r \in RunOf(n) /\ r.graph \in [1..n -> SUBSET (1..n)] /\ r.ready \in Seq(1..n) /\ r.task \in [1..n -> Status]
      /\ Justified(r.graph, r.task, r.aborted) /\ Queue(r.graph, r.task, r.ready) /\ (r.aborted => r.ready = <<>>)
      /\ r.pc = "running" /\ r.aborted \in BOOLEAN
  BY RunParts DEF Running
<1>2. w = [r EXCEPT !.task = next]
  BY <1>1 DEF WokenTo
<1>3. next \in [1..n -> Status] /\ \A u \in 1..n : next[u] = IF <<d, u>> \in granted THEN "running" ELSE r.task[u]
  BY <1>1 DEF Status
<1> HIDE DEF next
<1>4. /\ w \in RunOf(n) /\ w.task = next /\ w.ready = r.ready
      /\ w.graph = r.graph /\ w.aborted = r.aborted /\ w.kind = r.kind /\ w.pc = "running"
  BY <1>1, <1>2, <1>3 DEF RunOf
<1>5. Justified(r.graph, next, r.aborted)
  <2>1. \A u \in 1..n : \/ next[u] = r.task[u]
                        \/ /\ r.task[u] \in {"pending", "queued"} /\ next[u] \in {"queued", "running"}
                           /\ \A x \in r.graph[u] : r.task[x] = "succeeded"
    BY <1>1, <1>3 DEF Justified, Grants
  <2> QED
    BY <1>1, <1>3, <2>1, JustifiedLaunch
<1>6. Queue(r.graph, next, r.ready)
  <2>1. \A u \in 1..n : \/ next[u] = r.task[u]
                        \/ r.task[u] \notin {"pending", "succeeded"}
                        \/ r.task[u] = "pending" /\ \E x \in r.graph[u] : r.task[x] # "succeeded"
    BY <1>3 DEF Grants
  <2> QED
    BY <1>1, <1>3, <2>1, QueueKept
<1>7. Running(n, w)
  BY <1>1, <1>3, <1>4, <1>5, <1>6 DEF Running
<1> QED
  BY <1>3, <1>4, <1>7 DEF WokenInto

(* Its log tells that they started. *)
LEMMA WokenLog ==
  ASSUME NEW n \in Nat, NEW d, NEW graph \in [1..n -> SUBSET (1..n)], NEW task \in [1..n -> Status], NEW rows,
         Logged(graph, task, rows), NEW granted, Grants(n, d, task, granted),
         \A u \in 1..n : task[u] = "queued" => \A x \in graph[u] : task[x] = "succeeded",
         NEW next, \A u \in 1..n : next[u] = IF <<d, u>> \in granted THEN "running" ELSE task[u],
         NEW S, GrantedTasks(n, d, granted, S)
  PROVE  Logged(graph, next, rows \o Starts(InOrder(S)))
<1> DEFINE s == InOrder(S)
<1>1. S \in SUBSET (1..n) /\ \A u \in 1..n : u \in S <=> <<d, u>> \in granted
  BY DEF GrantedTasks
<1>2. s \in Seq(S) /\ IsInjective(s) /\ ToSet(s) = S
  BY <1>1, Listed
<1> HIDE DEF s
<1>3. s \in Seq(1..n)
  BY <1>1, <1>2, SeqMonotonic
<1>4. \A t \in ToSet(s) : task[t] \in {"pending", "queued"} /\ \A x \in graph[t] : task[x] = "succeeded"
  BY <1>1, <1>2 DEF Grants
<1>5. \A t \in 1..n : next[t] = IF t \in ToSet(s) THEN "running" ELSE task[t]
  BY <1>1, <1>2
<1>6. Logged(graph, next, rows \o Starts(s))
  BY <1>2, <1>3, <1>4, <1>5, LoggedStarts
<1> QED
  BY <1>6 DEF s

(* Without a slot for it, the log of a run does not grow. *)
LEMMA NothingGranted ==
  ASSUME NEW S, S = {} PROVE Starts(InOrder(S)) = <<>>
<1>1. 0 \in Nat /\ S \in SUBSET (1..0)
  BY SMT
<1>2. InOrder(S) \in Seq(S) /\ ToSet(InOrder(S)) = S
  BY <1>1, Listed
<1>3. InOrder(S) = <<>>
  BY <1>2, Nothing
<1>4. Starts(<<>>) = <<>>
  BY DEF Starts
<1> QED
  BY <1>3, <1>4

(* The slots and the waiters are those of the runs. *)
LEMMA SlotsByRun ==
  ASSUME NEW R
  PROVE  /\ \A d, u : <<d, u>> \in SlotsOf(R) <=> d \in Call /\ u \in MaxTask /\ u \in SlotsIn(R[d])
         /\ \A d, u : <<d, u>> \in WaitersOf(R) <=> d \in Call /\ u \in MaxTask /\ u \in WaitingIn(R[d])
         /\ SlotsOf(R) \subseteq Call \X MaxTask /\ WaitersOf(R) \subseteq Call \X MaxTask
BY DEF SlotsOf, WaitersOf, SlotsIn, WaitingIn

(* A gate does not notice runs whose slots and waiters stay. *)
LEMMA GateUnmoved ==
  ASSUME NEW R1, NEW R2, NEW g, Gated(R1, g),
         \A d \in Call : SlotsIn(R2[d]) = SlotsIn(R1[d]) /\ WaitingIn(R2[d]) = WaitingIn(R1[d])
  PROVE  Gated(R2, g)
<1>1. \A w \in Call \X MaxTask : (w \in SlotsOf(R2) <=> w \in SlotsOf(R1)) /\ (w \in WaitersOf(R2) <=> w \in WaitersOf(R1))
  <2> SUFFICES ASSUME NEW d \in Call, NEW u \in MaxTask
               PROVE  /\ <<d, u>> \in SlotsOf(R2) <=> <<d, u>> \in SlotsOf(R1)
                      /\ <<d, u>> \in WaitersOf(R2) <=> <<d, u>> \in WaitersOf(R1)
    OBVIOUS
  <2> QED
    BY SlotsByRun
<1>2. SlotsOf(R2) = SlotsOf(R1)
  BY <1>1 DEF SlotsOf
<1>3. WaitersOf(R2) = WaitersOf(R1)
  BY <1>1 DEF WaitersOf
<1> QED
  BY <1>2, <1>3 DEF Gated

(* The slot of p goes to the first who waits, if anyone does. *)
HandedOn(R1, R2, p, granted) ==
    /\ p \in SlotsOf(R1)
    /\ SlotsOf(R2) = (SlotsOf(R1) \ {p}) \cup granted
    /\ WaitersOf(R2) = WaitersOf(R1) \ granted

(* A slot that goes back to the gate, or to its first waiter, leaves the    *)
(* gate exact.                                                              *)
LEMMA GateReleased ==
  ASSUME NEW R1, NEW R2, NEW g, Gated(R1, g), NEW p, NEW granted,
         granted = (IF g.queue = <<>> THEN {} ELSE {Head(g.queue)}), HandedOn(R1, R2, p, granted)
  PROVE  Gated(R2, IF g.queue = <<>> THEN [g EXCEPT !.active = @ - 1] ELSE [g EXCEPT !.queue = Tail(@)])
<1>1. /\ g \in [active : Nat, queue : Seq(Call \X MaxTask)]
      /\ g.active \in Nat /\ g.queue \in Seq(Call \X MaxTask) /\ IsFiniteSet(SlotsOf(R1))
      /\ g.active = Cardinality(SlotsOf(R1)) /\ g.active <= MaxParallel /\ IsInjective(g.queue)
      /\ ToSet(g.queue) = WaitersOf(R1) /\ (g.queue # <<>> => g.active = MaxParallel)
  BY DEF Gated
<1>2. /\ IsFiniteSet(SlotsOf(R1) \ {p}) /\ Cardinality(SlotsOf(R1) \ {p}) = g.active - 1 /\ g.active # 0
      /\ MaxParallel \in Nat
  <2>1. IsFiniteSet(SlotsOf(R1) \ {p}) /\ Cardinality(SlotsOf(R1) \ {p}) = Cardinality(SlotsOf(R1)) - 1
    BY <1>1, FS_RemoveElement DEF HandedOn
  <2>2. Cardinality(SlotsOf(R1) \ {p}) \in Nat
    BY <2>1, FS_CardinalityType
  <2> QED
    BY <1>1, <2>1, <2>2, TeamAssumption
<1>3. CASE g.queue = <<>>
  <2> DEFINE g2 == [g EXCEPT !.active = @ - 1]
  <2>1. g2.active = g.active - 1 /\ g2.queue = g.queue /\ g2 \in [active : Nat, queue : Seq(Call \X MaxTask)]
    BY <1>1, <1>2
  <2>2. SlotsOf(R2) = SlotsOf(R1) \ {p} /\ WaitersOf(R2) = WaitersOf(R1)
    BY <1>3 DEF HandedOn
  <2> HIDE DEF g2
  <2>3. g2.active = Cardinality(SlotsOf(R2)) /\ IsFiniteSet(SlotsOf(R2)) /\ g2.active <= MaxParallel
    BY <1>1, <1>2, <2>1, <2>2
  <2>4. Gated(R2, g2)
    BY <1>1, <1>3, <2>1, <2>2, <2>3 DEF Gated
  <2> QED
    BY <1>3, <2>4 DEF g2
<1>4. CASE g.queue # <<>>
  <2> DEFINE g2 == [g EXCEPT !.queue = Tail(@)]
             h == Head(g.queue)
             q == Tail(g.queue)
  <2>0. Len(g.queue) \in Nat /\ Len(g.queue) # 0 /\ DOMAIN g.queue = 1..Len(g.queue)
    BY <1>1, <1>4, EmptySeq, LenProperties
  <2>1. h = g.queue[1] /\ q = SubSeq(g.queue, 2, Len(g.queue)) /\ q \in Seq(Call \X MaxTask)
    BY <1>1, <1>4, HeadTailProperties, TailIsSubSeq
  <2>2. g2.active = g.active /\ g2.queue = q /\ g2 \in [active : Nat, queue : Seq(Call \X MaxTask)]
    BY <1>1, <2>1
  <2>3. /\ IsInjective(SubSeq(g.queue, 1, 1)) /\ IsInjective(q)
        /\ ToSet(g.queue) = ToSet(SubSeq(g.queue, 1, 1)) \cup ToSet(q)
        /\ ToSet(SubSeq(g.queue, 1, 1)) \cap ToSet(q) = {}
    <3>1. 1 \in 0..Len(g.queue)
      BY <2>0
    <3>2. /\ IsInjective(SubSeq(g.queue, 1, 1)) /\ IsInjective(SubSeq(g.queue, 1 + 1, Len(g.queue)))
          /\ ToSet(g.queue) = ToSet(SubSeq(g.queue, 1, 1)) \cup ToSet(SubSeq(g.queue, 1 + 1, Len(g.queue)))
          /\ ToSet(SubSeq(g.queue, 1, 1)) \cap ToSet(SubSeq(g.queue, 1 + 1, Len(g.queue))) = {}
      BY <1>1, <3>1, Split
    <3>3. 1 + 1 = 2
      OBVIOUS
    <3> HIDE DEF q
    <3> QED
      BY <2>1, <3>2, <3>3
  <2>4. ToSet(SubSeq(g.queue, 1, 1)) = {h}
    <3>1. 1 \in Nat \ {0} /\ 1 \in Int /\ 1 <= Len(g.queue)
      BY <2>0
    <3>2. /\ DOMAIN SubSeq(g.queue, 1, 1) = 1..(1 - 1 + 1)
          /\ \A i \in 1..(1 - 1 + 1) : SubSeq(g.queue, 1, 1)[i] = g.queue[1 + i - 1]
      BY <1>1, <3>1, Part
    <3>3. DOMAIN SubSeq(g.queue, 1, 1) = {1} /\ SubSeq(g.queue, 1, 1)[1] = h
      <4>1. 1..(1 - 1 + 1) = {1} /\ 1 + 1 - 1 = 1 /\ 1 \in 1..(1 - 1 + 1)
        OBVIOUS
      <4> HIDE DEF h
      <4> QED
        BY <2>1, <3>2, <4>1
    <3> HIDE DEF h
    <3> QED
      BY <3>3 DEF ToSet
  <2> HIDE DEF g2, h, q
  <2>5. granted = {h} /\ SlotsOf(R2) = (SlotsOf(R1) \ {p}) \cup {h} /\ WaitersOf(R2) = WaitersOf(R1) \ {h}
    BY <1>4 DEF HandedOn, h
  <2>6. ToSet(q) = WaitersOf(R2) /\ h \in WaitersOf(R1)
    <3>1. ToSet(g.queue) = {h} \cup ToSet(q) /\ {h} \cap ToSet(q) = {}
      BY <2>3, <2>4
    <3>2. \A x : x \in WaitersOf(R1) <=> x = h \/ x \in ToSet(q)
      BY <1>1, <3>1
    <3>3. h \notin ToSet(q)
      BY <3>1
    <3>4. \A x : x \in ToSet(q) <=> x \in WaitersOf(R2)
      BY <2>5, <3>2, <3>3
    <3> QED
      BY <3>2, <3>4
  <2>7. h \notin SlotsOf(R1)
    <3>1. PICK d \in Call, u \in MaxTask : h = <<d, u>>
      BY <2>6, SlotsByRun
    <3>2. u \in WaitingIn(R1[d])
      BY <2>6, <3>1, SlotsByRun
    <3>3. u \notin SlotsIn(R1[d])
      BY <3>2 DEF WaitingIn, SlotsIn, In
    <3> QED
      BY <3>1, <3>3, SlotsByRun
  <2>8. IsFiniteSet(SlotsOf(R2)) /\ Cardinality(SlotsOf(R2)) = g.active
    <3>1. /\ IsFiniteSet((SlotsOf(R1) \ {p}) \cup {h})
          /\ Cardinality((SlotsOf(R1) \ {p}) \cup {h}) = Cardinality(SlotsOf(R1) \ {p}) + 1
      BY <1>2, <2>7, FS_AddElement
    <3> QED
      BY <1>1, <1>2, <2>5, <3>1
  <2>9. Gated(R2, g2)
    BY <1>1, <1>4, <2>2, <2>3, <2>6, <2>8 DEF Gated
  <2> QED
    BY <1>4, <2>9 DEF g2
<1> QED
  BY <1>3, <1>4

-----------------------------------------------------------------------------
(* A task settles *)

(* Who is given a slot, by task t of call c that leaves one, waits for it   *)
(* in a run of the tool under way.                                          *)
LEMMA GrantedWaits ==
  ASSUME Steady(run, gate, log), NEW c \in Call, NEW t
  PROVE  \A d, u : <<d, u>> \in Granted(c, t) =>
             /\ d \in Call /\ c \in Tool /\ run[c].task[t] = "running"
             /\ run[d].kind = "tool" /\ run[d].pc = "running" /\ ~run[d].aborted
             /\ u \in DOMAIN run[d].task /\ run[d].task[u] = "queued"
<1> SUFFICES ASSUME NEW d, NEW u, <<d, u>> \in Granted(c, t)
             PROVE  /\ d \in Call /\ c \in Tool /\ run[c].task[t] = "running"
                    /\ run[d].kind = "tool" /\ run[d].pc = "running" /\ ~run[d].aborted
                    /\ u \in DOMAIN run[d].task /\ run[d].task[u] = "queued"
  OBVIOUS
<1>1. c \in Tool /\ run[c].task[t] = "running" /\ gate.queue # <<>> /\ <<d, u>> = Head(gate.queue)
  BY DEF Granted
<1>2. gate.queue \in Seq(Call \X MaxTask) /\ ToSet(gate.queue) = WaitersOf(run)
  BY DEF Steady, Gated
<1>3. Len(gate.queue) \in Nat /\ Len(gate.queue) # 0 /\ DOMAIN gate.queue = 1..Len(gate.queue)
  BY <1>1, <1>2, EmptySeq, LenProperties
<1>4. Head(gate.queue) = gate.queue[1] /\ 1 \in DOMAIN gate.queue
  BY <1>3
<1>5. <<d, u>> \in WaitersOf(run)
  BY <1>1, <1>2, <1>4 DEF ToSet
<1>6. d \in Call /\ u \in WaitingIn(run[d])
  BY <1>5, SlotsByRun
<1> QED
  BY <1>1, <1>6 DEF WaitingIn, In

(* What a run under way is in a steady state, and what its log is. *)
LEMMA SteadyRun ==
  ASSUME NEW R, NEW g, NEW L, Steady(R, g, L), NEW d \in Call, R[d].pc = "running"
  PROVE  \E n \in Nat : /\ Running(n, R[d]) /\ Logged(R[d].graph, R[d].task, L[d])
                        /\ R[d].graph \in [1..n -> SUBSET (1..n)] /\ R[d].task \in [1..n -> Status]
                        /\ Tasks(R[d]) = 1..n /\ 1..n \subseteq MaxTask
<1>1. PICK n \in Nat : Fit(n, R[d])
  BY DEF Steady
<1>2. Running(n, R[d])
  BY <1>1, RunningFits
<1>3. Chronicle(R[d], L[d])
  BY DEF Steady
<1>4. Logged(R[d].graph, R[d].task, L[d])
  BY <1>3 DEF Chronicle, Logged
<1>5. R[d].graph \in [1..n -> SUBSET (1..n)] /\ R[d].task \in [1..n -> Status] /\ Tasks(R[d]) = 1..n
  BY <1>2, RunParts DEF Running
<1>6. 1..n \subseteq MaxTask
  BY <1>5, TasksOfSetup DEF Steady
<1> QED
  BY <1>2, <1>4, <1>5, <1>6

(* A run under way and its log, when some of its waiting tasks start. *)
LEMMA RunWoken ==
  ASSUME NEW n \in Nat, NEW r, Running(n, r), NEW rows, Logged(r.graph, r.task, rows), NEW d,
         NEW granted, Grants(n, d, r.task, granted), NEW w, WokenTo(d, granted, r, w),
         NEW S, GrantedTasks(n, d, granted, S)
  PROVE  /\ Running(n, w) /\ w.kind = r.kind /\ w.graph = r.graph /\ w.aborted = r.aborted
         /\ Logged(w.graph, w.task, rows \o Starts(InOrder(S)))
         /\ \A u : /\ u \in In(w, {"running"}) <=> u \in In(r, {"running"}) \/ <<d, u>> \in granted
                   /\ u \in In(w, {"queued"}) <=> u \in In(r, {"queued"}) /\ <<d, u>> \notin granted
         /\ Final(r, w)
<1>1. r.graph \in [1..n -> SUBSET (1..n)] /\ r.task \in [1..n -> Status]
  BY RunParts DEF Running
<1>2. /\ Running(n, w) /\ w.kind = r.kind /\ w.graph = r.graph /\ w.aborted = r.aborted
      /\ \A u \in 1..n : w.task[u] = IF <<d, u>> \in granted THEN "running" ELSE r.task[u]
  <2>1. WokenInto(n, d, granted, r, w)
    BY WokenRun
  <2> QED
    BY <2>1 DEF WokenInto
<1>3. \A u \in 1..n : r.task[u] = "queued" => \A x \in r.graph[u] : r.task[x] = "succeeded"
  BY <1>1 DEF Running, Justified
<1>4. Logged(r.graph, w.task, rows \o Starts(InOrder(S)))
  BY <1>1, <1>2, <1>3, WokenLog
<1>5. w.task \in [1..n -> Status]
  BY <1>2 DEF Running
<1>6. \A u : /\ u \in In(w, {"running"}) <=> u \in In(r, {"running"}) \/ <<d, u>> \in granted
             /\ u \in In(w, {"queued"}) <=> u \in In(r, {"queued"}) /\ <<d, u>> \notin granted
  <2>1. \A u : /\ u \in In(w, {"running"}) <=> u \in 1..n /\ w.task[u] = "running"
               /\ u \in In(r, {"running"}) <=> u \in 1..n /\ r.task[u] = "running"
               /\ u \in In(w, {"queued"}) <=> u \in 1..n /\ w.task[u] = "queued"
               /\ u \in In(r, {"queued"}) <=> u \in 1..n /\ r.task[u] = "queued"
    BY <1>1, <1>5 DEF In
  <2> QED
    BY <1>2, <2>1 DEF Grants
<1>7. Final(r, w)
  <2>1. \A t \in 1..n : r.task[t] \in {"pending", "queued", "running"} \/ w.task[t] = r.task[t]
    BY <1>2 DEF Grants
  <2> QED
    BY <1>1, <1>5, <2>1, ResultsStay
<1> QED
  BY <1>2, <1>4, <1>6, <1>7

(* The record and the log of run d when the slot of t in call c is handed   *)
(* on.                                                                      *)
Waking(c, t, granted, d, w, rows) ==
    granted = Granted(c, t) /\ w = Woken(granted)[d] /\ rows = log[d] \o GrantedStarts(d, granted)

(* The record and the log of run d, some of whose waiting tasks start.      *)
WokenAs(granted, d, w, rows) ==
    /\ \E n \in Nat : Fit(n, w)
    /\ w.kind = run[d].kind /\ w.graph = run[d].graph /\ w.pc = run[d].pc /\ w.aborted = run[d].aborted
    /\ Chronicle(w, rows)
    /\ Final(run[d], w)
    /\ run[d].pc # "running" => w = run[d] /\ rows = log[d]
    /\ run[d].pc = "running" =>
          \A u : /\ u \in In(w, {"running"}) <=> u \in In(run[d], {"running"}) \/ <<d, u>> \in granted
                 /\ u \in In(w, {"queued"}) <=> u \in In(run[d], {"queued"}) /\ <<d, u>> \notin granted

(* The runs other than c when slots are handed on: a task that is given one *)
(* starts, and its log tells it.                                            *)
LEMMA OtherWoken ==
  ASSUME Steady(run, gate, log), NEW c \in Call, NEW t, NEW granted, NEW d \in Call, NEW w, NEW rows,
         Waking(c, t, granted, d, w, rows)
  PROVE  WokenAs(granted, d, w, rows)
<1> USE DEF WokenAs
<1>1. w = [run[d] EXCEPT !.task = [u \in DOMAIN @ |-> IF <<d, u>> \in granted THEN "running" ELSE @[u]]]
  BY DEF Woken, Waking
<1>2. \A u : <<d, u>> \in granted => run[d].pc = "running" /\ u \in DOMAIN run[d].task /\ run[d].task[u] = "queued"
  BY GrantedWaits DEF Waking
<1>3. CASE run[d].pc = "running"
  <2>13. PICK r, old : r = run[d] /\ old = log[d]
    OBVIOUS
  <2>1. PICK n \in Nat : /\ Running(n, r) /\ Logged(r.graph, r.task, old)
                         /\ r.graph \in [1..n -> SUBSET (1..n)] /\ r.task \in [1..n -> Status]
                         /\ Tasks(r) = 1..n /\ 1..n \subseteq MaxTask
    BY <1>3, <2>13, SteadyRun
  <2>2. Grants(n, d, r.task, granted)
    BY <1>2, <2>1, <2>13 DEF Grants
  <2>3. WokenTo(d, granted, r, w)
    BY <1>1, <2>13 DEF WokenTo
  <2>4. r.pc = "running"
    BY <1>3, <2>13
  <2>11. PICK S : S = {u \in 1..n : <<d, u>> \in granted}
    OBVIOUS
  <2>12. rows = old \o Starts(InOrder(S))
    BY <2>1, <2>11, <2>13 DEF GrantedStarts, Waking
  <2>14. GrantedTasks(n, d, granted, S)
    BY <2>11 DEF GrantedTasks
  <2>5. /\ Running(n, w) /\ w.kind = r.kind /\ w.graph = r.graph /\ w.aborted = r.aborted
        /\ Logged(w.graph, w.task, old \o Starts(InOrder(S)))
        /\ \A u : /\ u \in In(w, {"running"}) <=> u \in In(r, {"running"}) \/ <<d, u>> \in granted
                  /\ u \in In(w, {"queued"}) <=> u \in In(r, {"queued"}) /\ <<d, u>> \notin granted
        /\ Final(r, w)
    BY <2>1, <2>2, <2>3, <2>14, RunWoken
  <2>8. w.pc = "running" /\ w.task \in [1..n -> Status] /\ Fit(n, w)
    BY <2>5, RunningFits DEF Running
  <2>9. Chronicle(w, rows)
    <3>1. Logged(w.graph, w.task, rows)
      BY <2>5, <2>12
    <3>2. ClosedOnce(rows)
      BY <3>1 DEF Logged, Told, ClosedOnce
    <3> QED
      BY <2>8, <3>1, <3>2 DEF Chronicle, Logged
  <2> QED
    BY <1>3, <2>4, <2>5, <2>8, <2>9, <2>13
<1>4. CASE run[d].pc # "running"
  <2>1. \A u : <<d, u>> \notin granted
    BY <1>2, <1>4
  <2>2. PICK n \in Nat : Fit(n, run[d])
    BY DEF Steady
  <2>3. run[d] \in RunOf(n) /\ run[d].task \in {<<>>} \cup [1..n -> Status]
    BY <2>2, RunParts DEF Fit
  <2>4. w = run[d]
    <3>1. [u \in DOMAIN run[d].task |-> IF <<d, u>> \in granted THEN "running" ELSE run[d].task[u]] = run[d].task
      <4>1. CASE run[d].task = <<>>
        BY <2>1, <4>1
      <4>2. CASE run[d].task \in [1..n -> Status]
        BY <2>1, <4>2
      <4> QED
        BY <2>3, <4>1, <4>2
    <3>2. w = [run[d] EXCEPT !.task = run[d].task]
      BY <1>1, <3>1
    <3> QED
      BY <2>3, <3>2 DEF RunOf
  <2>5. rows = log[d]
    <3>1. {u \in Tasks(run[d]) : <<d, u>> \in granted} = {}
      BY <2>1
    <3>2. GrantedStarts(d, granted) = <<>>
      BY <3>1, NothingGranted DEF GrantedStarts
    <3>3. log[d] \in Seq(Event)
      BY DEF Steady, Chronicle
    <3> QED
      BY <3>2, <3>3, Nothing DEF Waking
  <2>6. Final(run[d], w)
    BY <2>4, ResultsChained
  <2> QED
    BY <1>4, <2>2, <2>4, <2>5, <2>6 DEF Steady
<1> QED
  BY <1>3, <1>4

(* Task t of r, in a slot or waiting for one, settles, with a row that      *)
(* reports it if it had started.                                            *)
Settles(r, t, status, report) ==
    /\ r.task[t] \in {"queued", "running"}
    /\ status \in {"succeeded", "failed", "aborted"}
    /\ status = "aborted" => r.aborted
    /\ status # "aborted" => r.task[t] = "running" /\ ~r.aborted
    /\ report = IF r.task[t] = "queued" THEN <<>>
                ELSE <<Row(IF status = "succeeded" THEN "subagent.complete" ELSE "subagent.failed", t, status)>>

(* The record s and the log of run c, which was r, after that.              *)
SettledTo(n, c, granted, r, t, s, rows) ==
    /\ Running(n, s) /\ s.kind = r.kind /\ s.graph = r.graph /\ s.aborted = r.aborted
    /\ Logged(s.graph, s.task, rows)
    /\ Final(r, s)
    /\ \A u : u \in In(s, {"running"}) <=> (u \in In(r, {"running"}) /\ u # t) \/ <<c, u>> \in granted
    /\ \A u : u \in In(s, {"queued"}) <=> u \in In(r, {"queued"}) /\ u # t /\ <<c, u>> \notin granted

(* A run under way and its log, when waiting tasks are given slots and t    *)
(* settles.                                                                 *)
LEMMA RunSettled ==
  ASSUME NEW n \in Nat, NEW r, Running(n, r), NEW rows, Logged(r.graph, r.task, rows), NEW c,
         NEW granted, Grants(n, c, r.task, granted), NEW w, WokenTo(c, granted, r, w),
         NEW S, GrantedTasks(n, c, granted, S),
         NEW t \in 1..n, <<c, t>> \notin granted, NEW status, NEW report, Settles(r, t, status, report)
  PROVE  SettledTo(n, c, granted, r, t, Settled(w, t, status), (rows \o report) \o Starts(InOrder(S)))
<1> DEFINE s == Settled(w, t, status)
<1>1. /\ r.graph \in [1..n -> SUBSET (1..n)] /\ r.task \in [1..n -> Status] /\ Justified(r.graph, r.task, r.aborted)
      /\ r.aborted \in BOOLEAN
  BY RunParts DEF Running
<1> HIDE DEF s
<1>2. /\ Running(n, w) /\ w.kind = r.kind /\ w.graph = r.graph /\ w.aborted = r.aborted
      /\ \A u \in 1..n : w.task[u] = IF <<c, u>> \in granted THEN "running" ELSE r.task[u]
  <2>1. WokenInto(n, c, granted, r, w)
    BY WokenRun
  <2> QED
    BY <2>1 DEF WokenInto
<1>3. /\ w.task[t] = r.task[t] /\ r.task[t] \in {"queued", "running"} /\ status \in {"succeeded", "failed", "aborted"}
      /\ (status = "aborted" => r.aborted) /\ (status # "aborted" => r.task[t] = "running" /\ ~r.aborted)
  BY <1>2 DEF Settles
<1>4. /\ Running(n, s) /\ s.kind = w.kind /\ s.graph = w.graph /\ s.aborted = w.aborted /\ s.task[t] = status
      /\ \A u \in 1..n : u # t => s.task[u] = w.task[u] \/ (w.task[u] = "pending" /\ s.task[u] = "blocked")
  BY <1>2, <1>3, RunningSettled DEF s
<1>5. s.task \in [1..n -> Status]
  BY <1>4 DEF Running
<1> DEFINE mid == [r.task EXCEPT ![t] = status]
           last == [u \in 1..n |-> IF <<c, u>> \in granted THEN "running" ELSE mid[u]]
<1>6. mid \in [1..n -> Status] /\ mid[t] = status /\ \A u \in 1..n : u # t => mid[u] = r.task[u]
  BY <1>1, <1>3 DEF Status
<1>7. Logged(r.graph, mid, rows \o report)
  <2>1. r.task[t] = "queued" => status = "aborted"
    BY <1>3
  <2>2. report = IF r.task[t] = "queued" THEN <<>>
                 ELSE <<Row(IF status = "succeeded" THEN "subagent.complete" ELSE "subagent.failed", t, status)>>
    BY DEF Settles
  <2> QED
    BY <1>1, <1>3, <2>1, <2>2, LoggedReport
<1> HIDE DEF mid
<1>8. last \in [1..n -> Status] /\ \A u \in 1..n : last[u] = IF <<c, u>> \in granted THEN "running" ELSE mid[u]
  BY <1>6 DEF Status
<1> HIDE DEF last
<1>9. Logged(r.graph, last, (rows \o report) \o Starts(InOrder(S)))
  <2>1. Grants(n, c, mid, granted)
    BY <1>6 DEF Grants
  <2>2. \A u \in 1..n : mid[u] = "queued" => \A x \in r.graph[u] : mid[x] = "succeeded"
    <3> SUFFICES ASSUME NEW u \in 1..n, mid[u] = "queued", NEW x \in r.graph[u] PROVE mid[x] = "succeeded"
      OBVIOUS
    <3>1. r.task[u] = "queued"
      BY <1>3, <1>6
    <3>2. x \in 1..n /\ r.task[x] = "succeeded"
      BY <1>1, <3>1 DEF Justified
    <3> QED
      BY <1>3, <1>6, <3>2
  <2> QED
    BY <1>1, <1>6, <1>7, <1>8, <2>1, <2>2, WokenLog
<1>10. Logged(r.graph, s.task, (rows \o report) \o Starts(InOrder(S)))
  <2>1. \A u \in 1..n : \/ s.task[u] = last[u]
                        \/ last[u] \in {"pending", "queued"} /\ s.task[u] \in {"queued", "blocked", "aborted"}
    <3> SUFFICES ASSUME NEW u \in 1..n
                 PROVE  \/ s.task[u] = last[u]
                        \/ last[u] \in {"pending", "queued"} /\ s.task[u] \in {"queued", "blocked", "aborted"}
      OBVIOUS
    <3>1. CASE u = t
      <4>1. s.task[u] = status /\ last[u] = status
        BY <1>4, <1>6, <1>8, <3>1
      <4> QED
        BY <4>1
    <3>2. CASE u # t /\ <<c, u>> \in granted
      <4>1. w.task[u] = "running" /\ last[u] = "running"
        BY <1>2, <1>8, <3>2
      <4> QED
        BY <1>4, <3>2, <4>1
    <3>3. CASE u # t /\ <<c, u>> \notin granted
      <4>1. w.task[u] = r.task[u] /\ last[u] = r.task[u]
        BY <1>2, <1>6, <1>8, <3>3
      <4> QED
        BY <1>4, <3>3, <4>1
    <3> QED
      BY <3>1, <3>2, <3>3
  <2> QED
    BY <1>1, <1>8, <1>9, <2>1, LoggedQuietly
<1>11. \A u : /\ u \in In(s, {"running"}) <=> u \in 1..n /\ s.task[u] = "running"
              /\ u \in In(r, {"running"}) <=> u \in 1..n /\ r.task[u] = "running"
              /\ u \in In(s, {"queued"}) <=> u \in 1..n /\ s.task[u] = "queued"
              /\ u \in In(r, {"queued"}) <=> u \in 1..n /\ r.task[u] = "queued"
  BY <1>1, <1>5 DEF In
<1>12. \A u : u \in In(s, {"running"}) <=> (u \in In(r, {"running"}) /\ u # t) \/ <<c, u>> \in granted
  BY <1>2, <1>3, <1>4, <1>11 DEF Grants
<1>13. \A u : u \in In(s, {"queued"}) <=> u \in In(r, {"queued"}) /\ u # t /\ <<c, u>> \notin granted
  BY <1>2, <1>3, <1>4, <1>11
<1>14. Final(r, s)
  <2>1. \A u \in 1..n : r.task[u] \in {"pending", "queued", "running"} \/ s.task[u] = r.task[u]
    BY <1>2, <1>3, <1>4 DEF Grants
  <2> QED
    BY <1>1, <1>5, <2>1, ResultsStay
<1> QED
  BY <1>2, <1>4, <1>10, <1>12, <1>13, <1>14 DEF s, SettledTo

(* The record and the log of run c when its task t settles. *)
Settling(c, t, status, report, granted, r, rows) ==
    /\ granted = Granted(c, t)
    /\ r = Settled(Woken(granted)[c], t, status)
    /\ rows = (log[c] \o report) \o GrantedStarts(c, granted)

(* The run whose task settles, before the pump: it remains under way, and   *)
(* its log tells the result.                                                *)
LEMMA OwnSettled ==
  ASSUME Steady(run, gate, log), NEW c \in Call, run[c].pc = "running", NEW t \in Tasks(run[c]),
         NEW status, NEW report, Settles(run[c], t, status, report),
         NEW granted, NEW r, NEW rows, Settling(c, t, status, report, granted, r, rows)
  PROVE  /\ \E n \in Nat : Fit(n, r)
         /\ r.kind = run[c].kind /\ r.graph = run[c].graph /\ r.pc = "running" /\ r.aborted = run[c].aborted
         /\ Chronicle(r, rows)
         /\ Final(run[c], r)
         /\ \A u : u \in In(r, {"running"}) <=> (u \in In(run[c], {"running"}) /\ u # t) \/ <<c, u>> \in granted
         /\ \A u : u \in In(r, {"queued"}) <=> u \in In(run[c], {"queued"}) /\ u # t /\ <<c, u>> \notin granted
<1>0. PICK old, w, oldRows : old = run[c] /\ w = Woken(granted)[c] /\ oldRows = log[c]
  OBVIOUS
<1>1. PICK n \in Nat : /\ Running(n, old) /\ Logged(old.graph, old.task, oldRows)
                       /\ old.graph \in [1..n -> SUBSET (1..n)] /\ old.task \in [1..n -> Status]
                       /\ Tasks(old) = 1..n /\ 1..n \subseteq MaxTask
  BY <1>0, SteadyRun
<1>2. WokenTo(c, granted, old, w)
  BY <1>0 DEF Woken, WokenTo
<1>3. \A u : <<c, u>> \in granted => u \in DOMAIN run[c].task /\ run[c].task[u] = "queued" /\ run[c].task[t] = "running"
  BY GrantedWaits DEF Settling
<1>4. Grants(n, c, old.task, granted) /\ <<c, t>> \notin granted
  BY <1>0, <1>1, <1>3 DEF Grants
<1>5. PICK S : S = {u \in 1..n : <<c, u>> \in granted}
  OBVIOUS
<1>6. GrantedTasks(n, c, granted, S)
  BY <1>5 DEF GrantedTasks
<1>7. rows = (oldRows \o report) \o Starts(InOrder(S))
  BY <1>0, <1>1, <1>5 DEF Settling, GrantedStarts
<1>8. t \in 1..n /\ Settles(old, t, status, report) /\ r = Settled(w, t, status)
  BY <1>0, <1>1 DEF Settling
<1>9. /\ Running(n, r) /\ r.kind = old.kind /\ r.graph = old.graph /\ r.aborted = old.aborted
      /\ Logged(r.graph, r.task, rows)
      /\ Final(old, r)
      /\ \A u : u \in In(r, {"running"}) <=> (u \in In(old, {"running"}) /\ u # t) \/ <<c, u>> \in granted
      /\ \A u : u \in In(r, {"queued"}) <=> u \in In(old, {"queued"}) /\ u # t /\ <<c, u>> \notin granted
  <2>1. SettledTo(n, c, granted, old, t, Settled(w, t, status), (oldRows \o report) \o Starts(InOrder(S)))
    BY <1>1, <1>2, <1>4, <1>6, <1>8, RunSettled
  <2>2. SettledTo(n, c, granted, old, t, r, rows)
    BY <1>7, <1>8, <2>1
  <2> QED
    BY <2>2 DEF SettledTo
<1>10. r.pc = "running" /\ Fit(n, r)
  BY <1>9, RunningFits DEF Running
<1>11. Chronicle(r, rows)
  <2>1. ClosedOnce(rows)
    BY <1>9 DEF Logged, Told, ClosedOnce
  <2> QED
    BY <1>9, <1>10, <2>1 DEF Chronicle, Logged
<1> QED
  BY <1>0, <1>9, <1>10, <1>11

(* What the step of run c leaves of the rest.                               *)
Stepped(c) ==
    /\ Steady(run', gate', log') /\ DOMAIN log' = Call
    /\ \A d \in Call : run[d].pc \notin {"idle", "running"} => run'[d] = run[d] /\ log'[d] = log[d]
    /\ \A d \in Call : Final(run[d], run'[d])

(* The runs R when task t of run c has settled and slots are handed on.     *)
Moved(c, t, granted, R) ==
    /\ \A d \in Call : R[d].kind = run[d].kind /\ R[d].pc = run[d].pc /\ R[d].aborted = run[d].aborted
    /\ \A d \in Call : d # c /\ run[d].pc = "running" =>
          \A u : /\ u \in In(R[d], {"running"}) <=> u \in In(run[d], {"running"}) \/ <<d, u>> \in granted
                 /\ u \in In(R[d], {"queued"}) <=> u \in In(run[d], {"queued"}) /\ <<d, u>> \notin granted
    /\ \A u : u \in In(R[c], {"running"}) <=> (u \in In(run[c], {"running"}) /\ u # t) \/ <<c, u>> \in granted
    /\ \A u : u \in In(R[c], {"queued"}) <=> u \in In(run[c], {"queued"}) /\ u # t /\ <<c, u>> \notin granted

(* The gate as task t of run c leaves it. *)
GateAfter(c, t) == IF c \in Tool /\ run[c].task[t] = "running" THEN Released ELSE gate

(* The gate before the pump, once a task has settled and its slot is handed *)
(* on, fits the runs.                                                       *)
LEMMA GateSettled ==
  ASSUME Steady(run, gate, log), NEW c \in Call, run[c].pc = "running", NEW t \in Tasks(run[c]),
         NEW status, NEW report, Settles(run[c], t, status, report),
         NEW granted, granted = Granted(c, t), NEW R, Moved(c, t, granted, R)
  PROVE  Gated(R, GateAfter(c, t))
<1>1. Gated(run, gate)
  BY DEF Steady
<1>2. PICK n \in Nat : /\ Running(n, run[c]) /\ Logged(run[c].graph, run[c].task, log[c])
                       /\ run[c].graph \in [1..n -> SUBSET (1..n)] /\ run[c].task \in [1..n -> Status]
                       /\ Tasks(run[c]) = 1..n /\ 1..n \subseteq MaxTask
  BY SteadyRun
<1>3. /\ c \in Tool <=> run[c].kind = "tool"
      /\ \A d, u : <<d, u>> \in granted =>
             /\ d \in Call /\ run[d].kind = "tool" /\ run[d].pc = "running" /\ ~run[d].aborted
             /\ u \in In(run[d], {"queued"})
  BY GrantedWaits DEF Tool, In
<1>4. CASE c \in Tool /\ run[c].task[t] = "running"
  <2>1. granted = IF gate.queue = <<>> THEN {} ELSE {Head(gate.queue)}
    BY <1>4 DEF Granted
  <2>2. GateAfter(c, t) = IF gate.queue = <<>> THEN [gate EXCEPT !.active = @ - 1] ELSE [gate EXCEPT !.queue = Tail(@)]
    BY <1>4 DEF GateAfter, Released
  <2>3. granted \subseteq WaitersOf(run)
    <3>1. gate.queue \in Seq(Call \X MaxTask) /\ ToSet(gate.queue) = WaitersOf(run)
      BY <1>1 DEF Gated
    <3>2. CASE gate.queue # <<>>
      <4>1. Head(gate.queue) = gate.queue[1] /\ 1 \in DOMAIN gate.queue
        BY <3>1, <3>2, EmptySeq, LenProperties
      <4> QED
        BY <2>1, <3>1, <4>1 DEF ToSet
    <3> QED
      BY <2>1, <3>2
  <2>4. t \in In(run[c], {"running"})
    BY <1>2, <1>4 DEF In
  <2>5. <<c, t>> \in SlotsOf(run)
    BY <1>2, <1>3, <1>4, <2>4, SlotsByRun DEF SlotsIn
  <2>6. ASSUME NEW d \in Call, NEW u \in MaxTask
        PROVE  /\ <<d, u>> \in SlotsOf(R) <=> <<d, u>> \in (SlotsOf(run) \ {<<c, t>>}) \cup granted
               /\ <<d, u>> \in WaitersOf(R) <=> <<d, u>> \in WaitersOf(run) \ granted
    <3>1. /\ <<d, u>> \in SlotsOf(R) <=> u \in SlotsIn(R[d])
          /\ <<d, u>> \in SlotsOf(run) <=> u \in SlotsIn(run[d])
          /\ <<d, u>> \in WaitersOf(R) <=> u \in WaitingIn(R[d])
          /\ <<d, u>> \in WaitersOf(run) <=> u \in WaitingIn(run[d])
      BY SlotsByRun
    <3>2. R[d].kind = run[d].kind /\ R[d].pc = run[d].pc /\ R[d].aborted = run[d].aborted
      BY DEF Moved
    <3>3. CASE run[d].kind = "tool" /\ run[d].pc = "running" /\ d # c
      <4>1. /\ u \in In(R[d], {"running"}) <=> u \in In(run[d], {"running"}) \/ <<d, u>> \in granted
            /\ u \in In(R[d], {"queued"}) <=> u \in In(run[d], {"queued"}) /\ <<d, u>> \notin granted
        BY <3>3 DEF Moved
      <4>2. <<d, u>> # <<c, t>>
        BY <3>3
      <4> QED
        BY <3>1, <3>2, <3>3, <4>1, <4>2 DEF SlotsIn, WaitingIn
    <3>4. CASE d = c
      <4>1. /\ u \in In(R[c], {"running"}) <=> (u \in In(run[c], {"running"}) /\ u # t) \/ <<c, u>> \in granted
            /\ u \in In(R[c], {"queued"}) <=> u \in In(run[c], {"queued"}) /\ u # t /\ <<c, u>> \notin granted
        BY DEF Moved
      <4>2. u = t => u \notin In(run[c], {"queued"})
        BY <1>4 DEF In
      <4>3. <<d, u>> = <<c, t>> <=> u = t
        BY <3>4
      <4>4. run[c].kind = "tool"
        BY <1>3, <1>4
      <4>5. u = t => <<c, u>> \notin granted
        BY <1>3, <4>2
      <4> QED
        BY <3>1, <3>2, <3>4, <4>1, <4>2, <4>3, <4>4, <4>5 DEF SlotsIn, WaitingIn
    <3>5. CASE ~(run[d].kind = "tool" /\ run[d].pc = "running")
      <4>1. <<d, u>> \notin granted
        BY <1>3, <3>5
      <4> QED
        BY <3>1, <3>2, <3>5, <4>1 DEF SlotsIn, WaitingIn
    <3> QED
      BY <3>3, <3>4, <3>5
  <2>7. granted \subseteq Call \X MaxTask
    BY <2>3, SlotsByRun
  <2>8. \A w \in Call \X MaxTask : /\ w \in SlotsOf(R) <=> w \in (SlotsOf(run) \ {<<c, t>>}) \cup granted
                                   /\ w \in WaitersOf(R) <=> w \in WaitersOf(run) \ granted
    BY <2>6
  <2>9. SlotsOf(R) = (SlotsOf(run) \ {<<c, t>>}) \cup granted /\ WaitersOf(R) = WaitersOf(run) \ granted
    <3>1. /\ SlotsOf(R) \subseteq Call \X MaxTask /\ SlotsOf(run) \subseteq Call \X MaxTask
          /\ WaitersOf(R) \subseteq Call \X MaxTask /\ WaitersOf(run) \subseteq Call \X MaxTask
      BY SlotsByRun
    <3> QED
      BY <2>7, <2>8, <3>1
  <2>10. PICK p : p = <<c, t>>
    OBVIOUS
  <2>11. HandedOn(run, R, p, granted)
    BY <2>5, <2>9, <2>10 DEF HandedOn
  <2>12. Gated(R, IF gate.queue = <<>> THEN [gate EXCEPT !.active = @ - 1] ELSE [gate EXCEPT !.queue = Tail(@)])
    BY <1>1, <2>1, <2>11, GateReleased
  <2> QED
    BY <2>2, <2>12
<1>5. CASE ~(c \in Tool /\ run[c].task[t] = "running")
  <2>1. granted = {} /\ GateAfter(c, t) = gate
    BY <1>5 DEF Granted, GateAfter
  <2>2. ASSUME NEW d \in Call PROVE SlotsIn(R[d]) = SlotsIn(run[d]) /\ WaitingIn(R[d]) = WaitingIn(run[d])
    <3>1. R[d].kind = run[d].kind /\ R[d].pc = run[d].pc /\ R[d].aborted = run[d].aborted
      BY DEF Moved
    <3>2. CASE run[d].kind = "tool" /\ run[d].pc = "running" /\ d # c
      <4>1. \A u : /\ u \in In(R[d], {"running"}) <=> u \in In(run[d], {"running"})
                   /\ u \in In(R[d], {"queued"}) <=> u \in In(run[d], {"queued"})
        BY <2>1, <3>2 DEF Moved
      <4>2. In(R[d], {"running"}) = In(run[d], {"running"}) /\ In(R[d], {"queued"}) = In(run[d], {"queued"})
        BY <4>1
      <4> QED
        BY <3>1, <4>2 DEF SlotsIn, WaitingIn
    <3>3. CASE d = c /\ run[c].kind = "tool"
      <4>1. run[c].task[t] = "queued" /\ run[c].aborted
        BY <1>3, <1>5, <3>3 DEF Settles
      <4>2. t \notin In(run[c], {"running"})
        BY <4>1 DEF In
      <4>3. \A u : u \in In(R[c], {"running"}) <=> u \in In(run[c], {"running"})
        BY <2>1, <4>2 DEF Moved
      <4>4. In(R[c], {"running"}) = In(run[c], {"running"})
        BY <4>3
      <4> QED
        BY <3>1, <3>3, <4>1, <4>4 DEF SlotsIn, WaitingIn
    <3>4. CASE ~(run[d].kind = "tool" /\ run[d].pc = "running")
      BY <3>1, <3>4 DEF SlotsIn, WaitingIn
    <3> QED
      BY <3>2, <3>3, <3>4
  <2>3. Gated(R, gate)
    BY <1>1, <2>2, GateUnmoved
  <2> QED
    BY <2>1, <2>3
<1> QED
  BY <1>4, <1>5

(* The settling of a task, the handing on of its slot and the pump behind   *)
(* it keep the state steady.                                                *)
LEMMA FinishKeeps ==
  ASSUME Steady(run, gate, log), NEW c \in Call, run[c].pc = "running", NEW t \in Tasks(run[c]),
         NEW status, NEW report, Settles(run[c], t, status, report), NEW answered, Finish(c, t, status, answered)
  PROVE  Stepped(c)
<1>1. report = IF run[c].task[t] = "queued" THEN <<>>
               ELSE <<Row(IF status = "succeeded" THEN "subagent.complete" ELSE "subagent.failed", t, status)>>
  BY DEF Settles
<1>2. PICK granted \in {Granted(c, t)} :
         \E woken \in {Woken(granted)} : \E r \in {Settled(woken[c], t, status)} :
             \E rows \in {(log[c] \o report) \o GrantedStarts(c, granted)} :
                 Pump(c, r, woken, GateAfter(c, t), rows, granted, answered)
  BY <1>1 DEF Finish, GateAfter
<1>3. PICK woken \in {Woken(granted)}, g \in {GateAfter(c, t)} :
         \E r \in {Settled(woken[c], t, status)} : \E rows \in {(log[c] \o report) \o GrantedStarts(c, granted)} :
             Pump(c, r, woken, g, rows, granted, answered)
  BY <1>2
<1>4. PICK r \in {Settled(woken[c], t, status)}, rows \in {(log[c] \o report) \o GrantedStarts(c, granted)} :
         Pump(c, r, woken, g, rows, granted, answered)
  BY <1>3
<1>5. PICK R, L : /\ R = [woken EXCEPT ![c] = r]
                  /\ L = [d \in Call |-> IF d = c THEN rows ELSE log[d] \o GrantedStarts(d, granted)]
  OBVIOUS
<1>6. /\ DOMAIN woken = Call /\ DOMAIN R = Call
      /\ R[c] = r /\ L[c] = rows
      /\ \A d \in Call : d # c => R[d] = woken[d] /\ L[d] = log[d] \o GrantedStarts(d, granted)
  <2>1. DOMAIN woken = Call
    BY DEF Woken
  <2> QED
    BY <1>5, <2>1
<1>7. Settling(c, t, status, report, granted, r, rows)
  BY <1>3, <1>4 DEF Settling
<1>8. /\ \E n \in Nat : Fit(n, r)
      /\ r.kind = run[c].kind /\ r.graph = run[c].graph /\ r.pc = "running" /\ r.aborted = run[c].aborted
      /\ Chronicle(r, rows)
      /\ Final(run[c], r)
      /\ \A u : u \in In(r, {"running"}) <=> (u \in In(run[c], {"running"}) /\ u # t) \/ <<c, u>> \in granted
      /\ \A u : u \in In(r, {"queued"}) <=> u \in In(run[c], {"queued"}) /\ u # t /\ <<c, u>> \notin granted
  BY <1>7, OwnSettled
<1>9. ASSUME NEW d \in Call, d # c
      PROVE  /\ \E n \in Nat : Fit(n, R[d])
             /\ R[d].kind = run[d].kind /\ R[d].graph = run[d].graph /\ R[d].pc = run[d].pc /\ R[d].aborted = run[d].aborted
             /\ Chronicle(R[d], L[d])
             /\ Final(run[d], R[d])
             /\ run[d].pc # "running" => R[d] = run[d] /\ L[d] = log[d]
             /\ run[d].pc = "running" =>
                   \A u : /\ u \in In(R[d], {"running"}) <=> u \in In(run[d], {"running"}) \/ <<d, u>> \in granted
                          /\ u \in In(R[d], {"queued"}) <=> u \in In(run[d], {"queued"}) /\ <<d, u>> \notin granted
  <2>1. PICK w, grown : w = R[d] /\ grown = L[d]
    OBVIOUS
  <2>2. Waking(c, t, granted, d, w, grown)
    BY <1>3, <1>6, <1>9, <2>1 DEF Waking
  <2>3. WokenAs(granted, d, w, grown)
    BY <2>2, OtherWoken
  <2> QED
    BY <2>1, <2>3 DEF WokenAs
<1>10. Moved(c, t, granted, R)
  BY <1>6, <1>8, <1>9 DEF Moved
<1>11. Gated(R, g)
  BY <1>10, GateSettled
<1>12. Configured(R)
  <2>1. PICK setup \in Setup : \A d \in Call : run[d].kind = setup[d].kind /\ run[d].graph = setup[d].graph
    BY DEF Steady, Configured
  <2>2. ASSUME NEW d \in Call PROVE R[d].kind = setup[d].kind /\ R[d].graph = setup[d].graph
    BY <1>6, <1>8, <1>9, <2>1
  <2> QED
    BY <1>6, <2>1, <2>2 DEF Configured
<1>13. Steady(R, g, L)
  <2>1. ASSUME NEW d \in Call PROVE (\E n \in Nat : Fit(n, R[d])) /\ Chronicle(R[d], L[d])
    BY <1>6, <1>8, <1>9
  <2> QED
    BY <1>11, <1>12, <2>1 DEF Steady
<1>14. Before(c, R, L, woken, granted) /\ Pump(c, R[c], woken, g, L[c], granted, answered)
  BY <1>4, <1>6, <1>8 DEF Before
<1>15. /\ Steady(run', gate', log') /\ DOMAIN log' = Call
       /\ \A d \in Call : d # c => run'[d] = R[d] /\ log'[d] = L[d]
       /\ Final(R[c], run'[c])
  BY <1>13, <1>14, PumpKeeps
<1>16. ASSUME NEW d \in Call PROVE Final(run[d], run'[d])
  <2>1. CASE d = c
    <3>1. Final(run[c], R[c]) /\ Final(R[c], run'[c])
      BY <1>6, <1>8, <1>15
    <3>2. Final(run[c], run'[c])
      BY <3>1, ResultsChained
    <3> QED
      BY <2>1, <3>2
  <2>2. CASE d # c
    BY <1>9, <1>15, <2>2
  <2> QED
    BY <2>1, <2>2
<1>17. ASSUME NEW d \in Call, run[d].pc \notin {"idle", "running"} PROVE run'[d] = run[d] /\ log'[d] = log[d]
  BY <1>9, <1>15, <1>17
<1> QED
  BY <1>15, <1>16, <1>17 DEF Stepped

-----------------------------------------------------------------------------
(* A run begins *)

(* The record s of r as its run begins. *)
BegunAs(r, s) ==
    s = [r EXCEPT !.pc = "running",
                  !.task = [t \in Tasks(r) |-> IF r.aborted THEN "aborted" ELSE "pending"],
                  !.ready = IF r.aborted THEN <<>> ELSE InOrder({t \in Tasks(r) : r.graph[t] = {}})]

StartRow == Row("team.start", 0, "running")

(* A graph is accepted: its tasks wait, or were aborted before. *)
LEMMA NewRun ==
  ASSUME NEW n \in Nat, NEW r, Fit(n, r), NEW s, BegunAs(r, s)
  PROVE  /\ Running(n, s) /\ s.kind = r.kind /\ s.graph = r.graph /\ s.aborted = r.aborted
         /\ In(s, {"running", "queued"}) = {}
         /\ Logged(s.graph, s.task, <<StartRow>>)
<1>1. /\ r \in RunOf(n) /\ r.graph \in [1..n -> SUBSET (1..n)] /\ r.aborted \in BOOLEAN /\ Tasks(r) = 1..n
  BY RunParts DEF Fit
<1> DEFINE task == [t \in 1..n |-> IF r.aborted THEN "aborted" ELSE "pending"]
           free == {t \in 1..n : r.graph[t] = {}}
           ready == IF r.aborted THEN <<>> ELSE InOrder(free)
<1>2. s = [r EXCEPT !.pc = "running", !.task = task, !.ready = ready]
  BY <1>1 DEF BegunAs
<1>3. task \in [1..n -> Status] /\ \A t \in 1..n : task[t] = IF r.aborted THEN "aborted" ELSE "pending"
  BY DEF Status
<1>4. ready \in Seq(1..n) /\ Queue(r.graph, task, ready)
  <2>1. CASE r.aborted
    <3>1. ready = <<>>
      BY <2>1
    <3> HIDE DEF ready, task
    <3> QED
      BY <3>1, Nothing DEF Queue
  <2>2. CASE ~r.aborted
    <3>1. free \in SUBSET (1..n) /\ \A t \in free : r.graph[t] = {}
      OBVIOUS
    <3>2. InOrder(free) \in Seq(free) /\ IsInjective(InOrder(free)) /\ ToSet(InOrder(free)) = free
      BY <3>1, Listed
    <3> HIDE DEF free
    <3>3. InOrder(free) \in Seq(1..n)
      BY <3>1, <3>2, SeqMonotonic
    <3>4. ready = InOrder(free)
      BY <2>2
    <3> HIDE DEF ready, task
    <3> QED
      BY <1>3, <2>2, <3>1, <3>2, <3>3, <3>4 DEF Queue
  <2> QED
    BY <2>1, <2>2
<1>5. r.aborted => ready = <<>>
  OBVIOUS
<1> HIDE DEF task, ready
<1>6. /\ s \in RunOf(n) /\ s.task = task /\ s.ready = ready
      /\ s.graph = r.graph /\ s.aborted = r.aborted /\ s.kind = r.kind /\ s.pc = "running"
  BY <1>1, <1>2, <1>3, <1>4 DEF RunOf, RunPc
<1>7. Justified(r.graph, task, r.aborted)
  BY <1>1, <1>3 DEF Justified
<1>8. Running(n, s)
  BY <1>3, <1>4, <1>5, <1>6, <1>7 DEF Running
<1>9. In(s, {"running", "queued"}) = {}
  BY <1>3, <1>6 DEF In
<1>10. Logged(s.graph, s.task, <<StartRow>>)
  <2> DEFINE rows == <<StartRow>>
  <2>1. StartRow \in Event /\ StartRow.type = "team.start"
    BY DEF StartRow, Row, Event, EventType, Status
  <2>2. rows \in Seq(Event) /\ DOMAIN rows = {1} /\ rows[1] = StartRow /\ Len(rows) = 1
    BY <2>1, One
  <2> HIDE DEF rows
  <2>3. \A t : Begins(rows, t) = {} /\ Ends(rows, t) = {}
    BY <2>1, <2>2 DEF Begins, Ends, Marks
  <2>4. rows # <<>>
    BY <2>2
  <2>5. Ordered(s.graph, rows) /\ \A i \in DOMAIN rows : rows[i].type \notin Terminal
    BY <2>1, <2>2 DEF Ordered, Terminal
  <2>6. \A t \in 1..n : task[t] \in {"pending", "aborted"}
    BY <1>3
  <2>7. \A t \in DOMAIN s.graph : Account(rows, t, s.task[t])
    BY <1>1, <1>6, <2>3, <2>6 DEF Account
  <2>8. Logged(s.graph, s.task, rows)
    BY <2>2, <2>4, <2>5, <2>7 DEF Logged, Told
  <2> QED
    BY <2>8 DEF rows
<1> QED
  BY <1>6, <1>8, <1>9, <1>10

(* One whose graph is rejected is over. *)
LEMMA RejectedRun ==
  ASSUME NEW n \in Nat, NEW r, Fit(n, r), r.pc = "idle", NEW status \in {"interrupted", "failed"}
  PROVE  LET s == [r EXCEPT !.pc = "rejected"]
             rows == Append(<<StartRow>>, Row("team.complete", 0, status))
         IN  /\ Fit(n, s) /\ s.pc = "rejected" /\ s.kind = r.kind /\ s.graph = r.graph
             /\ Chronicle(s, rows)
<1> DEFINE s == [r EXCEPT !.pc = "rejected"]
           close == Row("team.complete", 0, status)
           rows == Append(<<StartRow>>, close)
<1>1. r \in RunOf(n) /\ r.task = <<>> /\ r.ready = <<>>
  BY DEF Fit
<1>2. s \in RunOf(n) /\ s.task = <<>> /\ s.ready = <<>> /\ s.pc = "rejected" /\ s.kind = r.kind /\ s.graph = r.graph
  BY <1>1 DEF RunOf, RunPc
<1>3. Fit(n, s)
  BY <1>2 DEF Fit
<1>4. /\ StartRow \in Event /\ StartRow.type = "team.start"
      /\ close \in Event /\ close.type = "team.complete" /\ close.task = 0
  BY DEF StartRow, Row, Event, EventType, Status
<1> HIDE DEF close, s
<1>5. /\ rows \in Seq(Event) /\ Len(rows) = 2 /\ rows[1] = StartRow /\ rows[2] = close
  <2>1. <<StartRow>> \in Seq(Event) /\ Len(<<StartRow>>) = 1 /\ <<StartRow>>[1] = StartRow
    BY <1>4, One
  <2> QED
    BY <1>4, <2>1, AppendProperties
<1> HIDE DEF rows
<1>6. DOMAIN rows = {1, 2} /\ rows # <<>>
  <2>1. DOMAIN rows = 1..Len(rows)
    BY <1>5, LenProperties
  <2>2. DOMAIN rows = 1..2 /\ 1..2 = {1, 2}
    BY <1>5, <2>1
  <2>3. rows # <<>>
    BY <2>2
  <2> QED
    BY <2>2, <2>3
<1>7. Sealed(rows)
  BY <1>4, <1>5, <1>6 DEF Sealed, Last
<1>8. Ordered(s.graph, rows) /\ ClosedOnce(rows)
  BY <1>4, <1>5, <1>6 DEF Ordered, ClosedOnce, Terminal
<1>10. ASSUME NEW t PROVE Ends(rows, t) = {}
  BY <1>4, <1>5, <1>6 DEF Ends, Marks
<1>9. Chronicle(s, rows)
  BY <1>2, <1>5, <1>7, <1>8, <1>10 DEF Chronicle
<1> QED
  BY <1>2, <1>3, <1>9 DEF s, rows, close

(* Begin() keeps the state steady. *)
LEMMA BeginKeeps ==
  ASSUME Steady(run, gate, log), DOMAIN log = Call, NEW c \in Call, Begin(c)
  PROVE  Stepped(c)
<1>1. PICK n \in Nat : Fit(n, run[c])
  BY DEF Steady
<1>2. run[c].pc = "idle" /\ DOMAIN run = Call /\ \A d \in Call : log[d] \in Seq(Event)
  BY DEF Begin, Steady, Configured, Chronicle
<1>5. Final(run[c], run'[c])
  <2>1. run[c].task = <<>>
    BY <1>1, <1>2 DEF Fit
  <2> QED
    BY <2>1 DEF Final
<1>3. CASE Valid(run[c].graph)
  <2>1. PICK r : r = run[c]
    OBVIOUS
  <2> DEFINE b == [r EXCEPT !.pc = "running",
                            !.task = [t \in Tasks(r) |-> IF r.aborted THEN "aborted" ELSE "pending"],
                            !.ready = IF r.aborted THEN <<>> ELSE InOrder({t \in Tasks(r) : r.graph[t] = {}})]
  <2>2. Pump(c, b, run, gate, <<StartRow>>, {}, {})
    BY <1>3, <2>1 DEF Begin, StartRow
  <2>3. PICK s : s = b
    OBVIOUS
  <2>4. BegunAs(r, s) /\ Pump(c, s, run, gate, <<StartRow>>, {}, {})
    BY <2>2, <2>3 DEF BegunAs
  <2> HIDE DEF b
  <2>5. /\ Running(n, s) /\ s.kind = r.kind /\ s.graph = r.graph /\ s.aborted = r.aborted
        /\ In(s, {"running", "queued"}) = {}
        /\ Logged(s.graph, s.task, <<StartRow>>)
    BY <1>1, <2>1, <2>4, NewRun
  <2>6. PICK R, L, others, g : R = [run EXCEPT ![c] = s] /\ L = [log EXCEPT ![c] = <<StartRow>>] /\ others = run /\ g = gate
    OBVIOUS
  <2>7. /\ DOMAIN R = Call /\ R[c] = s /\ L[c] = <<StartRow>>
        /\ \A d \in Call : d # c => R[d] = run[d] /\ L[d] = log[d]
    BY <1>2, <2>6
  <2>8. s.pc = "running" /\ Fit(n, s) /\ Chronicle(s, <<StartRow>>)
    <3>1. s.pc = "running"
      BY <2>5 DEF Running
    <3>2. Fit(n, s)
      BY <2>5, <3>1, RunningFits
    <3>3. ClosedOnce(<<StartRow>>)
      BY <2>5 DEF Logged, Told, ClosedOnce
    <3> QED
      BY <2>5, <3>1, <3>2, <3>3 DEF Chronicle, Logged
  <2>9. Configured(R)
    <3>1. PICK setup \in Setup : \A d \in Call : run[d].kind = setup[d].kind /\ run[d].graph = setup[d].graph
      BY DEF Steady, Configured
    <3>2. ASSUME NEW d \in Call PROVE R[d].kind = setup[d].kind /\ R[d].graph = setup[d].graph
      BY <2>1, <2>5, <2>7, <3>1
    <3> QED
      BY <2>7, <3>1, <3>2 DEF Configured
  <2>10. Gated(R, g)
    <3>1. Gated(run, g)
      BY <2>6 DEF Steady
    <3>2. ASSUME NEW d \in Call PROVE SlotsIn(R[d]) = SlotsIn(run[d]) /\ WaitingIn(R[d]) = WaitingIn(run[d])
      <4>1. In(s, {"running"}) = {} /\ In(s, {"queued"}) = {}
        BY <2>5 DEF In
      <4>2. SlotsIn(s) = {} /\ WaitingIn(s) = {}
        BY <4>1 DEF SlotsIn, WaitingIn
      <4>3. SlotsIn(run[c]) = {} /\ WaitingIn(run[c]) = {}
        BY <1>2 DEF SlotsIn, WaitingIn
      <4> QED
        BY <2>7, <4>2, <4>3
    <3> QED
      BY <3>1, <3>2, GateUnmoved
  <2>11. Steady(R, g, L)
    <3>1. ASSUME NEW d \in Call PROVE (\E m \in Nat : Fit(m, R[d])) /\ Chronicle(R[d], L[d])
      BY <2>7, <2>8 DEF Steady
    <3> QED
      BY <2>9, <2>10, <3>1 DEF Steady
  <2>12. Before(c, R, L, others, {})
    <3>1. ASSUME NEW d \in Call, d # c PROVE L[d] = log[d] \o GrantedStarts(d, {})
      <4>1. {t \in Tasks(run[d]) : <<d, t>> \in {}} = {}
        OBVIOUS
      <4>2. GrantedStarts(d, {}) = <<>>
        BY <4>1, NothingGranted DEF GrantedStarts
      <4> QED
        BY <1>2, <2>7, <3>1, <4>2, Nothing
    <3> QED
      BY <1>2, <2>1, <2>5, <2>6, <2>7, <2>8, <3>1 DEF Before
  <2>13. Pump(c, R[c], others, g, L[c], {}, {})
    BY <2>4, <2>6, <2>7
  <2>14. /\ Steady(run', gate', log') /\ DOMAIN log' = Call
         /\ \A d \in Call : d # c => run'[d] = R[d] /\ log'[d] = L[d]
    <3>1. PICK granted, answered : granted = {} /\ answered = {}
      OBVIOUS
    <3>2. Before(c, R, L, others, granted) /\ Pump(c, R[c], others, g, L[c], granted, answered)
      BY <2>12, <2>13, <3>1
    <3>3. /\ Steady(run', gate', log') /\ DOMAIN log' = Call
          /\ \A d \in Call : d # c => run'[d] = R[d] /\ log'[d] = L[d]
          /\ Final(R[c], run'[c])
      BY <2>11, <3>2, PumpKeeps
    <3> QED
      BY <3>3
  <2>15. ASSUME NEW d \in Call PROVE Final(run[d], run'[d])
    <3>1. d # c => run'[d] = run[d]
      BY <2>7, <2>14
    <3> QED
      BY <1>5, <3>1, ResultsChained
  <2> QED
    BY <1>2, <2>7, <2>14, <2>15 DEF Stepped
<1>4. CASE ~Valid(run[c].graph)
  <2>8. PICK status \in {"interrupted", "failed"} : status = IF run[c].aborted THEN "interrupted" ELSE "failed"
    OBVIOUS
  <2>1. /\ run' = [run EXCEPT ![c].pc = "rejected"] /\ gate' = gate
        /\ log' = [log EXCEPT ![c] = Append(<<StartRow>>, Row("team.complete", 0, status))]
    BY <1>4, <2>8 DEF Begin, StartRow
  <2>2. /\ DOMAIN run' = Call /\ DOMAIN log' = Call
        /\ run'[c] = [run[c] EXCEPT !.pc = "rejected"] /\ log'[c] = Append(<<StartRow>>, Row("team.complete", 0, status))
        /\ \A d \in Call : d # c => run'[d] = run[d] /\ log'[d] = log[d]
    BY <1>2, <2>1
  <2>3. /\ Fit(n, run'[c]) /\ run'[c].pc = "rejected" /\ run'[c].kind = run[c].kind /\ run'[c].graph = run[c].graph
        /\ Chronicle(run'[c], log'[c])
    BY <1>1, <1>2, <2>2, RejectedRun
  <2>4. Configured(run')
    <3>1. PICK setup \in Setup : \A d \in Call : run[d].kind = setup[d].kind /\ run[d].graph = setup[d].graph
      BY DEF Steady, Configured
    <3>2. ASSUME NEW d \in Call PROVE run'[d].kind = setup[d].kind /\ run'[d].graph = setup[d].graph
      BY <2>2, <2>3, <3>1
    <3> QED
      BY <2>2, <3>1, <3>2 DEF Configured
  <2>5. Gated(run', gate')
    <3>1. ASSUME NEW d \in Call PROVE SlotsIn(run'[d]) = SlotsIn(run[d]) /\ WaitingIn(run'[d]) = WaitingIn(run[d])
      BY <1>2, <2>2, <2>3 DEF SlotsIn, WaitingIn
    <3>2. Gated(run, gate)
      BY DEF Steady
    <3>3. PICK R1, R2, g : R1 = run /\ R2 = run' /\ g = gate
      OBVIOUS
    <3>4. Gated(R2, g)
      BY <3>1, <3>2, <3>3, GateUnmoved
    <3> QED
      BY <2>1, <3>3, <3>4
  <2>6. ASSUME NEW d \in Call PROVE (\E m \in Nat : Fit(m, run'[d])) /\ Chronicle(run'[d], log'[d])
    BY <2>2, <2>3 DEF Steady
  <2>7. ASSUME NEW d \in Call PROVE Final(run[d], run'[d])
    <3>1. d # c => run'[d] = run[d]
      BY <2>2
    <3> QED
      BY <1>5, <3>1, ResultsChained
  <2> QED
    BY <1>2, <2>2, <2>4, <2>5, <2>6, <2>7 DEF Stepped, Steady
<1> QED
  BY <1>3, <1>4

-----------------------------------------------------------------------------
(* The steps of a process that is up *)

(* No step changes a result. *)
ResultsKept == \A c \in Call : Final(run[c], run'[c])

(* A file that no step touches, of a run that no step touches. *)
LEMMA PastKept ==
  ASSUME NEW d, Past(d), run'[d] = run[d], log'[d] = log[d], lost'[d] = lost[d], recovery'[d] = recovery[d]
  PROVE  Past(d)'
BY DEF Past

(* While the process is up the step of one run keeps the invariant.         *)
LEMMA UpKeeps ==
  ASSUME IInv, NEW c \in Call, Stepped(c), life = "up", UNCHANGED <<lost, recovery, sealing, life, faults>>
  PROVE  IInv' /\ ResultsKept
<1>1. sealing = {} /\ \A d \in DOMAIN lost : Past(d)
  BY DEF IInv, Restarting
<1>2. \A d \in DOMAIN lost : Past(d)'
  BY <1>1, PastKept DEF Stepped, Past
<1>3. Restarting'
  BY <1>1, <1>2 DEF IInv, Restarting
<1> QED
  BY <1>3 DEF IInv, Stepped, ResultsKept

(* No run is under way after a death. *)
LEMMA UpWhileRunning ==
  ASSUME IInv, NEW c \in Call, run[c].pc = "running" PROVE life = "up"
BY DEF IInv, Restarting

(* A task that may settle by an answer, a ceiling or an abort is one of the *)
(* graph's, in a slot or waiting for one.                                   *)
LEMMA SettlesHere ==
  ASSUME IInv, NEW c \in Call, run[c].pc = "running", NEW t,
         NEW status \in {"succeeded", "failed", "aborted"},
         \/ status # "aborted" /\ t \in In(run[c], {"running"}) /\ ~run[c].aborted
         \/ status = "aborted" /\ t \in Active(run[c]) /\ run[c].aborted
  PROVE  t \in Tasks(run[c]) /\ \E report : Settles(run[c], t, status, report)
<1>1. PICK n \in Nat : /\ run[c].task \in [1..n -> Status]
                       /\ Tasks(run[c]) = 1..n
  BY SteadyRun DEF IInv
<1>2. t \in DOMAIN run[c].task /\ run[c].task[t] \in {"queued", "running"}
  BY DEF In, Active
<1>3. status # "aborted" => run[c].task[t] = "running"
  BY DEF In
<1>4. PICK report : report = IF run[c].task[t] = "queued" THEN <<>>
                ELSE <<Row(IF status = "succeeded" THEN "subagent.complete" ELSE "subagent.failed", t, status)>>
  OBVIOUS
<1>5. Settles(run[c], t, status, report)
  BY <1>2, <1>3, <1>4 DEF Settles
<1> QED
  BY <1>1, <1>2, <1>5

(* An executor answers: it is waited for, or nothing happens. *)
LEMMA AnswerKeeps ==
  ASSUME IInv, NEW c \in Call, NEW t, NEW status \in {"succeeded", "failed"}, Answer(c, t, status)
  PROVE  IInv' /\ ResultsKept
<1>1. CASE Delivered(c, t)
  <2>1. run[c].pc = "running" /\ t \in In(run[c], {"running"}) /\ ~run[c].aborted
    BY <1>1 DEF Delivered, Executing
  <2>2. PICK report : t \in Tasks(run[c]) /\ Settles(run[c], t, status, report)
    BY <2>1, SettlesHere
  <2>3. Finish(c, t, status, {<<c, t>>}) /\ UNCHANGED <<lost, recovery, sealing, life, faults>>
    BY <1>1 DEF Answer
  <2>4. PICK answered : answered = {<<c, t>>}
    OBVIOUS
  <2>5. Stepped(c)
    BY <2>1, <2>2, <2>3, <2>4, FinishKeeps DEF IInv
  <2> QED
    BY <2>1, <2>3, <2>5, UpKeeps, UpWhileRunning
<1>2. CASE ~Delivered(c, t)
  <2>1. UNCHANGED <<run, gate, log, lost, recovery, sealing, life>>
    BY <1>2 DEF Answer
  <2>2. ResultsKept
    BY <2>1, ResultsChained DEF ResultsKept
  <2> QED
    BY <2>1, <2>2 DEF IInv, Restarting, Past, Halfway
<1> QED
  BY <1>1, <1>2

(* The ceiling of a task's run time. *)
LEMMA MaxRuntimeKeeps ==
  ASSUME IInv, NEW c \in Call, NEW t, MaxRuntime(c, t)
  PROVE  IInv' /\ ResultsKept
<1>1. run[c].pc = "running" /\ t \in In(run[c], {"running"}) /\ ~run[c].aborted
  BY DEF MaxRuntime, Executing
<1>2. PICK report : t \in Tasks(run[c]) /\ Settles(run[c], t, "failed", report)
  BY <1>1, SettlesHere
<1>3. Finish(c, t, "failed", {}) /\ UNCHANGED <<lost, recovery, sealing, life, faults>>
  BY DEF MaxRuntime
<1>4. Stepped(c)
  BY <1>1, <1>2, <1>3, FinishKeeps DEF IInv
<1> QED
  BY <1>1, <1>3, <1>4, UpKeeps, UpWhileRunning

(* The runner of a task gives up after an abort. *)
LEMMA InterruptedKeeps ==
  ASSUME IInv, NEW c \in Call, NEW t, Interrupted(c, t)
  PROVE  IInv' /\ ResultsKept
<1>1. run[c].pc = "running" /\ t \in Active(run[c]) /\ run[c].aborted
  BY DEF Interrupted
<1>2. PICK report : t \in Tasks(run[c]) /\ Settles(run[c], t, "aborted", report)
  BY <1>1, SettlesHere
<1>3. Finish(c, t, "aborted", {}) /\ UNCHANGED <<lost, recovery, sealing, life, faults>>
  BY DEF Interrupted
<1>4. Stepped(c)
  BY <1>1, <1>2, <1>3, FinishKeeps DEF IInv
<1> QED
  BY <1>1, <1>3, <1>4, UpKeeps, UpWhileRunning

(* A run begins. *)
LEMMA BeginKeepsAll ==
  ASSUME IInv, NEW c \in Call, Begin(c)
  PROVE  IInv' /\ ResultsKept
<1>1. life = "up" /\ UNCHANGED <<lost, recovery, sealing, life, faults>>
  BY DEF Begin
<1>2. Stepped(c)
  BY BeginKeeps DEF IInv
<1> QED
  BY <1>1, <1>2, UpKeeps

-----------------------------------------------------------------------------
(* Cancellation *)

(* A run that is idle or under way and is cancelled keeps its log and its   *)
(* slots; none of its tasks waits any more.                                 *)
LEMMA CancelledRun ==
  ASSUME NEW n \in Nat, NEW r, Fit(n, r), r.pc \in {"idle", "running"}, NEW rows, Chronicle(r, rows),
         NEW s, s = Cancelled(r)
  PROVE  /\ Fit(n, s) /\ s.pc = r.pc /\ s.kind = r.kind /\ s.graph = r.graph
         /\ Chronicle(s, rows)
         /\ SlotsIn(s) = SlotsIn(r) /\ WaitingIn(s) = {}
         /\ Final(r, s)
<1>1. /\ r \in RunOf(n) /\ r.graph \in [1..n -> SUBSET (1..n)] /\ r.aborted \in BOOLEAN
      /\ r.task \in {<<>>} \cup [1..n -> Status]
  BY RunParts DEF Fit
<1> DEFINE task == [t \in DOMAIN r.task |-> IF r.task[t] = "pending" THEN "aborted" ELSE r.task[t]]
<1>2. s = [r EXCEPT !.aborted = TRUE, !.ready = <<>>, !.task = task]
  BY DEF Cancelled
<1>3. <<>> \in Seq(1..n)
  BY Nothing
<1>4. CASE r.pc = "idle"
  <2>1. r.task = <<>> /\ rows = <<>>
    BY <1>4 DEF Fit, Chronicle
  <2>2. task = <<>>
    BY <2>1
  <2> HIDE DEF task
  <2>3. /\ s \in RunOf(n) /\ s.pc = "idle" /\ s.kind = r.kind /\ s.graph = r.graph /\ s.task = <<>> /\ s.ready = <<>>
    BY <1>1, <1>2, <1>3, <1>4, <2>2 DEF RunOf
  <2>4. Fit(n, s)
    BY <2>3 DEF Fit
  <2>5. Chronicle(s, rows)
    BY <2>1, <2>3 DEF Chronicle
  <2>6. SlotsIn(s) = SlotsIn(r) /\ WaitingIn(s) = {}
    BY <1>4, <2>3 DEF SlotsIn, WaitingIn
  <2>7. Final(r, s)
    BY <2>1, <2>3, ResultsChained
  <2> QED
    BY <1>4, <2>3, <2>4, <2>5, <2>6, <2>7
<1>5. CASE r.pc = "running"
  <2>1. Running(n, r)
    BY <1>5, RunningFits
  <2>2. /\ r.task \in [1..n -> Status] /\ Justified(r.graph, r.task, r.aborted)
    BY <2>1 DEF Running
  <2>3. task \in [1..n -> Status] /\ \A u \in 1..n : task[u] = IF r.task[u] = "pending" THEN "aborted" ELSE r.task[u]
    BY <2>2 DEF Status
  <2> HIDE DEF task
  <2>4. /\ s \in RunOf(n) /\ s.pc = "running" /\ s.kind = r.kind /\ s.graph = r.graph /\ s.task = task /\ s.ready = <<>>
        /\ s.aborted = TRUE
    BY <1>1, <1>2, <1>3, <1>5, <2>3 DEF RunOf
  <2>5. Justified(r.graph, task, TRUE)
    BY <1>1, <2>2, <2>3, JustifiedCancel
  <2>6. Queue(r.graph, task, <<>>)
    BY Nothing DEF Queue
  <2>7. Running(n, s)
    BY <2>3, <2>4, <2>5, <2>6 DEF Running
  <2>8. Logged(r.graph, r.task, rows)
    BY <1>5 DEF Chronicle, Logged
  <2>9. \A u \in 1..n : \/ task[u] = r.task[u]
                        \/ r.task[u] \in {"pending", "queued"} /\ task[u] \in {"queued", "blocked", "aborted"}
    BY <2>3
  <2>10. Logged(r.graph, task, rows)
    BY <1>1, <2>2, <2>8, <2>9, LoggedQuietly
  <2>11. Chronicle(s, rows)
    <3>1. ClosedOnce(rows)
      BY DEF Chronicle
    <3> QED
      BY <2>4, <2>10, <3>1 DEF Logged, Chronicle
  <2>12. In(s, {"running"}) = In(r, {"running"})
    <3>1. \A u : u \in In(s, {"running"}) <=> u \in In(r, {"running"})
      BY <2>2, <2>3, <2>4 DEF In
    <3> QED
      BY <3>1
  <2>13. SlotsIn(s) = SlotsIn(r) /\ WaitingIn(s) = {}
    BY <1>5, <2>4, <2>12 DEF SlotsIn, WaitingIn
  <2>14. Fit(n, s)
    BY <2>4, <2>7, RunningFits
  <2>15. Final(r, s)
    <3>1. \A t \in 1..n : r.task[t] \in {"pending", "queued", "running"} \/ s.task[t] = r.task[t]
      BY <2>3, <2>4
    <3> QED
      BY <2>2, <2>3, <2>4, <3>1, ResultsStay
  <2> QED
    BY <1>5, <2>4, <2>11, <2>13, <2>14, <2>15
<1> QED
  BY <1>4, <1>5

(* A gate whose queue is emptied when no run waits any more. *)
LEMMA GateEmptied ==
  ASSUME NEW R1, NEW R2, NEW g, Gated(R1, g),
         \A d \in Call : SlotsIn(R2[d]) = SlotsIn(R1[d]) /\ WaitingIn(R2[d]) = {}
  PROVE  Gated(R2, [g EXCEPT !.queue = <<>>])
<1>1. SlotsOf(R2) = SlotsOf(R1)
  <2>1. \A d, u : <<d, u>> \in SlotsOf(R2) <=> <<d, u>> \in SlotsOf(R1)
    BY SlotsByRun
  <2>2. SlotsOf(R1) \subseteq Call \X MaxTask /\ SlotsOf(R2) \subseteq Call \X MaxTask
    BY SlotsByRun
  <2> QED
    BY <2>1, <2>2
<1>2. WaitersOf(R2) = {}
  <2>1. \A d, u : <<d, u>> \notin WaitersOf(R2)
    BY SlotsByRun
  <2>2. WaitersOf(R2) \subseteq Call \X MaxTask
    BY SlotsByRun
  <2> QED
    BY <2>1, <2>2
<1>3. <<>> \in Seq(Call \X MaxTask) /\ ToSet(<<>>) = {} /\ IsInjective(<<>>)
  BY Nothing
<1> DEFINE q == <<>>
<1> HIDE DEF q
<1>4. /\ g \in [active : Nat, queue : Seq(Call \X MaxTask)]
      /\ g.active = Cardinality(SlotsOf(R1)) /\ g.active <= MaxParallel /\ IsFiniteSet(SlotsOf(R1))
  BY DEF Gated
<1>5. q \in Seq(Call \X MaxTask) /\ ToSet(q) = {} /\ IsInjective(q) /\ ~(q # <<>>)
  BY <1>3 DEF q
<1>6. PICK h : h = [g EXCEPT !.queue = q]
  OBVIOUS
<1>7. h \in [active : Nat, queue : Seq(Call \X MaxTask)] /\ h.active = g.active /\ h.queue = q
  BY <1>4, <1>5, <1>6
<1>8. Gated(R2, h)
  BY <1>1, <1>2, <1>4, <1>5, <1>7 DEF Gated
<1> QED
  BY <1>6, <1>8 DEF q

(* abortQueued() keeps the invariant. *)
LEMMA AbortKeeps ==
  ASSUME IInv, NEW calls, Abort(calls), calls = Tool \/ \E c \in Department : calls = {c}
  PROVE  IInv' /\ ResultsKept
<1>1. /\ life = "up" /\ UNCHANGED <<going, log, lost, recovery, sealing, life>>
      /\ run' = [c \in Call |-> IF c \in calls /\ run[c].pc \in {"idle", "running"} THEN Cancelled(run[c]) ELSE run[c]]
      /\ gate' = [gate EXCEPT !.queue = IF calls = Tool THEN <<>> ELSE @]
  BY DEF Abort
<1>2. Steady(run, gate, log) /\ DOMAIN log = Call /\ Gated(run, gate)
  BY DEF IInv, Steady
<1>3. PICK R2 : R2 = [c \in Call |-> IF c \in calls /\ run[c].pc \in {"idle", "running"} THEN Cancelled(run[c]) ELSE run[c]]
  OBVIOUS
<1>4. ASSUME NEW d \in Call
      PROVE  /\ R2[d].pc = run[d].pc /\ R2[d].kind = run[d].kind /\ R2[d].graph = run[d].graph
             /\ \E n \in Nat : Fit(n, R2[d])
             /\ Chronicle(R2[d], log[d])
             /\ SlotsIn(R2[d]) = SlotsIn(run[d])
             /\ Final(run[d], R2[d])
             /\ d \in calls => WaitingIn(R2[d]) = {}
             /\ d \notin calls => WaitingIn(R2[d]) = WaitingIn(run[d])
  <2>1. PICK n \in Nat : Fit(n, run[d]) /\ Chronicle(run[d], log[d])
    BY <1>2 DEF Steady
  <2>2. CASE d \in calls /\ run[d].pc \in {"idle", "running"}
    <3>1. PICK r, s, rows : r = run[d] /\ s = Cancelled(r) /\ rows = log[d]
      OBVIOUS
    <3>2. R2[d] = s
      BY <1>3, <2>2, <3>1
    <3>3. /\ Fit(n, s) /\ s.pc = r.pc /\ s.kind = r.kind /\ s.graph = r.graph
          /\ Chronicle(s, rows)
          /\ SlotsIn(s) = SlotsIn(r) /\ WaitingIn(s) = {} /\ Final(r, s)
      BY <2>1, <2>2, <3>1, CancelledRun
    <3> QED
      BY <2>2, <3>1, <3>2, <3>3
  <2>3. CASE ~(d \in calls /\ run[d].pc \in {"idle", "running"})
    <3>1. R2[d] = run[d]
      BY <1>3, <2>3
    <3>2. d \in calls => WaitingIn(run[d]) = {}
      BY <2>3 DEF WaitingIn
    <3> QED
      BY <2>1, <3>1, <3>2, ResultsChained
  <2> QED
    BY <2>2, <2>3
<1>5. Gated(R2, gate')
  <2>1. CASE calls = Tool
    <3>1. ASSUME NEW d \in Call PROVE SlotsIn(R2[d]) = SlotsIn(run[d]) /\ WaitingIn(R2[d]) = {}
      <4>1. CASE d \in Tool
        BY <1>4, <2>1, <4>1
      <4>2. CASE d \notin Tool
        <5>1. run[d].kind # "tool"
          BY <4>2 DEF Tool
        <5> QED
          BY <1>4, <5>1 DEF WaitingIn
      <4> QED
        BY <4>1, <4>2
    <3>2. PICK R1, g : R1 = run /\ g = gate
      OBVIOUS
    <3>3. Gated(R2, [g EXCEPT !.queue = <<>>])
      BY <1>2, <3>1, <3>2, GateEmptied
    <3> QED
      BY <1>1, <2>1, <3>2, <3>3
  <2>2. CASE \E c \in Department : calls = {c}
    <3>1. PICK c \in Department : calls = {c}
      BY <2>2
    <3>2. calls # Tool /\ run[c].kind # "tool" /\ c \in Call
      BY <3>1 DEF Department, Tool
    <3>3. gate' = gate
      <4>1. gate \in [active : Nat, queue : Seq(Call \X MaxTask)]
        BY <1>2 DEF Gated
      <4>2. gate' = [gate EXCEPT !.queue = @]
        BY <1>1, <3>2
      <4> QED
        BY <4>1, <4>2
    <3>4. ASSUME NEW d \in Call PROVE SlotsIn(R2[d]) = SlotsIn(run[d]) /\ WaitingIn(R2[d]) = WaitingIn(run[d])
      <4>1. CASE d = c
        BY <1>4, <3>2, <4>1 DEF WaitingIn
      <4>2. CASE d # c
        BY <1>4, <3>1, <4>2
      <4> QED
        BY <4>1, <4>2
    <3>5. PICK R1, g : R1 = run /\ g = gate
      OBVIOUS
    <3>6. Gated(R2, g)
      BY <1>2, <3>4, <3>5, GateUnmoved
    <3> QED
      BY <3>3, <3>5, <3>6
  <2> QED
    BY <2>1, <2>2
<1>6. Configured(R2)
  <2>1. PICK setup \in Setup : \A d \in Call : run[d].kind = setup[d].kind /\ run[d].graph = setup[d].graph
    BY <1>2 DEF Steady, Configured
  <2>2. ASSUME NEW d \in Call PROVE R2[d].kind = setup[d].kind /\ R2[d].graph = setup[d].graph
    BY <1>4, <2>1
  <2> QED
    BY <1>3, <2>1, <2>2 DEF Configured
<1>7. run' = R2 /\ log' = log
  BY <1>1, <1>3
<1>8. Steady(run', gate', log')
  <2>1. Steady(R2, gate', log)
    BY <1>4, <1>5, <1>6 DEF Steady
  <2> QED
    BY <1>7, <2>1
<1>9. Restarting'
  <2>1. sealing = {} /\ \A d \in DOMAIN lost : Past(d)
    BY <1>1 DEF IInv, Restarting
  <2>2. ASSUME NEW d \in DOMAIN lost PROVE Past(d)'
    <3>1. Past(d) /\ run[d].pc \notin {"idle", "running"} /\ d \in Call
      BY <2>1 DEF Past
    <3>2. run'[d] = run[d]
      BY <1>1, <3>1
    <3> QED
      BY <1>1, <3>1, <3>2, PastKept
  <2>3. \A d \in Call : run'[d].pc = run[d].pc
    BY <1>4, <1>7
  <2> QED
    BY <1>1, <2>1, <2>2, <2>3 DEF IInv, Restarting
<1> QED
  BY <1>2, <1>4, <1>7, <1>8, <1>9 DEF IInv, ResultsKept

-----------------------------------------------------------------------------
(* Death and recovery *)

(* The record of a run whose process died. *)
LEMMA LostRun ==
  ASSUME NEW n \in Nat, NEW r, Fit(n, r), NEW rows, Chronicle(r, rows),
         NEW s, s = IF r.pc = "running" THEN [r EXCEPT !.pc = "lost"] ELSE r
  PROVE  /\ Fit(n, s) /\ s.pc # "running" /\ s.kind = r.kind /\ s.graph = r.graph
         /\ s = r \/ s.pc = "lost"
         /\ Chronicle(s, rows)
         /\ Final(r, s)
<1>1. r \in RunOf(n)
  BY DEF Fit
<1>2. /\ Fit(n, s) /\ s.pc # "running" /\ s.kind = r.kind /\ s.graph = r.graph
      /\ s = r \/ (s.pc = "lost" /\ r.pc = "running")
  <2>1. CASE r.pc = "running"
    <3>1. s \in RunOf(n) /\ s.pc = "lost" /\ s.kind = r.kind /\ s.graph = r.graph /\ s.task = r.task
      BY <1>1, <2>1 DEF RunOf, RunPc
    <3> QED
      BY <2>1, <3>1 DEF Fit
  <2>2. CASE r.pc # "running"
    BY <2>2
  <2> QED
    BY <2>1, <2>2
<1>11. Chronicle(s, rows)
  <2>1. CASE s = r
    BY <2>1
  <2>2. CASE s.pc = "lost" /\ r.pc = "running"
    <3>1. s.task = r.task /\ s.graph = r.graph
      BY <1>1, <2>2 DEF RunOf
    <3> QED
      BY <2>2, <3>1 DEF Chronicle
  <2> QED
    BY <1>2, <2>1, <2>2
<1>12. s.task = r.task
  BY <1>1 DEF RunOf
<1>13. Final(r, s)
  BY <1>12, ResultsChained
<1> QED
  BY <1>2, <1>11, <1>13

(* With no run under way the gate is empty. *)
LEMMA GateIdle ==
  ASSUME NEW R, \A d \in Call : R[d].pc # "running"
  PROVE  SlotsOf(R) = {} /\ WaitersOf(R) = {} /\ Gated(R, [active |-> 0, queue |-> <<>>])
<1>1. SlotsOf(R) = {} /\ WaitersOf(R) = {}
  BY DEF SlotsOf, WaitersOf
<1>2. IsFiniteSet({}) /\ Cardinality({}) = 0
  BY FS_EmptySet
<1>3. <<>> \in Seq(Call \X MaxTask) /\ ToSet(<<>>) = {} /\ IsInjective(<<>>)
  BY Nothing
<1> DEFINE q == <<>>
<1> HIDE DEF q
<1>4. q \in Seq(Call \X MaxTask) /\ ToSet(q) = {} /\ IsInjective(q) /\ ~(q # <<>>)
  BY <1>3 DEF q
<1>5. PICK g : g = [active |-> 0, queue |-> q]
  OBVIOUS
<1>6. g \in [active : Nat, queue : Seq(Call \X MaxTask)] /\ g.active = 0 /\ g.queue = q
  BY <1>4, <1>5
<1>7. 0 <= MaxParallel
  BY TeamAssumption
<1>8. Gated(R, g)
  BY <1>1, <1>2, <1>4, <1>6, <1>7 DEF Gated
<1> QED
  BY <1>1, <1>5, <1>8 DEF q

(* A run that is over has logged something. *)
LEMMA OverBegun ==
  ASSUME NEW n \in Nat, NEW r, Fit(n, r), NEW rows, Chronicle(r, rows), r.pc \notin {"idle", "running"}
  PROVE  rows # <<>>
<1>1. r.pc \in {"returned", "rejected", "lost"}
  BY DEF Fit, RunOf, RunPc
<1> QED
  BY <1>1 DEF Chronicle, Told, Sealed

(* A death keeps the invariant. *)
LEMMA CrashKeeps ==
  ASSUME IInv, Crash
  PROVE  IInv' /\ ResultsKept
<1>1. /\ DOMAIN lost' = Begun /\ \A c \in DOMAIN lost : c \in Begun => lost'[c] = lost[c]
      /\ UNCHANGED <<log, recovery>>
  BY DEF Crash
<1>2. /\ run' = [c \in Call |-> IF run[c].pc = "running" THEN [run[c] EXCEPT !.pc = "lost"] ELSE run[c]]
      /\ gate' = [active |-> 0, queue |-> <<>>] /\ sealing' = {} /\ life' = "recovering"
  BY DEF Crash
<1>3. PICK R2 : R2 = [c \in Call |-> IF run[c].pc = "running" THEN [run[c] EXCEPT !.pc = "lost"] ELSE run[c]]
  OBVIOUS
<1>4. ASSUME NEW d \in Call
      PROVE  /\ \E n \in Nat : Fit(n, R2[d])
             /\ R2[d].pc # "running" /\ R2[d].kind = run[d].kind /\ R2[d].graph = run[d].graph
             /\ R2[d] = run[d] \/ R2[d].pc = "lost"
             /\ run[d].pc # "running" => R2[d] = run[d]
             /\ Chronicle(R2[d], log[d])
             /\ Final(run[d], R2[d])
  <2>1. PICK n \in Nat : Fit(n, run[d]) /\ Chronicle(run[d], log[d])
    BY DEF IInv, Steady
  <2>2. PICK r, s, rows : r = run[d] /\ s = R2[d] /\ rows = log[d]
    OBVIOUS
  <2>6. s = IF r.pc = "running" THEN [r EXCEPT !.pc = "lost"] ELSE r
    BY <1>3, <2>2
  <2>8. /\ Fit(n, s) /\ s.pc # "running" /\ s.kind = r.kind /\ s.graph = r.graph
        /\ s = r \/ s.pc = "lost"
        /\ Chronicle(s, rows) /\ Final(r, s)
    BY <2>1, <2>2, <2>6, LostRun
  <2> QED
    BY <2>2, <2>6, <2>8
<1>5. Configured(R2)
  <2>1. PICK setup \in Setup : \A d \in Call : run[d].kind = setup[d].kind /\ run[d].graph = setup[d].graph
    BY DEF IInv, Steady, Configured
  <2>2. ASSUME NEW d \in Call PROVE R2[d].kind = setup[d].kind /\ R2[d].graph = setup[d].graph
    BY <1>4, <2>1
  <2> QED
    BY <1>3, <2>1, <2>2 DEF Configured
<1>6. run' = R2 /\ log' = log
  BY <1>1, <1>2, <1>3
<1>7. Gated(R2, gate')
  BY <1>2, <1>4, GateIdle
<1>8. Steady(run', gate', log')
  <2>1. Steady(R2, gate', log)
    BY <1>4, <1>5, <1>7 DEF Steady
  <2> QED
    BY <1>6, <2>1
<1>9. Restarting'
  <2>1. ASSUME NEW d \in DOMAIN lost PROVE d \in Begun /\ Past(d)'
    <3>1. Past(d) /\ run[d].pc \notin {"idle", "running"} /\ d \in Call
      BY DEF IInv, Restarting, Past
    <3>2. log[d] # <<>>
      <4>1. PICK n \in Nat : Fit(n, run[d]) /\ Chronicle(run[d], log[d])
        BY <3>1 DEF IInv, Steady
      <4> QED
        BY <3>1, <4>1, OverBegun
    <3>3. d \in Begun
      BY <3>1, <3>2 DEF Begun
    <3> QED
      BY <1>1, <1>4, <1>6, <3>1, <3>3, PastKept
  <2>2. ASSUME NEW d \in Begun, d \notin DOMAIN lost PROVE Past(d)'
    <3>1. d \in Call /\ log[d] # <<>> /\ recovery[d] = <<>>
      BY <2>2 DEF Begun, IInv, Restarting
    <3>2. R2[d].pc \notin {"idle", "running"}
      BY <1>4, <3>1 DEF Chronicle
    <3>3. File(run'[d], log'[d], lost'[d], recovery'[d])
      BY <1>1, <3>1 DEF File
    <3> QED
      BY <1>6, <3>1, <3>2, <3>3 DEF Past
  <2>3. \A d \in DOMAIN lost' : Past(d)'
    BY <1>1, <2>1, <2>2
  <2>4. \A d \in Call : d \notin DOMAIN lost' => recovery'[d] = <<>>
    BY <1>1, <2>1 DEF IInv, Restarting
  <2>5. \A d \in Call : run'[d].pc # "running"
    BY <1>4, <1>6
  <2> QED
    BY <1>1, <1>2, <2>3, <2>4, <2>5 DEF IInv, Restarting
<1>10. DOMAIN log' = Call
  BY <1>1 DEF IInv
<1>11. ResultsKept
  BY <1>4, <1>6 DEF ResultsKept
<1> QED
  BY <1>8, <1>9, <1>10, <1>11 DEF IInv

(* What the log of a run that is over tells of task t, and whether it ends. *)
LEMMA Telling ==
  ASSUME NEW n \in Nat, NEW r, Fit(n, r), NEW rows, Chronicle(r, rows), r.pc \notin {"idle", "running"},
         NEW t \in DOMAIN r.graph
  PROVE  /\ \A j \in DOMAIN rows : rows[j].type = "subagent.complete" /\ rows[j].task = t => t \in In(r, {"succeeded"})
         /\ \A j \in DOMAIN rows : rows[j].type = "subagent.failed" /\ rows[j].task = t => t \notin In(r, {"succeeded"})
         /\ r.pc = "lost" /\ t \in In(r, {"succeeded"}) =>
               \E j \in DOMAIN rows : rows[j].type = "subagent.complete" /\ rows[j].task = t
         /\ r.pc = "lost" =>
               (t \in In(r, {"running"}) <=> Begins(rows, t) # {} /\ Ends(rows, t) = {})
<1>1. r.pc \in {"returned", "rejected", "lost"} /\ DOMAIN r.graph = 1..n
  BY RunParts DEF Fit, RunOf, RunPc
<1>2. \A j \in DOMAIN rows : rows[j].type \in {"subagent.complete", "subagent.failed"} /\ rows[j].task = t <=> j \in Ends(rows, t)
  BY DEF Ends, Marks
<1>3. CASE r.pc = "rejected"
  <2>1. Ends(rows, t) = {} /\ r.task = <<>>
    BY <1>3 DEF Chronicle, Fit
  <2>2. In(r, {"succeeded"}) = {}
    BY <2>1 DEF In
  <2> QED
    BY <1>2, <1>3, <2>1, <2>2
<1>4. CASE r.pc = "returned"
  <2>1. /\ r.task \in [1..n -> Status] /\ t \in 1..n
        /\ \A j \in Ends(rows, t) : r.task[t] = "succeeded" <=> rows[j].type = "subagent.complete"
    BY <1>1, <1>4 DEF Chronicle, Fit, Matches, Tasks
  <2>2. t \in In(r, {"succeeded"}) <=> r.task[t] = "succeeded"
    BY <2>1 DEF In
  <2> QED
    BY <1>2, <1>4, <2>1, <2>2
<1>5. CASE r.pc = "lost"
  <2>1. r.task \in [1..n -> Status] /\ t \in 1..n /\ Account(rows, t, r.task[t])
    BY <1>1, <1>5 DEF Chronicle, Fit, Told
  <2>2. /\ t \in In(r, {"succeeded"}) <=> r.task[t] = "succeeded"
        /\ t \in In(r, {"running"}) <=> r.task[t] = "running"
    BY <2>1 DEF In
  <2>3. CASE r.task[t] \in {"succeeded", "failed"} \/ (r.task[t] = "aborted" /\ Reported(rows, t, r.task[t]))
    <3>1. Reported(rows, t, r.task[t])
      BY <2>1, <2>3 DEF Account
    <3>2. PICK j \in DOMAIN rows : /\ Ends(rows, t) = {j}
                                   /\ r.task[t] = "succeeded" <=> rows[j].type = "subagent.complete"
      BY <3>1 DEF Reported
    <3>3. rows[j].task = t
      BY <1>2, <3>2
    <3>4. r.task[t] # "running"
      BY <2>3
    <3> QED
      BY <1>2, <2>2, <3>2, <3>3, <3>4
  <2>4. CASE r.task[t] \in {"pending", "queued", "blocked"} \/ (r.task[t] = "aborted" /\ ~Reported(rows, t, r.task[t]))
    <3>1. Begins(rows, t) = {} /\ Ends(rows, t) = {}
      BY <2>1, <2>4 DEF Account
    <3>2. r.task[t] # "running" /\ r.task[t] # "succeeded"
      BY <2>4
    <3> QED
      BY <1>2, <2>2, <3>1, <3>2
  <2>5. CASE r.task[t] = "running"
    <3>1. Begins(rows, t) # {} /\ Ends(rows, t) = {}
      BY <2>1, <2>5 DEF Account
    <3>2. r.task[t] # "succeeded"
      BY <2>5
    <3> QED
      BY <1>2, <2>2, <2>5, <3>1, <3>2
  <2> QED
    BY <2>1, <2>3, <2>4, <2>5 DEF Status
<1> QED
  BY <1>1, <1>3, <1>4, <1>5

(* The rows of a file, by their type. *)
RecordedIn(rows, missing, type) == {rows[i].task : i \in {j \in DOMAIN rows \ missing : rows[j].type = type}}

(* The manifest of a file no kept row of which ends the run is true.        *)
LEMMA ManifestTrue ==
  ASSUME NEW n \in Nat, NEW r, Fit(n, r), NEW rows, Chronicle(r, rows), r.pc \notin {"idle", "running"}, NEW missing,
         \A j \in DOMAIN rows \ missing : rows[j].type \notin Terminal,
         NEW m, m.started = RecordedIn(rows, missing, "subagent.start"),
         m.completed = RecordedIn(rows, missing, "subagent.complete"),
         m.failed = RecordedIn(rows, missing, "subagent.failed")
  PROVE  TrueOf(r, rows, missing, m)
<1> SUFFICES ASSUME NEW t \in DOMAIN r.graph
             PROVE  /\ t \in m.completed => t \in In(r, {"succeeded"})
                    /\ t \in m.failed => t \notin In(r, {"succeeded"})
                    /\ missing = {} =>
                          /\ t \in In(r, {"succeeded"}) => t \in m.completed
                          /\ t \in In(r, {"running"}) <=> t \in m.started \ (m.completed \cup m.failed)
  BY DEF TrueOf
<1>1. /\ \A j \in DOMAIN rows : rows[j].type = "subagent.complete" /\ rows[j].task = t => t \in In(r, {"succeeded"})
      /\ \A j \in DOMAIN rows : rows[j].type = "subagent.failed" /\ rows[j].task = t => t \notin In(r, {"succeeded"})
      /\ r.pc = "lost" /\ t \in In(r, {"succeeded"}) =>
            \E j \in DOMAIN rows : rows[j].type = "subagent.complete" /\ rows[j].task = t
      /\ r.pc = "lost" =>
            (t \in In(r, {"running"}) <=> Begins(rows, t) # {} /\ Ends(rows, t) = {})
  BY Telling
<1>2. \A type : t \in RecordedIn(rows, missing, type)
                    <=> \E j \in DOMAIN rows \ missing : rows[j].type = type /\ rows[j].task = t
  BY DEF RecordedIn
<1>3. /\ t \in m.started <=> \E j \in DOMAIN rows \ missing : rows[j].type = "subagent.start" /\ rows[j].task = t
      /\ t \in m.completed <=> \E j \in DOMAIN rows \ missing : rows[j].type = "subagent.complete" /\ rows[j].task = t
      /\ t \in m.failed <=> \E j \in DOMAIN rows \ missing : rows[j].type = "subagent.failed" /\ rows[j].task = t
  BY <1>2
<1>4. ASSUME missing = {}
      PROVE  /\ t \in In(r, {"succeeded"}) => t \in m.completed
             /\ t \in In(r, {"running"}) <=> t \in m.started \ (m.completed \cup m.failed)
  <2>1. \A j \in DOMAIN rows : rows[j].type \notin Terminal
    BY <1>4
  <2>2. r.pc = "lost"
    <3>1. rows \in Seq(Event) /\ r.pc \in {"returned", "rejected", "lost"}
      BY DEF Fit, RunOf, RunPc, Chronicle
    <3>2. ~Sealed(rows)
      <4> SUFFICES ASSUME Sealed(rows) PROVE FALSE
        OBVIOUS
      <4>1. rows # <<>> /\ rows[Len(rows)].type = "team.complete"
        BY DEF Sealed, Last
      <4>2. Len(rows) \in DOMAIN rows
        <5>1. Len(rows) \in Nat /\ Len(rows) # 0 /\ DOMAIN rows = 1..Len(rows)
          BY <3>1, <4>1, EmptySeq, LenProperties
        <5> DEFINE k == Len(rows)
        <5> HIDE DEF k
        <5>2. k \in Nat /\ k # 0 /\ DOMAIN rows = 1..k
          BY <5>1 DEF k
        <5>3. k \in DOMAIN rows
          BY <5>2
        <5> QED
          BY <5>3 DEF k
      <4> QED
        BY <2>1, <4>1, <4>2 DEF Terminal
    <3> QED
      BY <3>1, <3>2 DEF Chronicle
  <2>3. /\ t \in m.started <=> Begins(rows, t) # {}
        /\ t \in m.completed \cup m.failed <=> Ends(rows, t) # {}
        /\ t \in m.completed <=> \E j \in DOMAIN rows : rows[j].type = "subagent.complete" /\ rows[j].task = t
    BY <1>3, <1>4 DEF Begins, Ends, Marks
  <2> QED
    BY <1>1, <2>2, <2>3
<1> QED
  BY <1>1, <1>3, <1>4

(* A row behind the recovery of a file that it has not ended. *)
LEMMA FileGrows ==
  ASSUME NEW r, NEW rows, NEW missing, NEW q \in Seq(Manifest), File(r, rows, missing, q),
         \A i \in DOMAIN q : q[i].type \notin Terminal, NEW m \in Manifest, TrueOf(r, rows, missing, m)
  PROVE  /\ Append(q, m) \in Seq(Manifest) /\ Append(q, m) # <<>> /\ Last(Append(q, m)) = m
         /\ File(r, rows, missing, Append(q, m))
<1> DEFINE p == Append(q, m)
           k == Len(q)
<1>1. k \in Nat /\ DOMAIN q = 1..k
  BY LenProperties
<1>2. p \in Seq(Manifest) /\ Len(p) = k + 1 /\ (\A i \in 1..k : p[i] = q[i]) /\ p[k + 1] = m
  BY AppendProperties
<1>3. DOMAIN p = 1..k + 1
  BY <1>2, LenProperties
<1> HIDE DEF p, k
<1>4. p # <<>> /\ Last(p) = m
  <2>1. Len(p) # 0
    BY <1>1, <1>2
  <2> QED
    BY <1>2, <2>1, EmptySeq DEF Last
<1>5. ASSUME NEW i \in DOMAIN p PROVE (p[i].type \in Terminal => i = Len(p)) /\ TrueOf(r, rows, missing, p[i])
  <2>1. CASE i \in 1..k
    BY <1>1, <1>2, <2>1 DEF File
  <2>2. CASE i = k + 1
    BY <1>2, <2>2
  <2> QED
    BY <1>1, <1>3, <2>1, <2>2
<1>6. File(r, rows, missing, p)
  BY <1>5 DEF File
<1> QED
  BY <1>2, <1>4, <1>6 DEF p

(* A recovery whose last row does not end the file has not ended it.        *)
LEMMA NotEnded ==
  ASSUME NEW r, NEW rows, NEW missing, NEW q \in Seq(Manifest), File(r, rows, missing, q),
         q # <<>>, Last(q).type \notin Terminal
  PROVE  /\ \A i \in DOMAIN q : q[i].type \notin Terminal
         /\ Last(q) \in Manifest /\ TrueOf(r, rows, missing, Last(q))
<1> DEFINE k == Len(q)
<1>1. k \in Nat /\ k # 0 /\ DOMAIN q = 1..k /\ \A i \in DOMAIN q : q[i] \in Manifest
  BY LenProperties, EmptySeq, ElementOfSeq
<1>2. Last(q) = q[k]
  BY DEF Last
<1>3. \A i \in DOMAIN q : (q[i].type \in Terminal => i = k) /\ TrueOf(r, rows, missing, q[i])
  BY DEF File
<1> HIDE DEF k
<1>4. k \in DOMAIN q
  BY <1>1
<1> QED
  BY <1>1, <1>2, <1>3, <1>4

(* What a step of the recovery of c leaves of the rest. *)
LEMMA RecoveryKeeps ==
  ASSUME IInv, NEW c \in DOMAIN lost, life = "recovering", life' = life, UNCHANGED <<run, gate, log, lost>>,
         NEW q \in Seq(Manifest), recovery' = [recovery EXCEPT ![c] = q], File(run[c], log[c], lost[c], q),
         sealing' = {} \/ (sealing' = {c} /\ q # <<>> /\ Last(q).type = "team.checkpoint")
  PROVE  IInv'
<1>1. /\ DOMAIN recovery = Call /\ (\A d \in Call : recovery[d] \in Seq(Manifest))
      /\ (\A d \in DOMAIN lost : Past(d))
      /\ (\A d \in Call : d \notin DOMAIN lost => recovery[d] = <<>>)
      /\ (\A d \in Call : run[d].pc # "running")
  BY DEF IInv, Restarting
<1>2. c \in Call /\ run[c].pc \notin {"idle", "running"}
  BY <1>1 DEF Past
<1>3. DOMAIN recovery' = Call /\ recovery'[c] = q /\ \A d \in Call : d # c => recovery'[d] = recovery[d]
  BY <1>1, <1>2
<1>4. ASSUME NEW d \in DOMAIN lost PROVE Past(d)'
  <2>1. CASE d = c
    BY <1>2, <1>3, <2>1 DEF Past
  <2>2. CASE d # c
    <3>1. Past(d) /\ d \in Call
      BY <1>1 DEF Past
    <3>2. recovery'[d] = recovery[d]
      BY <1>3, <2>2, <3>1
    <3> QED
      BY <3>1, <3>2, PastKept
  <2> QED
    BY <2>1, <2>2
<1>5. \A d \in Call : recovery'[d] \in Seq(Manifest)
  BY <1>1, <1>3
<1>6. \A d \in Call : d \notin DOMAIN lost => recovery'[d] = <<>>
  BY <1>1, <1>3
<1>7. sealing' = {} \/ \E d \in Call : sealing' = {d} /\ Halfway(d)'
  BY <1>2, <1>3 DEF Halfway
<1>8. Restarting'
  BY <1>1, <1>3, <1>4, <1>5, <1>6, <1>7 DEF Restarting
<1> QED
  BY <1>8 DEF IInv

(* The checkpoint keeps the invariant, *)
LEMMA CheckpointKeeps ==
  ASSUME IInv, NEW c \in Call, Checkpoint(c)
  PROVE  IInv'
<1>1. /\ life = "recovering" /\ Open(c) /\ c \in DOMAIN lost
      /\ sealing' = {c} /\ UNCHANGED <<run, gate, log, lost, life>>
  BY DEF Checkpoint, Open
<1>2. Past(c) /\ recovery[c] \in Seq(Manifest)
  BY <1>1 DEF IInv, Restarting
<1>3. PICK n \in Nat : Fit(n, run[c]) /\ Chronicle(run[c], log[c])
  BY DEF IInv, Steady
<1>4. PICK r, rows, missing, q : r = run[c] /\ rows = log[c] /\ missing = lost[c] /\ q = recovery[c]
  OBVIOUS
<1>5. /\ Fit(n, r) /\ Chronicle(r, rows) /\ r.pc \notin {"idle", "running"}
      /\ q \in Seq(Manifest) /\ File(r, rows, missing, q) /\ rows \in Seq(Event) /\ ClosedOnce(rows)
  BY <1>2, <1>3, <1>4 DEF Past, Chronicle
<1>6. PICK m : m = [type |-> "team.checkpoint", started |-> RecordedIn(rows, missing, "subagent.start"),
                    completed |-> RecordedIn(rows, missing, "subagent.complete"),
                    failed |-> RecordedIn(rows, missing, "subagent.failed")]
  OBVIOUS
<1>7. recovery' = [recovery EXCEPT ![c] = Append(q, m)]
  BY <1>4, <1>6 DEF Checkpoint, Recorded, Kept, RecordedIn
<1>8. /\ \A i \in DOMAIN q : q[i].type \notin Terminal
      /\ \A j \in DOMAIN rows \ missing : rows[j].type \notin Terminal
  <2>1. CASE q # <<>>
    <3>1. Last(q).type \notin Terminal
      BY <1>1, <1>4, <2>1 DEF Open
    <3>2. (\A i \in DOMAIN q : q[i].type \notin Terminal) /\ TrueOf(r, rows, missing, Last(q))
      BY <1>5, <2>1, <3>1, NotEnded
    <3> QED
      BY <3>2 DEF TrueOf
  <2>2. CASE q = <<>>
    <3>1. DOMAIN q = {}
      BY <2>2
    <3>2. PICK i \in DOMAIN rows \ missing : rows[i].type \notin Terminal /\ \A j \in DOMAIN rows \ missing : j <= i
      BY <1>1, <1>4, <2>2 DEF Open, Kept
    <3>3. ASSUME NEW j \in DOMAIN rows \ missing, rows[j].type \in Terminal PROVE FALSE
      <4> DEFINE k == Len(rows)
      <4>1. j = k /\ k \in Nat /\ DOMAIN rows = 1..k
        BY <1>5, <3>3, LenProperties DEF ClosedOnce
      <4> HIDE DEF k
      <4>2. i \in 1..k /\ k <= i
        BY <3>2, <4>1
      <4>3. i = k
        BY <4>1, <4>2
      <4> QED
        BY <3>2, <3>3, <4>1, <4>3
    <3> QED
      BY <3>1, <3>3
  <2> QED
    BY <2>1, <2>2
<1>9. TrueOf(r, rows, missing, m)
  <2>1. /\ m.started = RecordedIn(rows, missing, "subagent.start")
        /\ m.completed = RecordedIn(rows, missing, "subagent.complete")
        /\ m.failed = RecordedIn(rows, missing, "subagent.failed")
    BY <1>6
  <2> QED
    BY <1>5, <1>8, <2>1, ManifestTrue
<1>10. m \in Manifest /\ m.type = "team.checkpoint"
  <2>1. ASSUME NEW i \in DOMAIN rows PROVE rows[i].task \in Nat
    <3>1. rows \in Seq(Event) /\ DOMAIN rows = 1..Len(rows)
      BY <1>5, LenProperties
    <3>2. rows[i] \in Event
      BY <3>1, ElementOfSeq
    <3> QED
      BY <3>2 DEF Event
  <2>2. \A type : RecordedIn(rows, missing, type) \in SUBSET Nat
    BY <2>1 DEF RecordedIn
  <2> QED
    BY <1>6, <2>2 DEF Manifest
<1>11. /\ Append(q, m) \in Seq(Manifest) /\ Append(q, m) # <<>> /\ Last(Append(q, m)) = m
       /\ File(r, rows, missing, Append(q, m))
  BY <1>5, <1>8, <1>9, <1>10, FileGrows
<1>12. PICK p : p = Append(q, m)
  OBVIOUS
<1>13. /\ p \in Seq(Manifest) /\ recovery' = [recovery EXCEPT ![c] = p] /\ File(run[c], log[c], lost[c], p)
       /\ sealing' = {c} /\ p # <<>> /\ Last(p).type = "team.checkpoint"
  BY <1>1, <1>4, <1>7, <1>10, <1>11, <1>12
<1> QED
  BY <1>1, <1>13, RecoveryKeeps

(* so does the row that ends the run, *)
LEMMA SealKeeps ==
  ASSUME IInv, NEW c \in Call, Seal(c)
  PROVE  IInv'
<1>1. /\ life = "recovering" /\ c \in sealing /\ sealing' = {}
      /\ recovery' = [recovery EXCEPT ![c] = Append(@, [Last(@) EXCEPT !.type = "team.interrupted"])]
      /\ UNCHANGED <<run, gate, log, lost, life>>
  BY DEF Seal
<1>2. c \in DOMAIN lost /\ Halfway(c)
  BY <1>1 DEF IInv, Restarting, Halfway
<1>3. Past(c) /\ recovery[c] \in Seq(Manifest) /\ DOMAIN recovery = Call
  BY <1>2 DEF IInv, Restarting
<1>4. PICK r, rows, missing, q : r = run[c] /\ rows = log[c] /\ missing = lost[c] /\ q = recovery[c]
  OBVIOUS
<1>5. q \in Seq(Manifest) /\ File(r, rows, missing, q) /\ q # <<>> /\ Last(q).type = "team.checkpoint"
  BY <1>2, <1>3, <1>4 DEF Past, Halfway
<1>6. /\ \A i \in DOMAIN q : q[i].type \notin Terminal
      /\ Last(q) \in Manifest /\ TrueOf(r, rows, missing, Last(q))
  <2>1. Last(q).type \notin Terminal
    BY <1>5 DEF Terminal
  <2> QED
    BY <1>5, <2>1, NotEnded
<1>7. PICK old : old = Last(q)
  OBVIOUS
<1>8. PICK m : m = [old EXCEPT !.type = "team.interrupted"]
  OBVIOUS
<1>9. m \in Manifest /\ m.started = old.started /\ m.completed = old.completed /\ m.failed = old.failed
  BY <1>6, <1>7, <1>8 DEF Manifest
<1>10. TrueOf(r, rows, missing, m)
  BY <1>6, <1>7, <1>9 DEF TrueOf
<1>11. Append(q, m) \in Seq(Manifest) /\ File(r, rows, missing, Append(q, m))
  BY <1>5, <1>6, <1>9, <1>10, FileGrows
<1>12. PICK p : p = Append(q, m)
  OBVIOUS
<1>13. p \in Seq(Manifest) /\ recovery' = [recovery EXCEPT ![c] = p] /\ File(run[c], log[c], lost[c], p)
  BY <1>1, <1>3, <1>4, <1>7, <1>8, <1>11, <1>12
<1> QED
  BY <1>1, <1>2, <1>13, RecoveryKeeps

(* and so does the end of the recovery. *)
LEMMA RecoveredKeeps ==
  ASSUME IInv, Recovered
  PROVE  IInv'
<1>1. life' = "up" /\ sealing' = {} /\ UNCHANGED <<run, gate, log, lost, recovery>>
  BY DEF Recovered
<1>2. ASSUME NEW d \in DOMAIN lost PROVE Past(d)'
  BY <1>1, PastKept DEF IInv, Restarting
<1>3. Restarting'
  BY <1>1, <1>2 DEF IInv, Restarting
<1> QED
  BY <1>1, <1>3 DEF IInv

-----------------------------------------------------------------------------
(* The invariant *)

(* At first no run has begun. *)
LEMMA Initially == Init => IInv
<1> SUFFICES ASSUME Init PROVE IInv
  OBVIOUS
<1>1. PICK setup \in Setup :
          run = [c \in Call |-> [kind |-> setup[c].kind, graph |-> setup[c].graph, pc |-> "idle",
                                 aborted |-> FALSE, task |-> <<>>, ready |-> <<>>]]
  BY DEF Init
<1>2. gate = [active |-> 0, queue |-> <<>>] /\ log = [c \in Call |-> <<>>] /\ sealing = {} /\ life = "up"
      /\ lost = [c \in {} |-> {}] /\ recovery = [c \in Call |-> <<>>]
  BY DEF Init
<1>3. ASSUME NEW c \in Call PROVE (\E n \in Nat : Fit(n, run[c])) /\ Chronicle(run[c], log[c])
  <2>1. setup[c].kind \in {"tool", "department"} /\ setup[c].graph \in Seq(SUBSET DOMAIN setup[c].graph)
    BY TeamAssumption
  <2>2. PICK kind, graph, r : kind = setup[c].kind /\ graph = setup[c].graph /\ r = run[c]
    OBVIOUS
  <2>3. PICK n : n = Len(graph)
    OBVIOUS
  <2>4. n \in Nat /\ graph \in [1..n -> SUBSET (1..n)]
    <3>1. graph \in Seq(SUBSET DOMAIN graph)
      BY <2>1, <2>2
    <3>2. n \in Nat /\ DOMAIN graph = 1..n /\ graph \in [1..n -> SUBSET DOMAIN graph]
      BY <2>3, <3>1, LenProperties
    <3> QED
      BY <3>2
  <2>5. <<>> \in Seq(1..n) /\ <<>> \in Seq(Event)
    BY Nothing
  <2> DEFINE none == <<>>
  <2>6. r = [kind |-> kind, graph |-> graph, pc |-> "idle", aborted |-> FALSE, task |-> none, ready |-> none]
    BY <1>1, <2>2
  <2>7. none \in Seq(1..n) /\ none \in Seq(Event) /\ DOMAIN none = {} /\ log[c] = none
    BY <1>2, <2>5
  <2>8. /\ r \in RunOf(n) /\ r.pc = "idle" /\ r.task = <<>> /\ r.ready = <<>> /\ r.graph = graph
    <3> HIDE DEF none
    <3>1. /\ r.kind = kind /\ r.graph = graph /\ r.pc = "idle" /\ r.aborted = FALSE /\ r.task = none /\ r.ready = none
      BY <2>6
    <3>2. none \in {<<>>} \cup [1..n -> Status]
      BY DEF none
    <3>3. r \in RunOf(n)
      BY <2>1, <2>2, <2>4, <2>6, <2>7, <3>2 DEF RunOf, RunPc
    <3>4. none = <<>>
      BY DEF none
    <3> QED
      BY <3>1, <3>3, <3>4
  <2>9. Fit(n, r)
    BY <2>8 DEF Fit
  <2>10. Chronicle(r, log[c])
    <3> HIDE DEF none
    <3>1. Ordered(r.graph, none) /\ ClosedOnce(none)
      BY <2>7 DEF Ordered, ClosedOnce
    <3>2. none = <<>>
      BY DEF none
    <3> QED
      BY <2>7, <2>8, <3>1, <3>2 DEF Chronicle
  <2> QED
    BY <2>2, <2>4, <2>9, <2>10
<1>4. Configured(run)
  BY <1>1 DEF Configured
<1>5. \A c \in Call : run[c].pc # "running"
  BY <1>1
<1>6. Gated(run, gate)
  BY <1>2, <1>5, GateIdle
<1>7. \A c \in Call : log[c] = <<>>
  BY <1>2
<1>8. Restarting
  <2> DEFINE none == <<>>
  <2>1. none \in Seq(Manifest)
    BY Nothing
  <2> HIDE DEF none
  <2>2. DOMAIN recovery = Call /\ \A c \in Call : recovery[c] = none /\ recovery[c] = <<>>
    BY <1>2 DEF none
  <2>3. DOMAIN lost = {}
    BY <1>2
  <2> QED
    BY <1>2, <2>1, <2>2, <2>3 DEF Restarting
<1>9. DOMAIN log = Call
  BY <1>2
<1> QED
  BY <1>3, <1>4, <1>6, <1>8, <1>9 DEF IInv, Steady

(* Every step keeps it, and every result. *)
LEMMA Inductive == IInv /\ [Next]_vars => IInv' /\ ResultsKept
<1> SUFFICES ASSUME IInv, [Next]_vars PROVE IInv' /\ ResultsKept
  OBVIOUS
<1>8. run' = run => ResultsKept
  BY ResultsChained DEF ResultsKept
<1>1. CASE \E c \in Call : Begin(c) \/ Checkpoint(c) \/ Seal(c)
  <2>1. CASE \E c \in Call : Begin(c)
    BY <2>1, BeginKeepsAll
  <2>2. CASE \E c \in Call : Checkpoint(c) \/ Seal(c)
    <3>1. run' = run
      BY <2>2 DEF Checkpoint, Seal
    <3> QED
      BY <1>8, <2>2, <3>1, CheckpointKeeps, SealKeeps
  <2> QED
    BY <1>1, <2>1, <2>2
<1>2. CASE \E c \in Call : \E t \in Task(c) : \E status \in {"succeeded", "failed"} : Answer(c, t, status)
  BY <1>2, AnswerKeeps
<1>3. CASE \E c \in Call : \E t \in Task(c) : MaxRuntime(c, t) \/ Interrupted(c, t)
  BY <1>3, MaxRuntimeKeeps, InterruptedKeeps
<1>4. CASE Abort(Tool) \/ \E c \in Department : Abort({c})
  <2>1. CASE Abort(Tool)
    BY <2>1, AbortKeeps
  <2>2. CASE \E c \in Department : Abort({c})
    <3>1. PICK c \in Department : Abort({c})
      BY <2>2
    <3>2. PICK calls : calls = {c}
      OBVIOUS
    <3> QED
      BY <3>1, <3>2, AbortKeeps
  <2> QED
    BY <1>4, <2>1, <2>2
<1>5. CASE Crash
  BY <1>5, CrashKeeps
<1>6. CASE Recovered
  <2>1. run' = run
    BY <1>6 DEF Recovered
  <2> QED
    BY <1>6, <1>8, <2>1, RecoveredKeeps
<1>7. CASE UNCHANGED vars
  BY <1>7, <1>8 DEF vars, IInv, Restarting, Past, Halfway
<1> QED
  BY <1>1, <1>2, <1>3, <1>4, <1>5, <1>6, <1>7 DEF Next

(* The runs, the gate, the logs and the recovery always fit together:       *)
(* execute(), createConcurrencyGate() and recoverInterrupted().             *)
THEOREM Invariance == Spec => []IInv
BY Initially, Inductive, PTL DEF Spec

-----------------------------------------------------------------------------
(* The properties *)

(* createConcurrencyGate(): the calls of a turn share one gate without      *)
(* losing or inventing a slot; it counts the tasks that run, never more     *)
(* than maxParallel, and nobody waits while a slot is free.                 *)
THEOREM Slots == Spec => []SlotsExact
<1>1. IInv => SlotsExact
  <2> SUFFICES ASSUME IInv PROVE SlotsExact
    OBVIOUS
  <2>1. Gated(run, gate)
    BY DEF IInv, Steady
  <2>2. InSlot = SlotsOf(run)
    <3>1. \A d \in Call, u \in MaxTask : <<d, u>> \in InSlot <=> <<d, u>> \in SlotsOf(run)
      BY DEF InSlot, SlotsOf, Tool
    <3>2. InSlot \subseteq Call \X MaxTask /\ SlotsOf(run) \subseteq Call \X MaxTask
      BY DEF InSlot, SlotsOf, Tool
    <3> QED
      BY <3>1, <3>2
  <2>3. InQueue = WaitersOf(run)
    <3>1. \A d \in Call, u \in MaxTask : <<d, u>> \in InQueue <=> <<d, u>> \in WaitersOf(run)
      BY DEF InQueue, WaitersOf, Tool
    <3>2. InQueue \subseteq Call \X MaxTask /\ WaitersOf(run) \subseteq Call \X MaxTask
      BY DEF InQueue, WaitersOf, Tool
    <3> QED
      BY <3>1, <3>2
  <2> QED
    BY <2>1, <2>2, <2>3 DEF Gated, SlotsExact
<1> QED
  BY <1>1, Invariance, PTL

(* enqueueDependants(), blockTask(), abortQueued(): a task starts only      *)
(* after its dependencies were reported complete, and the results of a run  *)
(* that returned are those its graph and its failures give it.              *)
THEOREM Outcomes == Spec => []OutcomeJustified
<1>1. IInv => OutcomeJustified
  <2> SUFFICES ASSUME IInv, NEW c \in Call
               PROVE  /\ \A t \in Task(c) : \A i \in Rows(c, {"subagent.start"}, t) :
                            \A d \in run[c].graph[t] : \E j \in Rows(c, {"subagent.complete"}, d) : j < i
                      /\ run[c].pc = "returned" =>
                            \A t \in Task(c) :
                                LET deps == {run[c].task[d] : d \in run[c].graph[t]}
                                IN  /\ run[c].task[t] \in {"succeeded", "failed", "blocked", "aborted"}
                                    /\ run[c].task[t] = "blocked" => deps \cap {"failed", "blocked"} # {}
                                    /\ deps \cap {"failed", "blocked"} # {} => run[c].task[t] \in {"blocked", "aborted"}
                                    /\ run[c].task[t] = "aborted" => run[c].aborted
    BY DEF OutcomeJustified
  <2>1. PICK n \in Nat : Fit(n, run[c]) /\ Chronicle(run[c], log[c])
    BY DEF IInv, Steady
  <2>2. ASSUME NEW t \in Task(c), NEW i \in Rows(c, {"subagent.start"}, t), NEW d \in run[c].graph[t]
        PROVE  \E j \in Rows(c, {"subagent.complete"}, d) : j < i
    <3>1. i \in DOMAIN log[c] /\ log[c][i].type = "subagent.start" /\ log[c][i].task = t /\ t \in DOMAIN run[c].graph
      BY DEF Rows, Task, Tasks
    <3>2. PICK j \in DOMAIN log[c] : j < i /\ log[c][j].type = "subagent.complete" /\ log[c][j].task = d
      BY <2>1, <3>1 DEF Chronicle, Ordered
    <3> QED
      BY <3>2 DEF Rows
  <2>3. ASSUME run[c].pc = "returned", NEW t \in Task(c)
        PROVE  LET deps == {run[c].task[d] : d \in run[c].graph[t]}
               IN  /\ run[c].task[t] \in {"succeeded", "failed", "blocked", "aborted"}
                   /\ run[c].task[t] = "blocked" => deps \cap {"failed", "blocked"} # {}
                   /\ deps \cap {"failed", "blocked"} # {} => run[c].task[t] \in {"blocked", "aborted"}
                   /\ run[c].task[t] = "aborted" => run[c].aborted
    <3>1. PICK r : r = run[c]
      OBVIOUS
    <3>2. /\ r \in RunOf(n) /\ r.task \in [1..n -> Status] /\ Justified(r.graph, r.task, r.aborted) /\ Ended(r)
      BY <2>1, <2>3, <3>1 DEF Fit
    <3>3. DOMAIN r.graph = 1..n /\ t \in 1..n
      BY <3>1, <3>2, RunParts DEF Task
    <3>4. r.task[t] \notin {"pending", "queued", "running"}
      BY <3>2, <3>3 DEF Ended, Active, In
    <3>5. r.task[t] \in {"succeeded", "failed", "blocked", "aborted"}
      BY <3>2, <3>3, <3>4 DEF Status
    <3>6. /\ r.task[t] = "blocked" => \E d \in r.graph[t] : r.task[d] \in {"failed", "blocked"}
          /\ (\E d \in r.graph[t] : r.task[d] \in {"failed", "blocked"}) => r.task[t] \in {"blocked", "aborted"}
          /\ r.task[t] = "aborted" => r.aborted
      BY <3>2, <3>3 DEF Justified
    <3> QED
      BY <3>1, <3>5, <3>6
  <2> QED
    BY <2>2, <2>3
<1> QED
  BY <1>1, Invariance, PTL

(* The row that ends a run is the only one of its kind.                     *)
LEMMA OneTerminal ==
  ASSUME NEW c \in Call, log[c] \in Seq(Event), ClosedOnce(log[c]), Sealed(log[c])
  PROVE  Rows(c, {"team.complete"}, 0) = {Len(log[c])}
<1>1. Len(log[c]) \in Nat /\ DOMAIN log[c] = 1..Len(log[c])
  BY LenProperties
<1>2. Len(log[c]) # 0
  BY EmptySeq DEF Sealed
<1>3. Len(log[c]) \in DOMAIN log[c] /\ log[c][Len(log[c])].type = "team.complete"
  BY <1>1, <1>2 DEF Last, Sealed
<1>4. \A i : i \in Rows(c, {"team.complete"}, 0) <=> i = Len(log[c])
  BY <1>3 DEF ClosedOnce, Rows, Terminal
<1> QED
  BY <1>4

(* emitTerminal(): the log of a run that returned tells its result.         *)
THEOREM Events == Spec => []EventsMatch
<1>1. IInv => EventsMatch
  <2> SUFFICES ASSUME IInv, NEW c \in Call, run[c].pc = "returned"
               PROVE  /\ Rows(c, {"team.complete"}, 0) = {Len(log[c])}
                      /\ (Last(log[c]).status = "completed") = (In(run[c], {"succeeded"}) = Task(c) /\ ~run[c].aborted)
                      /\ \A t \in Task(c) :
                            LET starts == Rows(c, {"subagent.start"}, t)
                                ends == Rows(c, {"subagent.complete", "subagent.failed"}, t)
                            IN  /\ Cardinality(starts) <= 1 /\ Cardinality(ends) <= 1
                                /\ ends = {} => starts = {} /\ c \in Department /\ run[c].aborted
                                /\ \A i \in ends : log[c][i].status = run[c].task[t]
    BY DEF EventsMatch
  <2>1. Chronicle(run[c], log[c])
    BY DEF IInv, Steady
  <2>2. log[c] \in Seq(Event) /\ ClosedOnce(log[c]) /\ Sealed(log[c]) /\ Matches(run[c], log[c])
    BY <2>1 DEF Chronicle
  <2>3. Rows(c, {"team.complete"}, 0) = {Len(log[c])}
    BY <2>2, OneTerminal
  <2>4. (Last(log[c]).status = "completed") = (In(run[c], {"succeeded"}) = Task(c) /\ ~run[c].aborted)
    BY <2>2 DEF Matches, Task
  <2>5. ASSUME NEW t \in Task(c)
        PROVE  LET starts == Rows(c, {"subagent.start"}, t)
                   ends == Rows(c, {"subagent.complete", "subagent.failed"}, t)
               IN  /\ Cardinality(starts) <= 1 /\ Cardinality(ends) <= 1
                   /\ ends = {} => starts = {} /\ c \in Department /\ run[c].aborted
                   /\ \A i \in ends : log[c][i].status = run[c].task[t]
    <3> DEFINE starts == Rows(c, {"subagent.start"}, t)
               ends == Rows(c, {"subagent.complete", "subagent.failed"}, t)
    <3>1. starts = Begins(log[c], t) /\ ends = Ends(log[c], t)
      BY DEF Rows, Begins, Ends, Marks
    <3>2. /\ starts = {} \/ \E i \in DOMAIN log[c] : starts = {i}
          /\ ends = {} \/ \E i \in DOMAIN log[c] : ends = {i}
          /\ ends = {} => starts = {} /\ run[c].kind = "department" /\ run[c].aborted
          /\ \A i \in ends : log[c][i].status = run[c].task[t]
      BY <2>2, <3>1 DEF Matches, Task
    <3> HIDE DEF starts, ends
    <3>3. Cardinality(starts) <= 1
      <4>1. CASE starts = {}
        BY <4>1, FS_EmptySet
      <4>2. ASSUME NEW i \in DOMAIN log[c], starts = {i} PROVE Cardinality(starts) = 1
        BY <4>2, FS_Singleton
      <4> QED
        BY <3>2, <4>1, <4>2
    <3>4. Cardinality(ends) <= 1
      <4>1. CASE ends = {}
        BY <4>1, FS_EmptySet
      <4>2. ASSUME NEW i \in DOMAIN log[c], ends = {i} PROVE Cardinality(ends) = 1
        BY <4>2, FS_Singleton
      <4> QED
        BY <3>2, <4>1, <4>2
    <3>5. ends = {} => starts = {} /\ c \in Department /\ run[c].aborted
      BY <3>2 DEF Department, Tool
    <3> QED
      BY <3>2, <3>3, <3>4, <3>5 DEF starts, ends
  <2> QED
    BY <2>3, <2>4, <2>5
<1> QED
  BY <1>1, Invariance, PTL

(* recoverInterrupted(): what a restart writes to the file of an earlier    *)
(* process is true, whatever the file lacks and however often recovery was  *)
(* cut short; and from a whole file it tells exactly what had been done.    *)
THEOREM RecoveriesHonest == Spec => []RecoveryHonest
<1>1. IInv => RecoveryHonest
  <2> SUFFICES ASSUME IInv, NEW c \in DOMAIN lost
               PROVE  File(run[c], log[c], lost[c], recovery[c])
    BY DEF RecoveryHonest, File, TrueOf, Kept, Task, Tasks
  <2> QED
    BY DEF IInv, Restarting, Past
<1> QED
  BY <1>1, Invariance, PTL


(* setResult(): the result of a task is final. No late answer, ceiling,     *)
(* cancellation or slot handed from one call to another changes one, nor    *)
(* does a death.                                                            *)
THEOREM ResultsFinal == Spec => [][\A c \in Call : Final(run[c], run'[c])]_vars
<1>1. IInv /\ [Next]_vars => [\A c \in Call : Final(run[c], run'[c])]_vars
  BY Inductive DEF ResultsKept
<1> QED
  BY <1>1, Invariance, PTL DEF Spec
=============================================================================
