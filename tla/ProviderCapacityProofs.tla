------------------------- MODULE ProviderCapacityProofs -------------------------
(* What holds of ProviderCapacity for any accounts, turns and limits. *)
EXTENDS ProviderCapacity, FiniteSetTheorems, SequenceTheorems, TLAPS

(* A turn holds a lease exactly while it waits for a provider, has a        *)
(* candidate while it looks for one, and has left none out.                 *)
Sound(r) ==
    /\ r \in TurnState
    /\ r.handle # None <=> r.pc \in {"probe", "stream"}
    /\ r.pc \in {"open", "probe"} => r.cands # <<>>
    /\ r.untried = {}

(* No lease is from a router that does not exist yet: a new generation      *)
(* makes none current again.                                                *)
Admitted(r) == r.handle # None => r.handle.gen <= generation[Provider[r.handle.account]]

Earned(h) == h.auth => h.definite > 0 \/ h.uncertain >= UncertainStrikes

TurnsSound == \A t \in Turn : Sound(turn[t]) /\ Admitted(turn[t])

IInv == TypeOK /\ TurnsSound /\ InflightExact /\ ParkEarned /\ PinnedUsable

-----------------------------------------------------------------------------
(* The account pool *)

(* Every provider of an account is one. *)
LEMMA ProviderOf == \A a \in Account : Provider[a] \in Providers
BY DEF Providers

(* Who cools down is not parked ... *)
LEMMA CooledEarned == ASSUME NEW h \in Health PROVE Cooled(h) \in Health /\ Earned(Cooled(h))
BY DEF Cooled, Health, Earned

(* ... and who is parked keeps its strikes. *)
LEMMA ParkedEarned ==
  ASSUME NEW h \in Health, h.definite > 0 \/ h.uncertain >= UncertainStrikes
  PROVE  Parked(h) \in Health /\ Earned(Parked(h))
<1>1. Parked(h) \in Health
  BY DEF Parked, Health
<1>2. Parked(h).definite = h.definite /\ Parked(h).uncertain = h.uncertain
  BY DEF Parked, Health
<1> QED
  BY <1>1, <1>2 DEF Earned

(* Whatever is reported, an account is parked with the strikes it needs.    *)
LEMMA VerdictEarned ==
  ASSUME NEW h \in Health, Earned(h), NEW e
  PROVE  Verdict(h, e) \in Health /\ Earned(Verdict(h, e))
<1> UncertainStrikes \in Nat \ {0}
  BY CapacityAssumption
<1>1. CASE e = "auth_definite"
  <2> DEFINE g == [h EXCEPT !.definite = 1, !.uncertain = 0]
  <2>1. g \in Health /\ g.definite = 1
    BY DEF Health
  <2>2. Verdict(h, e) = Parked(g)
    BY <1>1 DEF Verdict
  <2> HIDE DEF g
  <2> QED
    BY <2>1, <2>2, ParkedEarned
<1>2. CASE e = "auth_uncertain"
  <2> DEFINE n == IF h.uncertain < UncertainStrikes THEN h.uncertain + 1 ELSE h.uncertain
             g == [h EXCEPT !.definite = 0, !.uncertain = n]
  <2>1. n \in Nat
    BY DEF Health
  <2> HIDE DEF n
  <2>2. g \in Health /\ g.uncertain = n
    BY <2>1 DEF Health
  <2>3. Verdict(h, e) = IF n >= UncertainStrikes THEN Parked(g) ELSE Cooled(g)
    BY <1>2 DEF Verdict, n
  <2> HIDE DEF g
  <2> QED
    BY <2>1, <2>2, <2>3, ParkedEarned, CooledEarned
<1>3. CASE e = "auth_soft"
  <2>1. [h EXCEPT !.definite = 0, !.uncertain = 0] \in Health
    BY DEF Health
  <2> QED
    BY <1>3, <2>1, CooledEarned DEF Verdict
<1>4. CASE e = "transient"
  <2>1. [h EXCEPT !.uncertain = 0] \in Health
    BY DEF Health
  <2> QED
    BY <1>4, <2>1, CooledEarned DEF Verdict
<1>5. CASE e = "timeout"
  BY <1>5, CooledEarned DEF Verdict
<1>6. CASE e \notin {"auth_definite", "auth_uncertain", "auth_soft", "transient", "timeout"}
  BY <1>6 DEF Verdict
<1> QED
  BY <1>1, <1>2, <1>3, <1>4, <1>5, <1>6

(* An account as new is well typed and not parked. *)
LEMMA HealthyEarned == Healthy \in Health /\ Earned(Healthy) /\ ~Healthy.auth /\ ~Healthy.cooling
BY CapacityAssumption DEF Healthy, Health, Earned

(* The pool after a step that makes one account as new, or judges it and    *)
(* takes its sessions away unless it stays ready.                           *)
LEMMA PoolStep ==
  ASSUME TypeOK, ParkEarned, PinnedUsable, NEW a \in Account, NEW h \in Health, Earned(h),
         health' = [health EXCEPT ![a] = h],
         \/ pinned' = PinsCleared(a)
         \/ ~h.auth /\ ~h.cooling /\ pinned' = pinned
         \/ ~h.auth /\ ~h.cooling /\ \E t \in Turn : pinned' = Remember(t, a)
  PROVE  /\ health' \in [Account -> Health]
         /\ pinned' \in [Turn -> [Providers -> Account \cup {None}]]
         /\ ParkEarned' /\ PinnedUsable'
<1>1. health' \in [Account -> Health]
  BY DEF TypeOK
<1>2. ParkEarned'
  BY DEF ParkEarned, Earned, TypeOK
<1>3. \A b \in Account \ {a} : Ready(b)' = Ready(b)
  BY DEF Ready, TypeOK
<1>4. CASE pinned' = PinsCleared(a)
  <2>1. pinned' \in [Turn -> [Providers -> Account \cup {None}]]
    BY <1>4 DEF PinsCleared, TypeOK
  <2>2. \A t \in Turn, p \in Providers :
           pinned'[t][p] # None => pinned'[t][p] = pinned[t][p] /\ pinned[t][p] \in Account \ {a}
    BY <1>4 DEF PinsCleared, TypeOK
  <2> QED
    BY <1>1, <1>2, <1>3, <2>1, <2>2 DEF PinnedUsable
<1>5. CASE ~h.auth /\ ~h.cooling
  <2>1. Ready(a)'
    BY <1>5 DEF Ready, TypeOK
  <2>2. CASE pinned' = pinned
    <3>1. \A t \in Turn, p \in Providers : pinned'[t][p] = pinned[t][p] /\ pinned[t][p] \in Account \cup {None}
      BY <2>2 DEF TypeOK
    <3> QED
      BY <1>1, <1>2, <1>3, <2>1, <2>2, <3>1 DEF PinnedUsable, TypeOK
  <2>3. ASSUME NEW t \in Turn, pinned' = Remember(t, a) PROVE PinnedUsable' /\ pinned' \in [Turn -> [Providers -> Account \cup {None}]]
    <3>1. pinned' \in [Turn -> [Providers -> Account \cup {None}]]
      BY <2>3, ProviderOf DEF Remember, TypeOK
    <3>2. \A u \in Turn, p \in Providers :
             pinned'[u][p] = a \/ (pinned'[u][p] = pinned[u][p] /\ pinned[u][p] \in Account \cup {None})
      BY <2>3, ProviderOf DEF Remember, TypeOK
    <3> QED
      BY <1>3, <2>1, <3>1, <3>2 DEF PinnedUsable
  <2> QED
    BY <1>1, <1>2, <1>4, <1>5, <2>2, <2>3
<1> QED
  BY <1>1, <1>2, <1>4, <1>5

-----------------------------------------------------------------------------
(* Turns *)

(* A listing of a set of accounts is a sequence of accounts. *)
LEMMA Listing ==
  ASSUME NEW S \in SUBSET Account, NEW s \in SetToSeqs(S)
  PROVE  s \in Seq(Account)
<1>1. IsFiniteSet(S)
  BY CapacityAssumption, FS_Subset
<1>2. Cardinality(S) \in Nat
  BY <1>1, FS_CardinalityType
<1>3. s \in [1..Cardinality(S) -> S]
  BY DEF SetToSeqs
<1> QED
  BY <1>2, <1>3

(* One candidate or more. *)
LEMMA OneOrMore == \A n \in Nat \ {0} : n > 1 \/ (n = 1 /\ ~(n > 1) /\ n - 1 = 0)
OBVIOUS

(* What is left of a chain after its first candidate. *)
LEMMA Rest ==
  ASSUME NEW S, NEW s \in Seq(S), s # <<>>
  PROVE  /\ Len(s) \in Nat \ {0}
         /\ Tail(s) \in Seq(S) /\ Len(Tail(s)) = Len(s) - 1
         /\ Len(s) = 1 => Tail(s) = <<>>
         /\ Len(s) > 1 => Tail(s) # <<>>
<1>1. Len(s) \in Nat \ {0} /\ Tail(s) \in Seq(S) /\ Len(Tail(s)) = Len(s) - 1
  BY EmptySeq, HeadTailProperties
<1>2. Tail(s) # <<>> => Len(s) - 1 \in Nat \ {0}
  BY <1>1, EmptySeq
<1>3. Len(s) = 1 => Tail(s) = <<>>
  BY <1>2
<1>4. Len(<<>>) = 0
  BY EmptySeq
<1>5. ASSUME Tail(s) = <<>> PROVE ~(Len(s) > 1)
  <2> DEFINE n == Len(s)
  <2>1. n \in Nat \ {0} /\ n - 1 = 0
    BY <1>1, <1>4, <1>5
  <2> HIDE DEF n
  <2>2. ~(n > 1)
    BY <2>1
  <2> QED
    BY <2>2 DEF n
<1> QED
  BY <1>1, <1>3, <1>5

(* What is left of the tools: with a forced choice, free, none. *)
Modes(r) == CASE r.mode = "forced" -> 3 [] r.mode = "free" -> 2 [] OTHER -> 1

(* What a turn may still try, by where it is. *)
LEMMA EffortOf ==
  ASSUME NEW r \in TurnState
  PROVE  /\ Len(r.cands) \in Nat /\ Modes(r) \in 1..3
         /\ r.pc = "idle" => Effort(r) = 0
         /\ r.pc = "stream" => Effort(r) = 1
         /\ r.pc = "probe" => Effort(r) = 8 * Len(r.cands) + 2 * Modes(r)
         /\ r.pc = "open" => Effort(r) = 8 * Len(r.cands) + 2 * Modes(r) + 1
<1>1. Len(r.cands) \in Nat
  BY DEF TurnState
<1>2. Modes(r) \in 1..3
  BY DEF Modes
<1>3. r.pc = "idle" => Effort(r) = 0
  BY DEF Effort
<1>4. r.pc = "stream" => Effort(r) = 1
  BY DEF Effort
<1>5. r.pc \notin {"idle", "stream"}
        => Effort(r) = 2 * (4 * Len(r.cands) + Modes(r)) + (IF r.pc = "open" THEN 1 ELSE 0)
  BY DEF Effort, Modes
<1> QED
  BY <1>1, <1>2, <1>3, <1>4, <1>5

(* The turn becomes r, which holds nothing and has less to try. *)
Lets(t, r) ==
    Sound(r) /\ r.handle = None /\ turn' = [turn EXCEPT ![t] = r] /\ Effort(r) < Effort(turn[t])

(* A turn that has no candidate but the one at hand, or that ends for       *)
(* another reason than its account, leaves none untried.                    *)
LEMMA Ended ==
  ASSUME NEW t \in Turn, Sound(turn[t]), turn[t].pc # "idle", NEW why, End(t, why),
         why \in AccountFault \cup {"capacity"} => Len(turn[t].cands) = 1
  PROVE  \E r : Lets(t, r)
<1> DEFINE q == turn[t]
           r == [NoTurn EXCEPT !.untried = {}]
<1>1. q \in TurnState /\ q.cands \in Seq(Account) /\ (q.pc \in {"open", "probe"} => q.cands # <<>>)
  BY DEF Sound, TurnState
<1>2. Len(q.cands) = 1 => ToSet(Tail(q.cands)) = {}
  <2>1. SUFFICES ASSUME Len(q.cands) = 1 PROVE ToSet(Tail(q.cands)) = {}
    OBVIOUS
  <2>2. q.cands # <<>>
    BY <2>1, EmptySeq
  <2>3. Tail(q.cands) = <<>>
    BY <1>1, <2>1, <2>2, Rest
  <2> QED
    BY <2>3 DEF ToSet
<1>3. turn' = [turn EXCEPT ![t] = r]
  BY <1>2 DEF End, Set
<1>4. NoTurn \in TurnState /\ NoTurn.pc = "idle" /\ NoTurn.handle = None
  BY DEF NoTurn, TurnState
<1>5. r \in TurnState /\ r.pc = "idle" /\ r.handle = None /\ r.untried = {}
  BY <1>4 DEF TurnState
<1> HIDE DEF r
<1>6. Effort(r) < Effort(q)
  <2>1. Effort(r) = 0
    BY <1>5, EffortOf
  <2>2. CASE q.pc = "stream"
    BY <1>1, <2>1, <2>2, EffortOf
  <2>3. CASE q.pc \in {"open", "probe"}
    <3>1. Len(q.cands) \in Nat /\ Modes(q) \in 1..3
      BY <1>1, EffortOf
    <3>2. Effort(q) \in {8 * Len(q.cands) + 2 * Modes(q), 8 * Len(q.cands) + 2 * Modes(q) + 1}
      BY <1>1, <2>3, EffortOf
    <3> QED
      BY <2>1, <3>1, <3>2
  <2> QED
    BY <1>1, <2>2, <2>3 DEF TurnState
<1> QED
  BY <1>3, <1>5, <1>6 DEF Sound, Lets

(* On to the next candidate, if there is one. *)
LEMMA Onward ==
  ASSUME NEW t \in Turn, Sound(turn[t]), turn[t].pc \in {"open", "probe"}, NEW why, Continue(t, why)
  PROVE  \E r : Lets(t, r)
<1> DEFINE q == turn[t]
           r == [q EXCEPT !.pc = "open", !.cands = Tail(q.cands), !.mode = "forced", !.handle = None]
<1>1. q \in TurnState /\ q.cands \in Seq(Account) /\ q.cands # <<>> /\ q.untried = {}
  BY DEF Sound, TurnState
<1>2. Len(q.cands) \in Nat \ {0} /\ Tail(q.cands) \in Seq(Account) /\ Len(Tail(q.cands)) = Len(q.cands) - 1
  BY <1>1, Rest
<1>3. CASE Len(q.cands) > 1
  <2>1. Tail(q.cands) # <<>>
    BY <1>1, <1>3, Rest
  <2>2. turn' = [turn EXCEPT ![t] = r]
    BY <1>3 DEF Continue, Set
  <2>3. /\ r \in TurnState
        /\ r.pc = "open" /\ r.mode = "forced" /\ r.cands = Tail(q.cands) /\ r.handle = None /\ r.untried = {}
    BY <1>1, <1>2 DEF TurnState
  <2> HIDE DEF r
  <2>4. Modes(r) = 3
    BY <2>3 DEF Modes
  <2>5. Effort(r) = 8 * Len(Tail(q.cands)) + 2 * 3 + 1
    BY <2>3, <2>4, EffortOf
  <2>6. Modes(q) \in 1..3 /\ Effort(q) \in {8 * Len(q.cands) + 2 * Modes(q), 8 * Len(q.cands) + 2 * Modes(q) + 1}
    BY <1>1, EffortOf
  <2>7. Effort(r) < Effort(q)
    BY <1>2, <2>5, <2>6
  <2> QED
    BY <2>1, <2>2, <2>3, <2>7 DEF Sound, Lets
<1>4. CASE Len(q.cands) = 1
  <2>1. End(t, why)
    BY <1>4 DEF Continue
  <2> QED
    BY <1>4, <2>1, Ended
<1> QED
  BY <1>2, <1>3, <1>4, OneOrMore

(* The same candidate, with less of the tools. *)
LEMMA Anew ==
  ASSUME NEW t \in Turn, Sound(turn[t]), turn[t].pc = "probe", NEW mode, Again(t, mode),
         \/ turn[t].mode = "forced" /\ mode \in {"free", "plain"}
         \/ turn[t].mode = "free" /\ mode = "plain"
  PROVE  \E r : Lets(t, r)
<1> DEFINE q == turn[t]
           r == [q EXCEPT !.pc = "open", !.mode = mode, !.handle = None]
<1>1. q \in TurnState /\ q.cands # <<>> /\ q.untried = {}
  BY DEF Sound
<1>2. turn' = [turn EXCEPT ![t] = r]
  BY DEF Again, Set
<1>3. /\ r \in TurnState
      /\ r.pc = "open" /\ r.mode = mode /\ r.cands = q.cands /\ r.handle = None /\ r.untried = {}
  BY <1>1 DEF TurnState
<1> HIDE DEF r
<1>4. Effort(r) < Effort(q)
  <2>1. Modes(r) < Modes(q) /\ Modes(r) \in 1..3 /\ Modes(q) \in 1..3
    BY <1>3 DEF Modes
  <2>2. Len(q.cands) \in Nat /\ Effort(q) = 8 * Len(q.cands) + 2 * Modes(q)
    BY <1>1, EffortOf
  <2>3. Effort(r) = 8 * Len(q.cands) + 2 * Modes(r) + 1
    BY <1>3, EffortOf
  <2> QED
    BY <2>1, <2>2, <2>3
<1> QED
  BY <1>1, <1>2, <1>3, <1>4 DEF Sound, Lets

(* Every step that ends an attempt leaves the turn sound and without lease. *)
LEMMA AttemptOver ==
  ASSUME NEW t \in Turn, Sound(turn[t]),
         \/ \E e \in Failure : Fails(t, e) \/ StreamEnds(t, e)
         \/ \E e \in ToolFailure : RetryTools(t, e)
         \/ StreamEnds(t, "success") \/ Interrupted(t)
  PROVE  /\ \E r : Lets(t, r)
         /\ turn[t].handle # None
         /\ generation' = generation
         /\ \E outcome : Release(t, outcome)
<1>1. ASSUME NEW e \in Failure, Fails(t, e)
      PROVE  \E r : Lets(t, r)
  <2>1. Len(turn[t].cands) \in Nat \ {0}
    BY <1>1, EmptySeq DEF Fails, Sound, TurnState
  <2>2. CASE CanTryNextCandidate(t, e)
    BY <1>1, <2>2, Onward DEF Fails, FailOver
  <2>3. CASE ~CanTryNextCandidate(t, e)
    <3>1. e # "capacity"
      BY DEF Failure, AccountFault
    <3>2. e \in AccountFault => Len(turn[t].cands) = 1
      BY <2>1, <2>3, OneOrMore DEF CanTryNextCandidate
    <3> QED
      BY <1>1, <2>3, <3>1, <3>2, Ended DEF Fails, FailOver
  <2> QED
    BY <2>2, <2>3
<1>2. ASSUME NEW e \in Failure \cup {"success"}, StreamEnds(t, e)
      PROVE  \E r : Lets(t, r)
  BY <1>2, Ended DEF StreamEnds, AccountFault
<1>3. ASSUME NEW e \in ToolFailure, RetryTools(t, e)
      PROVE  \E r : Lets(t, r)
  BY <1>3, Anew DEF RetryTools, WithoutForced
<1>4. ASSUME Interrupted(t)
      PROVE  \E r : Lets(t, r)
  BY <1>4, Ended DEF Interrupted, AccountFault
<1>5. turn[t].handle # None
  BY DEF Sound, Fails, StreamEnds, RetryTools, Interrupted
<1>6. generation' = generation /\ \E outcome : Release(t, outcome)
  BY DEF Fails, StreamEnds, RetryTools, Interrupted
<1> QED
  BY <1>1, <1>2, <1>3, <1>4, <1>5, <1>6

-----------------------------------------------------------------------------
(* Leases *)

HoldersOf(a) == {t \in Turn : Holds(t, a)}

(* A step of one turn changes only what that turn holds. *)
LEMMA HoldersStep ==
  ASSUME TypeOK, NEW t \in Turn, NEW r, turn' = [turn EXCEPT ![t] = r], generation' = generation
  PROVE  \A a \in Account :
           /\ r.handle # None /\ r.handle.account = a /\ Current(r.handle) => HoldersOf(a)' = HoldersOf(a) \cup {t}
           /\ ~(r.handle # None /\ r.handle.account = a /\ Current(r.handle)) => HoldersOf(a)' = HoldersOf(a) \ {t}
<1>1. \A u \in Turn : turn'[u] = IF u = t THEN r ELSE turn[u]
  BY DEF TypeOK
<1>2. \A h : Current(h)' = Current(h)
  BY DEF Current
<1> QED
  BY <1>1, <1>2 DEF HoldersOf, Holds, Current

(* The holders of an account can be counted. *)
LEMMA HoldersFinite == \A a : IsFiniteSet(HoldersOf(a)) /\ Cardinality(HoldersOf(a)) \in Nat
BY CapacityAssumption, FS_Subset, FS_CardinalityType DEF HoldersOf

(* Giving a lease back lowers the count of its account, if that is still    *)
(* the one that was raised.                                                 *)
LEMMA LeaseReturned ==
  ASSUME TypeOK, TurnsSound, InflightExact, NEW t \in Turn, turn[t].handle # None,
         NEW r, r.handle = None, turn' = [turn EXCEPT ![t] = r], generation' = generation,
         inflight' = IF Current(turn[t].handle) THEN [inflight EXCEPT ![turn[t].handle.account] = @ - 1] ELSE inflight
  PROVE  inflight' \in [Account -> Nat] /\ InflightExact'
<1> DEFINE h == turn[t].handle
<1>1. h \in Lease /\ h.account \in Account
  BY DEF TypeOK, TurnState, Lease
<1>2. \A a \in Account : HoldersOf(a)' = HoldersOf(a) \ {t}
  BY HoldersStep
<1>3. \A a \in Account : t \in HoldersOf(a) <=> a = h.account /\ Current(h)
  BY DEF HoldersOf, Holds
<1>4. \A a \in Account :
        /\ inflight[a] \in Nat /\ MaxConcurrency[a] \in Nat
        /\ inflight[a] = Cardinality(HoldersOf(a)) /\ inflight[a] <= MaxConcurrency[a]
  BY CapacityAssumption DEF TypeOK, InflightExact, HoldersOf
<1>5. \A a \in Account : Cardinality(HoldersOf(a)') = IF t \in HoldersOf(a) THEN inflight[a] - 1 ELSE inflight[a]
  BY <1>2, <1>4, HoldersFinite, FS_RemoveElement
<1>6. \A a \in Account : Cardinality(HoldersOf(a)') \in Nat
  BY <1>2, HoldersFinite, FS_RemoveElement, FS_CardinalityType
<1>7. \A a \in Account : inflight'[a] = IF t \in HoldersOf(a) THEN inflight[a] - 1 ELSE inflight[a]
  BY <1>1, <1>3 DEF TypeOK
<1>8. inflight' \in [Account -> Nat]
  <2>1. inflight' = [a \in Account |-> inflight'[a]]
    BY DEF TypeOK
  <2>2. \A a \in Account : inflight'[a] \in Nat
    BY <1>5, <1>6, <1>7
  <2> QED
    BY <2>1, <2>2
<1>9. \A a \in Account : inflight'[a] = Cardinality(HoldersOf(a)') /\ inflight'[a] <= MaxConcurrency[a]
  BY <1>4, <1>5, <1>7
<1> QED
  BY <1>8, <1>9 DEF InflightExact, HoldersOf

(* Taking one raises it. *)
LEMMA LeaseTaken ==
  ASSUME TypeOK, InflightExact, NEW t \in Turn, turn[t].handle = None,
         NEW a \in Account, inflight[a] < MaxConcurrency[a],
         NEW r, r.handle = [account |-> a, gen |-> generation[Provider[a]]],
         turn' = [turn EXCEPT ![t] = r], generation' = generation,
         inflight' = [inflight EXCEPT ![a] = @ + 1]
  PROVE  inflight' \in [Account -> Nat] /\ InflightExact'
<1>1. r.handle # None /\ r.handle.account = a /\ Current(r.handle)
  <2>1. r.handle \in Lease
    BY ProviderOf DEF Lease, TypeOK
  <2> QED
    BY <2>1, CapacityAssumption DEF Current
<1>2. \A b \in Account : HoldersOf(b)' = IF b = a THEN HoldersOf(b) \cup {t} ELSE HoldersOf(b) \ {t}
  <2>1. HoldersOf(a)' = HoldersOf(a) \cup {t}
    BY <1>1, HoldersStep
  <2>2. ASSUME NEW b \in Account, b # a
        PROVE  HoldersOf(b)' = HoldersOf(b) \ {t}
    <3>1. ~(r.handle # None /\ r.handle.account = b /\ Current(r.handle))
      BY <1>1, <2>2
    <3> QED
      BY <3>1, HoldersStep
  <2> QED
    BY <2>1, <2>2
<1>3. \A b \in Account : t \notin HoldersOf(b)
  BY DEF HoldersOf, Holds
<1>4. \A b \in Account :
        /\ inflight[b] \in Nat /\ MaxConcurrency[b] \in Nat
        /\ inflight[b] = Cardinality(HoldersOf(b)) /\ inflight[b] <= MaxConcurrency[b]
  BY CapacityAssumption DEF TypeOK, InflightExact, HoldersOf
<1>5. \A b \in Account : Cardinality(HoldersOf(b)') = IF b = a THEN inflight[b] + 1 ELSE inflight[b]
  BY <1>2, <1>3, <1>4, HoldersFinite, FS_AddElement, FS_RemoveElement
<1>6. \A b \in Account : inflight'[b] = IF b = a THEN inflight[b] + 1 ELSE inflight[b]
  BY DEF TypeOK
<1>7. inflight' \in [Account -> Nat]
  BY DEF TypeOK
<1>8. \A b \in Account : inflight'[b] = Cardinality(HoldersOf(b)') /\ inflight'[b] <= MaxConcurrency[b]
  BY <1>4, <1>5, <1>6
<1> QED
  BY <1>7, <1>8 DEF InflightExact, HoldersOf

(* Otherwise nothing is counted. *)
LEMMA LeasesSame ==
  ASSUME InflightExact, inflight' = inflight, generation' = generation,
         \A u \in Turn : turn'[u].handle = turn[u].handle
  PROVE  InflightExact'
<1>1. \A u \in Turn, a \in Account : Holds(u, a)' = Holds(u, a)
  BY DEF Holds, Current
<1>2. \A a \in Account : {u \in Turn : Holds(u, a)'} = {u \in Turn : Holds(u, a)}
  BY <1>1
<1> QED
  BY <1>2 DEF InflightExact

(* A new configuration starts counting at zero, and no attempt of before    *)
(* is counted any more.                                                     *)
LEMMA LeasesFenced ==
  ASSUME TypeOK, TurnsSound, InflightExact, NEW p \in Providers, Invalidate(p)
  PROVE  inflight' \in [Account -> Nat] /\ InflightExact'
<1>1. \A u \in Turn : turn'[u].handle = turn[u].handle
  BY DEF Invalidate, TypeOK, TurnState
<1>2. \A a \in Account : Provider[a] # p => HoldersOf(a)' = HoldersOf(a)
  BY <1>1, ProviderOf DEF HoldersOf, Holds, Current, Invalidate, TypeOK
<1>3. \A a \in Account : Provider[a] = p => HoldersOf(a)' = {}
  <2>1. SUFFICES ASSUME NEW a \in Account, Provider[a] = p, NEW u \in Turn, Holds(u, a)'
                 PROVE  FALSE
    BY DEF HoldersOf
  <2>2. turn[u].handle # None /\ turn[u].handle.account = a /\ turn[u].handle.gen = generation'[p]
    BY <1>1, <2>1 DEF Holds, Current
  <2>3. turn[u].handle.gen <= generation[p] /\ generation[p] \in Nat /\ generation'[p] = generation[p] + 1
    BY <2>1, <2>2 DEF TurnsSound, Admitted, TypeOK, Invalidate
  <2> QED
    BY <2>2, <2>3
<1>4. \A a \in Account : inflight'[a] = IF Provider[a] = p THEN 0 ELSE inflight[a]
  BY DEF Invalidate
<1>5. inflight' \in [Account -> Nat]
  BY DEF Invalidate, TypeOK
<1>6. \A a \in Account : inflight'[a] = Cardinality(HoldersOf(a)') /\ inflight'[a] <= MaxConcurrency[a]
  <2>1. \A a \in Account : MaxConcurrency[a] \in Nat /\ 0 <= MaxConcurrency[a]
    BY CapacityAssumption
  <2>2. \A a \in Account : inflight[a] = Cardinality(HoldersOf(a)) /\ inflight[a] <= MaxConcurrency[a]
    BY DEF InflightExact, HoldersOf
  <2> QED
    BY <1>2, <1>3, <1>4, <2>1, <2>2, FS_EmptySet
<1> QED
  BY <1>5, <1>6 DEF InflightExact, HoldersOf

-----------------------------------------------------------------------------
(* The invariant *)

(* A step of one turn leaves every turn sound. *)
LEMMA TurnStep ==
  ASSUME TypeOK, TurnsSound, NEW t \in Turn, NEW r, Sound(r), turn' = [turn EXCEPT ![t] = r],
         generation' = generation, Admitted(r)
  PROVE  turn' \in [Turn -> TurnState] /\ TurnsSound'
<1>1. turn' \in [Turn -> TurnState] /\ \A u \in Turn : turn'[u] = IF u = t THEN r ELSE turn[u]
  BY DEF TypeOK, Sound
<1> QED
  BY <1>1 DEF TurnsSound, Sound, Admitted

(* An attempt that ends gives its lease back and may judge the account.     *)
LEMMA ReleaseIInv ==
  ASSUME IInv, NEW t \in Turn, turn[t].handle # None, NEW outcome, Release(t, outcome),
         NEW r, Lets(t, r), generation' = generation
  PROVE  IInv'
<1> DEFINE a == turn[t].handle.account
<1>1. TypeOK /\ TurnsSound /\ InflightExact /\ ParkEarned /\ PinnedUsable
  BY DEF IInv
<1>2. a \in Account
  BY <1>1 DEF TypeOK, TurnState, Lease
<1>3. inflight' \in [Account -> Nat] /\ InflightExact'
  BY <1>1, LeaseReturned DEF Lets, Release
<1>4. turn' \in [Turn -> TurnState] /\ TurnsSound'
  BY <1>1, TurnStep DEF Lets, Admitted
<1>5. /\ health' \in [Account -> Health]
      /\ pinned' \in [Turn -> [Providers -> Account \cup {None}]]
      /\ ParkEarned' /\ PinnedUsable'
  <2>1. CASE UNCHANGED <<health, pinned>>
    BY <1>1, <2>1 DEF TypeOK, ParkEarned, PinnedUsable, Ready
  <2>2. CASE health' = [health EXCEPT ![a] = Healthy] /\ pinned' = Remember(t, a)
    BY <1>1, <1>2, <2>2, HealthyEarned, PoolStep
  <2>3. CASE /\ health' = [health EXCEPT ![a] = Verdict(@, outcome)]
             /\ pinned' = IF health'[a].auth \/ health'[a].cooling THEN PinsCleared(a) ELSE pinned
    <3> DEFINE h == Verdict(health[a], outcome)
    <3>1. h \in Health /\ Earned(h)
      BY <1>1, <1>2, VerdictEarned DEF TypeOK, ParkEarned, Earned
    <3>2. health' = [health EXCEPT ![a] = h] /\ health'[a] = h
      BY <1>1, <1>2, <2>3 DEF TypeOK
    <3> HIDE DEF h
    <3> QED
      BY <1>1, <1>2, <2>3, <3>1, <3>2, PoolStep
  <2> QED
    BY <2>1, <2>2, <2>3 DEF Release
<1>6. generation' \in [Providers -> Nat]
  BY <1>1 DEF TypeOK
<1> QED
  BY <1>3, <1>4, <1>5, <1>6 DEF IInv, TypeOK

(* A step of one turn that leaves accounts and leases alone. *)
LEMMA TurnOnlyIInv ==
  ASSUME IInv, NEW t \in Turn, NEW r, Sound(r), turn' = [turn EXCEPT ![t] = r], r.handle = turn[t].handle,
         UNCHANGED <<health, inflight, pinned, generation>>
  PROVE  IInv'
<1>1. TypeOK /\ TurnsSound /\ InflightExact /\ ParkEarned /\ PinnedUsable
  BY DEF IInv
<1>2. Admitted(r)
  BY <1>1 DEF TurnsSound, Admitted
<1>3. turn' \in [Turn -> TurnState] /\ TurnsSound'
  BY <1>1, <1>2, TurnStep
<1>4. \A u \in Turn : turn'[u].handle = turn[u].handle
  BY <1>1 DEF TypeOK
<1>5. InflightExact'
  BY <1>1, <1>4, LeasesSame
<1> QED
  BY <1>1, <1>3, <1>5 DEF IInv, TypeOK, ParkEarned, PinnedUsable, Ready

(* The invariant holds at first. *)
LEMMA InitIInv == Init => IInv
<1> SUFFICES ASSUME Init PROVE IInv
  OBVIOUS
<1>1. NoTurn \in TurnState /\ NoTurn.pc = "idle" /\ NoTurn.handle = None /\ NoTurn.untried = {}
  BY DEF NoTurn, TurnState
<1>2. \A t \in Turn : turn[t] = NoTurn
  BY DEF Init
<1>3. TypeOK
  BY <1>1, HealthyEarned DEF Init, TypeOK
<1>4. TurnsSound
  BY <1>1, <1>2 DEF TurnsSound, Sound, Admitted
<1>5. InflightExact
  <2>1. \A a \in Account : {t \in Turn : Holds(t, a)} = {}
    BY <1>1, <1>2 DEF Holds
  <2>2. \A a \in Account : MaxConcurrency[a] \in Nat
    BY CapacityAssumption
  <2> QED
    BY <2>1, <2>2, FS_EmptySet DEF Init, InflightExact
<1>6. ParkEarned
  BY HealthyEarned DEF Init, ParkEarned
<1>7. PinnedUsable
  BY DEF Init, PinnedUsable
<1> QED
  BY <1>3, <1>4, <1>5, <1>6, <1>7 DEF IInv

(* Every step keeps it. *)
LEMMA NextIInv == IInv /\ [Next]_vars => IInv'
<1> SUFFICES ASSUME IInv, [Next]_vars PROVE IInv'
  OBVIOUS
<1> USE DEF IInv
<1>1. ASSUME NEW t \in Turn, Begin(t) PROVE IInv'
  <2>1. turn[t].handle = None /\ turn[t].pc = "idle"
    BY <1>1 DEF Begin, TurnsSound, Sound
  <2>2. NoTurn \in TurnState /\ NoTurn.pc = "idle" /\ NoTurn.handle = None /\ NoTurn.untried = {}
    BY DEF NoTurn, TurnState
  <2>3. CASE Set(t, NoTurn)
    <3>1. Sound(NoTurn)
      BY <2>2 DEF Sound
    <3> QED
      BY <1>1, <2>1, <2>2, <2>3, <3>1, TurnOnlyIInv DEF Set, Begin
  <2>4. ASSUME NEW own \in Orders(t, Primary),
               NEW other \in SetToSeqs({a \in Account : Provider[a] # Primary /\ Available(a)}),
               own # <<>>,
               Set(t, [NoTurn EXCEPT !.pc = "open", !.cands = own \o other, !.snap = generation])
        PROVE  IInv'
    <3> DEFINE r == [NoTurn EXCEPT !.pc = "open", !.cands = own \o other, !.snap = generation]
    <3>1. own \in Seq(Account) /\ other \in Seq(Account)
      BY Listing DEF Orders
    <3>2. own \o other \in Seq(Account) /\ own \o other # <<>>
      BY <2>4, <3>1
    <3>3. r \in TurnState /\ r.pc = "open" /\ r.cands = own \o other /\ r.handle = None /\ r.untried = {}
      BY <2>2, <3>2 DEF TurnState, TypeOK
    <3>4. turn' = [turn EXCEPT ![t] = r]
      BY <2>4 DEF Set
    <3> HIDE DEF r
    <3>5. Sound(r)
      BY <3>2, <3>3 DEF Sound
    <3> QED
      BY <1>1, <2>1, <3>3, <3>4, <3>5, TurnOnlyIInv DEF Begin
  <2> QED
    BY <1>1, <2>3, <2>4 DEF Begin
<1>2. ASSUME NEW t \in Turn, Open(t) PROVE IInv'
  <2> DEFINE a == Candidate(t)
  <2>1. Sound(turn[t]) /\ turn[t].handle = None /\ turn[t].pc = "open" /\ turn[t].cands \in Seq(Account) /\ turn[t].cands # <<>>
    BY <1>2 DEF Open, TurnsSound, Sound, TurnState
  <2>2. CASE Refused(t)
    <3>1. PICK r : Lets(t, r)
      BY <1>2, <2>1, <2>2, Onward DEF Open
    <3> QED
      BY <1>2, <2>1, <2>2, <3>1, TurnOnlyIInv DEF Open, Lets
  <2>3. CASE ~Refused(t)
    <3> DEFINE l == [account |-> a, gen |-> generation[Provider[a]]]
               r == [turn[t] EXCEPT !.pc = "probe", !.handle = l]
    <3>1. a \in Account
      BY <2>1, HeadTailProperties DEF Candidate
    <3>2. l \in Lease /\ l # None
      BY <3>1, ProviderOf, CapacityAssumption DEF Lease, TypeOK
    <3>3. Available(a)
      BY <2>3 DEF Refused
    <3>4. /\ turn' = [turn EXCEPT ![t] = r] /\ inflight' = [inflight EXCEPT ![a] = @ + 1]
          /\ pinned' = Remember(t, a) /\ UNCHANGED <<health, generation>>
      BY <1>2, <2>3 DEF Open, Set
    <3>5. /\ r \in TurnState /\ r.pc = "probe" /\ r.handle = l
          /\ r.cands = turn[t].cands /\ r.untried = turn[t].untried
      BY <2>1, <3>2 DEF TypeOK, TurnState
    <3> HIDE DEF r
    <3>6. Sound(r)
      BY <2>1, <3>2, <3>5 DEF Sound
    <3>7. Admitted(r)
      BY <3>1, <3>5, ProviderOf DEF Admitted, TypeOK
    <3>8. turn' \in [Turn -> TurnState] /\ TurnsSound'
      BY <3>4, <3>6, <3>7, TurnStep
    <3>9. inflight' \in [Account -> Nat] /\ InflightExact'
      BY <2>1, <3>1, <3>3, <3>4, <3>5, LeaseTaken DEF Available
    <3>10. /\ health' \in [Account -> Health]
           /\ pinned' \in [Turn -> [Providers -> Account \cup {None}]]
           /\ ParkEarned' /\ PinnedUsable'
      <4>1. health[a] \in Health /\ Earned(health[a]) /\ ~health[a].auth /\ ~health[a].cooling
        BY <3>1, <3>3 DEF TypeOK, ParkEarned, Earned, Available, Ready
      <4>2. health' = [health EXCEPT ![a] = health[a]]
        BY <3>4 DEF TypeOK
      <4> QED
        BY <3>1, <3>4, <4>1, <4>2, PoolStep
    <3> QED
      BY <3>4, <3>8, <3>9, <3>10 DEF TypeOK
  <2> QED
    BY <2>2, <2>3
<1>3. ASSUME NEW t \in Turn, Opened(t) PROVE IInv'
  <2> DEFINE r == [NoTurn EXCEPT !.pc = "stream", !.handle = turn[t].handle, !.aborted = turn[t].aborted]
  <2>1. turn[t] \in TurnState /\ turn[t].handle # None
    BY <1>3 DEF Opened, TurnsSound, Sound
  <2>2. NoTurn \in TurnState /\ NoTurn.untried = {}
    BY DEF NoTurn, TurnState
  <2>3. r \in TurnState /\ r.pc = "stream" /\ r.handle = turn[t].handle /\ r.untried = {}
    BY <2>1, <2>2 DEF TurnState
  <2>4. turn' = [turn EXCEPT ![t] = r]
    BY <1>3 DEF Opened, Set
  <2> HIDE DEF r
  <2>5. Sound(r)
    BY <2>1, <2>3 DEF Sound
  <2> QED
    BY <1>3, <2>3, <2>4, <2>5, TurnOnlyIInv DEF Opened
<1>4. ASSUME NEW t \in Turn, Attempt(t), ~Open(t), ~Opened(t) PROVE IInv'
  <2>1. Sound(turn[t])
    BY DEF TurnsSound
  <2>2. /\ \E r : Lets(t, r)
        /\ turn[t].handle # None
        /\ generation' = generation
        /\ \E outcome : Release(t, outcome)
    BY <1>4, <2>1, AttemptOver DEF Attempt
  <2> QED
    BY <2>2, ReleaseIInv
<1>5. ASSUME NEW t \in Turn, Abort(t) PROVE IInv'
  <2> DEFINE r == [turn[t] EXCEPT !.aborted = TRUE]
  <2>1. Sound(turn[t]) /\ turn[t] \in TurnState
    BY DEF TurnsSound, Sound
  <2>2. /\ r \in TurnState /\ r.pc = turn[t].pc /\ r.handle = turn[t].handle
        /\ r.cands = turn[t].cands /\ r.untried = turn[t].untried
    BY <2>1 DEF TurnState
  <2>3. turn' = [turn EXCEPT ![t] = r]
    BY <1>5 DEF Abort, Set
  <2> HIDE DEF r
  <2>4. Sound(r)
    BY <2>1, <2>2 DEF Sound
  <2> QED
    BY <1>5, <2>2, <2>3, <2>4, TurnOnlyIInv DEF Abort
<1>6. ASSUME NEW p \in Providers, Invalidate(p) PROVE IInv'
  <2>1. inflight' \in [Account -> Nat] /\ InflightExact'
    BY <1>6, LeasesFenced
  <2>2. generation' \in [Providers -> Nat] /\ \A q \in Providers : generation[q] <= generation'[q]
    BY <1>6 DEF Invalidate, TypeOK
  <2>3. health' \in [Account -> Health] /\ ParkEarned'
    BY <1>6, HealthyEarned DEF Invalidate, TypeOK, ParkEarned
  <2>4. pinned' \in [Turn -> [Providers -> Account \cup {None}]]
    BY <1>6 DEF Invalidate, TypeOK
  <2>5. PinnedUsable'
    <3>1. \A t \in Turn, q \in Providers :
             pinned'[t][q] # None => pinned'[t][q] = pinned[t][q] /\ pinned[t][q] \in Account
      BY <1>6 DEF Invalidate, TypeOK
    <3>2. \A a \in Account : Ready(a) => Ready(a)'
      BY <1>6, HealthyEarned DEF Invalidate, Ready
    <3> QED
      BY <3>1, <3>2 DEF PinnedUsable
  <2>6. \A t \in Turn :
          /\ turn'[t] \in TurnState /\ turn'[t].pc = turn[t].pc /\ turn'[t].handle = turn[t].handle
          /\ turn'[t].cands = turn[t].cands /\ turn'[t].untried = turn[t].untried
    <3> SUFFICES ASSUME NEW t \in Turn
                 PROVE  /\ turn'[t] \in TurnState /\ turn'[t].pc = turn[t].pc /\ turn'[t].handle = turn[t].handle
                        /\ turn'[t].cands = turn[t].cands /\ turn'[t].untried = turn[t].untried
      OBVIOUS
    <3>1. turn[t] \in TurnState
      BY DEF TypeOK
    <3>2. turn'[t] = turn[t] \/ turn'[t] = [turn[t] EXCEPT !.aborted = TRUE]
      BY <1>6 DEF Invalidate
    <3> QED
      BY <3>1, <3>2 DEF TurnState
  <2>7. turn' \in [Turn -> TurnState]
    <3>1. turn' = [t \in Turn |-> turn'[t]]
      BY <1>6 DEF Invalidate
    <3> QED
      BY <2>6, <3>1
  <2>8. TurnsSound'
    <3> SUFFICES ASSUME NEW t \in Turn PROVE Sound(turn'[t]) /\ Admitted(turn[t])'
      BY DEF TurnsSound
    <3>1. Sound(turn[t]) /\ Admitted(turn[t])
      BY DEF TurnsSound
    <3>2. Sound(turn'[t])
      BY <2>6, <3>1 DEF Sound
    <3>3. ASSUME turn[t].handle # None PROVE turn[t].handle.gen <= generation'[Provider[turn[t].handle.account]]
      <4>1. turn[t].handle \in Lease /\ turn[t].handle.account \in Account /\ turn[t].handle.gen \in Nat
        BY <3>3 DEF TypeOK, TurnState, Lease
      <4>2. /\ Provider[turn[t].handle.account] \in Providers
            /\ turn[t].handle.gen <= generation[Provider[turn[t].handle.account]]
        BY <3>1, <3>3, <4>1, ProviderOf DEF Admitted
      <4> QED
        BY <2>2, <4>1, <4>2 DEF TypeOK
    <3> QED
      BY <2>6, <3>2, <3>3 DEF Admitted
  <2> QED
    BY <2>1, <2>2, <2>3, <2>4, <2>5, <2>7, <2>8 DEF TypeOK
<1>7. ASSUME NEW a \in Account, Reset(a) \/ CooldownEnds(a) PROVE IInv'
  <2>1. UNCHANGED <<inflight, generation, turn>>
    BY <1>7 DEF Reset, CooldownEnds
  <2>2. /\ health' \in [Account -> Health]
        /\ pinned' \in [Turn -> [Providers -> Account \cup {None}]]
        /\ ParkEarned' /\ PinnedUsable'
    <3>1. CASE Reset(a)
      BY <3>1, HealthyEarned, PoolStep DEF Reset
    <3>2. CASE CooldownEnds(a)
      <4> DEFINE h == [health[a] EXCEPT !.cooling = FALSE]
      <4>1. health[a] \in Health /\ Earned(health[a])
        BY DEF TypeOK, ParkEarned, Earned
      <4>2. h \in Health /\ h.auth = health[a].auth /\ h.definite = health[a].definite /\ h.uncertain = health[a].uncertain
        BY <4>1 DEF Health
      <4>3. health' = [health EXCEPT ![a] = h]
        BY <3>2 DEF CooldownEnds, TypeOK
      <4>4. health' \in [Account -> Health]
        BY <4>2, <4>3 DEF TypeOK
      <4> HIDE DEF h
      <4>5. ParkEarned'
        BY <4>1, <4>2, <4>3 DEF ParkEarned, Earned, TypeOK
      <4>6. PinnedUsable' /\ pinned' = pinned
        <5>1. \A t \in Turn, p \in Providers : pinned[t][p] # None => pinned[t][p] \in Account \ {a}
          BY <3>2 DEF PinnedUsable, Ready, CooldownEnds, TypeOK
        <5>2. \A b \in Account \ {a} : Ready(b)' = Ready(b)
          BY <4>3 DEF Ready, TypeOK
        <5> QED
          BY <3>2, <5>1, <5>2 DEF PinnedUsable, CooldownEnds
      <4> QED
        BY <4>4, <4>5, <4>6 DEF TypeOK
    <3> QED
      BY <1>7, <3>1, <3>2
  <2>3. TurnsSound' /\ InflightExact'
    BY <2>1 DEF TurnsSound, Admitted, InflightExact, Holds, Current
  <2> QED
    BY <2>1, <2>2, <2>3 DEF TypeOK
<1>8. CASE UNCHANGED vars
  BY <1>8 DEF vars, TypeOK, TurnsSound, Admitted, InflightExact, Holds, Current, ParkEarned, PinnedUsable, Ready
<1> QED
  BY <1>1, <1>2, <1>3, <1>4, <1>5, <1>6, <1>7, <1>8 DEF Next

(* The invariant holds throughout. *)
LEMMA Invariance == Spec => []IInv
<1> QED
  BY InitIInv, NextIInv, PTL DEF Spec

-----------------------------------------------------------------------------
(* What follows *)

(* The accounts, their leases and the turns keep their types. *)
THEOREM TypeCorrect == Spec => []TypeOK
<1>1. IInv => TypeOK
  BY DEF IInv
<1> QED
  BY <1>1, Invariance, PTL

(* Every admission lease is given back exactly once, and no account is      *)
(* given more attempts than its limit (providerAttemptLifecycleFor()).      *)
THEOREM LeasesCounted == Spec => []InflightExact
<1>1. IInv => InflightExact
  BY DEF IInv
<1> QED
  BY <1>1, Invariance, PTL

(* No account is parked without the rejections it takes (reportFailure()).  *)
THEOREM ParksEarned == Spec => []ParkEarned
<1>1. IInv => ParkEarned
  BY DEF IInv
<1> QED
  BY <1>1, Invariance, PTL

(* No session stays pinned to an account it cannot use                      *)
(* (clearAccountSessions()).                                                *)
THEOREM PinsUsable == Spec => []PinnedUsable
<1>1. IInv => PinnedUsable
  BY DEF IInv
<1> QED
  BY <1>1, Invariance, PTL

(* A turn gives up over its accounts only at the end of its chain           *)
(* (canTryNextCandidate()).                                                 *)
THEOREM ChainsExhausted == Spec => []ChainExhausted
<1>1. IInv => ChainExhausted
  BY DEF IInv, TurnsSound, Sound, ChainExhausted
<1> QED
  BY <1>1, Invariance, PTL

(* Each step of a turn leaves it less to try, so openStream() ends.         *)
THEOREM TurnsEnd == Spec => TurnEnds
<1> DEFINE Ends(t) ==
      turn[t].pc # "idle" /\ turn'[t] # turn[t]
        => Effort(turn'[t]) < Effort(turn[t]) \/ turn'[t] = [turn[t] EXCEPT !.aborted = TRUE]
<1>1. ASSUME IInv, [Next]_vars, NEW t \in Turn PROVE Ends(t)
  <2>1. TypeOK /\ \A u \in Turn : Sound(turn[u])
    BY <1>1 DEF IInv, TurnsSound
  <2>2. ASSUME NEW u \in Turn, NEW r, turn' = [turn EXCEPT ![u] = r], Effort(r) < Effort(turn[u]) \/ turn[u].pc = "idle"
        PROVE  Ends(t)
    BY <2>1, <2>2 DEF TypeOK
  <2>3. ASSUME NEW u \in Turn, NEW r, Lets(u, r) PROVE Ends(t)
    BY <2>2, <2>3 DEF Lets
  <2>4. ASSUME NEW u \in Turn, Begin(u) PROVE Ends(t)
    BY <2>2, <2>4 DEF Begin, Set
  <2>5. ASSUME NEW u \in Turn, Open(u) PROVE Ends(t)
    <3>1. CASE Refused(u)
      <4>1. \E r : Lets(u, r)
        BY <2>1, <2>5, <3>1, Onward DEF Open
      <4> QED
        BY <2>3, <4>1
    <3>2. CASE ~Refused(u)
      <4> DEFINE a == Candidate(u)
                 r == [turn[u] EXCEPT !.pc = "probe", !.handle = [account |-> a, gen |-> generation[Provider[a]]]]
      <4>1. turn[u] \in TurnState /\ turn[u].pc = "open" /\ turn[u].cands \in Seq(Account) /\ turn[u].cands # <<>>
        BY <2>1, <2>5 DEF Open, Sound, TurnState
      <4>2. [account |-> a, gen |-> generation[Provider[a]]] \in Lease
        BY <2>1, <4>1, ProviderOf, HeadTailProperties DEF Candidate, Lease, TypeOK
      <4>3. r \in TurnState /\ r.pc = "probe" /\ r.cands = turn[u].cands /\ r.mode = turn[u].mode
        BY <4>1, <4>2 DEF TurnState
      <4>4. turn' = [turn EXCEPT ![u] = r]
        BY <2>5, <3>2 DEF Open, Set
      <4> HIDE DEF r
      <4>5. Effort(r) < Effort(turn[u])
        <5>1. Modes(r) = Modes(turn[u])
          BY <4>3 DEF Modes
        <5>2. /\ Len(turn[u].cands) \in Nat /\ Modes(turn[u]) \in 1..3
              /\ Effort(turn[u]) = 8 * Len(turn[u].cands) + 2 * Modes(turn[u]) + 1
          BY <4>1, EffortOf
        <5>3. Effort(r) = 8 * Len(turn[u].cands) + 2 * Modes(turn[u])
          BY <4>3, <5>1, EffortOf
        <5> QED
          BY <5>2, <5>3
      <4> QED
        BY <2>2, <4>4, <4>5
    <3> QED
      BY <3>1, <3>2
  <2>6. ASSUME NEW u \in Turn, Opened(u) PROVE Ends(t)
    <3> DEFINE r == [NoTurn EXCEPT !.pc = "stream", !.handle = turn[u].handle, !.aborted = turn[u].aborted]
    <3>1. turn[u] \in TurnState /\ turn[u].pc = "probe" /\ turn[u].cands \in Seq(Account) /\ turn[u].cands # <<>>
      BY <2>1, <2>6 DEF Opened, Sound, TurnState
    <3>2. NoTurn \in TurnState
      BY DEF NoTurn, TurnState
    <3>3. r \in TurnState /\ r.pc = "stream"
      BY <3>1, <3>2 DEF TurnState
    <3>4. turn' = [turn EXCEPT ![u] = r]
      BY <2>6 DEF Opened, Set
    <3> HIDE DEF r
    <3>5. Effort(r) < Effort(turn[u])
      <4>1. Effort(r) = 1
        BY <3>3, EffortOf
      <4>2. /\ Len(turn[u].cands) \in Nat \ {0} /\ Modes(turn[u]) \in 1..3
            /\ Effort(turn[u]) = 8 * Len(turn[u].cands) + 2 * Modes(turn[u])
        BY <3>1, EffortOf, Rest
      <4> QED
        BY <4>1, <4>2
    <3> QED
      BY <2>2, <3>4, <3>5
  <2>7. ASSUME NEW u \in Turn, Attempt(u), ~Open(u), ~Opened(u) PROVE Ends(t)
    <3>1. \E r : Lets(u, r)
      BY <2>1, <2>7, AttemptOver DEF Attempt
    <3> QED
      BY <2>3, <3>1
  <2>8. ASSUME NEW u \in Turn, Abort(u) PROVE Ends(t)
    BY <2>1, <2>8 DEF Abort, Set, TypeOK
  <2>9. ASSUME NEW p \in Providers, Invalidate(p) PROVE Ends(t)
    BY <2>9 DEF Invalidate
  <2>10. CASE UNCHANGED turn
    BY <2>10
  <2> QED
    BY <1>1, <2>4, <2>5, <2>6, <2>7, <2>8, <2>9, <2>10 DEF Next, Reset, CooldownEnds, vars
<1>2. IInv /\ [Next]_vars => [\A t \in Turn : Ends(t)]_vars
  BY <1>1
<1> QED
  BY <1>2, Invariance, PTL DEF Spec, TurnEnds
=============================================================================
