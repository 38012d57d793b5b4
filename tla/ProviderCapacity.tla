---------------------------- MODULE ProviderCapacity ----------------------------
(***************************************************************************)
(* How a prompt finds a provider account that answers it: the health and   *)
(* the in-flight counts of the accounts (core/provider-account-pool.js),   *)
(* the capacity chain of a turn (core/capacity-router.js), the failover    *)
(* over its candidates (core/engine/provider/open-stream.ts) and the       *)
(* admission leases between them (core/gateway.js), which a generation per *)
(* provider fences against changes of its configuration.                   *)
(*                                                                         *)
(* Turns run concurrently; acquiring, releasing and reporting are          *)
(* synchronous, waiting for the provider is not.  The strategies of a pool *)
(* only order its candidates: here any order is possible, with the         *)
(* session's own account first.                                            *)
(***************************************************************************)
EXTENDS Naturals, Sequences, SequencesExt, FiniteSets

CONSTANTS
    Account,            \* credentials of all providers
    Provider,           \* [Account -> provider]
    Primary,            \* the provider of the sessions' model
    Turn,               \* sessions, each with at most one turn at a time
    MaxConcurrency,     \* maxConcurrency of each member
    UncertainStrikes,   \* authUncertainStrikesRequired
    MaxGeneration,      \* bound on configuration changes
    None

(* What an attempt holds: the account, and the generation of the router     *)
(* that admitted it.                                                        *)
Lease == [account : Account, gen : Nat]

ASSUME CapacityAssumption ==
    /\ DOMAIN Provider = Account
    /\ MaxConcurrency \in [Account -> Nat \ {0}] /\ UncertainStrikes \in Nat \ {0} /\ MaxGeneration \in Nat
    /\ IsFiniteSet(Account) /\ IsFiniteSet(Turn)
    /\ None \notin Account /\ None \notin Lease

VARIABLES
    health,     \* of each account in the current router: auth, cooling, the strikes
    inflight,   \* acquisitions each account's router counts
    pinned,     \* sessionLeases of each router: the account of a session
    generation, \* providerRuntimeGenerations
    turn        \* the turn of each session

vars == <<health, inflight, pinned, generation, turn>>

Providers == {Provider[a] : a \in Account}

Healthy == [auth |-> FALSE, cooling |-> FALSE, definite |-> 0, uncertain |-> 0]

(* pc; cands: the candidates of the chain from the one at hand on; mode:    *)
(* tools with a forced choice, tools, no tools; snap: the generations it    *)
(* began under; handle: its lease, with the generation of the router that   *)
(* gave it; untried: of an ended turn, the candidates it did not try        *)
(* although an account's failure or its capacity ended it.                  *)
NoTurn == [pc |-> "idle", cands |-> <<>>, mode |-> "forced", snap |-> None,
           handle |-> None, aborted |-> FALSE, untried |-> {}]

Init ==
    /\ health = [a \in Account |-> Healthy]
    /\ inflight = [a \in Account |-> 0]
    /\ pinned = [t \in Turn |-> [p \in Providers |-> None]]
    /\ generation = [p \in Providers |-> 0]
    /\ turn = [t \in Turn |-> NoTurn]

-----------------------------------------------------------------------------
(* The account pool *)

Ready(a) == ~health[a].auth /\ ~health[a].cooling

Available(a) == Ready(a) /\ inflight[a] < MaxConcurrency[a]

(* orderedCandidates(): the available accounts, the session's own first. *)
Orders(t, p) ==
    LET S == {a \in Account : Provider[a] = p /\ Available(a)}
    IN  {s \in SetToSeqs(S) : pinned[t][p] \in S => s[1] = pinned[t][p]}

(* rememberSession(). *)
Remember(t, a) == [pinned EXCEPT ![t][Provider[a]] = a]

(* classifyProviderFailure(), where rate limits, server errors and network  *)
(* errors are all transient, a 408 or 425 is the client's but retryable and *)
(* any other error the client's, and the tool errors the failover looks     *)
(* for.                                                                     *)
AccountFault == {"transient", "timeout", "auth_uncertain", "auth_soft", "auth_definite"}
Failure == AccountFault \cup {"client"}
ToolFailure == {"tool", "tool_choice"}

(* applyCooldown(): also lifts auth-required.  One definite strike is       *)
(* enough (authDefiniteStrikesRequired), so its count is kept only while it *)
(* is the reason of a park.                                                 *)
Cooled(h) == [h EXCEPT !.auth = FALSE, !.cooling = TRUE, !.definite = 0]
Parked(h) == [h EXCEPT !.auth = TRUE, !.cooling = FALSE]

(* Mutant: an ambiguous 403 parks the account like a rejected key. *)
VerdictSoftParks(h, e) ==
    CASE e = "auth_soft" -> Parked(h)
      [] e = "auth_definite" -> Parked([h EXCEPT !.definite = 1, !.uncertain = 0])
      [] e \in {"transient", "auth_uncertain"} -> Cooled([h EXCEPT !.uncertain = 0])
      [] OTHER -> h

(* reportFailure(). *)
Verdict(h, e) ==
    CASE e = "auth_definite" -> Parked([h EXCEPT !.definite = 1, !.uncertain = 0])
      [] e = "auth_uncertain" ->
            LET n == IF h.uncertain < UncertainStrikes THEN h.uncertain + 1 ELSE h.uncertain
                g == [h EXCEPT !.definite = 0, !.uncertain = n]
            IN  IF n >= UncertainStrikes THEN Parked(g) ELSE Cooled(g)
      [] e = "auth_soft" -> Cooled([h EXCEPT !.definite = 0, !.uncertain = 0])
      [] e = "transient" -> Cooled([h EXCEPT !.uncertain = 0])
      [] e = "timeout" -> Cooled(h)
      [] OTHER -> h

(* Mutant: the sessions of a parked account keep it. *)
PinsKept(a) == pinned

(* clearAccountSessions(), when a failure leaves the account not ready. *)
PinsCleared(a) ==
    [t \in Turn |-> [p \in Providers |-> IF pinned[t][p] = a THEN None ELSE pinned[t][p]]]

-----------------------------------------------------------------------------
(* Admission leases: providerAttemptLifecycleFor() *)

Candidate(t) == Head(turn[t].cands)

Refused(t) ==
    \/ turn[t].aborted
    \/ turn[t].snap[Provider[Candidate(t)]] # generation[Provider[Candidate(t)]]
    \/ ~Available(Candidate(t))

(* An old router's count is gone with the router. *)
Current(h) == h.gen = generation[Provider[h.account]]

(* Mutant: the lease is released only with a verdict on the account. *)
ReleaseOnVerdict(t, outcome) ==
    LET h == turn[t].handle
        a == h.account
    IN  /\ inflight' = IF Current(h) /\ outcome # None THEN [inflight EXCEPT ![a] = @ - 1] ELSE inflight
        /\ UNCHANGED <<health, pinned>>

(* release(): give the lease back, then report a success or a failure;      *)
(* outcome None is an interruption or an unsupported tool, which says       *)
(* nothing of the account.                                                  *)
Release(t, outcome) ==
    LET h == turn[t].handle
        a == h.account
    IN  /\ inflight' = IF Current(h) THEN [inflight EXCEPT ![a] = @ - 1] ELSE inflight
        /\ CASE ~Current(h) \/ outcome = None -> UNCHANGED <<health, pinned>>
             [] Current(h) /\ outcome = "success" ->
                    health' = [health EXCEPT ![a] = Healthy] /\ pinned' = Remember(t, a)
             [] OTHER ->
                    /\ health' = [health EXCEPT ![a] = Verdict(@, outcome)]
                    /\ pinned' = IF health'[a].auth \/ health'[a].cooling THEN PinsCleared(a) ELSE pinned

-----------------------------------------------------------------------------
(* A turn: the capacity chain, then openStream() *)

Set(t, r) == turn' = [turn EXCEPT ![t] = r]
End(t, why) ==
    Set(t, [NoTurn EXCEPT !.untried = IF why \in AccountFault \cup {"capacity"}
                                      THEN ToSet(Tail(turn[t].cands)) ELSE {}])

(* The accounts of the model's own provider, then those of its family and   *)
(* of the fallbacks; without one of the first kind the turn ends at once.   *)
Begin(t) ==
    /\ turn[t].pc = "idle"
    /\ \/ /\ ~\E a \in Account : Provider[a] = Primary /\ Available(a)
          /\ Set(t, NoTurn)
       \/ \E own \in Orders(t, Primary), other \in SetToSeqs({a \in Account : Provider[a] # Primary /\ Available(a)}) :
          /\ own # <<>>
          /\ Set(t, [NoTurn EXCEPT !.pc = "open", !.cands = own \o other, !.snap = generation])
    /\ UNCHANGED <<health, inflight, pinned, generation>>

(* The next candidate, or the end of the chain. *)
Continue(t, why) ==
    IF Len(turn[t].cands) > 1
    THEN Set(t, [turn[t] EXCEPT !.pc = "open", !.cands = Tail(@), !.mode = "forced", !.handle = None])
    ELSE End(t, why)

(* beginAttempt(): a lease, or on to the next candidate. *)
Open(t) ==
    /\ turn[t].pc = "open"
    /\ IF Refused(t) THEN Continue(t, "capacity") /\ UNCHANGED <<inflight, pinned>>
       ELSE LET a == Candidate(t)
            IN  /\ inflight' = [inflight EXCEPT ![a] = @ + 1]
                /\ pinned' = Remember(t, a)
                /\ Set(t, [turn[t] EXCEPT !.pc = "probe",
                                          !.handle = [account |-> a, gen |-> generation[Provider[a]]]])
    /\ UNCHANGED <<health, generation>>

(* Mutant: the last candidate but one counts as the last. *)
CanTryNextShort(t, e) == e \in AccountFault /\ Len(turn[t].cands) > 2

CanTryNextCandidate(t, e) == e \in AccountFault /\ Len(turn[t].cands) > 1

FailOver(t, e) == IF CanTryNextCandidate(t, e) THEN Continue(t, e) ELSE End(t, e)

Again(t, mode) == Set(t, [turn[t] EXCEPT !.pc = "open", !.mode = mode, !.handle = None])

(* start() or the probe throws, or the probe finds an error part that the   *)
(* tools are not to blame for: the account is judged.                       *)
Fails(t, e) ==
    /\ turn[t].pc = "probe"
    /\ Release(t, e)
    /\ FailOver(t, e)
    /\ UNCHANGED generation

(* Mutant: the forced tool choice is tried again. *)
WithoutForcedAgain(t) == Again(t, "forced")

WithoutForced(t) == Again(t, "free")

(* An error part with a rejected tool choice is retried with free tools,    *)
(* one with rejected tools without any.                                     *)
RetryTools(t, e) ==
    /\ turn[t].pc = "probe"
    /\ \/ e = "tool_choice" /\ turn[t].mode = "forced" /\ Release(t, None) /\ WithoutForced(t)
       \/ e = "tool" /\ turn[t].mode = "forced" /\ Release(t, None) /\ Again(t, "plain")
       \/ turn[t].mode = "free" /\ Release(t, e) /\ Again(t, "plain")
    /\ UNCHANGED generation

(* The first part of an answer: this candidate is the one. *)
Opened(t) ==
    /\ turn[t].pc = "probe"
    /\ Set(t, [NoTurn EXCEPT !.pc = "stream", !.handle = turn[t].handle, !.aborted = turn[t].aborted])
    /\ UNCHANGED <<health, inflight, pinned, generation>>

(* The stream ends, well or with an error part; no failover any more. *)
StreamEnds(t, outcome) ==
    /\ turn[t].pc = "stream"
    /\ Release(t, outcome)
    /\ End(t, IF outcome = "success" THEN "success" ELSE "streamed")
    /\ UNCHANGED generation

(* A transport that heeds the signal ends with an AbortError. *)
Interrupted(t) ==
    /\ turn[t].pc \in {"probe", "stream"} /\ turn[t].aborted
    /\ Release(t, None)
    /\ End(t, "interrupted")
    /\ UNCHANGED generation

Attempt(t) ==
    \/ Open(t) \/ Opened(t) \/ Interrupted(t) \/ StreamEnds(t, "success")
    \/ \E e \in ToolFailure : RetryTools(t, e)
    \/ \E e \in Failure : Fails(t, e) \/ StreamEnds(t, e)

-----------------------------------------------------------------------------
(* Everything else that happens to the pool *)

Abort(t) ==
    /\ turn[t].pc # "idle" /\ ~turn[t].aborted
    /\ Set(t, [turn[t] EXCEPT !.aborted = TRUE])
    /\ UNCHANGED <<health, inflight, pinned, generation>>

(* invalidateProviderRuntime(): the router is dropped, every running turn   *)
(* aborted.                                                                 *)
Invalidate(p) ==
    /\ \A q \in Providers : generation[q] < MaxGeneration
    /\ generation' = [generation EXCEPT ![p] = @ + 1]
    /\ health' = [a \in Account |-> IF Provider[a] = p THEN Healthy ELSE health[a]]
    /\ inflight' = [a \in Account |-> IF Provider[a] = p THEN 0 ELSE inflight[a]]
    /\ pinned' = [t \in Turn |-> [pinned[t] EXCEPT ![p] = None]]
    /\ turn' = [t \in Turn |-> IF turn[t].pc = "idle" THEN turn[t] ELSE [turn[t] EXCEPT !.aborted = TRUE]]

(* POST /runtime/reset: resetRuntime(). *)
Reset(a) ==
    /\ health[a] # Healthy
    /\ health' = [health EXCEPT ![a] = Healthy]
    /\ pinned' = PinsCleared(a)
    /\ UNCHANGED <<inflight, generation, turn>>

CooldownEnds(a) ==
    /\ health[a].cooling
    /\ health' = [health EXCEPT ![a].cooling = FALSE]
    /\ UNCHANGED <<inflight, pinned, generation, turn>>

Next ==
    \/ \E t \in Turn : Begin(t) \/ Attempt(t) \/ Abort(t)
    \/ \E p \in Providers : Invalidate(p)
    \/ \E a \in Account : Reset(a) \/ CooldownEnds(a)

Spec == Init /\ [][Next]_vars

-----------------------------------------------------------------------------
(* Properties *)

Health == [auth : BOOLEAN, cooling : BOOLEAN, definite : Nat, uncertain : Nat]

TurnState ==
    [pc : {"idle", "open", "probe", "stream"}, cands : Seq(Account), mode : {"forced", "free", "plain"},
     snap : [Providers -> Nat] \cup {None}, handle : Lease \cup {None}, aborted : BOOLEAN, untried : SUBSET Account]

(* The types of the variables. *)
TypeOK ==
    /\ health \in [Account -> Health]
    /\ inflight \in [Account -> Nat]
    /\ pinned \in [Turn -> [Providers -> Account \cup {None}]]
    /\ generation \in [Providers -> Nat]
    /\ turn \in [Turn -> TurnState]

Holds(t, a) == turn[t].handle # None /\ turn[t].handle.account = a /\ Current(turn[t].handle)

(* Every lease is given back exactly once on every path of the failover,    *)
(* tool retries, throws, interruptions and configuration changes included:  *)
(* the count of an account is the number of attempts that hold it, never    *)
(* more than its limit.                                                     *)
InflightExact == \A a \in Account :
    inflight[a] = Cardinality({t \in Turn : Holds(t, a)}) /\ inflight[a] <= MaxConcurrency[a]

(* An account that waits for new credentials has the rejections to show for *)
(* it: rate limits, network noise and ambiguous 403s of concurrent turns,   *)
(* in whatever order they are reported, never add up to a ban.              *)
ParkEarned == \A a \in Account :
    health[a].auth => health[a].definite > 0 \/ health[a].uncertain >= UncertainStrikes

(* No session stays pinned to an account that cools down or needs           *)
(* credentials, whichever turn's report put it there.                       *)
PinnedUsable == \A t \in Turn, p \in Providers : pinned[t][p] # None => Ready(pinned[t][p])

(* A turn gives up over a failure that another account might not have only  *)
(* at the end of its chain.                                                 *)
ChainExhausted == \A t \in Turn : turn[t].untried = {}

(* What a turn may still try: a candidate counts for its three tool modes.  *)
Effort(r) ==
    CASE r.pc = "idle" -> 0
      [] r.pc = "stream" -> 1
      [] OTHER -> 2 * (4 * Len(r.cands) + (CASE r.mode = "forced" -> 3 [] r.mode = "free" -> 2 [] OTHER -> 1))
                  + (IF r.pc = "open" THEN 1 ELSE 0)

(* No retry goes round for ever: whatever the provider answers, each step   *)
(* of a turn leaves it less to try, so every turn ends.                     *)
TurnEnds ==
    [][\A t \in Turn : turn[t].pc # "idle" /\ turn'[t] # turn[t]
        => Effort(turn'[t]) < Effort(turn[t]) \/ turn'[t] = [turn[t] EXCEPT !.aborted = TRUE]]_vars
=============================================================================
