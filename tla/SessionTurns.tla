------------------------------ MODULE SessionTurns ------------------------------
(***************************************************************************)
(* The turns of one chat session (core/gateway.js): who owns the session   *)
(* while handlers, the provider and cancellations wait, how an answer      *)
(* becomes durable before it is acknowledged, and how an approved command  *)
(* is started at most once (with core/session-store.js and                 *)
(* core/session-mutations.js).                                             *)
(*                                                                         *)
(* A turn keeps running after it lost the session: a provider may ignore   *)
(* its abort signal.  Everything between two awaits is one step.           *)
(***************************************************************************)
EXTENDS Naturals, Sequences, SequencesExt, FiniteSets

CONSTANTS
    MaxPrompts,     \* bound on prompts, each the identity of the turn it may become
    Kind,           \* subset of {"text", "images", "direct"}
    MaxFaults,      \* bound on cancellations, crashes and failed writes together
    None

ASSUME SessionTurnsAssumption ==
    /\ Kind \subseteq {"text", "images", "direct"}
    /\ MaxFaults \in Nat
    /\ MaxPrompts \in Nat /\ None \notin 0..MaxPrompts

(* Numbered as they arrive. *)
Prompt == 1..MaxPrompts

(* The reservation of an approval's handler. *)
AnswerToken == 0

VARIABLES
    turn,       \* each prompt's request and turn
    active,     \* activeTurns and controllers, which change together
    reserved,   \* sessionReservations: a prompt or AnswerToken
    history,    \* the session's messages in the store's memory
    disk,       \* and in state.json
    writer,     \* the write of the flush chain that is under way
    cancel,     \* the handler of a cancellation: the turn it waits for
    answer,     \* the handler of an approval decision
    effects,    \* how often the approved command was started
    faults      \* how many faults happened

vars == <<turn, active, reserved, history, disk, writer, cancel, answer, effects, faults>>

(* fin: of finalizePromise.  waits: the finalized turn a request drains.    *)
(* receipt: a continuation's, for the approved command.  acked: the durable *)
(* acknowledgement promised a message.                                      *)
NoTurn == [pc |-> "idle", kind |-> "text", waits |-> None, receipt |-> FALSE, aborted |-> FALSE, fin |-> "none",
           acked |-> FALSE]

(* A request that was answered, a turn that returned. *)
Gone(r) == [NoTurn EXCEPT !.pc = "done", !.fin = "done", !.kind = r.kind, !.acked = r.acked]

Idle == [pc |-> "idle", turn |-> None]

-----------------------------------------------------------------------------
(* The store *)

Message(p, role, status) == [turn |-> p, role |-> role, status |-> status]

IsDraft(m) == m.role = "assistant" /\ m.status = "streaming"

(* A new session, or one that was left waiting for an approval. *)
Init ==
    /\ turn = [p \in Prompt |-> NoTurn]
    /\ active = None /\ reserved = None
    /\ history \in {<<>>, <<Message(None, "assistant", "awaiting_approval")>>} /\ disk = history
    /\ writer = None
    /\ cancel = Idle /\ answer = Idle
    /\ effects = 0
    /\ faults = 0

(* A removed message keeps its place here. *)
Answered(h, p) ==
    \E i \in DOMAIN h : h[i].turn = p /\ h[i].role = "assistant" /\ h[i].status \notin {"streaming", "removed"}

(* updateMessage() of the assistant message of p, which is appended first   *)
(* when there is none.                                                      *)
PutAnswer(p, status) ==
    LET mine(m) == m.turn = p /\ m.role = "assistant"
    IN  IF \E i \in DOMAIN history : mine(history[i])
        THEN [i \in DOMAIN history |-> IF mine(history[i]) THEN [history[i] EXCEPT !.status = status] ELSE history[i]]
        ELSE Append(history, Message(p, "assistant", status))

Restatus(from, to) ==
    [i \in DOMAIN history |-> IF history[i].status = from THEN [history[i] EXCEPT !.status = to] ELSE history[i]]

Has(status) == \E i \in DOMAIN history : history[i].status = status

HasUnconsumedApprovals == Has("awaiting_approval") \/ Has("approved")

(* A behaviour has one approval. *)
AskedBefore == HasUnconsumedApprovals \/ Has("consumed") \/ Has("denied")

(* recoverInterruptedDraft() on load. *)
Recovered(h) ==
    [i \in DOMAIN h |-> IF IsDraft(h[i]) THEN [h[i] EXCEPT !.status = "interrupted"] ELSE h[i]]

(* Who waits for a flush: a finalization, a consumption, a decision; the    *)
(* debounced timer waits for nothing.                                       *)
Flushers ==
    {<<"final", p>> : p \in {q \in Prompt : turn[q].fin = "queued"}}
    \cup {<<"consume", p>> : p \in {q \in Prompt : turn[q].pc = "consuming"}}
    \cup (IF answer.pc = "flush" THEN {<<"answer", None>>} ELSE {})
    \cup (IF history # disk THEN {<<"timer", None>>} ELSE {})

(* The chain runs one write at a time and takes the state as it begins. *)
StartWrite(w) ==
    /\ writer = None /\ w \in Flushers
    /\ writer' = [for |-> w, snap |-> history]
    /\ UNCHANGED <<turn, active, reserved, history, disk, cancel, answer, effects, faults>>

(* Mutant: a write under way serves everyone who waits for a flush. *)
ServedAll(p) == turn[p].fin = "queued"

Served(p) == writer.for = <<"final", p>>

(* Mutant: the approved command does not wait for its consumption. *)
EffectAnyway(ok) == TRUE

EffectStarts(ok) == ok

(* The end of a finalization publishes the terminal event, durable or not; *)
(* the end of a consumption starts the command.                            *)
EndWrite(ok) ==
    /\ writer # None
    /\ ~ok => faults < MaxFaults
    /\ disk' = IF ok THEN writer.snap ELSE disk
    /\ turn' = [p \in Prompt |->
            IF Served(p)
            THEN [turn[p] EXCEPT !.fin = "done", !.acked = ok /\ Answered(history, p)]
            ELSE IF writer.for = <<"consume", p>> THEN [turn[p] EXCEPT !.pc = "running"]
            ELSE turn[p]]
    /\ effects' = IF writer.for[1] = "consume" /\ EffectStarts(ok) THEN effects + 1 ELSE effects
    /\ answer' = IF writer.for[1] # "answer" THEN answer
                 ELSE IF ok THEN [answer EXCEPT !.pc = "resume"] ELSE [answer EXCEPT !.pc = "leave"]
    /\ writer' = None
    /\ faults' = IF ok THEN faults ELSE faults + 1
    /\ UNCHANGED <<active, reserved, history, cancel>>

-----------------------------------------------------------------------------
(* Owning the session *)

Owns(p) == active = p /\ ~turn[p].aborted

(* Mutant: releasing a turn frees the session, whoever has it by now. *)
ReleaseAny(p) == active' = None /\ reserved' = None

(* releaseActiveTurn(), then the finally of runPrompt(). *)
Release(p) ==
    /\ active' = IF active = p THEN None ELSE active
    /\ reserved' = IF active = p \/ reserved = p THEN None ELSE reserved

(* Mutant: whoever finalizes last has his say. *)
FinalizeAgain(p, status, text) ==
    history' = IF text \/ (\E i \in DOMAIN history : history[i].turn = p /\ IsDraft(history[i]))
               THEN PutAnswer(p, status) ELSE history

(* finalizeActiveTurn() up to its flush: the draft becomes the answer, and  *)
(* events of the turn are accepted no more.  The first caller's status      *)
(* counts, where ended is every one but an interruption and a wait for an   *)
(* approval; without a draft or a text there is nothing to keep, and a      *)
(* draft that shows nothing, as after blank reasoning alone, is removed.    *)
Finalize(p, status, text) ==
    IF turn[p].fin # "none" THEN UNCHANGED history
    ELSE IF text \/ (\E i \in DOMAIN history : history[i].turn = p /\ IsDraft(history[i]))
    THEN history' = PutAnswer(p, status) \/ (~text /\ history' = PutAnswer(p, "removed"))
    ELSE UNCHANGED history

Finalized(r) == IF r.fin = "none" THEN [r EXCEPT !.fin = "queued"] ELSE r

-----------------------------------------------------------------------------
(* A prompt becomes a turn *)

IsNext(p) == turn[p].pc = "idle" /\ \A q \in Prompt : q < p => turn[q].pc # "idle"

(* POST /api/prompt up to its last await before releaseFinalizedTurn(). *)
Request(p, kind) ==
    /\ IsNext(p) /\ kind # "direct" /\ ~HasUnconsumedApprovals
    /\ turn' = [turn EXCEPT ![p].pc = "checked", ![p].kind = kind]
    /\ UNCHANGED <<active, reserved, history, disk, writer, cancel, answer, effects, faults>>

(* beginActiveTurn() and executeReservedPrompt() up to its first await, for *)
(* a session with images to persist, or without.                            *)
Begin(p, kind) ==
    CASE kind = "images" ->
            /\ turn' = [turn EXCEPT ![p].pc = "images", ![p].waits = None]
            /\ UNCHANGED history
      [] kind = "text" ->
            /\ turn' = [turn EXCEPT ![p].pc = "workspace", ![p].waits = None]
            /\ history' = Append(history, Message(p, "user", "sent"))
      [] kind \in {"direct", "resume"} ->
            /\ turn' = [turn EXCEPT ![p].pc = "running", ![p].kind = kind,
                                    ![p].receipt = (kind = "resume" /\ Has("approved"))]
            /\ UNCHANGED history

(* The session is free after the drain: reserve it and run. *)
Admit(p, activeNow, reservedNow) ==
    IF activeNow = None /\ reservedNow = None
    THEN active' = p /\ reserved' = p /\ Begin(p, turn[p].kind)
    ELSE /\ active' = activeNow /\ reserved' = reservedNow
         /\ turn' = [turn EXCEPT ![p] = Gone(turn[p])]
         /\ UNCHANGED history

IsFinalized(a) == a # None /\ turn[a].fin # "none"

(* releaseFinalizedTurn(): only a turn that is already finalizing is waited *)
(* for.                                                                     *)
Drain(p) ==
    /\ turn[p].pc = "checked"
    /\ IF IsFinalized(active)
       THEN /\ turn' = [turn EXCEPT ![p].pc = "draining", ![p].waits = active]
            /\ UNCHANGED <<active, reserved, history>>
       ELSE Admit(p, active, reserved)
    /\ UNCHANGED <<disk, writer, cancel, answer, effects, faults>>

Drained(p) ==
    LET d == turn[p].waits
    IN  /\ turn[p].pc = "draining" /\ turn[d].fin = "done"
        /\ IF active = d THEN Admit(p, None, None) ELSE Admit(p, active, reserved)
        /\ UNCHANGED <<disk, writer, cancel, answer, effects, faults>>

(* runPrompt() without a request, for an inbound message that was appended  *)
(* before: no drain and no look at the approvals.                           *)
Direct(p) ==
    /\ IsNext(p)
    /\ IF active = None /\ reserved = None
       THEN active' = p /\ reserved' = p /\ Begin(p, "direct")
       ELSE UNCHANGED <<turn, active, reserved, history>>
    /\ UNCHANGED <<disk, writer, cancel, answer, effects, faults>>

-----------------------------------------------------------------------------
(* A turn runs *)

(* persistPromptImages() returns, whoever owns the session by now. *)
ImagesPersisted(p) ==
    /\ turn[p].pc = "images"
    /\ turn' = [turn EXCEPT ![p].pc = "workspace"]
    /\ history' = Append(history, Message(p, "user", "sent"))
    /\ UNCHANGED <<active, reserved, disk, writer, cancel, answer, effects, faults>>

(* They are rejected, or cannot be written. *)
ImagesFail(p) ==
    /\ turn[p].pc = "images" /\ faults < MaxFaults
    /\ turn' = [turn EXCEPT ![p] = [Finalized(turn[p]) EXCEPT !.pc = "leaving"]]
    /\ Finalize(p, "ended", TRUE)
    /\ faults' = faults + 1
    /\ UNCHANGED <<active, reserved, disk, writer, cancel, answer, effects>>

(* After the realpath() of the workspace the turn looks whether it still    *)
(* owns the session.                                                        *)
WorkspaceResolved(p) ==
    /\ turn[p].pc = "workspace"
    /\ IF Owns(p) THEN turn' = [turn EXCEPT ![p].pc = "running"] /\ UNCHANGED history
       ELSE turn' = [turn EXCEPT ![p] = [Finalized(turn[p]) EXCEPT !.pc = "ending"]] /\ Finalize(p, "interrupted", FALSE)
    /\ UNCHANGED <<active, reserved, disk, writer, cancel, answer, effects, faults>>

(* Mutant: events of a finalized turn still reach its draft. *)
AcceptsAlways(p) == TRUE

AcceptEvents(p) == turn[p].fin = "none"

(* The provider streams: emitActiveTurnEvent(), updateActiveTurnDraft(). *)
Delta(p) ==
    /\ turn[p].pc = "running" /\ AcceptEvents(p)
    /\ history' = PutAnswer(p, "streaming")
    /\ UNCHANGED <<turn, active, reserved, disk, writer, cancel, answer, effects, faults>>

(* onApprovalConsumed() of an approved call; consuming it a second time     *)
(* changes nothing, and is then flushed as well.  A turn that lost the      *)
(* session gets an error instead.  Only the continuation holds the          *)
(* receipt, and uses it once.                                               *)
Consume(p) ==
    /\ turn[p].pc = "running" /\ turn[p].receipt
    /\ Owns(p)
    /\ turn' = [turn EXCEPT ![p].pc = "consuming", ![p].receipt = FALSE]
    /\ history' = Restatus("approved", "consumed")
    /\ UNCHANGED <<active, reserved, disk, writer, cancel, answer, effects, faults>>

(* The engine returns or throws.  After an abort only an interrupted answer *)
(* counts; a turn that was finalized by force keeps what it had.            *)
EngineEnds(p, status, text) ==
    LET s == IF turn[p].aborted THEN "interrupted" ELSE status
    IN  /\ turn[p].pc = "running"
        /\ turn' = [turn EXCEPT ![p] = [Finalized(turn[p]) EXCEPT !.pc = "ending"]]
        /\ Finalize(p, s, text)
        /\ UNCHANGED <<active, reserved, disk, writer, cancel, answer, effects, faults>>

(* The finalization is over: the finally of executeReservedPrompt(), and    *)
(* that of its caller.                                                      *)
End(p) ==
    /\ turn[p].pc = "ending" /\ turn[p].fin = "done"
    /\ turn' = [turn EXCEPT ![p] = Gone(turn[p])]
    /\ Release(p)
    /\ UNCHANGED <<history, disk, writer, cancel, answer, effects, faults>>

(* After rejected images nothing releases the turn: the session looks busy  *)
(* until a request drains it.                                               *)
Leave(p) ==
    /\ turn[p].pc = "leaving" /\ turn[p].fin = "done"
    /\ turn' = [turn EXCEPT ![p] = Gone(turn[p])]
    /\ reserved' = IF reserved = p THEN None ELSE reserved
    /\ UNCHANGED <<active, history, disk, writer, cancel, answer, effects, faults>>

-----------------------------------------------------------------------------
(* POST /api/cancel: cancelActiveTurn() *)

Cancel ==
    /\ cancel.pc = "idle" /\ active # None /\ faults < MaxFaults
    /\ cancel' = [pc |-> "waiting", turn |-> active]
    /\ turn' = [turn EXCEPT ![active].aborted = TRUE]
    /\ faults' = faults + 1
    /\ UNCHANGED <<active, reserved, history, disk, writer, answer, effects>>

(* The turn settled in time, or not: then it is finalized by force. *)
CancelSettled ==
    /\ cancel.pc = "waiting" /\ turn[cancel.turn].pc = "done"
    /\ cancel' = Idle
    /\ UNCHANGED <<turn, active, reserved, history, disk, writer, answer, effects, faults>>

CancelTimesOut ==
    LET p == cancel.turn
    IN  /\ cancel.pc = "waiting" /\ turn[p].pc # "done"
        /\ turn' = [turn EXCEPT ![p] = Finalized(turn[p])]
        /\ Finalize(p, "interrupted", FALSE)
        /\ cancel' = [cancel EXCEPT !.pc = "finalizing"]
        /\ UNCHANGED <<active, reserved, disk, writer, answer, effects, faults>>

(* Mutant: a cancellation that timed out leaves the release to the turn. *)
LeaveToTurn(p) == UNCHANGED <<active, reserved>>

(* releaseActiveTurn() alone; the reservation of the turn goes with it. *)
ForceRelease(p) ==
    IF active = p THEN active' = None /\ reserved' = None ELSE UNCHANGED <<active, reserved>>

CancelReleases ==
    /\ cancel.pc = "finalizing" /\ turn[cancel.turn].fin = "done"
    /\ ForceRelease(cancel.turn)
    /\ cancel' = Idle
    /\ UNCHANGED <<turn, history, disk, writer, answer, effects, faults>>

-----------------------------------------------------------------------------
(* POST .../approvals/...: an approval is decided and the turn continued *)

Reserve(activeNow, reservedNow) ==
    IF activeNow = None /\ reservedNow = None
    THEN active' = None /\ reserved' = AnswerToken /\ answer' = [pc |-> "body", turn |-> None]
    ELSE active' = activeNow /\ reserved' = reservedNow /\ answer' = Idle

Answer ==
    /\ answer.pc = "idle" /\ HasUnconsumedApprovals
    /\ IF IsFinalized(active)
       THEN answer' = [pc |-> "draining", turn |-> active] /\ UNCHANGED <<active, reserved>>
       ELSE Reserve(active, reserved)
    /\ UNCHANGED <<turn, history, disk, writer, cancel, effects, faults>>

AnswerDrained ==
    LET d == answer.turn
    IN  /\ answer.pc = "draining" /\ turn[d].fin = "done"
        /\ IF active = d THEN Reserve(None, None) ELSE Reserve(active, reserved)
        /\ UNCHANGED <<turn, history, disk, writer, cancel, effects, faults>>

(* The body was read: resolveApproval(), and persistMutatedMessages().  The *)
(* same decision again is accepted until the approval is consumed; a denial *)
(* consumes it at once.                                                     *)
Decide(status) ==
    /\ answer.pc = "body"
    /\ IF HasUnconsumedApprovals /\ (Has("approved") => status = "approved")
       THEN history' = Restatus("awaiting_approval", status) /\ answer' = [answer EXCEPT !.pc = "flush"]
       ELSE answer' = [answer EXCEPT !.pc = "leave"] /\ UNCHANGED history
    /\ UNCHANGED <<turn, active, reserved, disk, writer, cancel, effects, faults>>

(* runReservedPrompt(): the continuation is a turn without a user message,  *)
(* under the reservation of the answer.                                     *)
Resume(p) ==
    /\ answer.pc = "resume" /\ IsNext(p)
    /\ answer' = Idle
    /\ IF active = None
       THEN active' = p /\ reserved' = reserved /\ Begin(p, "resume")
       ELSE reserved' = None /\ UNCHANGED <<turn, active, history>>
    /\ UNCHANGED <<disk, writer, cancel, effects, faults>>

AnswerLeaves ==
    /\ answer.pc = "leave"
    /\ answer' = Idle
    /\ reserved' = IF reserved = AnswerToken THEN None ELSE reserved
    /\ UNCHANGED <<turn, active, history, disk, writer, cancel, effects, faults>>

-----------------------------------------------------------------------------
(* The process dies and starts again. *)
Crash ==
    /\ faults < MaxFaults
    /\ faults' = faults + 1
    /\ turn' = [p \in Prompt |-> IF turn[p].pc = "idle" THEN turn[p] ELSE Gone(turn[p])]
    /\ active' = None /\ reserved' = None
    /\ history' = Recovered(disk)
    /\ writer' = None /\ cancel' = Idle /\ answer' = Idle
    /\ UNCHANGED <<disk, effects>>

(* What the process does by itself once it has begun; the provider, the     *)
(* images and the clients are not part of it.                               *)
Internal ==
    \/ \E p \in Prompt : StartWrite(<<"final", p>>) \/ StartWrite(<<"consume", p>>)
    \/ StartWrite(<<"answer", None>>)
    \/ \E ok \in BOOLEAN : EndWrite(ok)
    \/ \E p \in Prompt : Drain(p) \/ Drained(p) \/ WorkspaceResolved(p) \/ End(p) \/ Leave(p)
    \/ CancelSettled \/ CancelReleases \/ AnswerDrained \/ AnswerLeaves
    \/ CancelTimesOut

Next ==
    \/ Internal
    \/ StartWrite(<<"timer", None>>)
    \/ \E p \in Prompt :
        \/ \E kind \in Kind : IF kind = "direct" THEN Direct(p) ELSE Request(p, kind)
        \/ ImagesPersisted(p) \/ ImagesFail(p) \/ Delta(p) \/ Consume(p) \/ Resume(p)
        \/ \E text \in BOOLEAN : EngineEnds(p, "ended", text)
        \/ ~AskedBefore /\ EngineEnds(p, "awaiting_approval", TRUE)
    \/ Cancel \/ Answer \/ \E status \in {"approved", "denied"} : Decide(status)
    \/ Crash

Spec == Init /\ [][Next]_vars

(* Writes end, timers fire and promises continue; a provider may hang.      *)
FairSpec ==
    /\ Spec
    /\ SF_vars(\E p \in Prompt : StartWrite(<<"final", p>>))
    /\ WF_vars(\E ok \in BOOLEAN : EndWrite(ok))
    /\ WF_vars(CancelSettled \/ CancelTimesOut \/ CancelReleases)

-----------------------------------------------------------------------------
(* Properties *)

Pc == {"idle", "checked", "draining", "images", "workspace", "running", "consuming", "ending", "leaving", "done"}

TurnState ==
    [pc : Pc, kind : {"text", "images", "direct", "resume"}, waits : Prompt \cup {None}, receipt : BOOLEAN, aborted : BOOLEAN,
     fin : {"none", "queued", "done"}, acked : BOOLEAN]

Deciding == {"body", "flush", "resume", "leave"}

AnswerState == [pc : {"idle", "draining"} \cup Deciding, turn : Prompt \cup {None}]

(* The types of the variables; a turn is over only after its finalization   *)
(* (the finally of executeReservedPrompt() awaits it).                      *)
TypeOK ==
    /\ turn \in [Prompt -> TurnState]
    /\ \A p \in Prompt : turn[p].pc = "done" => turn[p].fin = "done"
    /\ \A p \in Prompt : turn[p].pc = "draining" => turn[p].waits # None
    /\ active \in Prompt \cup {None}
    /\ reserved \in Prompt \cup {None, AnswerToken}
    /\ cancel \in [pc : {"idle", "waiting", "finalizing"}, turn : Prompt \cup {None}]
    /\ cancel.pc = "idle" <=> cancel.turn = None
    /\ answer \in AnswerState
    /\ effects \in Nat

(* A normal terminal event is a durability acknowledgement: the answer it   *)
(* announced is in state.json from then on, whatever crash or failed write  *)
(* follows.                                                                 *)
DurableAck == \A p \in Prompt : turn[p].acked => Answered(disk, p)

(* A streaming draft belongs to the turn that owns the session: neither a   *)
(* late event of a force-finalized turn nor a restart leaves one behind.    *)
DraftOwned == \A i \in DOMAIN history : IsDraft(history[i]) => active = history[i].turn

(* Who holds the session: what ReservationHonoured rests on, with the write *)
(* of a decision belonging to the answer that waits for it.                 *)
Custody ==
    /\ reserved \in Prompt => active = reserved
    /\ answer.pc \in Deciding => reserved = AnswerToken /\ active = None
    /\ writer # None => (writer.for[1] = "answer" => answer.pc = "flush")

(* While a decision waits for its body or its write under a reservation, no *)
(* turn begins, and no late turn frees the reservation; and a prompt's own  *)
(* reservation does not outlive its hold on the session.                    *)
ReservationHonoured ==
    /\ reserved \in Prompt => active = reserved
    /\ answer.pc \in Deciding => reserved = AnswerToken /\ active = None

(* An approved command starts at most once, although its turn may be        *)
(* cancelled, its write fail, the process die and the decision be repeated. *)
ApprovedOnce == effects <= 1

Of(h, p) ==
    LET own == {i \in DOMAIN h : h[i].turn = p /\ h[i].status \in {"sent", "streaming", "ended", "interrupted"}}
    IN  [i \in own |-> h[i]]

Silent(p) ==
    Of(history', p) # Of(history, p) => active = p \/ active' = p \/ history' = Recovered(disk)

(* Messages of a turn change only while it owns the session: a late promise *)
(* can no longer mutate history.  (The user message of a turn that persists *)
(* images is appended without a look at the owner, see ImagesPersisted.)    *)
HistoryFenced == [][\A p \in Prompt : turn[p].pc # "images" => Silent(p)]_vars

CancelPending == active # None /\ turn[active].aborted /\ turn[active].pc # "done"

(* A cancellation frees the session, even from a provider that never        *)
(* answers: no aborted turn stays its owner.  (One that returned without    *)
(* releasing it does, see Leave.)                                           *)
CancelFrees == CancelPending ~> ~CancelPending
=============================================================================
