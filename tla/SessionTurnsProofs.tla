-------------------------- MODULE SessionTurnsProofs --------------------------
(* Who holds a session, for any number of prompts, faults and decisions.    *)
EXTENDS SessionTurns, TLAPS

(* The token of an answer is no prompt, and nobody is neither. *)
LEMMA Tokens == AnswerToken \notin Prompt /\ None \notin Prompt /\ None # AnswerToken
BY SessionTurnsAssumption DEF AnswerToken, Prompt

(* A write is started for the answer only when the answer waits for it. *)
LEMMA AnswerFlushes ==
  ASSUME NEW w \in Flushers, w[1] = "answer" PROVE answer.pc = "flush"
<1>1. CASE w \in {<<"final", p>> : p \in {q \in Prompt : turn[q].fin = "queued"}}
  BY <1>1
<1>2. CASE w \in {<<"consume", p>> : p \in {q \in Prompt : turn[q].pc = "consuming"}}
  BY <1>2
<1>3. CASE w \in IF answer.pc = "flush" THEN {<<"answer", None>>} ELSE {}
  BY <1>3
<1>4. CASE w \in IF history # disk THEN {<<"timer", None>>} ELSE {}
  BY <1>4
<1> QED
  BY <1>1, <1>2, <1>3, <1>4 DEF Flushers

(* What the steps make of the record of a turn is one again. *)
LEMMA NewTurn == NoTurn \in TurnState
BY DEF NoTurn, TurnState, Pc

(* A turn that died with its process is over and finalized. *)
LEMMA Over ==
  ASSUME NEW r \in TurnState PROVE Gone(r) \in TurnState /\ Gone(r).pc = "done" /\ Gone(r).fin = "done"
BY DEF NoTurn, TurnState, Gone, Pc

(* Moving a turn along leaves its finalization alone. *)
LEMMA AtPc ==
  ASSUME NEW r \in TurnState, NEW pc \in Pc
  PROVE  LET t == [r EXCEPT !.pc = pc] IN t \in TurnState /\ t.pc = pc /\ t.fin = r.fin /\ t.waits = r.waits
BY DEF TurnState

(* Aborting a turn leaves it where it is. *)
LEMMA Aborted ==
  ASSUME NEW r \in TurnState
  PROVE  LET t == [r EXCEPT !.aborted = TRUE] IN t \in TurnState /\ t.pc = r.pc /\ t.fin = r.fin /\ t.waits = r.waits
BY DEF TurnState

(* Finalizing touches nothing but the state of the finalization. *)
LEMMA FinalizedEntry ==
  ASSUME NEW r \in TurnState
  PROVE  /\ Finalized(r) \in TurnState /\ Finalized(r).pc = r.pc
         /\ Finalized(r).waits = r.waits /\ (r.fin = "done" => Finalized(r).fin = "done")
<1>1. CASE r.fin = "none"
  <2>1. Finalized(r) = [r EXCEPT !.fin = "queued"]
    BY <1>1 DEF Finalized
  <2> QED
    BY <1>1, <2>1 DEF TurnState
<1>2. CASE r.fin # "none"
  BY <1>2 DEF Finalized
<1> QED
  BY <1>1, <1>2

(* A step that changes one turn to a sound one keeps the type of them all. *)
LEMMA OneTurn ==
  ASSUME turn \in [Prompt -> TurnState],
         \A p \in Prompt : turn[p].pc = "done" => turn[p].fin = "done",
         \A p \in Prompt : turn[p].pc = "draining" => turn[p].waits # None,
         NEW p \in Prompt, NEW r \in TurnState,
         r.pc = "done" => r.fin = "done", r.pc = "draining" => r.waits # None,
         turn' = [turn EXCEPT ![p] = r]
  PROVE  /\ turn' \in [Prompt -> TurnState]
         /\ \A q \in Prompt : turn'[q].pc = "done" => turn'[q].fin = "done"
         /\ \A q \in Prompt : turn'[q].pc = "draining" => turn'[q].waits # None
OBVIOUS

(* A prompt that is let in, or turned away, is a sound turn. *)
LEMMA Admitted ==
  ASSUME TypeOK, NEW p \in Prompt, NEW a \in Prompt \cup {None}, NEW r \in Prompt \cup {None, AnswerToken},
         Admit(p, a, r)
  PROVE  /\ turn' \in [Prompt -> TurnState]
         /\ \A q \in Prompt : turn'[q].pc = "done" => turn'[q].fin = "done"
         /\ \A q \in Prompt : turn'[q].pc = "draining" => turn'[q].waits # None
         /\ active' \in Prompt \cup {None} /\ reserved' \in Prompt \cup {None, AnswerToken}
<1> USE DEF TypeOK
<1>1. CASE a = None /\ r = None
  <2>1. PICK t \in TurnState : t.pc \in {"images", "workspace", "running"} /\ turn' = [turn EXCEPT ![p] = t]
    <3>1. turn[p] \in TurnState /\ Begin(p, turn[p].kind)
      BY <1>1 DEF Admit
    <3>2. CASE turn[p].kind = "images"
      <4>1. [turn[p] EXCEPT !.pc = "images", !.waits = None] \in TurnState
        BY <3>1 DEF TurnState, Pc
      <4> QED
        BY <3>1, <3>2, <4>1 DEF Begin, TurnState, Pc
    <3>3. CASE turn[p].kind = "text"
      <4>1. [turn[p] EXCEPT !.pc = "workspace", !.waits = None] \in TurnState
        BY <3>1 DEF TurnState, Pc
      <4> QED
        BY <3>1, <3>3, <4>1 DEF Begin, TurnState, Pc
    <3>4. CASE turn[p].kind \in {"direct", "resume"}
      <4> DEFINE t == [turn[p] EXCEPT !.pc = "running", !.kind = turn[p].kind, !.receipt = (turn[p].kind = "resume" /\ Has("approved"))]
      <4>1. t \in TurnState /\ t.pc = "running"
        BY <3>1 DEF TurnState, Pc
      <4>2. turn' = [turn EXCEPT ![p] = t]
        BY <3>1, <3>4 DEF Begin
      <4> QED
        BY <4>1, <4>2
    <3> QED
      BY <3>1, <3>2, <3>3, <3>4 DEF TurnState
  <2> QED
    BY <1>1, <2>1, OneTurn DEF Admit
<1>2. CASE ~(a = None /\ r = None)
  BY <1>2, Over, OneTurn DEF Admit
<1> QED
  BY <1>1, <1>2

(* Every request, turn, cancellation and decision keeps its type. *)
THEOREM TypeCorrect == Spec => []TypeOK
<1> USE Tokens
<1>1. Init => TypeOK
  BY NewTurn DEF Init, TypeOK, Idle, AnswerState, Deciding, NoTurn
<1>2. TypeOK /\ [Next]_vars => TypeOK'
  <2> SUFFICES ASSUME TypeOK, [Next]_vars PROVE TypeOK'
    OBVIOUS
  <2> USE DEF TypeOK
  <2>1. ASSUME NEW w, StartWrite(w) PROVE TypeOK'
    BY <2>1 DEF StartWrite
  <2>2. ASSUME NEW ok \in BOOLEAN, EndWrite(ok) PROVE TypeOK'
    <3>1. \A p \in Prompt : /\ turn'[p] \in TurnState
                            /\ turn'[p].pc = "done" => turn'[p].fin = "done"
                            /\ turn'[p].pc = "draining" => turn'[p].waits # None
      <4> SUFFICES ASSUME NEW p \in Prompt
                   PROVE  /\ turn'[p] \in TurnState
                          /\ turn'[p].pc = "done" => turn'[p].fin = "done"
                          /\ turn'[p].pc = "draining" => turn'[p].waits # None
        OBVIOUS
      <4> DEFINE kept == ok /\ Answered(history, p)
                 t == [turn[p] EXCEPT !.fin = "done", !.acked = kept]
      <4>1. kept \in BOOLEAN
        BY DEF Answered
      <4>2. turn[p] \in TurnState
        OBVIOUS
      <4> HIDE DEF kept
      <4>3. t \in TurnState /\ t.pc = turn[p].pc /\ t.waits = turn[p].waits /\ t.fin = "done"
        BY <4>1, <4>2 DEF TurnState
      <4>4. turn'[p] = t \/ turn'[p] = [turn[p] EXCEPT !.pc = "running"] \/ turn'[p] = turn[p]
        BY <2>2 DEF EndWrite, kept
      <4>5. CASE turn'[p] = t
        BY <4>3, <4>5
      <4>6. CASE turn'[p] = [turn[p] EXCEPT !.pc = "running"]
        <5> DEFINE u == [turn[p] EXCEPT !.pc = "running"]
        <5>1. u \in TurnState /\ u.pc = "running"
          BY <4>2, AtPc DEF Pc
        <5> HIDE DEF u
        <5>2. turn'[p] = u
          BY <4>6 DEF u
        <5> QED
          BY <5>1, <5>2
      <4> HIDE DEF t
      <4> QED
        BY <4>4, <4>5, <4>6
    <3>2. turn' \in [Prompt -> TurnState]
      BY <2>2, <3>1 DEF EndWrite
    <3>3. answer' \in AnswerState
      <4>1. answer' = answer \/ answer' = [answer EXCEPT !.pc = "resume"] \/ answer' = [answer EXCEPT !.pc = "leave"]
        BY <2>2 DEF EndWrite
      <4> QED
        BY <4>1 DEF AnswerState, Deciding
    <3>4. effects' \in Nat
      <4>1. effects' = effects + 1 \/ effects' = effects
        BY <2>2 DEF EndWrite
      <4> QED
        BY <4>1
    <3>5. UNCHANGED <<active, reserved, cancel>>
      BY <2>2 DEF EndWrite
    <3> QED
      BY <3>1, <3>2, <3>3, <3>4, <3>5
  <2>3. ASSUME NEW p \in Prompt, Drain(p) PROVE TypeOK'
    <3>1. CASE IsFinalized(active)
      BY <2>3, <3>1 DEF Drain, IsFinalized, TurnState, Pc
    <3>2. CASE ~IsFinalized(active)
      BY <2>3, <3>2, Admitted DEF Drain
    <3> QED
      BY <3>1, <3>2
  <2>4. ASSUME NEW p \in Prompt, Drained(p) PROVE TypeOK'
    BY <2>4, Admitted DEF Drained
  <2>5. ASSUME NEW p \in Prompt, WorkspaceResolved(p) PROVE TypeOK'
    <3>1. CASE Owns(p)
      BY <2>5, <3>1 DEF WorkspaceResolved, TurnState, Pc
    <3>2. CASE ~Owns(p)
      <4> DEFINE r == [Finalized(turn[p]) EXCEPT !.pc = "ending"]
      <4>1. r \in TurnState /\ r.pc = "ending"
        BY FinalizedEntry, AtPc DEF Pc
      <4>2. turn' = [turn EXCEPT ![p] = r]
        BY <2>5, <3>2 DEF WorkspaceResolved
      <4> HIDE DEF r
      <4> QED
        BY <2>5, <4>1, <4>2, OneTurn DEF WorkspaceResolved
    <3> QED
      BY <3>1, <3>2
  <2>6. ASSUME NEW p \in Prompt, ImagesPersisted(p) PROVE TypeOK'
    BY <2>6 DEF ImagesPersisted, TurnState, Pc
  <2>7. ASSUME NEW p \in Prompt, ImagesFail(p) PROVE TypeOK'
    <3> DEFINE r == [Finalized(turn[p]) EXCEPT !.pc = "leaving"]
    <3>1. turn[p] \in TurnState
      BY <2>7
    <3>2. r \in TurnState /\ r.pc = "leaving"
      BY <3>1, FinalizedEntry, AtPc DEF Pc
    <3>3. turn' = [turn EXCEPT ![p] = r]
      BY <2>7 DEF ImagesFail
    <3> HIDE DEF r
    <3> QED
      BY <2>7, <3>2, <3>3, OneTurn DEF ImagesFail
  <2>8. ASSUME NEW p \in Prompt, Delta(p) PROVE TypeOK'
    BY <2>8 DEF Delta
  <2>9. ASSUME NEW p \in Prompt, Consume(p) PROVE TypeOK'
    BY <2>9 DEF Consume, TurnState, Pc
  <2>10. ASSUME NEW p \in Prompt, End(p) PROVE TypeOK'
    <3> DEFINE r == Gone(turn[p])
    <3>1. turn[p] \in TurnState
      BY <2>10
    <3>2. r \in TurnState /\ r.pc = "done" /\ r.fin = "done"
      BY <3>1, Over
    <3>3. turn' = [turn EXCEPT ![p] = r]
      BY <2>10 DEF End
    <3> HIDE DEF r
    <3> QED
      BY <2>10, <3>2, <3>3, OneTurn DEF End, Release
  <2>11. ASSUME NEW p \in Prompt, Leave(p) PROVE TypeOK'
    <3> DEFINE r == Gone(turn[p])
    <3>1. turn[p] \in TurnState
      BY <2>11
    <3>2. r \in TurnState /\ r.pc = "done" /\ r.fin = "done"
      BY <3>1, Over
    <3>3. turn' = [turn EXCEPT ![p] = r]
      BY <2>11 DEF Leave
    <3> HIDE DEF r
    <3> QED
      BY <2>11, <3>2, <3>3, OneTurn DEF Leave
  <2>12. CASE Cancel
    <3> DEFINE r == [turn[active] EXCEPT !.aborted = TRUE]
    <3>1. active \in Prompt /\ turn' = [turn EXCEPT ![active] = r]
      BY <2>12 DEF Cancel
    <3>2. r \in TurnState /\ r.pc = turn[active].pc /\ r.fin = turn[active].fin /\ r.waits = turn[active].waits
      BY <3>1, Aborted
    <3> HIDE DEF r
    <3> QED
      BY <2>12, <3>1, <3>2, OneTurn DEF Cancel
  <2>13. CASE CancelSettled
    BY <2>13 DEF CancelSettled, Idle
  <2>14. CASE CancelTimesOut
    <3> DEFINE p == cancel.turn
    <3>1. p \in Prompt /\ turn' = [turn EXCEPT ![p] = Finalized(turn[p])]
      BY <2>14 DEF CancelTimesOut
    <3>2. cancel' = [cancel EXCEPT !.pc = "finalizing"] /\ cancel.pc # "idle"
      BY <2>14 DEF CancelTimesOut
    <3> HIDE DEF p
    <3>3. /\ turn' \in [Prompt -> TurnState]
          /\ \A q \in Prompt : turn'[q].pc = "done" => turn'[q].fin = "done"
          /\ \A q \in Prompt : turn'[q].pc = "draining" => turn'[q].waits # None
      BY <3>1, FinalizedEntry, OneTurn
    <3> QED
      BY <2>14, <3>2, <3>3 DEF CancelTimesOut
  <2>15. CASE CancelReleases
    BY <2>15 DEF CancelReleases, ForceRelease, Idle
  <2>16. CASE Answer
    BY <2>16 DEF Answer, Reserve, IsFinalized, AnswerState, Deciding, Idle
  <2>17. CASE AnswerDrained
    BY <2>17 DEF AnswerDrained, Reserve, AnswerState, Deciding, Idle
  <2>18. ASSUME NEW status \in {"approved", "denied"}, Decide(status) PROVE TypeOK'
    BY <2>18 DEF Decide, AnswerState, Deciding
  <2>19. ASSUME NEW p \in Prompt, Resume(p) PROVE TypeOK'
    BY <2>19 DEF Resume, Begin, AnswerState, Deciding, Idle, TurnState, Pc
  <2>20. CASE AnswerLeaves
    BY <2>20 DEF AnswerLeaves, AnswerState, Deciding, Idle
  <2>21. ASSUME NEW p \in Prompt, NEW kind \in Kind, kind # "direct", Request(p, kind) PROVE TypeOK'
    <3>1. kind \in {"text", "images"}
      BY <2>21, SessionTurnsAssumption
    <3> DEFINE r == [turn[p] EXCEPT !.pc = "checked", !.kind = kind]
    <3>2. turn[p] \in TurnState
      OBVIOUS
    <3>3. r \in TurnState /\ r.pc = "checked"
      BY <3>1, <3>2 DEF TurnState, Pc
    <3>4. turn' = [turn EXCEPT ![p] = r]
      BY <2>21 DEF Request
    <3> HIDE DEF r
    <3> QED
      BY <2>21, <3>3, <3>4, OneTurn DEF Request
  <2>22. ASSUME NEW p \in Prompt, Direct(p) PROVE TypeOK'
    BY <2>22 DEF Direct, Begin, TurnState, Pc
  <2>23. ASSUME NEW p \in Prompt, NEW status, NEW text, EngineEnds(p, status, text) PROVE TypeOK'
    <3> DEFINE r == [Finalized(turn[p]) EXCEPT !.pc = "ending"]
    <3>1. turn[p] \in TurnState
      BY <2>23
    <3>2. r \in TurnState /\ r.pc = "ending"
      BY <3>1, FinalizedEntry, AtPc DEF Pc
    <3>3. turn' = [turn EXCEPT ![p] = r]
      BY <2>23 DEF EngineEnds
    <3> HIDE DEF r
    <3> QED
      BY <2>23, <3>2, <3>3, OneTurn DEF EngineEnds
  <2>24. CASE Crash
    <3>1. \A p \in Prompt : (turn'[p] = turn[p] /\ turn[p].pc = "idle") \/ turn'[p] = Gone(turn[p])
      BY <2>24 DEF Crash
    <3>2. \A p \in Prompt : turn'[p] \in TurnState /\ turn'[p].pc # "draining"
                            /\ (turn'[p].pc = "done" => turn'[p].fin = "done")
      BY <3>1, Over
    <3>3. turn' \in [Prompt -> TurnState]
      BY <2>24, <3>2 DEF Crash
    <3> QED
      BY <2>24, <3>2, <3>3 DEF Crash, AnswerState, Deciding, Idle
  <2>25. CASE UNCHANGED vars
    BY <2>25 DEF vars
  <2> QED
    BY <2>1, <2>2, <2>3, <2>4, <2>5, <2>6, <2>7, <2>8, <2>9, <2>10, <2>11, <2>12, <2>13, <2>14, <2>15, <2>16, <2>17, <2>18, <2>19, <2>20, <2>21, <2>22, <2>23, <2>24, <2>25 DEF Next, Internal
<1> QED
  BY <1>1, <1>2, PTL DEF Spec

(* A reservation lasts as long as its holder, and nothing else begins under *)
(* the one of a decision.                                                   *)
LEMMA CustodyKept == Spec => []Custody
<1> USE Tokens
<1>1. Init => Custody
  BY DEF Init, Custody, Idle, AnswerState, Deciding
<1>2. TypeOK /\ Custody /\ [Next]_vars => Custody'
  <2> SUFFICES ASSUME TypeOK, Custody, [Next]_vars PROVE Custody'
    OBVIOUS
  <2> USE DEF TypeOK
  <2>1. ASSUME NEW w, StartWrite(w) PROVE Custody'
    BY <2>1, AnswerFlushes DEF StartWrite, Custody
  <2>2. ASSUME NEW ok \in BOOLEAN, EndWrite(ok) PROVE Custody'
    <3>1. CASE writer.for[1] # "answer"
      BY <2>2, <3>1 DEF EndWrite, Custody
    <3>2. CASE writer.for[1] = "answer"
      <4>1. answer.pc = "flush"
        BY <2>2, <3>2 DEF EndWrite, Custody
      <4>2. answer' = [answer EXCEPT !.pc = "resume"] \/ answer' = [answer EXCEPT !.pc = "leave"]
        BY <2>2, <3>2 DEF EndWrite
      <4>3. answer'.pc \in Deciding
        BY <4>2 DEF AnswerState, Deciding
      <4> QED
        BY <2>2, <4>1, <4>3 DEF EndWrite, Custody, Deciding
    <3> QED
      BY <3>1, <3>2
  <2>3. ASSUME NEW p \in Prompt, Drain(p) PROVE Custody'
    BY <2>3 DEF Drain, Admit, Custody
  <2>4. ASSUME NEW p \in Prompt, Drained(p) PROVE Custody'
    BY <2>4 DEF Drained, Admit, Custody
  <2>5. ASSUME NEW p \in Prompt, WorkspaceResolved(p) \/ ImagesPersisted(p) \/ ImagesFail(p) \/ Delta(p) \/ Consume(p)
        PROVE Custody'
    BY <2>5 DEF WorkspaceResolved, ImagesPersisted, ImagesFail, Delta, Consume, Custody
  <2>6. ASSUME NEW p \in Prompt, End(p) PROVE Custody'
    BY <2>6 DEF End, Release, Custody
  <2>7. ASSUME NEW p \in Prompt, Leave(p) PROVE Custody'
    BY <2>7 DEF Leave, Custody
  <2>8. CASE Cancel \/ CancelSettled \/ CancelTimesOut
    BY <2>8 DEF Cancel, CancelSettled, CancelTimesOut, Custody
  <2>9. CASE CancelReleases
    BY <2>9 DEF CancelReleases, ForceRelease, Custody
  <2>10. CASE Answer
    BY <2>10 DEF Answer, Reserve, IsFinalized, Custody, AnswerState, Deciding, Idle
  <2>11. CASE AnswerDrained
    BY <2>11 DEF AnswerDrained, Reserve, Custody, AnswerState, Deciding, Idle
  <2>12. ASSUME NEW status \in {"approved", "denied"}, Decide(status) PROVE Custody'
    BY <2>12 DEF Decide, Custody, AnswerState, Deciding
  <2>13. ASSUME NEW p \in Prompt, Resume(p) PROVE Custody'
    BY <2>13 DEF Resume, Custody, AnswerState, Deciding, Idle
  <2>14. CASE AnswerLeaves
    BY <2>14 DEF AnswerLeaves, Custody, AnswerState, Deciding, Idle
  <2>15. ASSUME NEW p \in Prompt, NEW kind \in Kind, IF kind = "direct" THEN Direct(p) ELSE Request(p, kind)
         PROVE Custody'
    BY <2>15 DEF Direct, Request, Custody
  <2>16. ASSUME NEW p \in Prompt, NEW status, NEW text, EngineEnds(p, status, text) PROVE Custody'
    BY <2>16 DEF EngineEnds, Custody
  <2>17. CASE Crash
    BY <2>17 DEF Crash, Custody, AnswerState, Deciding, Idle
  <2>18. CASE UNCHANGED vars
    BY <2>18 DEF vars, Custody
  <2> QED
    BY <2>1, <2>2, <2>3, <2>4, <2>5, <2>6, <2>7, <2>8, <2>9, <2>10, <2>11, <2>12, <2>13, <2>14, <2>15, <2>16, <2>17,
       <2>18 DEF Next, Internal
<1> QED
  BY <1>1, <1>2, TypeCorrect, PTL DEF Spec

(* No turn begins while a decision is read or written under its             *)
(* reservation, and no late turn frees it (releaseActiveTurn()).            *)
THEOREM Reservations == Spec => []ReservationHonoured
<1>1. Custody => ReservationHonoured
  BY DEF Custody, ReservationHonoured
<1> QED
  BY <1>1, CustodyKept, PTL

-----------------------------------------------------------------------------
(* What the messages promise: an acknowledged answer stays, a draft has an  *)
(* owner, and the verdict on a command is followed once.                    *)

Verdict == {"awaiting_approval", "approved", "consumed", "denied"}

MessageState == [turn : Prompt \cup {None}, role : {"user", "assistant"},
                 status : Verdict \cup {"sent", "streaming", "ended", "interrupted", "removed"}]

Shows(h, status) == \E i \in DOMAIN h : h[i].status = status

(* A list of messages that may be the session's, in memory, in the write    *)
(* under way or on disk: there is one verdict, given by a finalized turn;   *)
(* it is used up if the command was started; acknowledged answers are in it.*)
Sound(h, tn, e) ==
    /\ h \in Seq(MessageState)
    /\ \A i, j \in DOMAIN h : h[i].status \in Verdict /\ h[j].status \in Verdict => h[i].status = h[j].status
    /\ \A i \in DOMAIN h : h[i].status \in Verdict /\ h[i].turn # None => tn[h[i].turn].fin # "none"
    /\ e = 1 => Shows(h, "consumed")
    /\ \A p \in Prompt : tn[p].acked => Answered(h, p)

Messages ==
    /\ Sound(history, turn, effects) /\ Sound(disk, turn, effects)
    /\ writer # None => Sound(writer.snap, turn, effects)
    /\ effects \in {0, 1}

Busy == {"images", "workspace", "running", "consuming"}
Early == {"idle", "checked", "draining"}

(* A turn at work that is not finalized owns the session; the continuation  *)
(* that owns it finds the approval in the history; and once it consumes it, *)
(* no other does.                                                           *)
Turns ==
    \A p \in Prompt :
        /\ turn[p].pc \in Busy /\ turn[p].fin = "none" => active = p
        /\ turn[p].acked => turn[p].fin # "none"
        /\ turn[p].pc \in Early => ~turn[p].receipt
        /\ turn[p].receipt /\ Owns(p) => Shows(history, "approved")
        /\ turn[p].pc = "consuming" =>
              /\ effects = 0 /\ Shows(history, "consumed")
              /\ \A q \in Prompt : turn[q].pc = "consuming" => q = p

Drafts ==
    \A i \in DOMAIN history : IsDraft(history[i]) =>
        /\ history[i].turn \in Prompt /\ active = history[i].turn
        /\ turn[history[i].turn].fin = "none" /\ turn[history[i].turn].pc \in Busy

(* A write has what its waiter relies on. *)
Writes ==
    writer # None =>
        /\ writer.for[1] = "consume" =>
              \E p \in Prompt : /\ writer.for = <<"consume", p>> /\ turn[p].pc = "consuming"
                               /\ Shows(writer.snap, "consumed")
        /\ \A p \in Prompt : writer.for = <<"final", p>> =>
              turn[p].fin # "none" /\ (Answered(history, p) => Answered(writer.snap, p))

Promises == Messages /\ Turns /\ Drafts /\ Writes

-----------------------------------------------------------------------------
(* The messages *)

(* Sound messages stay so while turns go on. *)
LEMMA Later ==
  ASSUME NEW h, NEW tn, NEW tm, NEW e, Sound(h, tn, e),
         \A p \in Prompt : (tn[p].fin # "none" => tm[p].fin # "none") /\ (tm[p].acked => tn[p].acked)
  PROVE  Sound(h, tm, e)
<1>1. \A i \in DOMAIN h : h[i] \in MessageState
  BY DEF Sound
<1>2. \A i \in DOMAIN h : h[i].turn \in Prompt \cup {None}
  BY <1>1 DEF MessageState
<1> QED
  BY <1>2 DEF Sound

(* The user's message of a turn. *)
LEMMA UserMessage ==
  ASSUME NEW h, NEW tn, NEW e, Sound(h, tn, e), NEW p \in Prompt
  PROVE  LET g == Append(h, Message(p, "user", "sent"))
         IN  /\ Sound(g, tn, e)
             /\ \A status \in Verdict : Shows(h, status) => Shows(g, status)
             /\ \A q \in Prompt : Answered(g, q) <=> Answered(h, q)
             /\ \A i \in DOMAIN g : IsDraft(g[i]) => i \in DOMAIN h /\ g[i] = h[i]
<1> DEFINE m == Message(p, "user", "sent")
           g == Append(h, m)
<1>1. m \in MessageState /\ m.status = "sent" /\ m.role = "user" /\ h \in Seq(MessageState)
  BY DEF Message, MessageState, Sound
<1> HIDE DEF m
<1>2. /\ g \in Seq(MessageState) /\ DOMAIN h \subseteq DOMAIN g
      /\ \A i \in DOMAIN h : g[i] = h[i]
      /\ \A i \in DOMAIN g : i \in DOMAIN h \/ g[i] = m
  BY <1>1
<1> HIDE DEF g
<1>3. \A status \in Verdict : Shows(h, status) => Shows(g, status)
  BY <1>2 DEF Shows
<1>4. \A q \in Prompt : Answered(g, q) <=> Answered(h, q)
  BY <1>1, <1>2 DEF Answered, IsDraft
<1>5. \A i \in DOMAIN g : IsDraft(g[i]) => i \in DOMAIN h /\ g[i] = h[i]
  BY <1>1, <1>2 DEF IsDraft
<1>6. \A i \in DOMAIN g : g[i].status \in Verdict => i \in DOMAIN h /\ g[i] = h[i]
  BY <1>1, <1>2 DEF Verdict
<1>7. Sound(g, tn, e)
  BY <1>2, <1>3, <1>4, <1>6 DEF Sound, Verdict
<1> QED
  BY <1>3, <1>4, <1>5, <1>7 DEF g, m

(* What a finalization or an event makes of a turn's answer. *)
LEMMA PutMessage ==
  ASSUME history \in Seq(MessageState), NEW p \in Prompt, NEW status \in Verdict \cup {"streaming", "ended", "interrupted", "removed"}
  PROVE  LET g == PutAnswer(p, status)
         IN  /\ g \in Seq(MessageState) /\ DOMAIN history \subseteq DOMAIN g
             /\ \A i \in DOMAIN g :
                   \/ i \in DOMAIN history /\ g[i] = history[i] /\ ~(g[i].turn = p /\ g[i].role = "assistant")
                   \/ g[i].turn = p /\ g[i].role = "assistant" /\ g[i].status = status
             /\ \A i \in DOMAIN history : g[i].turn = history[i].turn /\ g[i].role = history[i].role
<1> DEFINE mine(m) == m.turn = p /\ m.role = "assistant"
           g == PutAnswer(p, status)
<1>1. CASE \E i \in DOMAIN history : mine(history[i])
  <2> DEFINE f(i) == IF mine(history[i]) THEN [history[i] EXCEPT !.status = status] ELSE history[i]
  <2>1. g = [i \in DOMAIN history |-> f(i)]
    BY <1>1 DEF PutAnswer
  <2>2. \A i \in DOMAIN history : history[i] \in MessageState
    OBVIOUS
  <2>3. \A i \in DOMAIN history : /\ f(i) \in MessageState
                                 /\ f(i).turn = history[i].turn /\ f(i).role = history[i].role
                                 /\ \/ mine(history[i]) /\ f(i).status = status
                                    \/ f(i) = history[i] /\ ~mine(history[i])
    BY <2>2 DEF MessageState
  <2> HIDE DEF g, f
  <2>4. g \in Seq(MessageState) /\ DOMAIN g = DOMAIN history /\ \A i \in DOMAIN history : g[i] = f(i)
    BY <2>1, <2>3
  <2> QED
    BY <2>3, <2>4 DEF g
<1>2. CASE ~\E i \in DOMAIN history : mine(history[i])
  <2> DEFINE m == Message(p, "assistant", status)
  <2>1. m \in MessageState /\ m.turn = p /\ m.role = "assistant" /\ m.status = status
    BY DEF Message, MessageState
  <2>2. g = Append(history, m)
    BY <1>2 DEF PutAnswer
  <2> HIDE DEF m, g
  <2>3. /\ g \in Seq(MessageState) /\ DOMAIN history \subseteq DOMAIN g
        /\ \A i \in DOMAIN history : g[i] = history[i]
        /\ \A i \in DOMAIN g : i \in DOMAIN history \/ g[i] = m
    BY <2>1, <2>2
  <2> QED
    BY <1>2, <2>1, <2>3 DEF g
<1> QED
  BY <1>1, <1>2

(* An answer that is no verdict, of a turn that is not finalized. *)
LEMMA AnswerPut ==
  ASSUME NEW e, Sound(history, turn, e), NEW p \in Prompt, turn[p].fin = "none", ~turn[p].acked,
         NEW status \in {"streaming", "ended", "interrupted", "removed"}
  PROVE  LET g == PutAnswer(p, status)
         IN  /\ Sound(g, turn, e)
             /\ \A v \in Verdict : Shows(history, v) => Shows(g, v)
             /\ \A q \in Prompt : q # p => (Answered(g, q) <=> Answered(history, q))
             /\ \A i \in DOMAIN g : IsDraft(g[i]) =>
                   \/ g[i].turn = p /\ status = "streaming"
                   \/ g[i].turn # p /\ i \in DOMAIN history /\ g[i] = history[i]
<1> DEFINE g == PutAnswer(p, status)
<1>1. /\ g \in Seq(MessageState) /\ DOMAIN history \subseteq DOMAIN g
      /\ \A i \in DOMAIN g :
            \/ i \in DOMAIN history /\ g[i] = history[i] /\ ~(g[i].turn = p /\ g[i].role = "assistant")
            \/ g[i].turn = p /\ g[i].role = "assistant" /\ g[i].status = status
      /\ \A i \in DOMAIN history : g[i].turn = history[i].turn /\ g[i].role = history[i].role
  BY PutMessage DEF Sound
<1> HIDE DEF g
<1>2. \A i \in DOMAIN g : g[i].status \in Verdict => i \in DOMAIN history /\ g[i] = history[i]
  BY <1>1 DEF Verdict
<1>3. \A i \in DOMAIN history : history[i].status \in Verdict => g[i] = history[i]
  <2> SUFFICES ASSUME NEW i \in DOMAIN history, history[i].status \in Verdict PROVE g[i] = history[i]
    OBVIOUS
  <2>1. history[i].turn # p
    BY Tokens DEF Sound
  <2> QED
    BY <1>1, <2>1
<1>4. \A v \in Verdict : Shows(history, v) => Shows(g, v)
  BY <1>1, <1>3 DEF Shows
<1>5. \A q \in Prompt : q # p => (Answered(g, q) <=> Answered(history, q))
  BY <1>1 DEF Answered
<1>6. \A i \in DOMAIN g : IsDraft(g[i]) =>
        \/ g[i].turn = p /\ status = "streaming"
        \/ g[i].turn # p /\ i \in DOMAIN history /\ g[i] = history[i]
  BY <1>1 DEF IsDraft
<1>7. Sound(g, turn, e)
  BY <1>1, <1>2, <1>4, <1>5 DEF Sound, Verdict
<1> QED
  BY <1>4, <1>5, <1>6, <1>7 DEF g

(* A question of a turn that is finalized with it, the first one. *)
LEMMA AskPut ==
  ASSUME NEW e, Sound(history, turn, e), ~AskedBefore, NEW p \in Prompt, turn[p].fin = "none", ~turn[p].acked,
         NEW tm, tm[p].fin # "none", \A q \in Prompt : tm[q].acked => turn[q].acked
  PROVE  LET g == PutAnswer(p, "awaiting_approval")
         IN  /\ Sound(g, tm, e)
             /\ ~Shows(history, "approved") /\ ~Shows(history, "consumed")
             /\ \A q \in Prompt : q # p => (Answered(g, q) <=> Answered(history, q))
             /\ \A i \in DOMAIN g : IsDraft(g[i]) => g[i].turn # p /\ i \in DOMAIN history /\ g[i] = history[i]
<1> DEFINE g == PutAnswer(p, "awaiting_approval")
<1>1. /\ g \in Seq(MessageState) /\ DOMAIN history \subseteq DOMAIN g
      /\ \A i \in DOMAIN g :
            \/ i \in DOMAIN history /\ g[i] = history[i] /\ ~(g[i].turn = p /\ g[i].role = "assistant")
            \/ g[i].turn = p /\ g[i].role = "assistant" /\ g[i].status = "awaiting_approval"
      /\ \A i \in DOMAIN history : g[i].turn = history[i].turn /\ g[i].role = history[i].role
  <2>1. "awaiting_approval" \in Verdict \cup {"streaming", "ended", "interrupted", "removed"}
    BY DEF Verdict
  <2> QED
    BY <2>1, PutMessage DEF Sound
<1> HIDE DEF g
<1>2. \A i \in DOMAIN history : history[i].status \notin Verdict
  BY DEF AskedBefore, HasUnconsumedApprovals, Has, Verdict
<1>3. \A i \in DOMAIN g : g[i].status \in Verdict => g[i].status = "awaiting_approval" /\ g[i].turn = p
  BY <1>1, <1>2
<1>4. ~Shows(history, "approved") /\ ~Shows(history, "consumed") /\ e # 1
  BY <1>2 DEF Shows, Verdict, Sound
<1>5. \A q \in Prompt : q # p => (Answered(g, q) <=> Answered(history, q))
  BY <1>1 DEF Answered
<1>6. \A i \in DOMAIN g : IsDraft(g[i]) => g[i].turn # p /\ i \in DOMAIN history /\ g[i] = history[i]
  BY <1>1 DEF IsDraft
<1>7. Sound(g, tm, e)
  BY <1>1, <1>3, <1>4, <1>5 DEF Sound
<1> QED
  BY <1>4, <1>5, <1>6, <1>7 DEF g

(* A decision, and its consumption. *)
LEMMA VerdictPut ==
  ASSUME NEW tn, NEW e, Sound(history, tn, e), NEW from \in {"awaiting_approval", "approved"}, NEW to \in Verdict
  PROVE  LET g == Restatus(from, to)
         IN  /\ Sound(g, tn, e)
             /\ \A v \in Verdict : v # from /\ Shows(history, v) => Shows(g, v)
             /\ Shows(history, from) => Shows(g, to)
             /\ \A q \in Prompt : Answered(g, q) <=> Answered(history, q)
             /\ \A i \in DOMAIN g : IsDraft(g[i]) => i \in DOMAIN history /\ g[i] = history[i]
<1> DEFINE f(i) == IF history[i].status = from THEN [history[i] EXCEPT !.status = to] ELSE history[i]
           g == Restatus(from, to)
<1>1. \A i \in DOMAIN history : history[i] \in MessageState
  BY DEF Sound
<1>2. \A i \in DOMAIN history : /\ f(i) \in MessageState
                               /\ f(i).turn = history[i].turn /\ f(i).role = history[i].role
                               /\ \/ history[i].status = from /\ f(i).status = to
                                  \/ history[i].status # from /\ f(i) = history[i]
  BY <1>1 DEF MessageState, Verdict
<1>3. g = [i \in DOMAIN history |-> f(i)] /\ history \in Seq(MessageState)
  BY DEF Restatus, Sound
<1> HIDE DEF f, g
<1>4. g \in Seq(MessageState) /\ DOMAIN g = DOMAIN history /\ \A i \in DOMAIN history : g[i] = f(i)
  BY <1>2, <1>3
<1>5. \A v \in Verdict : v # from /\ Shows(history, v) => Shows(g, v)
  BY <1>2, <1>4 DEF Shows
<1>6. Shows(history, from) => Shows(g, to)
  BY <1>2, <1>4 DEF Shows
<1>7. \A q \in Prompt : Answered(g, q) <=> Answered(history, q)
  BY <1>2, <1>4 DEF Answered, Verdict
<1>8. \A i \in DOMAIN g : IsDraft(g[i]) => g[i] = history[i]
  BY <1>2, <1>4 DEF IsDraft, Verdict
<1>9. \A i \in DOMAIN g : g[i].status \in Verdict <=> history[i].status \in Verdict
  BY <1>2, <1>4 DEF Verdict
<1>10. \A i, j \in DOMAIN g : g[i].status \in Verdict /\ g[j].status \in Verdict => g[i].status = g[j].status
  BY <1>2, <1>4, <1>9 DEF Sound
<1>11. Sound(g, tn, e)
  <2>1. "consumed" \in Verdict /\ "consumed" # from
    BY DEF Verdict
  <2>2. \A i \in DOMAIN g : g[i].status \in Verdict /\ g[i].turn # None => tn[g[i].turn].fin # "none"
    BY <1>2, <1>4, <1>9 DEF Sound
  <2> QED
    BY <1>4, <1>5, <1>7, <1>10, <2>1, <2>2 DEF Sound
<1> QED
  BY <1>4, <1>5, <1>6, <1>7, <1>8, <1>11 DEF g

(* What a restart makes of the messages on disk. *)
LEMMA RecoveredSound ==
  ASSUME NEW h, NEW tn, NEW e, Sound(h, tn, e)
  PROVE  Sound(Recovered(h), tn, e) /\ \A i \in DOMAIN Recovered(h) : ~IsDraft(Recovered(h)[i])
<1> DEFINE f(i) == IF IsDraft(h[i]) THEN [h[i] EXCEPT !.status = "interrupted"] ELSE h[i]
           g == Recovered(h)
<1>1. \A i \in DOMAIN h : h[i] \in MessageState
  BY DEF Sound
<1>2. \A i \in DOMAIN h : /\ f(i) \in MessageState /\ ~IsDraft(f(i))
                         /\ f(i).turn = h[i].turn /\ f(i).role = h[i].role
                         /\ \/ IsDraft(h[i]) /\ f(i).status = "interrupted"
                            \/ f(i) = h[i]
  BY <1>1 DEF MessageState, IsDraft
<1>3. g = [i \in DOMAIN h |-> f(i)] /\ h \in Seq(MessageState)
  BY DEF Recovered, Sound
<1> HIDE DEF f, g
<1>4. g \in Seq(MessageState) /\ DOMAIN g = DOMAIN h /\ \A i \in DOMAIN h : g[i] = f(i)
  BY <1>2, <1>3
<1>5. \A i \in DOMAIN g : ~IsDraft(g[i])
  BY <1>2, <1>4
<1>6. \A i \in DOMAIN g : (g[i].status \in Verdict => g[i] = h[i]) /\ (h[i].status \in Verdict => g[i] = h[i])
  BY <1>2, <1>4 DEF Verdict, IsDraft
<1>7. Shows(h, "consumed") => Shows(g, "consumed")
  BY <1>4, <1>6 DEF Shows, Verdict
<1>8. \A p \in Prompt : Answered(h, p) => Answered(g, p)
  BY <1>2, <1>4 DEF Answered
<1>9. Sound(g, tn, e)
  BY <1>4, <1>6, <1>7, <1>8 DEF Sound
<1> QED
  BY <1>5, <1>9 DEF g

(* The end of a turn that asks nothing. *)
LEMMA Finalizing ==
  ASSUME NEW e, Sound(history, turn, e), NEW p \in Prompt, turn[p].acked => turn[p].fin # "none",
         NEW status \in {"ended", "interrupted"}, NEW text, Finalize(p, status, text)
  PROVE  /\ Sound(history', turn, e)
         /\ \A v \in Verdict : Shows(history, v) => Shows(history', v)
         /\ \A q \in Prompt : turn[q].fin # "none" => (Answered(history', q) <=> Answered(history, q))
         /\ \A i \in DOMAIN history' : IsDraft(history'[i]) =>
               /\ i \in DOMAIN history /\ history'[i] = history[i]
               /\ turn[p].fin = "none" => history'[i].turn # p
<1>1. ASSUME turn[p].fin = "none", NEW s \in {status, "removed"}, history' = PutAnswer(p, s)
      PROVE  /\ Sound(history', turn, e)
             /\ \A v \in Verdict : Shows(history, v) => Shows(history', v)
             /\ \A q \in Prompt : turn[q].fin # "none" => (Answered(history', q) <=> Answered(history, q))
             /\ \A i \in DOMAIN history' : IsDraft(history'[i]) =>
                   /\ i \in DOMAIN history /\ history'[i] = history[i]
                   /\ turn[p].fin = "none" => history'[i].turn # p
  BY <1>1, AnswerPut
<1>2. CASE history' = history /\ (turn[p].fin = "none" => ~\E i \in DOMAIN history : history[i].turn = p /\ IsDraft(history[i]))
  BY <1>2
<1> QED
  BY <1>1, <1>2 DEF Finalize

-----------------------------------------------------------------------------
(* The steps *)

(* A step that neither writes, consumes nor restarts. *)
LEMMA Calm ==
  ASSUME Promises, UNCHANGED <<disk, writer, effects>>,
         \A q \in Prompt :
            /\ turn[q].fin # "none" => turn'[q].fin # "none"
            /\ turn'[q].acked => turn[q].acked
            /\ turn'[q].pc = "consuming" <=> turn[q].pc = "consuming"
            /\ turn'[q].pc \in Early => ~turn'[q].receipt
            /\ turn'[q].pc \in Busy /\ turn'[q].fin = "none" => active' = q
            /\ turn'[q].receipt /\ Owns(q)' => Shows(history', "approved")
            /\ turn[q].fin # "none" => (Answered(history', q) => Answered(history, q)),
         Sound(history', turn', effects),
         Shows(history, "consumed") => Shows(history', "consumed"),
         Drafts'
  PROVE  Promises'
<1> USE DEF Promises
<1>1. Messages'
  <2>1. Sound(disk, turn', effects) /\ (writer # None => Sound(writer.snap, turn', effects))
    BY Later DEF Messages
  <2> QED
    BY <2>1 DEF Messages
<1>2. Turns'
  BY DEF Turns
<1>3. Writes'
  BY DEF Writes
<1> QED
  BY <1>1, <1>2, <1>3

(* No turn moves, and at most a finalized one loses the session. *)
LEMMA Standing ==
  ASSUME Promises, UNCHANGED <<turn, history, disk, writer, effects>>,
         active' = active \/ (active' = None /\ (active # None => turn[active].fin # "none"))
  PROVE  Promises'
<1>1. \A q \in Prompt : active = q /\ turn[q].fin = "none" => active' = q
  BY Tokens
<1>2. \A q \in Prompt : Owns(q)' => Owns(q)
  BY Tokens DEF Owns
<1>3. Drafts'
  BY <1>1 DEF Promises, Drafts
<1>4. Sound(history', turn', effects)
  BY DEF Promises, Messages
<1>5. \A q \in Prompt :
            /\ turn'[q].pc \in Early => ~turn'[q].receipt
            /\ turn'[q].pc \in Busy /\ turn'[q].fin = "none" => active' = q
            /\ turn'[q].receipt /\ Owns(q)' => Shows(history', "approved")
  BY <1>1, <1>2 DEF Promises, Turns
<1> QED
  BY <1>3, <1>4, <1>5, Calm

(* One turn moves. *)
LEMMA Moving ==
  ASSUME TypeOK, Promises, UNCHANGED <<disk, writer, effects>>,
         NEW p \in Prompt, NEW r, turn' = [turn EXCEPT ![p] = r],
         turn[p].fin # "none" => r.fin # "none", r.acked => turn[p].acked,
         r.pc = "consuming" <=> turn[p].pc = "consuming",
         r.pc \in Early => ~r.receipt,
         r.receipt => (turn[p].receipt /\ (turn[p].aborted => r.aborted)) \/ Shows(history', "approved"),
         r.pc \in Busy /\ r.fin = "none" => active' = p,
         \/ active' = active
         \/ /\ active' \in {None, p} /\ (active # None => turn[active].fin # "none")
            /\ r.receipt => Shows(history', "approved"),
         Sound(history', turn', effects),
         \A v \in {"approved", "consumed"} : Shows(history, v) => Shows(history', v),
         \A q \in Prompt : turn[q].fin # "none" => (Answered(history', q) => Answered(history, q)),
         \A i \in DOMAIN history' : IsDraft(history'[i]) =>
            \/ history'[i].turn = p /\ r.fin = "none" /\ r.pc \in Busy
            \/ history'[i].turn # p /\ i \in DOMAIN history /\ history'[i] = history[i]
  PROVE  Promises'
<1>1. \A q \in Prompt : turn'[q] = IF q = p THEN r ELSE turn[q]
  BY DEF TypeOK
<1>2. \A q \in Prompt : q # p /\ active = q /\ turn[q].fin = "none" => active' = q
  BY Tokens
<1>4. \A q \in Prompt : turn'[q].receipt /\ Owns(q)' => Shows(history', "approved")
  <2> SUFFICES ASSUME NEW q \in Prompt, turn'[q].receipt, active' = q, ~turn'[q].aborted, ~Shows(history', "approved")
               PROVE  FALSE
    BY DEF Owns
  <2>1. turn[q].receipt /\ active = q /\ ~turn[q].aborted
    <3>1. CASE q = p
      BY <1>1, <3>1
    <3>2. CASE q # p
      BY <1>1, <3>2, Tokens
    <3> QED
      BY <3>1, <3>2
  <2> QED
    BY <2>1 DEF Promises, Turns, Owns
<1>5. \A q \in Prompt : /\ turn'[q].pc \in Early => ~turn'[q].receipt
                        /\ turn'[q].pc \in Busy /\ turn'[q].fin = "none" => active' = q
                        /\ turn'[q].pc = "consuming" <=> turn[q].pc = "consuming"
                        /\ turn[q].fin # "none" => turn'[q].fin # "none"
                        /\ turn'[q].acked => turn[q].acked
  BY <1>1, <1>2 DEF Promises, Turns
<1>6. Drafts'
  <2> SUFFICES ASSUME NEW i \in DOMAIN history', IsDraft(history'[i])
               PROVE  /\ history'[i].turn \in Prompt /\ active' = history'[i].turn
                      /\ turn'[history'[i].turn].fin = "none" /\ turn'[history'[i].turn].pc \in Busy
    BY DEF Drafts, IsDraft
  <2>1. CASE history'[i].turn = p /\ r.fin = "none" /\ r.pc \in Busy
    BY <1>1, <2>1
  <2>2. CASE history'[i].turn # p /\ i \in DOMAIN history /\ history'[i] = history[i]
    BY <1>1, <1>2, <2>2 DEF Promises, Drafts
  <2> QED
    BY <2>1, <2>2
<1> QED
  BY <1>4, <1>5, <1>6, Calm

(* One turn moves and says nothing. *)
LEMMA MovingSilently ==
  ASSUME TypeOK, Promises, UNCHANGED <<history, disk, writer, effects>>,
         NEW p \in Prompt, NEW r, turn' = [turn EXCEPT ![p] = r],
         r.fin = turn[p].fin \/ (turn[p].pc \notin Busy /\ r.fin # "none"), r.acked => turn[p].acked,
         r.pc = "consuming" <=> turn[p].pc = "consuming",
         turn[p].pc \in Busy /\ turn[p].fin = "none" => r.pc \in Busy,
         r.pc \in Early => ~r.receipt,
         r.receipt => (turn[p].receipt /\ (turn[p].aborted => r.aborted)) \/ Shows(history, "approved"),
         r.pc \in Busy /\ r.fin = "none" => active' = p,
         \/ active' = active
         \/ /\ active' \in {None, p} /\ (active # None => turn[active].fin # "none")
            /\ r.receipt => Shows(history, "approved")
  PROVE  Promises'
<1>1. \A q \in Prompt : turn'[q] = IF q = p THEN r ELSE turn[q]
  BY DEF TypeOK
<1>2. turn[p].fin # "none" => r.fin # "none"
  OBVIOUS
<1>3. Sound(history', turn', effects)
  <2>1. \A q \in Prompt : (turn[q].fin # "none" => turn'[q].fin # "none") /\ (turn'[q].acked => turn[q].acked)
    BY <1>1, <1>2
  <2>2. Sound(history, turn', effects)
    BY <2>1, Later DEF Promises, Messages
  <2> QED
    BY <2>2
<1>4. \A i \in DOMAIN history' : IsDraft(history'[i]) =>
            \/ history'[i].turn = p /\ r.fin = "none" /\ r.pc \in Busy
            \/ history'[i].turn # p /\ i \in DOMAIN history /\ history'[i] = history[i]
  BY DEF Promises, Drafts
<1> QED
  BY <1>2, <1>3, <1>4, Moving

(* What a turn that comes to own a free session finds. *)
LEMMA Continuing ==
  ASSUME TypeOK, Promises, UNCHANGED <<disk, writer, effects>>,
         NEW p \in Prompt, turn[p].pc \in Early, NEW kind \in {"direct", "resume"}, Begin(p, kind),
         active' = p, active # None => turn[active].fin # "none"
  PROVE  Promises'
<1> DEFINE receipt == kind = "resume" /\ Has("approved")
           r == [turn[p] EXCEPT !.pc = "running", !.kind = kind, !.receipt = receipt]
<1>1. turn[p] \in TurnState
  BY DEF TypeOK
<1>2. turn' = [turn EXCEPT ![p] = r] /\ history' = history
  BY DEF Begin
<1>3. receipt => Shows(history, "approved")
  BY DEF Has, Shows
<1> HIDE DEF receipt
<1>4. r.pc = "running" /\ r.fin = turn[p].fin /\ r.acked = turn[p].acked /\ r.receipt = receipt
  BY <1>1 DEF TurnState
<1> HIDE DEF r
<1> QED
  BY <1>2, <1>3, <1>4, MovingSilently DEF Busy, Early

(* A turn moves as the user's message is appended. *)
LEMMA MovingWithUserMessage ==
  ASSUME TypeOK, Promises, UNCHANGED <<disk, writer, effects>>,
         NEW p \in Prompt, NEW r, turn' = [turn EXCEPT ![p] = r],
         history' = Append(history, Message(p, "user", "sent")),
         r.fin = turn[p].fin, r.acked => turn[p].acked,
         turn[p].pc # "consuming", r.pc = "workspace",
         r.receipt => turn[p].receipt /\ (turn[p].aborted => r.aborted),
         r.fin = "none" => active' = p,
         \/ active' = active
         \/ active' = p /\ (active # None => turn[active].fin # "none") /\ ~r.receipt
  PROVE  Promises'
<1>1. Sound(history, turn, effects)
  BY DEF Promises, Messages
<1>2. /\ Sound(history', turn, effects)
      /\ \A v \in Verdict : Shows(history, v) => Shows(history', v)
      /\ \A q \in Prompt : Answered(history', q) <=> Answered(history, q)
      /\ \A i \in DOMAIN history' : IsDraft(history'[i]) => i \in DOMAIN history /\ history'[i] = history[i]
  BY <1>1, UserMessage
<1>3. \A q \in Prompt : (turn[q].fin # "none" => turn'[q].fin # "none") /\ (turn'[q].acked => turn[q].acked)
  BY DEF TypeOK
<1>4. Sound(history', turn', effects)
  BY <1>2, <1>3, Later
<1>5. \A i \in DOMAIN history' : IsDraft(history'[i]) =>
         \/ history'[i].turn = p /\ r.fin = "none" /\ r.pc \in Busy
         \/ history'[i].turn # p /\ i \in DOMAIN history /\ history'[i] = history[i]
  BY <1>2 DEF Promises, Drafts, Busy
<1>6. \A v \in {"approved", "consumed"} : Shows(history, v) => Shows(history', v)
  BY <1>2 DEF Verdict
<1>7. \A q \in Prompt : turn[q].fin # "none" => (Answered(history', q) => Answered(history, q))
  BY <1>2
<1>8. r.pc \notin Early /\ (r.pc = "consuming" <=> turn[p].pc = "consuming")
  BY DEF Early
<1>9. \/ active' = active
      \/ /\ active' \in {None, p} /\ (active # None => turn[active].fin # "none")
         /\ r.receipt => Shows(history', "approved")
  OBVIOUS
<1> QED
  BY <1>4, <1>5, <1>6, <1>7, <1>8, <1>9, Moving

(* A request is let in, or turned away. *)
LEMMA Admitting ==
  ASSUME TypeOK, Promises, UNCHANGED <<disk, writer, effects>>,
         NEW p \in Prompt, turn[p].pc \in {"checked", "draining"},
         NEW a, NEW b, Admit(p, a, b),
         \/ a = active
         \/ a = None /\ b = None /\ active # None /\ turn[active].fin # "none"
  PROVE  Promises'
<1>1. turn[p] \in TurnState /\ ~turn[p].receipt
  BY DEF TypeOK, Promises, Turns, Early
<1>2. CASE a = None /\ b = None
  <2>1. active' = p /\ (active # None => turn[active].fin # "none") /\ Begin(p, turn[p].kind)
    BY <1>2 DEF Admit
  <2>2. CASE turn[p].kind = "images"
    <3> DEFINE r == [turn[p] EXCEPT !.pc = "images", !.waits = None]
    <3>1. /\ r.pc = "images" /\ r.fin = turn[p].fin /\ r.acked = turn[p].acked
          /\ r.receipt = turn[p].receipt /\ r.aborted = turn[p].aborted
      BY <1>1 DEF TurnState
    <3>2. turn' = [turn EXCEPT ![p] = r] /\ history' = history
      BY <2>1, <2>2 DEF Begin
    <3> HIDE DEF r
    <3> QED
      BY <1>1, <2>1, <3>1, <3>2, MovingSilently DEF Busy, Early
  <2>3. CASE turn[p].kind = "text"
    <3> DEFINE r == [turn[p] EXCEPT !.pc = "workspace", !.waits = None]
    <3>1. /\ r.pc = "workspace" /\ r.fin = turn[p].fin /\ r.acked = turn[p].acked
          /\ r.receipt = turn[p].receipt /\ r.aborted = turn[p].aborted
      BY <1>1 DEF TurnState
    <3>2. turn' = [turn EXCEPT ![p] = r] /\ history' = Append(history, Message(p, "user", "sent"))
      BY <2>1, <2>3 DEF Begin
    <3> HIDE DEF r
    <3> QED
      BY <1>1, <2>1, <3>1, <3>2, MovingWithUserMessage
  <2>4. CASE turn[p].kind \in {"direct", "resume"}
    BY <1>1, <2>1, <2>4, Continuing DEF Early
  <2> QED
    BY <1>1, <2>2, <2>3, <2>4 DEF TurnState
<1>3. CASE ~(a = None /\ b = None)
  <2>1. active' = active /\ turn' = [turn EXCEPT ![p] = Gone(turn[p])] /\ history' = history
    BY <1>3 DEF Admit
  <2>2. /\ Gone(turn[p]).pc = "done" /\ Gone(turn[p]).fin = "done" /\ Gone(turn[p]).acked = turn[p].acked
        /\ ~Gone(turn[p]).receipt
    BY <1>1 DEF Gone, NoTurn
  <2> QED
    BY <2>1, <2>2, MovingSilently DEF Busy, Early
<1> QED
  BY <1>2, <1>3

(* A turn is finalized without a question. *)
LEMMA MovingFinally ==
  ASSUME TypeOK, Promises, UNCHANGED <<active, disk, writer, effects>>,
         NEW p \in Prompt, NEW r, turn' = [turn EXCEPT ![p] = r],
         r.fin # "none", r.acked = turn[p].acked, r.receipt = turn[p].receipt, r.aborted = turn[p].aborted,
         r.pc \in {turn[p].pc, "ending", "leaving"}, turn[p].pc = "consuming" => r.pc = "consuming",
         NEW status \in {"ended", "interrupted"}, NEW text, Finalize(p, status, text)
  PROVE  Promises'
<1>1. Sound(history, turn, effects) /\ (turn[p].acked => turn[p].fin # "none")
  BY DEF Promises, Messages, Turns
<1>2. /\ Sound(history', turn, effects)
      /\ \A v \in Verdict : Shows(history, v) => Shows(history', v)
      /\ \A q \in Prompt : turn[q].fin # "none" => (Answered(history', q) <=> Answered(history, q))
      /\ \A i \in DOMAIN history' : IsDraft(history'[i]) =>
            /\ i \in DOMAIN history /\ history'[i] = history[i]
            /\ turn[p].fin = "none" => history'[i].turn # p
  BY <1>1, Finalizing
<1>3. \A q \in Prompt : (turn[q].fin # "none" => turn'[q].fin # "none") /\ (turn'[q].acked => turn[q].acked)
  BY DEF TypeOK
<1>4. Sound(history', turn', effects)
  BY <1>2, <1>3, Later
<1>5. \A i \in DOMAIN history' : IsDraft(history'[i]) =>
         \/ history'[i].turn = p /\ r.fin = "none" /\ r.pc \in Busy
         \/ history'[i].turn # p /\ i \in DOMAIN history /\ history'[i] = history[i]
  BY <1>2 DEF Promises, Drafts
<1>6. \A v \in {"approved", "consumed"} : Shows(history, v) => Shows(history', v)
  BY <1>2 DEF Verdict
<1>7. \A q \in Prompt : turn[q].fin # "none" => (Answered(history', q) => Answered(history, q))
  BY <1>2
<1>8. (r.pc = "consuming" <=> turn[p].pc = "consuming") /\ (r.pc \in Early => ~r.receipt)
  BY DEF Early, Promises, Turns
<1> QED
  BY <1>4, <1>5, <1>6, <1>7, <1>8, Moving

(* The engine stops at a call that needs the user. *)
LEMMA Asking ==
  ASSUME TypeOK, Promises, UNCHANGED <<active, disk, writer, effects>>,
         NEW p \in Prompt, NEW r, turn' = [turn EXCEPT ![p] = r],
         r.fin # "none", r.acked = turn[p].acked, r.receipt = turn[p].receipt, r.aborted = turn[p].aborted,
         r.pc = "ending", turn[p].pc = "running", ~AskedBefore,
         Finalize(p, "awaiting_approval", TRUE)
  PROVE  Promises'
<1>1. Sound(history, turn, effects) /\ (turn[p].acked => turn[p].fin # "none")
  BY DEF Promises, Messages, Turns
<1>2. \A q \in Prompt : (turn[q].fin # "none" => turn'[q].fin # "none") /\ (turn'[q].acked => turn[q].acked)
  BY DEF TypeOK
<1>3. turn'[p].fin # "none"
  BY DEF TypeOK
<1>4. r.pc \notin Early /\ r.pc \notin Busy
  BY DEF Early, Busy
<1>5. CASE turn[p].fin # "none"
  <2>1. history' = history
    BY <1>5 DEF Finalize
  <2>2. Sound(history', turn', effects)
    BY <1>1, <1>2, <2>1, Later
  <2>3. \A i \in DOMAIN history' : IsDraft(history'[i]) =>
           \/ history'[i].turn = p /\ r.fin = "none" /\ r.pc \in Busy
           \/ history'[i].turn # p /\ i \in DOMAIN history /\ history'[i] = history[i]
    BY <1>5, <2>1 DEF Promises, Drafts
  <2> QED
    BY <1>4, <2>1, <2>2, <2>3, Moving
<1>6. CASE turn[p].fin = "none"
  <2>1. history' = PutAnswer(p, "awaiting_approval") /\ ~turn[p].acked
    BY <1>1, <1>6 DEF Finalize
  <2>2. /\ Sound(history', turn', effects)
        /\ ~Shows(history, "approved") /\ ~Shows(history, "consumed")
        /\ \A q \in Prompt : q # p => (Answered(history', q) <=> Answered(history, q))
        /\ \A i \in DOMAIN history' : IsDraft(history'[i]) =>
              history'[i].turn # p /\ i \in DOMAIN history /\ history'[i] = history[i]
    BY <1>1, <1>2, <1>3, <1>6, <2>1, AskPut
  <2>3. \A v \in {"approved", "consumed"} : Shows(history, v) => Shows(history', v)
    BY <2>2
  <2>4. \A q \in Prompt : turn[q].fin # "none" => (Answered(history', q) => Answered(history, q))
    BY <1>6, <2>2
  <2> QED
    BY <1>4, <1>6, <2>2, <2>3, <2>4, Moving
<1> QED
  BY <1>5, <1>6

(* The provider streams. *)
LEMMA Streaming ==
  ASSUME TypeOK, Promises, NEW p \in Prompt, Delta(p)
  PROVE  Promises'
<1> DEFINE r == turn[p]
<1>1. /\ UNCHANGED <<turn, active, disk, writer, effects>> /\ turn[p].pc = "running" /\ turn[p].fin = "none"
      /\ history' = PutAnswer(p, "streaming")
  BY DEF Delta, AcceptEvents
<1>2. Sound(history, turn, effects) /\ ~turn[p].acked /\ active = p
  BY <1>1 DEF Promises, Messages, Turns, Busy
<1>3. /\ Sound(history', turn, effects)
      /\ \A v \in Verdict : Shows(history, v) => Shows(history', v)
      /\ \A q \in Prompt : q # p => (Answered(history', q) <=> Answered(history, q))
      /\ \A i \in DOMAIN history' : IsDraft(history'[i]) =>
            \/ history'[i].turn = p
            \/ history'[i].turn # p /\ i \in DOMAIN history /\ history'[i] = history[i]
  BY <1>1, <1>2, AnswerPut
<1>4. turn' = [turn EXCEPT ![p] = r]
  BY <1>1 DEF TypeOK
<1>5. \A v \in {"approved", "consumed"} : Shows(history, v) => Shows(history', v)
  BY <1>3 DEF Verdict
<1>6. \A q \in Prompt : turn[q].fin # "none" => (Answered(history', q) => Answered(history, q))
  BY <1>1, <1>3
<1>7. /\ r.pc = "running" /\ r.fin = "none" /\ r = turn[p] /\ r.pc \notin Early /\ r.pc \in Busy
      /\ r.pc = "consuming" <=> turn[p].pc = "consuming"
  BY <1>1 DEF Early, Busy
<1> HIDE DEF r
<1>8. Sound(history', turn', effects)
  BY <1>1, <1>3
<1>9. \A i \in DOMAIN history' : IsDraft(history'[i]) =>
        \/ history'[i].turn = p /\ r.fin = "none" /\ r.pc \in Busy
        \/ history'[i].turn # p /\ i \in DOMAIN history /\ history'[i] = history[i]
  BY <1>3, <1>7
<1>10. /\ UNCHANGED <<disk, writer, effects>> /\ active' = active /\ active' = p
       /\ (turn[p].fin # "none" => r.fin # "none") /\ (r.acked => turn[p].acked)
       /\ r.receipt => turn[p].receipt /\ (turn[p].aborted => r.aborted)
  BY <1>1, <1>2, <1>7
<1> QED
  BY <1>4, <1>5, <1>6, <1>7, <1>8, <1>9, <1>10, Moving

(* The user decides. *)
LEMMA Decided ==
  ASSUME TypeOK, Promises, NEW status \in {"approved", "denied"}, Decide(status)
  PROVE  Promises'
<1>1. UNCHANGED <<turn, active, disk, writer, effects>>
  BY DEF Decide
<1>2. CASE history' = history
  BY <1>1, <1>2, Standing
<1>3. CASE history' = Restatus("awaiting_approval", status)
  <2>1. Sound(history, turn, effects) /\ status \in Verdict
    BY DEF Promises, Messages, Verdict
  <2>2. /\ Sound(history', turn, effects)
        /\ \A v \in Verdict : v # "awaiting_approval" /\ Shows(history, v) => Shows(history', v)
        /\ \A q \in Prompt : Answered(history', q) <=> Answered(history, q)
        /\ \A i \in DOMAIN history' : IsDraft(history'[i]) => i \in DOMAIN history /\ history'[i] = history[i]
    BY <1>3, <2>1, VerdictPut
  <2>3. \A v \in {"approved", "consumed"} : Shows(history, v) => Shows(history', v)
    BY <2>2 DEF Verdict
  <2>4. Drafts'
    BY <1>1, <2>2 DEF Promises, Drafts
  <2>5. \A q \in Prompt :
            /\ turn[q].pc \in Early => ~turn[q].receipt
            /\ turn[q].pc \in Busy /\ turn[q].fin = "none" => active = q
            /\ turn[q].receipt /\ Owns(q) => Shows(history', "approved")
    BY <2>3 DEF Promises, Turns
  <2>6. \A q \in Prompt : Owns(q)' = Owns(q)
    BY <1>1 DEF Owns
  <2>7. Sound(history', turn', effects)
    BY <1>1, <2>2
  <2> QED
    BY <1>1, <2>2, <2>3, <2>4, <2>5, <2>6, <2>7, Calm
<1> QED
  BY <1>2, <1>3 DEF Decide

(* The continuation uses its receipt. *)
LEMMA Consuming ==
  ASSUME TypeOK, Promises, NEW p \in Prompt, Consume(p)
  PROVE  Promises'
<1> DEFINE r == [turn[p] EXCEPT !.pc = "consuming", !.receipt = FALSE]
<1>1. /\ UNCHANGED <<active, disk, writer, effects>> /\ turn[p].pc = "running" /\ turn[p].receipt
      /\ Owns(p) /\ active = p
      /\ turn' = [turn EXCEPT ![p] = r] /\ history' = Restatus("approved", "consumed")
  BY DEF Consume, Owns
<1>2. r.pc = "consuming" /\ ~r.receipt /\ r.fin = turn[p].fin /\ r.acked = turn[p].acked
  BY DEF TypeOK, TurnState
<1> HIDE DEF r
<1>3. \A q \in Prompt : turn'[q] = IF q = p THEN r ELSE turn[q]
  BY <1>1 DEF TypeOK
<1>4. Sound(history, turn, effects) /\ Shows(history, "approved")
  BY <1>1 DEF Promises, Messages, Turns
<1>5. ~Shows(history, "consumed")
  BY <1>4 DEF Sound, Shows, Verdict
<1>6. effects = 0 /\ \A q \in Prompt : turn[q].pc # "consuming"
  BY <1>4, <1>5 DEF Promises, Messages, Turns, Sound
<1>7. /\ Sound(history', turn, effects) /\ Shows(history', "consumed")
      /\ \A q \in Prompt : Answered(history', q) <=> Answered(history, q)
      /\ \A i \in DOMAIN history' : IsDraft(history'[i]) => i \in DOMAIN history /\ history'[i] = history[i]
  <2>1. "approved" \in {"awaiting_approval", "approved"} /\ "consumed" \in Verdict
    BY DEF Verdict
  <2> QED
    BY <1>1, <1>4, <2>1, VerdictPut
<1>8. Messages'
  <2>1. \A q \in Prompt : (turn[q].fin # "none" => turn'[q].fin # "none") /\ (turn'[q].acked => turn[q].acked)
    BY <1>2, <1>3
  <2>2. Sound(history', turn', effects) /\ Sound(disk, turn', effects)
    BY <1>7, <2>1, Later DEF Promises, Messages
  <2>3. writer # None => Sound(writer.snap, turn', effects)
    BY <2>1, Later DEF Promises, Messages
  <2> QED
    BY <1>1, <1>6, <2>2, <2>3 DEF Messages
<1>9. Turns'
  BY <1>1, <1>2, <1>3, <1>6, <1>7 DEF Promises, Turns, Owns, Early, Busy
<1>10. Drafts'
  BY <1>1, <1>2, <1>3, <1>7 DEF Promises, Drafts, Busy
<1>11. Writes'
  <2>1. writer # None => writer.for[1] # "consume"
    BY <1>6 DEF Promises, Writes
  <2> QED
    BY <1>1, <1>2, <1>3, <1>7, <2>1 DEF Promises, Writes
<1> QED
  BY <1>8, <1>9, <1>10, <1>11 DEF Promises

(* Whoever waits for a write has put what it relies on into the history. *)
LEMMA Waiting ==
  ASSUME NEW w \in Flushers
  PROVE  /\ w[1] = "consume" => \E p \in Prompt : w = <<"consume", p>> /\ turn[p].pc = "consuming"
         /\ \A p \in Prompt : w = <<"final", p>> => turn[p].fin = "queued"
<1>1. CASE w \in {<<"final", p>> : p \in {q \in Prompt : turn[q].fin = "queued"}}
  BY <1>1
<1>2. CASE w \in {<<"consume", p>> : p \in {q \in Prompt : turn[q].pc = "consuming"}}
  BY <1>2
<1>3. CASE w \in IF answer.pc = "flush" THEN {<<"answer", None>>} ELSE {}
  BY <1>3
<1>4. CASE w \in IF history # disk THEN {<<"timer", None>>} ELSE {}
  BY <1>4
<1> QED
  BY <1>1, <1>2, <1>3, <1>4 DEF Flushers

(* A write takes the history as it is. *)
LEMMA Writing ==
  ASSUME Promises, NEW w, StartWrite(w)
  PROVE  Promises'
<1>1. /\ w \in Flushers /\ writer' = [for |-> w, snap |-> history]
      /\ UNCHANGED <<turn, active, history, disk, effects>>
  BY DEF StartWrite
<1>2. Messages'
  BY <1>1 DEF Promises, Messages
<1>3. Turns'
  BY <1>1 DEF Promises, Turns, Owns
<1>4. Drafts'
  BY <1>1 DEF Promises, Drafts
<1>5. Writes'
  <2>1. writer'.for = w /\ writer'.snap = history
    BY <1>1
  <2>2. \A p \in Prompt : turn[p].pc = "consuming" => Shows(history, "consumed")
    BY DEF Promises, Turns
  <2> QED
    BY <1>1, <2>1, <2>2, Waiting DEF Writes
<1> QED
  BY <1>2, <1>3, <1>4, <1>5 DEF Promises

(* Sound messages stay so when a command was started or an answer           *)
(* acknowledged that they show.                                             *)
LEMMA Settled ==
  ASSUME NEW h, NEW tn, NEW tm, NEW e, NEW f, Sound(h, tn, e),
         \A p \in Prompt : (tn[p].fin # "none" => tm[p].fin # "none") /\ (tm[p].acked => Answered(h, p)),
         f = 1 => Shows(h, "consumed")
  PROVE  Sound(h, tm, f)
<1>1. \A i \in DOMAIN h : h[i] \in MessageState
  BY DEF Sound
<1>2. \A i \in DOMAIN h : h[i].turn \in Prompt \cup {None}
  BY <1>1 DEF MessageState
<1> QED
  BY <1>2 DEF Sound

(* A write ends, for the turn that waited for it.                           *)
LEMMA Written ==
  ASSUME TypeOK, Promises, NEW ok \in BOOLEAN, EndWrite(ok)
  PROVE  Promises'
<1>1. /\ writer # None /\ writer' = None /\ disk' = IF ok THEN writer.snap ELSE disk
      /\ effects' = IF writer.for[1] = "consume" /\ ok THEN effects + 1 ELSE effects
      /\ UNCHANGED <<active, history>>
  BY DEF EndWrite, EffectStarts
<1>2. \A q \in Prompt :
         /\ turn'[q].receipt = turn[q].receipt /\ turn'[q].aborted = turn[q].aborted
         /\ writer.for = <<"final", q>> =>
               /\ turn'[q].fin = "done" /\ turn'[q].pc = turn[q].pc
               /\ turn'[q].acked => ok /\ Answered(history, q)
         /\ writer.for # <<"final", q>> => turn'[q].fin = turn[q].fin /\ turn'[q].acked = turn[q].acked
         /\ writer.for = <<"consume", q>> => turn'[q].pc = "running"
         /\ writer.for # <<"consume", q>> => turn'[q].pc = turn[q].pc
  <2> SUFFICES ASSUME NEW q \in Prompt
               PROVE  /\ turn'[q].receipt = turn[q].receipt /\ turn'[q].aborted = turn[q].aborted
                      /\ writer.for = <<"final", q>> =>
                            /\ turn'[q].fin = "done" /\ turn'[q].pc = turn[q].pc
                            /\ turn'[q].acked => ok /\ Answered(history, q)
                      /\ writer.for # <<"final", q>> => turn'[q].fin = turn[q].fin /\ turn'[q].acked = turn[q].acked
                      /\ writer.for = <<"consume", q>> => turn'[q].pc = "running"
                      /\ writer.for # <<"consume", q>> => turn'[q].pc = turn[q].pc
    OBVIOUS
  <2> DEFINE kept == ok /\ Answered(history, q)
             final == [turn[q] EXCEPT !.fin = "done", !.acked = kept]
             consume == [turn[q] EXCEPT !.pc = "running"]
  <2>1. turn[q] \in TurnState
    BY DEF TypeOK
  <2>2. turn'[q] = IF writer.for = <<"final", q>> THEN final
                   ELSE IF writer.for = <<"consume", q>> THEN consume ELSE turn[q]
    BY DEF EndWrite, Served
  <2>3. kept => ok /\ Answered(history, q)
    OBVIOUS
  <2> HIDE DEF kept
  <2>4. /\ final.receipt = turn[q].receipt /\ final.aborted = turn[q].aborted /\ final.pc = turn[q].pc
        /\ final.fin = "done" /\ final.acked = kept
    BY <2>1 DEF TurnState
  <2>5. /\ consume.receipt = turn[q].receipt /\ consume.aborted = turn[q].aborted /\ consume.pc = "running"
        /\ consume.fin = turn[q].fin /\ consume.acked = turn[q].acked
    BY <2>1 DEF TurnState
  <2> HIDE DEF final, consume
  <2>6. CASE writer.for = <<"final", q>>
    BY <2>2, <2>3, <2>4, <2>6
  <2>7. CASE writer.for = <<"consume", q>>
    BY <2>2, <2>5, <2>7
  <2>8. CASE writer.for # <<"final", q>> /\ writer.for # <<"consume", q>>
    BY <2>2, <2>8
  <2> QED
    BY <2>6, <2>7, <2>8
<1>3. /\ Sound(history, turn, effects) /\ Sound(disk, turn, effects) /\ Sound(writer.snap, turn, effects)
      /\ effects \in {0, 1}
  BY <1>1 DEF Promises, Messages
<1>4. \A p \in Prompt : writer.for = <<"final", p>> =>
         turn[p].fin # "none" /\ (Answered(history, p) => Answered(writer.snap, p))
  BY <1>1 DEF Promises, Writes
<1>5. writer.for[1] = "consume" =>
         /\ \E p \in Prompt : writer.for = <<"consume", p>> /\ turn[p].pc = "consuming"
         /\ effects = 0 /\ Shows(history, "consumed") /\ Shows(writer.snap, "consumed")
  BY <1>1 DEF Promises, Writes, Turns
<1>6. \A q \in Prompt : turn[q].fin # "none" => turn'[q].fin # "none"
  BY <1>2
<1>7. Messages'
  <2>1. effects' \in {0, 1}
    BY <1>1, <1>3, <1>5
  <2>2. Sound(history', turn', effects')
    <3>1. \A q \in Prompt : turn'[q].acked => Answered(history, q)
      BY <1>2, <1>3 DEF Sound
    <3>2. effects' = 1 => Shows(history, "consumed")
      BY <1>1, <1>3, <1>5 DEF Sound
    <3> QED
      BY <1>1, <1>3, <1>6, <3>1, <3>2, Settled
  <2>3. Sound(disk', turn', effects')
    <3>1. CASE ok
      <4>1. \A q \in Prompt : turn'[q].acked => Answered(writer.snap, q)
        BY <1>2, <1>3, <1>4 DEF Sound
      <4>2. effects' = 1 => Shows(writer.snap, "consumed")
        BY <1>1, <1>3, <1>5 DEF Sound
      <4>3. disk' = writer.snap
        BY <1>1, <3>1
      <4> QED
        BY <1>3, <1>6, <4>1, <4>2, <4>3, Settled
    <3>2. CASE ~ok
      <4>1. \A q \in Prompt : turn'[q].acked => Answered(disk, q)
        BY <1>2, <1>3, <3>2 DEF Sound
      <4>2. effects' = 1 => Shows(disk, "consumed")
        BY <1>1, <1>3, <3>2 DEF Sound
      <4>3. disk' = disk
        BY <1>1, <3>2
      <4> QED
        BY <1>3, <1>6, <4>1, <4>2, <4>3, Settled
    <3> QED
      BY <3>1, <3>2
  <2> QED
    BY <1>1, <2>1, <2>2, <2>3 DEF Messages
<1>8. Turns'
  <2>1. \A q \in Prompt : turn'[q].pc \in Busy /\ turn'[q].fin = "none" => active' = q
    <3>1. \A q \in Prompt : writer.for = <<"consume", q>> => turn[q].pc = "consuming"
      BY <1>5
    <3> QED
      BY <1>1, <1>2, <3>1 DEF Promises, Turns, Busy
  <2>2. \A q \in Prompt : turn'[q].acked => turn'[q].fin # "none"
    BY <1>2 DEF Promises, Turns
  <2>3. \A q \in Prompt : turn'[q].pc \in Early => ~turn'[q].receipt
    BY <1>2 DEF Promises, Turns, Early
  <2>4. \A q \in Prompt : turn'[q].receipt /\ Owns(q)' => Shows(history', "approved")
    BY <1>1, <1>2 DEF Promises, Turns, Owns
  <2>5. ASSUME NEW q \in Prompt, turn'[q].pc = "consuming"
        PROVE  /\ effects' = 0 /\ Shows(history', "consumed")
               /\ \A p \in Prompt : turn'[p].pc = "consuming" => p = q
    <3>1. turn[q].pc = "consuming" /\ writer.for # <<"consume", q>>
      BY <1>2, <2>5
    <3>2. effects = 0 /\ Shows(history, "consumed") /\ \A p \in Prompt : turn[p].pc = "consuming" => p = q
      BY <3>1 DEF Promises, Turns
    <3>3. writer.for[1] # "consume"
      BY <1>5, <3>1, <3>2
    <3>4. \A p \in Prompt : turn'[p].pc = "consuming" => turn[p].pc = "consuming"
      BY <1>2
    <3> QED
      BY <1>1, <3>2, <3>3, <3>4
  <2> QED
    BY <2>1, <2>2, <2>3, <2>4, <2>5 DEF Turns
<1>9. Drafts'
  <2> SUFFICES ASSUME NEW i \in DOMAIN history, IsDraft(history[i])
               PROVE  /\ history[i].turn \in Prompt /\ active = history[i].turn
                      /\ turn'[history[i].turn].fin = "none" /\ turn'[history[i].turn].pc \in Busy
    BY <1>1 DEF Drafts
  <2>1. /\ history[i].turn \in Prompt /\ active = history[i].turn
        /\ turn[history[i].turn].fin = "none" /\ turn[history[i].turn].pc \in Busy
    BY DEF Promises, Drafts
  <2> QED
    BY <1>2, <1>4, <2>1 DEF Busy
<1>10. Writes'
  BY <1>1 DEF Writes
<1> QED
  BY <1>7, <1>8, <1>9, <1>10 DEF Promises

(* The process starts again from what is on disk. *)
LEMMA Restarted ==
  ASSUME TypeOK, Promises, Crash
  PROVE  Promises'
<1>1. /\ active' = None /\ history' = Recovered(disk) /\ writer' = None /\ UNCHANGED <<disk, effects>>
      /\ \A p \in Prompt : (turn'[p] = turn[p] /\ turn[p].pc = "idle") \/ turn'[p] = Gone(turn[p])
  BY DEF Crash
<1>2. \A p \in Prompt : /\ Gone(turn[p]).pc = "done" /\ Gone(turn[p]).fin = "done" /\ ~Gone(turn[p]).receipt
                        /\ Gone(turn[p]).acked = turn[p].acked
  BY DEF Gone, NoTurn
<1>3. \A p \in Prompt : /\ turn'[p].acked = turn[p].acked
                        /\ turn[p].fin # "none" => turn'[p].fin # "none"
                        /\ turn'[p].pc \in {"idle", "done"}
                        /\ turn'[p] = turn[p] \/ turn'[p].fin = "done"
                        /\ (turn'[p] = turn[p] /\ turn[p].pc = "idle") \/ ~turn'[p].receipt
  BY <1>1, <1>2
<1>4. Sound(disk, turn', effects) /\ effects \in {0, 1}
  BY <1>3, Later DEF Promises, Messages
<1>5. Sound(history', turn', effects) /\ \A i \in DOMAIN history' : ~IsDraft(history'[i])
  BY <1>1, <1>4, RecoveredSound
<1>6. Messages' /\ Drafts' /\ Writes'
  BY <1>1, <1>4, <1>5 DEF Messages, Drafts, Writes
<1>7. Turns'
  <2>1. \A p \in Prompt : ~turn'[p].receipt
    BY <1>3 DEF Promises, Turns, Early
  <2>2. \A p \in Prompt : turn'[p].acked => turn'[p].fin # "none"
    BY <1>3 DEF Promises, Turns
  <2> QED
    BY <1>3, <2>1, <2>2 DEF Turns, Busy
<1> QED
  BY <1>6, <1>7 DEF Promises

(* A new session, or one that waits for a decision, promises nothing yet. *)
LEMMA Beginning == Init => Promises
<1> SUFFICES ASSUME Init PROVE Promises
  OBVIOUS
<1> DEFINE m == Message(None, "assistant", "awaiting_approval")
<1>1. m \in MessageState /\ m.turn = None /\ m.status = "awaiting_approval"
  BY DEF Message, MessageState, Verdict
<1>2. history \in {<<>>, <<m>>} /\ disk = history /\ writer = None /\ effects = 0
  BY DEF Init
<1>3. \A p \in Prompt : turn[p].pc = "idle" /\ ~turn[p].acked /\ ~turn[p].receipt
  BY DEF Init, NoTurn
<1> HIDE DEF m
<1>4. history \in Seq(MessageState) /\ \A i \in DOMAIN history : history[i] = m
  <2>1. CASE history = <<>>
    BY <2>1
  <2>2. CASE history = <<m>>
    BY <1>1, <2>2
  <2> QED
    BY <1>2, <2>1, <2>2
<1>5. Sound(history, turn, effects)
  BY <1>1, <1>2, <1>3, <1>4 DEF Sound
<1>6. Messages /\ Writes
  BY <1>2, <1>5 DEF Messages, Writes
<1>7. Turns
  BY <1>3 DEF Turns, Busy
<1>8. Drafts
  BY <1>1, <1>4 DEF Drafts, IsDraft
<1> QED
  BY <1>6, <1>7, <1>8 DEF Promises

(* Finalizing keeps the receipt, the acknowledgement and the abort of a     *)
(* turn, wherever it goes.                                                  *)
LEMMA FinalizedKeeps ==
  ASSUME NEW t \in TurnState
  PROVE  /\ Finalized(t).fin # "none" /\ Finalized(t).pc = t.pc /\ Finalized(t).acked = t.acked
         /\ Finalized(t).receipt = t.receipt /\ Finalized(t).aborted = t.aborted
         /\ \A pc \in Pc : LET r == [Finalized(t) EXCEPT !.pc = pc]
                           IN  /\ r.fin # "none" /\ r.pc = pc /\ r.acked = t.acked
                               /\ r.receipt = t.receipt /\ r.aborted = t.aborted
<1>1. Finalized(t) \in TurnState
  BY FinalizedEntry
<1>2. /\ Finalized(t).fin # "none" /\ Finalized(t).pc = t.pc /\ Finalized(t).acked = t.acked
      /\ Finalized(t).receipt = t.receipt /\ Finalized(t).aborted = t.aborted
  <2>1. CASE t.fin = "none"
    BY <2>1 DEF Finalized, TurnState
  <2>2. CASE t.fin # "none"
    BY <2>2 DEF Finalized
  <2> QED
    BY <2>1, <2>2
<1> QED
  BY <1>1, <1>2 DEF TurnState

(* The steps of a turn. *)
LEMMA TurnSteps ==
  ASSUME TypeOK, Promises, NEW p \in Prompt,
         \/ \E kind \in Kind : IF kind = "direct" THEN Direct(p) ELSE Request(p, kind)
         \/ Drain(p) \/ Drained(p) \/ WorkspaceResolved(p) \/ ImagesPersisted(p) \/ ImagesFail(p)
         \/ End(p) \/ Leave(p) \/ Resume(p)
         \/ \E text \in BOOLEAN : EngineEnds(p, "ended", text)
         \/ ~AskedBefore /\ EngineEnds(p, "awaiting_approval", TRUE)
  PROVE  Promises'
<1>1. turn[p] \in TurnState /\ (turn[p].pc \in Early => ~turn[p].receipt)
  BY DEF TypeOK, Promises, Turns
<1>2. ASSUME NEW kind, kind # "direct", Request(p, kind) PROVE Promises'
  <2> DEFINE r == [turn[p] EXCEPT !.pc = "checked", !.kind = kind]
  <2>1. /\ turn' = [turn EXCEPT ![p] = r] /\ turn[p].pc = "idle"
        /\ UNCHANGED <<active, history, disk, writer, effects>>
    BY <1>2 DEF Request, IsNext
  <2>2. r.pc = "checked" /\ r.fin = turn[p].fin /\ r.acked = turn[p].acked /\ r.receipt = turn[p].receipt
    BY <1>1 DEF TurnState
  <2> HIDE DEF r
  <2> QED
    BY <1>1, <2>1, <2>2, MovingSilently DEF Busy, Early
<1>3. CASE Direct(p)
  <2>1. CASE active = None /\ reserved = None
    BY <1>3, <2>1, Continuing DEF Direct, IsNext, Early
  <2>2. CASE ~(active = None /\ reserved = None)
    <3>1. UNCHANGED <<turn, active, history, disk, writer, effects>>
      BY <1>3, <2>2 DEF Direct
    <3> QED
      BY <3>1, Standing
  <2> QED
    BY <2>1, <2>2
<1>4. CASE Drain(p)
  <2>1. CASE IsFinalized(active)
    <3> DEFINE r == [turn[p] EXCEPT !.pc = "draining", !.waits = active]
    <3>1. /\ turn' = [turn EXCEPT ![p] = r] /\ turn[p].pc = "checked"
          /\ UNCHANGED <<active, history, disk, writer, effects>>
      BY <1>4, <2>1 DEF Drain
    <3>2. r.pc = "draining" /\ r.fin = turn[p].fin /\ r.acked = turn[p].acked /\ r.receipt = turn[p].receipt
      BY <1>1 DEF TurnState
    <3> HIDE DEF r
    <3> QED
      BY <1>1, <3>1, <3>2, MovingSilently DEF Busy, Early
  <2>2. CASE ~IsFinalized(active)
    BY <1>4, <2>2, Admitting DEF Drain
  <2> QED
    BY <2>1, <2>2
<1>5. CASE Drained(p)
  <2> DEFINE d == turn[p].waits
  <2>1. turn[p].pc = "draining" /\ turn[d].fin = "done" /\ d # None /\ UNCHANGED <<disk, writer, effects>>
    BY <1>5 DEF Drained, TypeOK
  <2>2. CASE active = d
    <3>1. Admit(p, None, None) /\ active # None /\ turn[active].fin # "none"
      BY <1>5, <2>1, <2>2 DEF Drained
    <3> QED
      BY <2>1, <3>1, Admitting
  <2>3. CASE active # d
    <3>1. Admit(p, active, reserved)
      BY <1>5, <2>3 DEF Drained
    <3> QED
      BY <2>1, <3>1, Admitting
  <2> QED
    BY <2>2, <2>3
<1>6. CASE WorkspaceResolved(p)
  <2>1. turn[p].pc = "workspace" /\ UNCHANGED <<active, disk, writer, effects>>
    BY <1>6 DEF WorkspaceResolved
  <2>2. CASE Owns(p)
    <3> DEFINE r == [turn[p] EXCEPT !.pc = "running"]
    <3>1. turn' = [turn EXCEPT ![p] = r] /\ history' = history /\ active = p
      BY <1>6, <2>2 DEF WorkspaceResolved, Owns
    <3>2. /\ r.pc = "running" /\ r.fin = turn[p].fin /\ r.acked = turn[p].acked
          /\ r.receipt = turn[p].receipt /\ r.aborted = turn[p].aborted
      BY <1>1 DEF TurnState
    <3> HIDE DEF r
    <3> QED
      BY <2>1, <3>1, <3>2, MovingSilently DEF Busy, Early
  <2>3. CASE ~Owns(p)
    <3> DEFINE r == [Finalized(turn[p]) EXCEPT !.pc = "ending"]
    <3>1. turn' = [turn EXCEPT ![p] = r] /\ Finalize(p, "interrupted", FALSE)
      BY <1>6, <2>3 DEF WorkspaceResolved
    <3>2. /\ r.fin # "none" /\ r.pc = "ending" /\ r.acked = turn[p].acked
          /\ r.receipt = turn[p].receipt /\ r.aborted = turn[p].aborted
      BY <1>1, FinalizedKeeps DEF Pc
    <3> HIDE DEF r
    <3> QED
      BY <2>1, <3>1, <3>2, MovingFinally
  <2> QED
    BY <2>2, <2>3
<1>7. CASE ImagesPersisted(p)
  <2> DEFINE r == [turn[p] EXCEPT !.pc = "workspace"]
  <2>1. /\ turn[p].pc = "images" /\ turn' = [turn EXCEPT ![p] = r]
        /\ history' = Append(history, Message(p, "user", "sent"))
        /\ UNCHANGED <<active, disk, writer, effects>>
    BY <1>7 DEF ImagesPersisted
  <2>2. /\ r.pc = "workspace" /\ r.fin = turn[p].fin /\ r.acked = turn[p].acked
        /\ r.receipt = turn[p].receipt /\ r.aborted = turn[p].aborted
    BY <1>1 DEF TurnState
  <2>3. r.fin = "none" => active' = p
    BY <2>1, <2>2 DEF Promises, Turns, Busy
  <2> HIDE DEF r
  <2> QED
    BY <2>1, <2>2, <2>3, MovingWithUserMessage
<1>8. CASE ImagesFail(p)
  <2> DEFINE r == [Finalized(turn[p]) EXCEPT !.pc = "leaving"]
  <2>1. /\ turn[p].pc = "images" /\ turn' = [turn EXCEPT ![p] = r] /\ Finalize(p, "ended", TRUE)
        /\ UNCHANGED <<active, disk, writer, effects>>
    BY <1>8 DEF ImagesFail
  <2>2. /\ r.fin # "none" /\ r.pc = "leaving" /\ r.acked = turn[p].acked
        /\ r.receipt = turn[p].receipt /\ r.aborted = turn[p].aborted
    BY <1>1, FinalizedKeeps DEF Pc
  <2> HIDE DEF r
  <2> QED
    BY <2>1, <2>2, MovingFinally
<1>9. CASE End(p) \/ Leave(p)
  <2> DEFINE r == Gone(turn[p])
  <2>1. /\ turn[p].pc \in {"ending", "leaving"} /\ turn[p].fin = "done" /\ turn' = [turn EXCEPT ![p] = r]
        /\ active' = active \/ (active' = None /\ active = p)
        /\ UNCHANGED <<history, disk, writer, effects>>
    BY <1>9 DEF End, Leave, Release
  <2>2. r.pc = "done" /\ r.fin = "done" /\ r.acked = turn[p].acked /\ ~r.receipt
    BY DEF Gone, NoTurn
  <2> HIDE DEF r
  <2>3. active' = active \/ (active' \in {None, p} /\ turn[active].fin # "none")
    BY <2>1
  <2> QED
    BY <2>1, <2>2, <2>3, MovingSilently DEF Busy, Early
<1>10. CASE Resume(p)
  <2>1. CASE active = None
    BY <1>10, <2>1, Continuing DEF Resume, IsNext, Early
  <2>2. CASE active # None
    <3>1. UNCHANGED <<turn, active, history, disk, writer, effects>>
      BY <1>10, <2>2 DEF Resume
    <3> QED
      BY <3>1, Standing
  <2> QED
    BY <2>1, <2>2
<1>11. ASSUME NEW status \in {"ended", "awaiting_approval"}, NEW text, EngineEnds(p, status, text),
              status = "awaiting_approval" => ~AskedBefore /\ text = TRUE
       PROVE  Promises'
  <2> DEFINE r == [Finalized(turn[p]) EXCEPT !.pc = "ending"]
             s == IF turn[p].aborted THEN "interrupted" ELSE status
  <2>1. /\ turn[p].pc = "running" /\ turn' = [turn EXCEPT ![p] = r] /\ Finalize(p, s, text)
        /\ UNCHANGED <<active, disk, writer, effects>>
    BY <1>11 DEF EngineEnds
  <2>2. /\ r.fin # "none" /\ r.pc = "ending" /\ r.acked = turn[p].acked
        /\ r.receipt = turn[p].receipt /\ r.aborted = turn[p].aborted
    BY <1>1, FinalizedKeeps DEF Pc
  <2>3. s \in {"ended", "interrupted"} \/ (s = "awaiting_approval" /\ status = s)
    BY <1>11
  <2> HIDE DEF r, s
  <2>4. CASE s \in {"ended", "interrupted"}
    BY <2>1, <2>2, <2>4, MovingFinally
  <2>5. CASE s = "awaiting_approval" /\ status = s
    BY <1>11, <2>1, <2>2, <2>5, Asking
  <2> QED
    BY <2>3, <2>4, <2>5
<1> QED
  BY <1>2, <1>3, <1>4, <1>5, <1>6, <1>7, <1>8, <1>9, <1>10, <1>11

(* The steps of a cancellation and of a decision. *)
LEMMA HandlerSteps ==
  ASSUME TypeOK, Promises,
         \/ Cancel \/ CancelSettled \/ CancelTimesOut \/ CancelReleases
         \/ Answer \/ AnswerDrained \/ AnswerLeaves
  PROVE  Promises'
<1>1. CASE Cancel
  <2> DEFINE p == active
             r == [turn[p] EXCEPT !.aborted = TRUE]
  <2>1. p \in Prompt /\ turn' = [turn EXCEPT ![p] = r] /\ UNCHANGED <<active, history, disk, writer, effects>>
    BY <1>1 DEF Cancel, TypeOK
  <2>2. /\ r.pc = turn[p].pc /\ r.fin = turn[p].fin /\ r.acked = turn[p].acked
        /\ r.receipt = turn[p].receipt /\ r.aborted
    BY <2>1 DEF TypeOK, TurnState
  <2>3. (r.pc \in Early => ~r.receipt) /\ active' = p
    BY <2>1, <2>2 DEF Promises, Turns
  <2> HIDE DEF r, p
  <2> QED
    BY <2>1, <2>2, <2>3, MovingSilently
<1>2. CASE CancelTimesOut
  <2> DEFINE p == cancel.turn
             r == Finalized(turn[p])
  <2>1. /\ p \in Prompt /\ turn' = [turn EXCEPT ![p] = r] /\ Finalize(p, "interrupted", FALSE)
        /\ UNCHANGED <<active, disk, writer, effects>>
    BY <1>2 DEF CancelTimesOut, TypeOK
  <2>2. /\ r.fin # "none" /\ r.pc = turn[p].pc /\ r.acked = turn[p].acked
        /\ r.receipt = turn[p].receipt /\ r.aborted = turn[p].aborted
    BY <2>1, FinalizedKeeps DEF TypeOK
  <2> HIDE DEF r, p
  <2> QED
    BY <2>1, <2>2, MovingFinally
<1>3. CASE CancelSettled \/ AnswerLeaves
  BY <1>3, Standing DEF CancelSettled, AnswerLeaves
<1>4. CASE CancelReleases
  <2>1. UNCHANGED <<turn, history, disk, writer, effects>>
    BY <1>4 DEF CancelReleases
  <2>2. active' = active \/ (active' = None /\ turn[active].fin # "none")
    BY <1>4 DEF CancelReleases, ForceRelease
  <2> QED
    BY <2>1, <2>2, Standing
<1>5. CASE Answer
  BY <1>5, Standing DEF Answer, Reserve
<1>6. CASE AnswerDrained
  <2>1. UNCHANGED <<turn, history, disk, writer, effects>>
    BY <1>6 DEF AnswerDrained
  <2>2. active' = active \/ (active' = None /\ turn[active].fin # "none")
    BY <1>6 DEF AnswerDrained, Reserve
  <2> QED
    BY <2>1, <2>2, Standing
<1> QED
  BY <1>1, <1>2, <1>3, <1>4, <1>5, <1>6

(* Nothing a turn, a cancellation, a decision, a write or a crash does      *)
(* breaks a promise.                                                        *)
LEMMA PromisesKept == Spec => []Promises
<1>1. TypeOK /\ Promises /\ [Next]_vars => Promises'
  <2> SUFFICES ASSUME TypeOK, Promises, [Next]_vars PROVE Promises'
    OBVIOUS
  <2>1. ASSUME NEW w, StartWrite(w) PROVE Promises'
    BY <2>1, Writing
  <2>2. ASSUME NEW ok \in BOOLEAN, EndWrite(ok) PROVE Promises'
    BY <2>2, Written
  <2>3. ASSUME NEW p \in Prompt,
               \/ \E kind \in Kind : IF kind = "direct" THEN Direct(p) ELSE Request(p, kind)
               \/ Drain(p) \/ Drained(p) \/ WorkspaceResolved(p) \/ ImagesPersisted(p) \/ ImagesFail(p)
               \/ End(p) \/ Leave(p) \/ Resume(p)
               \/ \E text \in BOOLEAN : EngineEnds(p, "ended", text)
               \/ ~AskedBefore /\ EngineEnds(p, "awaiting_approval", TRUE)
        PROVE  Promises'
    BY <2>3, TurnSteps
  <2>4. ASSUME NEW p \in Prompt, Delta(p) PROVE Promises'
    BY <2>4, Streaming
  <2>5. ASSUME NEW p \in Prompt, Consume(p) PROVE Promises'
    BY <2>5, Consuming
  <2>6. CASE \/ Cancel \/ CancelSettled \/ CancelTimesOut \/ CancelReleases
             \/ Answer \/ AnswerDrained \/ AnswerLeaves
    BY <2>6, HandlerSteps
  <2>7. ASSUME NEW status \in {"approved", "denied"}, Decide(status) PROVE Promises'
    BY <2>7, Decided
  <2>8. CASE Crash
    BY <2>8, Restarted
  <2>9. CASE UNCHANGED vars
    BY <2>9, Standing DEF vars
  <2> QED
    BY <2>1, <2>2, <2>3, <2>4, <2>5, <2>6, <2>7, <2>8, <2>9 DEF Next, Internal
<1> QED
  BY <1>1, Beginning, TypeCorrect, PTL DEF Spec

(* An answer that was acknowledged as durable is in state.json from then    *)
(* on, through every later write, failure and restart                       *)
(* (finalizeActiveTurn(), SessionStore.flush()).                            *)
THEOREM Acknowledged == Spec => []DurableAck
<1>1. Promises => DurableAck
  BY DEF Promises, Messages, Sound, DurableAck
<1> QED
  BY <1>1, PromisesKept, PTL

(* A streaming draft belongs to the turn that owns the session              *)
(* (acceptEvents, recoverInterruptedDraft()).                               *)
THEOREM DraftsOwned == Spec => []DraftOwned
<1>1. Promises => DraftOwned
  BY DEF Promises, Drafts, DraftOwned
<1> QED
  BY <1>1, PromisesKept, PTL

(* However often a decision is repeated, its write fails or the process     *)
(* dies, the approved command starts at most once (onApprovalConsumed()).   *)
THEOREM StartedOnce == Spec => []ApprovedOnce
<1>1. Promises => ApprovedOnce
  BY DEF Promises, Messages, ApprovedOnce
<1> QED
  BY <1>1, PromisesKept, PTL

-----------------------------------------------------------------------------
(* Who may change the messages of a turn *)

(* Where a turn's messages stand, but for its verdict. *)
Places(h, p) == {i \in DOMAIN h : h[i].turn = p /\ h[i].status \in {"sent", "streaming", "ended", "interrupted"}}

(* They are the same if they stand in the same places. *)
LEMMA SamePlaces ==
  ASSUME NEW h, NEW g, NEW p, Places(g, p) = Places(h, p), \A i \in Places(h, p) : g[i] = h[i]
  PROVE  Of(g, p) = Of(h, p)
<1>1. Of(h, p) = [i \in Places(h, p) |-> h[i]] /\ Of(g, p) = [i \in Places(g, p) |-> g[i]]
  BY DEF Of, Places
<1> QED
  BY <1>1

(* Neither an answer nor a user message of one turn touches another's. *)
LEMMA Elsewhere ==
  ASSUME history \in Seq(MessageState), NEW p \in Prompt, NEW q \in Prompt, p # q, NEW status,
         history' = PutAnswer(q, status) \/ history' = Append(history, Message(q, "user", "sent"))
  PROVE  Of(history', p) = Of(history, p)
<1> DEFINE mine(m) == m.turn = q /\ m.role = "assistant"
<1>1. CASE /\ \E i \in DOMAIN history : mine(history[i])
           /\ history' = PutAnswer(q, status)
  <2>1. history' = [i \in DOMAIN history |-> IF mine(history[i]) THEN [history[i] EXCEPT !.status = status] ELSE history[i]]
    BY <1>1 DEF PutAnswer
  <2>2. DOMAIN history' = DOMAIN history
    BY <2>1
  <2>3. ASSUME NEW i \in DOMAIN history
        PROVE  history'[i].turn = history[i].turn /\ (history[i].turn # q => history'[i] = history[i])
    BY <2>1 DEF MessageState
  <2> QED
    BY <2>2, <2>3, SamePlaces DEF Places
<1>2. CASE \E role, s : history' = Append(history, Message(q, role, s))
  <2>1. PICK role, s : history' = Append(history, Message(q, role, s))
    BY <1>2
  <2>2. /\ DOMAIN history = 1..Len(history) /\ DOMAIN history' = 1..Len(history) + 1
        /\ \A i \in DOMAIN history : history'[i] = history[i]
        /\ history'[Len(history) + 1].turn = q /\ Len(history) \in Nat
    BY <2>1 DEF Message
  <2> QED
    BY <2>2, SamePlaces DEF Places
<1> QED
  BY <1>1, <1>2 DEF PutAnswer

(* A verdict that is given or used up is none of a turn's other messages. *)
LEMMA VerdictElsewhere ==
  ASSUME history \in Seq(MessageState), NEW p \in Prompt, NEW from \in Verdict, NEW to \in Verdict,
         history' = Restatus(from, to)
  PROVE  Of(history', p) = Of(history, p)
<1>1. /\ DOMAIN history' = DOMAIN history
      /\ \A i \in DOMAIN history : history'[i].turn = history[i].turn
            /\ (history[i].status # from => history'[i] = history[i])
            /\ (history[i].status = from => history'[i].status = to)
  BY DEF Restatus, MessageState
<1>2. from \notin {"sent", "streaming", "ended", "interrupted"} /\ to \notin {"sent", "streaming", "ended", "interrupted"}
  BY DEF Verdict
<1>3. Places(history', p) = Places(history, p) /\ \A i \in Places(history, p) : history'[i] = history[i]
  BY <1>1, <1>2 DEF Places
<1> QED
  BY <1>3, SamePlaces

(* Whoever finalizes a turn changes its messages only while it owns the     *)
(* session: at work it does, and a draft shows that it does.                *)
LEMMA FinalizingFenced ==
  ASSUME Promises, NEW p \in Prompt, NEW q \in Prompt, NEW status, NEW text \in BOOLEAN,
         Finalize(q, status, text), text /\ turn[q].fin = "none" => active = q
  PROVE  Of(history', p) = Of(history, p) \/ active = p
<1>1. CASE history' = history
  BY <1>1
<1>2. ASSUME turn[q].fin = "none", NEW s, history' = PutAnswer(q, s),
             text \/ \E i \in DOMAIN history : history[i].turn = q /\ IsDraft(history[i])
      PROVE  Of(history', p) = Of(history, p) \/ active = p
  <2>1. active = q
    BY <1>2 DEF Promises, Drafts
  <2>2. CASE p # q
    BY <1>2, <2>2, Elsewhere DEF Promises, Messages, Sound
  <2> QED
    BY <2>1, <2>2
<1> QED
  BY <1>1, <1>2 DEF Finalize

(* A turn that is admitted owns the session as its message is appended. *)
LEMMA BeginningFenced ==
  ASSUME Promises, NEW p \in Prompt, NEW q \in Prompt, NEW kind,
         Begin(q, kind), kind \in {"images", "text", "direct", "resume"}, active' = q
  PROVE  Of(history', p) = Of(history, p) \/ active' = p
<1>1. CASE history' = history
  BY <1>1
<1>2. CASE history' = Append(history, Message(q, "user", "sent"))
  <2>1. CASE p # q
    BY <1>2, <2>1, Elsewhere DEF Promises, Messages, Sound
  <2> QED
    BY <2>1
<1> QED
  BY <1>1, <1>2 DEF Begin

(* The same, when the session is free or not. *)
LEMMA AdmittingFenced ==
  ASSUME TypeOK, Promises, NEW p \in Prompt, NEW q \in Prompt, NEW a, NEW r, Admit(q, a, r)
  PROVE  Of(history', p) = Of(history, p) \/ active' = p
<1>1. CASE a = None /\ r = None
  <2>1. active' = q /\ Begin(q, turn[q].kind) /\ turn[q].kind \in {"images", "text", "direct", "resume"}
    BY <1>1 DEF Admit, TypeOK, TurnState
  <2> QED
    BY <2>1, BeginningFenced
<1>2. CASE ~(a = None /\ r = None)
  BY <1>2 DEF Admit
<1> QED
  BY <1>1, <1>2

(* Messages of a turn change only while it owns the session, whatever its   *)
(* provider answers once it lost it; the user message of a turn that        *)
(* persists images is the exception (finalizeActiveTurn(), acceptEvents).   *)
THEOREM Fenced == Spec => HistoryFenced
<1>1. TypeOK /\ Promises /\ [Next]_vars => [\A p \in Prompt : turn[p].pc # "images" => Silent(p)]_vars
  <2> SUFFICES ASSUME TypeOK, Promises, Next, NEW p \in Prompt, turn[p].pc # "images",
                      Of(history', p) # Of(history, p), history' # Recovered(disk)
               PROVE  active = p \/ active' = p
    BY DEF Silent
  <2>1. history \in Seq(MessageState) /\ history' # history
    BY DEF Promises, Messages, Sound
  <2>2. ASSUME NEW q \in Prompt, Drain(q) \/ Drained(q) PROVE active = p \/ active' = p
    BY <2>1, <2>2, AdmittingFenced DEF Drain, Drained
  <2>3. ASSUME NEW q \in Prompt, WorkspaceResolved(q) PROVE active = p \/ active' = p
    BY <2>1, <2>3, FinalizingFenced DEF WorkspaceResolved
  <2>4. ASSUME NEW q \in Prompt, Direct(q) \/ Resume(q) PROVE active = p \/ active' = p
    BY <2>1, <2>4, BeginningFenced DEF Direct, Resume
  <2>5. ASSUME NEW q \in Prompt, ImagesPersisted(q) PROVE active = p \/ active' = p
    BY <2>1, <2>5, Elsewhere DEF ImagesPersisted
  <2>6. ASSUME NEW q \in Prompt, ImagesFail(q) PROVE active = p \/ active' = p
    <3>1. turn[q].pc = "images" /\ Finalize(q, "ended", TRUE)
      BY <2>6 DEF ImagesFail
    <3>2. turn[q].fin = "none" => active = q
      BY <3>1 DEF Promises, Turns, Busy
    <3> QED
      BY <3>1, <3>2, FinalizingFenced
  <2>7. ASSUME NEW q \in Prompt, Delta(q) PROVE active = p \/ active' = p
    <3>1. active = q /\ history' = PutAnswer(q, "streaming")
      BY <2>7 DEF Delta, AcceptEvents, Promises, Turns, Busy
    <3> QED
      BY <2>1, <3>1, Elsewhere
  <2>8. ASSUME NEW q \in Prompt, NEW status, NEW text \in BOOLEAN, EngineEnds(q, status, text)
        PROVE  active = p \/ active' = p
    <3>1. turn[q].fin = "none" => active = q
      BY <2>8 DEF EngineEnds, Promises, Turns, Busy
    <3>2. PICK s : Finalize(q, s, text)
      BY <2>8 DEF EngineEnds
    <3> QED
      BY <3>1, <3>2, FinalizingFenced
  <2>9. CASE CancelTimesOut
    <3>1. cancel.turn \in Prompt /\ Finalize(cancel.turn, "interrupted", FALSE)
      BY <2>9 DEF CancelTimesOut, TypeOK
    <3> QED
      BY <3>1, FinalizingFenced
  <2>10. ASSUME NEW q \in Prompt, Consume(q) PROVE FALSE
    BY <2>1, <2>10, VerdictElsewhere DEF Consume, Verdict
  <2>11. ASSUME NEW status \in {"approved", "denied"}, Decide(status) PROVE FALSE
    BY <2>1, <2>11, VerdictElsewhere DEF Decide, Verdict
  <2>12. ASSUME NEW w, StartWrite(w) PROVE FALSE
    BY <2>1, <2>12 DEF StartWrite
  <2>13. ASSUME NEW ok, EndWrite(ok) PROVE FALSE
    BY <2>1, <2>13 DEF EndWrite
  <2>14. ASSUME NEW q, NEW kind, End(q) \/ Leave(q) \/ Request(q, kind) PROVE FALSE
    BY <2>1, <2>14 DEF End, Leave, Request
  <2>15. CASE Cancel \/ CancelSettled \/ CancelReleases \/ Answer \/ AnswerDrained \/ AnswerLeaves
    BY <2>1, <2>15 DEF Cancel, CancelSettled, CancelReleases, Answer, AnswerDrained, AnswerLeaves
  <2>16. CASE Crash
    BY <2>16 DEF Crash
  <2> QED
    BY <2>2, <2>3, <2>4, <2>5, <2>6, <2>7, <2>8, <2>9, <2>10, <2>11, <2>12, <2>13, <2>14, <2>15, <2>16
    DEF Next, Internal
<1> QED
  BY <1>1, TypeCorrect, PromisesKept, PTL DEF Spec, HistoryFenced
=============================================================================
