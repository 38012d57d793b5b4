----------------------------- MODULE AtomicRecord -----------------------------
(***************************************************************************)
(* What the run store promises of one record, whatever fails between two   *)
(* file operations: writes take effect whole, one after the other, and an  *)
(* answered write is never lost.  RunJournal implements it.                *)
(***************************************************************************)
EXTENDS Integers

CONSTANTS Value, MaxSequence, None

VARIABLES
    record,     \* the state a reader gets, None before the first write
    asked,      \* the write under way, or None
    answered    \* the latest state some caller was given

recordVars == <<record, asked, answered>>

State == [sequence : 1 .. MaxSequence, value : Value]

Successor(s, v) == [sequence |-> IF s = None THEN 1 ELSE s.sequence + 1, value |-> v]

RecordInit == record = None /\ asked = None /\ answered = None

Ask(v) ==
    /\ asked = None
    /\ asked' = Successor(record, v)
    /\ asked'.sequence <= MaxSequence
    /\ UNCHANGED <<record, answered>>

TakeEffect ==
    /\ asked # None
    /\ asked = Successor(record, asked.value)
    /\ record' = asked
    /\ UNCHANGED <<asked, answered>>

Answer ==
    /\ record # None
    /\ asked \in {None, record}
    /\ answered' = record
    /\ asked' = None
    /\ UNCHANGED record

(* The caller is told of an error, or the process dies: the write may have *)
(* taken effect or not, and never does so later.                           *)
GiveUp == asked' = None /\ UNCHANGED <<record, answered>>

RecordNext == (\E v \in Value : Ask(v)) \/ TakeEffect \/ Answer \/ GiveUp

RecordSpec == RecordInit /\ [][RecordNext]_recordVars
=============================================================================
