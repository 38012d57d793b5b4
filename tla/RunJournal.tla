------------------------------ MODULE RunJournal ------------------------------
(***************************************************************************)
(* How core/pipeline-run-store.js keeps one record in three files: an      *)
(* append-only journal, a snapshot and a small integrity head.  A commit   *)
(* appends a row, then renames the snapshot and then the head into place;  *)
(* the process may die, or an operation fail, between any two of them and  *)
(* in the middle of the append.  The run lock serializes load and the      *)
(* mutations; list() reads the files without it.                           *)
(*                                                                         *)
(* A state stands for its digest, a journal entry for its bytes: sizes are *)
(* counted in entries, and an entry cut short is Torn.                     *)
(***************************************************************************)
EXTENDS Integers, Sequences

CONSTANTS
    Value,          \* the contents a record may have
    MaxSequence,    \* bound on the sequence numbers explored
    None,           \* null: no file, no record
    Torn,           \* a journal entry of which only a part was written
    Corrupt         \* the error pipeline_run_state_corrupt

State == [sequence : 1 .. MaxSequence, value : Value]

(* A row holds the digest of the state it is a delta of and of its result; *)
(* the first is a checkpoint, a delta of nothing.                          *)
Row == [base : State \cup {None}, state : State]

JournalHead == [state : State, bytes : Nat]

FileStep == {"truncate", "append", "finishAppend", "snapshot", "head"}

ASSUME JournalAssumption ==
    /\ MaxSequence \in Nat \ {0}
    /\ None \notin State \cup JournalHead
    /\ Torn \notin Row
    /\ Corrupt \notin State \cup {None}

VARIABLES
    journal,    \* the .jsonl file
    snapshot,   \* the .json file
    head,       \* the .head.json file
    call,       \* the operation that holds the run lock
    acked,      \* the latest state a caller was given
    lister      \* a list() under way and the answer of the last one

journalVars == <<journal, snapshot, head, call, acked, lister>>

NoCall == [op |-> "idle", want |-> None, todo |-> <<>>, keep |-> 0,
           prev |-> None, next |-> None]

NoList == [at |-> "idle", snap |-> None, hasHead |-> FALSE, bytes |-> 0,
           floor |-> None, result |-> None]

-----------------------------------------------------------------------------
(* Reading *)

ValidHead(state) == state # None /\ head # None /\ head.state = state

JournalExists == journal # <<>>

(* A partial last line is ignored. *)
CommittedRows ==
    IF JournalExists /\ journal[Len(journal)] = Torn
    THEN SubSeq(journal, 1, Len(journal) - 1) ELSE journal

Replays(rows) ==
    \A i \in 1 .. Len(rows) :
        /\ rows[i] # Torn
        /\ rows[i].base = IF i = 1 THEN None ELSE rows[i - 1].state
        /\ rows[i].state.sequence = i

RecoverJournalState ==
    IF CommittedRows = <<>> \/ ~Replays(CommittedRows) THEN Corrupt
    ELSE CommittedRows[Len(CommittedRows)].state

(* The state _readRaw() returns: the snapshot if the head vouches for it,   *)
(* else what the journal replays to, unless that is older than the snapshot.*)
Loaded ==
    IF ValidHead(snapshot) THEN
        IF Len(journal) < head.bytes THEN Corrupt ELSE snapshot
    ELSE IF ~JournalExists THEN
        IF snapshot = None THEN None ELSE Corrupt
    ELSE IF /\ RecoverJournalState # Corrupt /\ snapshot # None
            /\ snapshot.sequence > RecoverJournalState.sequence THEN Corrupt
    ELSE RecoverJournalState

(* What a repairing read does to the files before it returns. *)
RepairPlan ==
    IF ~ValidHead(snapshot) THEN <<"truncate", "snapshot", "head">>
    ELSE IF Len(journal) > head.bytes THEN <<"truncate">> ELSE <<>>

RepairKeep == IF ValidHead(snapshot) THEN head.bytes ELSE Len(CommittedRows)

(* Mutant: the snapshot is renamed into place before the row is appended. *)
SnapshotFirst == <<"snapshot", "append", "finishAppend", "head">>

CommitPlan == <<"append", "finishAppend", "snapshot", "head">>

-----------------------------------------------------------------------------
(* Operations under the run lock *)

Init ==
    /\ journal = <<>>
    /\ snapshot = None
    /\ head = None
    /\ call = NoCall
    /\ acked = None
    /\ lister = NoList

Create(v) ==
    /\ call.op = "idle"
    /\ Loaded = None
    /\ call' = [NoCall EXCEPT !.op = "commit", !.todo = CommitPlan,
                              !.next = [sequence |-> 1, value |-> v]]
    /\ UNCHANGED <<journal, snapshot, head, acked, lister>>

Read(op, v) ==
    /\ call.op = "idle"
    /\ Loaded \in State
    /\ call' = [NoCall EXCEPT !.op = op, !.want = v, !.next = Loaded,
                              !.todo = RepairPlan, !.keep = RepairKeep]
    /\ UNCHANGED <<journal, snapshot, head, acked>>

Load == Read("load", None) /\ UNCHANGED lister

Mutate(v) == Read("mutate", v) /\ UNCHANGED lister

(* _commit() checks the head against the state the updater started from. *)
StartCommit ==
    /\ call.op = "mutate"
    /\ call.todo = <<>>
    /\ call.want # call.next.value
    /\ call.next.sequence < MaxSequence
    /\ ValidHead(call.next)
    /\ Len(journal) >= head.bytes
    /\ call' = [call EXCEPT
          !.op = "commit", !.prev = call.next, !.keep = head.bytes,
          !.next = [sequence |-> call.next.sequence + 1, value |-> call.want],
          !.todo = (IF Len(journal) > head.bytes THEN <<"truncate">> ELSE <<>>) \o CommitPlan]
    /\ UNCHANGED <<journal, snapshot, head, acked, lister>>

NextStep(step) ==
    /\ call.todo # <<>>
    /\ Head(call.todo) = step
    /\ call' = [call EXCEPT !.todo = Tail(@)]
    /\ UNCHANGED <<acked, lister>>

Truncate ==
    /\ NextStep("truncate")
    /\ journal' = SubSeq(journal, 1, call.keep)
    /\ UNCHANGED <<snapshot, head>>

AppendRow ==
    /\ NextStep("append")
    /\ journal' = Append(journal, Torn)
    /\ UNCHANGED <<snapshot, head>>

FinishAppend ==
    /\ NextStep("finishAppend")
    /\ journal' = [journal EXCEPT ![Len(journal)] = [base |-> call.prev, state |-> call.next]]
    /\ UNCHANGED <<snapshot, head>>

WriteSnapshot ==
    /\ NextStep("snapshot")
    /\ snapshot' = call.next
    /\ UNCHANGED <<journal, head>>

WriteHead ==
    /\ NextStep("head")
    /\ head' = [state |-> call.next, bytes |-> Len(journal)]
    /\ UNCHANGED <<journal, snapshot>>

(* Mutant: the answer does not wait for the snapshot and the head. *)
ReturnEarly ==
    /\ call.op # "idle"
    /\ call.todo \in {<<>>, <<"snapshot", "head">>}
    /\ call.op = "mutate" => call.want = call.next.value
    /\ acked' = call.next
    /\ call' = NoCall
    /\ UNCHANGED <<journal, snapshot, head, lister>>

(* load() returns what it read, a commit what it wrote, and a mutation that *)
(* changes nothing the current state.                                       *)
Return ==
    /\ call.op # "idle"
    /\ call.todo = <<>>
    /\ call.op = "mutate" => call.want = call.next.value
    /\ acked' = call.next
    /\ call' = NoCall
    /\ UNCHANGED <<journal, snapshot, head, lister>>

(* The process dies or a file operation throws; the files stay as they are. *)
Abandon ==
    /\ call.op # "idle"
    /\ call' = NoCall
    /\ UNCHANGED <<journal, snapshot, head, acked, lister>>

-----------------------------------------------------------------------------
(* list(), which reads the files while others write them *)

ListSnapshot ==
    /\ lister.at = "idle"
    /\ JournalExists \/ snapshot # None
    /\ lister' = [NoList EXCEPT !.at = IF snapshot # None THEN "head" ELSE "journal",
                                !.snap = snapshot, !.hasHead = (head # None),
                                !.floor = acked]
    /\ UNCHANGED <<journal, snapshot, head, call, acked>>

ListHead ==
    /\ lister.at = "head"
    /\ lister' = IF lister.hasHead /\ ValidHead(lister.snap)
                 THEN [lister EXCEPT !.at = "size", !.bytes = head.bytes]
                 ELSE [lister EXCEPT !.at = "journal"]
    /\ UNCHANGED <<journal, snapshot, head, call, acked>>

Listed(result) == [lister EXCEPT !.at = "idle", !.result = result]

ListSize ==
    /\ lister.at = "size"
    /\ lister' = Listed(IF Len(journal) < lister.bytes THEN Corrupt ELSE lister.snap)
    /\ UNCHANGED <<journal, snapshot, head, call, acked>>

(* Mutant: the whole journal must parse, the row being appended too. *)
ListWholeJournal ==
    /\ lister.at = "journal"
    /\ lister' = IF ~JournalExists \/ journal[Len(journal)] = Torn THEN Listed(Corrupt)
                 ELSE [lister EXCEPT !.at = "locked"]
    /\ UNCHANGED <<journal, snapshot, head, call, acked>>

(* The run id is taken from the first line of the journal. *)
ListJournal ==
    /\ lister.at = "journal"
    /\ lister' = IF ~JournalExists \/ journal[1] = Torn THEN Listed(Corrupt)
                 ELSE [lister EXCEPT !.at = "locked"]
    /\ UNCHANGED <<journal, snapshot, head, call, acked>>

ListLocked ==
    /\ lister.at = "locked"
    /\ Read("load", None)
    /\ lister' = Listed(Loaded)

-----------------------------------------------------------------------------
Operate == (\E v \in Value : Create(v) \/ Mutate(v)) \/ Load \/ StartCommit \/ Return \/ Abandon

WriteFiles == Truncate \/ AppendRow \/ FinishAppend \/ WriteSnapshot \/ WriteHead

List == ListSnapshot \/ ListHead \/ ListSize \/ ListJournal \/ ListLocked

Next == Operate \/ WriteFiles \/ List

Spec == Init /\ [][Next]_journalVars

-----------------------------------------------------------------------------
(* Properties *)

Call == [op : {"idle", "load", "mutate", "commit"}, want : Value \cup {None}, todo : Seq(FileStep), keep : Nat,
         prev : State \cup {None}, next : State \cup {None}]

Lister == [at : {"idle", "head", "size", "journal", "locked"}, snap : State \cup {None}, hasHead : BOOLEAN,
           bytes : Nat, floor : State \cup {None}, result : State \cup {None, Corrupt}]

(* The types of the variables. *)
TypeOK ==
    /\ journal \in Seq(Row \cup {Torn})
    /\ snapshot \in State \cup {None}
    /\ head \in JournalHead \cup {None}
    /\ call \in Call
    /\ acked \in State \cup {None}
    /\ lister \in Lister

(* A record some caller was given can always be read again, wherever the    *)
(* process died since, also in the middle of a repair: load() never answers *)
(* pipeline_run_state_corrupt.  (A first append cut short does leave such a *)
(* record, of a run whose create() never returned.)                         *)
AcknowledgedLoadable == acked # None => Loaded \in State

(* list(), which takes no lock on its fast path, is as fresh as any answer  *)
(* given before it began and reports no corruption for such a record.       *)
ListSound ==
    lister.at = "idle" /\ lister.floor # None =>
        /\ lister.result \in State
        /\ lister.result.sequence >= lister.floor.sequence

(* An unreadable record counts as not yet written. *)
Visible == IF Loaded = Corrupt THEN None ELSE Loaded

Record == INSTANCE AtomicRecord WITH
    record   <- Visible,
    asked    <- IF call.op = "commit" THEN call.next ELSE None,
    answered <- acked

(* The three files together behave as one record that changes atomically:   *)
(* a reader sees each mutation whole or not at all, in order, and a failed  *)
(* one never takes effect later.                                            *)
RefinesAtomicRecord == Record!RecordSpec
=============================================================================
