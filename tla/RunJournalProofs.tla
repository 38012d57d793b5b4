--------------------------- MODULE RunJournalProofs ---------------------------
(* Three files are one atomic record, for any contents and any number of    *)
(* mutations and failures.                                                  *)
EXTENDS RunJournal, TLAPS

-----------------------------------------------------------------------------
(* The files *)

(* What the head vouches for: a number of rows and the state they lead to.  *)
Vouched == IF head = None THEN 0 ELSE head.bytes
Settled == IF head = None THEN None ELSE head.state

(* The journal is one whole row ahead of the head, and leads to s.          *)
Ahead(s) ==
    /\ Len(journal) = Vouched + 1
    /\ journal[Vouched + 1] # Torn
    /\ journal[Vouched + 1].state = s

(* The rows the head vouches for are whole, at most one follows, and each   *)
(* whole row continues the one before it; the snapshot is the state of the  *)
(* head, or of the row that follows.                                        *)
Files ==
    /\ Len(journal) \in {Vouched, Vouched + 1}
    /\ head # None => head.bytes > 0 /\ journal[head.bytes].state = head.state
    /\ \A i \in 1..Vouched : journal[i] # Torn
    /\ \A i \in 1..Len(journal) : journal[i] # Torn =>
          /\ journal[i].base = IF i = 1 THEN None ELSE journal[i - 1].state
          /\ journal[i].state.sequence = i
    /\ snapshot = Settled \/ Ahead(snapshot)

(* Where the operation under the lock is, by the file operations it still   *)
(* has to do.                                                               *)
Finished ==
    /\ call.todo = <<>>
    /\ head # None /\ snapshot = Settled /\ call.next = Settled /\ Len(journal) = Vouched

HeadLeft ==
    /\ call.todo = <<"head">>
    /\ Ahead(call.next) /\ snapshot = call.next

SnapshotLeft ==
    /\ call.todo = <<"snapshot", "head">>
    /\ Ahead(call.next)
    /\ IF call.op = "commit" THEN snapshot = Settled ELSE head = None \/ snapshot = call.next

Trimming ==
    /\ call.op # "commit" /\ call.todo = <<"truncate">>
    /\ head # None /\ snapshot = Settled /\ call.next = Settled /\ call.keep = Vouched

Repairing ==
    /\ call.op # "commit" /\ call.todo = <<"truncate", "snapshot", "head">>
    /\ Ahead(call.next) /\ call.keep = Len(journal)
    /\ head = None \/ snapshot = call.next

Writing ==
    /\ call.op = "commit" /\ snapshot = Settled /\ call.prev = Settled
    /\ call.next \in State /\ call.next.sequence = Vouched + 1

Begun == Writing /\ call.todo = CommitPlan /\ Len(journal) = Vouched

Appending ==
    /\ Writing
    /\ call.todo = Tail(CommitPlan)
    /\ Len(journal) = Vouched + 1 /\ journal[Vouched + 1] = Torn

Phase == Finished \/ HeadLeft \/ SnapshotLeft \/ Trimming \/ Repairing \/ Begun \/ Appending

Work ==
    \/ call = NoCall
    \/ call.op # "idle" /\ (call.op = "mutate" => call.want \in Value) /\ Phase

(* An answer is not ahead of the head; nor is what a list() must reach.     *)
Answers == acked # None => head # None /\ acked.sequence <= head.state.sequence

Lists ==
    /\ lister.floor # None => head # None /\ lister.floor.sequence <= head.state.sequence
    /\ lister.at \in {"head", "size"} =>
          /\ lister.snap \in State
          /\ lister.floor # None => lister.snap.sequence >= lister.floor.sequence
    /\ lister.at = "size" => head # None /\ lister.bytes <= head.bytes
    /\ ListSound

IInv == TypeOK /\ Files /\ Work /\ Answers /\ Lists

(* The types of what the journal holds. *)
LEMMA Rows ==
  ASSUME TypeOK
  PROVE  /\ \A i \in 1..Len(journal) : journal[i] \in Row \cup {Torn}
         /\ Len(journal) \in Nat /\ Vouched \in Nat /\ DOMAIN journal = 1..Len(journal)
         /\ \A r \in Row : r.base \in State \cup {None} /\ r.state \in State
         /\ \A s \in State : s.sequence \in Nat \ {0} /\ s # None /\ s # Corrupt
         /\ head # None => head \in JournalHead /\ head.state \in State /\ head.bytes \in Nat
BY JournalAssumption DEF TypeOK, Row, State, JournalHead, Vouched

(* What a reader gets: the state the head vouches for, or the one the       *)
(* journal is ahead by; before the first row nothing, or no record.         *)
LEMMA LoadedSettled ==
  ASSUME TypeOK, Files, head # None, snapshot = Settled
  PROVE  Loaded = Settled /\ ValidHead(snapshot) /\ Settled \in State
<1>1. ValidHead(snapshot) /\ Settled \in State
  BY Rows DEF ValidHead, Settled
<1>2. Len(journal) >= head.bytes
  BY Rows DEF Files, Vouched
<1> QED
  BY <1>1, <1>2, Rows DEF Loaded

LEMMA LoadedAhead ==
  ASSUME TypeOK, Files, NEW s, Ahead(s), head = None \/ snapshot = s
  PROVE  /\ Loaded = s /\ ~ValidHead(snapshot) /\ s \in State
         /\ CommittedRows = journal /\ RecoverJournalState = s
<1>1. /\ s \in State /\ s.sequence = Vouched + 1 /\ Len(journal) = Vouched + 1
      /\ journal[Len(journal)] # Torn /\ journal[Len(journal)].state = s
  BY Rows DEF Ahead, Files
<1>2. ~ValidHead(snapshot)
  <2>1. CASE head = None
    BY <2>1 DEF ValidHead
  <2>2. CASE head # None
    <3>1. head.state.sequence = head.bytes /\ Vouched = head.bytes
      BY <2>2, Rows DEF Files, Vouched
    <3> QED
      BY <1>1, <2>2, <3>1, Rows DEF ValidHead
  <2> QED
    BY <2>1, <2>2
<1>3. JournalExists /\ CommittedRows = journal
  <2>1. journal # <<>>
    BY <1>1, Rows
  <2> QED
    BY <1>1, <2>1 DEF CommittedRows, JournalExists
<1>4. Replays(journal)
  <2>1. \A i \in 1..Len(journal) : journal[i] # Torn
    BY <1>1, Rows DEF Files
  <2> QED
    BY <2>1 DEF Files, Replays
<1>5. RecoverJournalState = s
  BY <1>1, <1>3, <1>4 DEF RecoverJournalState, JournalExists
<1>6. snapshot # None => ~(snapshot.sequence > s.sequence)
  <2>1. CASE snapshot = s
    BY <1>1, <2>1, Rows
  <2>2. CASE head = None /\ snapshot # s
    BY <1>1, <2>2 DEF Files, Settled, Ahead
  <2> QED
    BY <2>1, <2>2
<1> QED
  BY <1>1, <1>2, <1>3, <1>5, <1>6 DEF Loaded

LEMMA LoadedNothing ==
  ASSUME TypeOK, Files, head = None, ~\E s \in State : Ahead(s)
  PROVE  /\ snapshot = None
         /\ journal = <<>> => Loaded = None
         /\ journal # <<>> => Loaded = Corrupt
<1>1. snapshot = None
  BY DEF Files, Settled, TypeOK, Ahead
<1>2. CASE journal = <<>>
  BY <1>1, <1>2 DEF Loaded, ValidHead, JournalExists
<1>3. CASE journal # <<>>
  <2>1. Len(journal) = 1 /\ journal[1] = Torn
    BY <1>3, Rows DEF Files, Vouched, Ahead
  <2>2. CommittedRows = <<>>
    BY <1>3, <2>1, Rows DEF CommittedRows, JournalExists, TypeOK
  <2>3. RecoverJournalState = Corrupt
    BY <2>2 DEF RecoverJournalState
  <2> QED
    BY <1>1, <1>3, <2>3 DEF Loaded, ValidHead, JournalExists
<1> QED
  BY <1>1, <1>2, <1>3

(* A reader of a record gets one of the two. *)
LEMMA Readable ==
  ASSUME TypeOK, Files, Loaded \in State
  PROVE  \/ head # None /\ snapshot = Settled /\ Loaded = Settled /\ ValidHead(snapshot)
         \/ /\ Ahead(Loaded) /\ (head = None \/ snapshot = Loaded) /\ ~ValidHead(snapshot)
            /\ Len(CommittedRows) = Len(journal)
<1>1. CASE head # None /\ snapshot = Settled
  BY <1>1, LoadedSettled
<1>2. CASE head # None /\ snapshot # Settled
  <2>1. Ahead(snapshot)
    BY <1>2 DEF Files
  <2> QED
    BY <2>1, LoadedAhead
<1>3. CASE head = None /\ \E s \in State : Ahead(s)
  <2>1. PICK s \in State : Ahead(s)
    BY <1>3
  <2> QED
    BY <1>3, <2>1, LoadedAhead
<1>4. CASE head = None /\ ~\E s \in State : Ahead(s)
  BY <1>4, LoadedNothing, JournalAssumption
<1> QED
  BY <1>1, <1>2, <1>3, <1>4

(* create() finds no record where there are no files. *)
LEMMA NothingThere ==
  ASSUME TypeOK, Files, Loaded = None
  PROVE  head = None /\ journal = <<>> /\ snapshot = None
<1>1. head = None
  <2>1. head # None /\ snapshot # Settled => Ahead(snapshot)
    BY DEF Files
  <2> QED
    BY <2>1, LoadedSettled, LoadedAhead, Rows
<1>2. ~\E s \in State : Ahead(s)
  BY <1>1, LoadedAhead, JournalAssumption
<1> QED
  BY <1>1, <1>2, LoadedNothing, JournalAssumption

-----------------------------------------------------------------------------
(* The steps *)

LEMMA Plans ==
  /\ \A s \in FileStep : <<s>> \in Seq(FileStep) /\ <<s>> # <<>> /\ Head(<<s>>) = s /\ Tail(<<s>>) = <<>>
  /\ LET p == <<"snapshot", "head">>
     IN  p \in Seq(FileStep) /\ p # <<>> /\ Head(p) = "snapshot" /\ Tail(p) = <<"head">>
  /\ LET p == <<"truncate", "snapshot", "head">>
     IN  p \in Seq(FileStep) /\ p # <<>> /\ Head(p) = "truncate" /\ Tail(p) = <<"snapshot", "head">>
  /\ CommitPlan \in Seq(FileStep) /\ CommitPlan # <<>> /\ Head(CommitPlan) = "append"
  /\ LET p == Tail(CommitPlan)
     IN  p \in Seq(FileStep) /\ p # <<>> /\ Head(p) = "finishAppend" /\ Tail(p) = <<"snapshot", "head">>
  /\ <<>> \in Seq(FileStep)
BY DEF CommitPlan, FileStep

(* Which operation is under way when a file operation is next. *)
LEMMA NextOf ==
  ASSUME IInv, NEW step \in FileStep, NextStep(step)
  PROVE  /\ call.op # "idle" /\ call' = [call EXCEPT !.todo = Tail(call.todo)] /\ call' \in Call
         /\ acked' = acked /\ lister' = lister
         /\ Phase' => Work'
         /\ step = "truncate" => Trimming \/ Repairing
         /\ step = "append" => Begun
         /\ step = "finishAppend" => Appending
         /\ step = "snapshot" => SnapshotLeft
         /\ step = "head" => HeadLeft
<1>1. call.todo # <<>> /\ Head(call.todo) = step /\ call' = [call EXCEPT !.todo = Tail(call.todo)]
      /\ acked' = acked /\ lister' = lister
  BY DEF NextStep
<1>2. call.op # "idle" /\ (HeadLeft \/ SnapshotLeft \/ Trimming \/ Repairing \/ Begun \/ Appending)
  BY <1>1 DEF IInv, Work, Phase, NoCall, Finished
<1>3. call' \in Call
  <2>1. Tail(call.todo) \in Seq(FileStep)
    BY <1>1 DEF IInv, TypeOK, Call
  <2> QED
    BY <1>1, <2>1 DEF IInv, TypeOK, Call
<1>4. Head(call.todo) = IF HeadLeft THEN "head" ELSE IF SnapshotLeft THEN "snapshot"
                        ELSE IF Trimming \/ Repairing THEN "truncate" ELSE IF Begun THEN "append" ELSE "finishAppend"
  BY <1>2, Plans DEF HeadLeft, SnapshotLeft, Trimming, Repairing, Begun, Appending, FileStep
<1>5. call'.op = call.op /\ call'.want = call.want /\ (call.op = "mutate" => call.want \in Value)
  BY <1>1, <1>2 DEF IInv, TypeOK, Call, Work, NoCall
<1> QED
  BY <1>1, <1>2, <1>3, <1>4, <1>5 DEF Work

LEMMA TruncateInv ==
  ASSUME IInv, Truncate
  PROVE  IInv'
<1>0. /\ (Phase' => Work') /\ TypeOK /\ Files /\ Answers /\ Lists
      /\ Trimming \/ Repairing
      /\ call' = [call EXCEPT !.todo = Tail(call.todo)] /\ call' \in Call /\ acked' = acked /\ lister' = lister
      /\ journal' = SubSeq(journal, 1, call.keep) /\ snapshot' = snapshot /\ head' = head /\ call.op # "idle"
  BY NextOf DEF IInv, Truncate, FileStep
<1>1. call.keep \in Vouched .. Len(journal) /\ call.keep \in Nat
  BY <1>0, Rows DEF Trimming, Repairing, Files, Ahead
<1>2. /\ journal' \in Seq(Row \cup {Torn}) /\ Len(journal') = call.keep
      /\ \A i \in 1..call.keep : journal'[i] = journal[i]
      /\ Vouched' = Vouched /\ Settled' = Settled
  <2>1. \A i \in 1..call.keep : i \in 1..Len(journal)
    BY <1>1, Rows, <1>0
  <2> QED
    BY <1>0, <1>1, <2>1, Rows DEF TypeOK, Vouched, Settled
<1>3. TypeOK'
  BY <1>0, <1>2 DEF TypeOK
<1>4. CASE Trimming
  <2>1. Len(journal') = Vouched' /\ snapshot' = Settled'
    BY <1>0, <1>2, <1>4 DEF Trimming
  <2>2. Files'
    BY <1>0, <1>1, <1>2, <2>1, Rows DEF Files, Vouched
  <2>3. Finished'
    BY <1>0, <1>4, <2>1, <1>2, Plans DEF Trimming, Finished, TypeOK, Call, FileStep
  <2> QED
    BY <1>0, <1>3, <2>2, <2>3 DEF IInv, Phase, Answers, Lists, ListSound, TypeOK, Call
<1>5. CASE Repairing
  <2>1. journal' = journal
    BY <1>0, <1>2, <1>5 DEF Repairing, TypeOK
  <2>2. Files'
    BY <1>0, <2>1 DEF Files, Vouched, Settled, Ahead
  <2>3. SnapshotLeft'
    BY <1>0, <1>5, <2>1, Plans DEF Repairing, SnapshotLeft, Ahead, Vouched, Settled, TypeOK, Call
  <2> QED
    BY <1>0, <1>3, <2>2, <2>3 DEF IInv, Phase, Answers, Lists, ListSound, TypeOK, Call
<1> QED
  BY <1>0, <1>4, <1>5

LEMMA AppendInv ==
  ASSUME IInv, AppendRow
  PROVE  IInv'
<1>0. /\ (Phase' => Work') /\ TypeOK /\ Files /\ Answers /\ Lists /\ Begun
      /\ call' = [call EXCEPT !.todo = Tail(call.todo)] /\ call' \in Call /\ acked' = acked /\ lister' = lister
      /\ journal' = Append(journal, Torn) /\ snapshot' = snapshot /\ head' = head /\ call.op # "idle"
  BY NextOf DEF IInv, AppendRow, FileStep
<1>1. /\ journal' \in Seq(Row \cup {Torn}) /\ Len(journal') = Vouched + 1
      /\ \A i \in 1..Vouched : journal'[i] = journal[i]
      /\ journal'[Vouched + 1] = Torn
      /\ Vouched' = Vouched /\ Settled' = Settled
  BY <1>0, Rows DEF TypeOK, Begun, Vouched, Settled
<1>2. TypeOK'
  BY <1>0, <1>1 DEF TypeOK
<1>3. Files'
  <2>1. Vouched \in Nat /\ Len(journal) = Vouched
    BY <1>0, Rows DEF Begun
  <2>2. head' # None => head'.bytes > 0 /\ journal'[head'.bytes].state = head'.state
    BY <1>0, <1>1, <2>1, Rows DEF Files, Vouched
  <2>3. \A i \in 1..Vouched + 1 : i \in 1..Vouched \/ i = Vouched + 1
    BY <2>1
  <2>4. \A i \in 1..Vouched : i # 1 => i - 1 \in 1..Vouched
    BY <2>1
  <2>5. snapshot' = Settled'
    BY <1>0, <1>1 DEF Begun, Writing
  <2>6. \A i \in 1..Vouched : /\ journal'[i] # Torn
                              /\ journal'[i].base = IF i = 1 THEN None ELSE journal'[i - 1].state
                              /\ journal'[i].state.sequence = i
    BY <1>0, <1>1, <2>1, <2>4 DEF Files
  <2>7. \A i \in 1..Len(journal') : journal'[i] # Torn =>
           /\ journal'[i].base = IF i = 1 THEN None ELSE journal'[i - 1].state
           /\ journal'[i].state.sequence = i
    BY <1>1, <2>3, <2>6
  <2> QED
    BY <1>1, <2>1, <2>2, <2>5, <2>6, <2>7 DEF Files
<1>4. Appending'
  BY <1>0, <1>1 DEF Begun, Appending, Writing, TypeOK, Call
<1> QED
  BY <1>0, <1>2, <1>3, <1>4 DEF IInv, Phase, Answers, Lists, ListSound, TypeOK, Call

LEMMA FinishAppendInv ==
  ASSUME IInv, FinishAppend
  PROVE  IInv'
<1>0. /\ (Phase' => Work') /\ TypeOK /\ Files /\ Answers /\ Lists /\ Appending
      /\ call' = [call EXCEPT !.todo = Tail(call.todo)] /\ call' \in Call /\ acked' = acked /\ lister' = lister
      /\ journal' = [journal EXCEPT ![Len(journal)] = [base |-> call.prev, state |-> call.next]]
      /\ snapshot' = snapshot /\ head' = head /\ call.op # "idle"
  BY NextOf DEF IInv, FinishAppend, FileStep
<1> DEFINE row == [base |-> call.prev, state |-> call.next]
<1>1. row \in Row /\ row # Torn /\ row.base = Settled /\ row.state = call.next
      /\ call.next.sequence = Vouched + 1 /\ Vouched \in Nat /\ Len(journal) = Vouched + 1
  BY <1>0, Rows, JournalAssumption DEF Appending, Writing, TypeOK, Call, Row
<1>2. /\ journal' \in Seq(Row \cup {Torn}) /\ Len(journal') = Vouched + 1
      /\ \A i \in 1..Vouched : journal'[i] = journal[i]
      /\ journal'[Vouched + 1] = row
      /\ Vouched' = Vouched /\ Settled' = Settled
  <2> HIDE DEF row
  <2>1. journal' = [journal EXCEPT ![Len(journal)] = row]
    BY <1>0 DEF row
  <2> QED
    BY <1>0, <1>1, <2>1, Rows DEF TypeOK, Vouched, Settled
<1>3. TypeOK'
  BY <1>0, <1>2 DEF TypeOK
<1>4. Files'
  <2>2. head' # None => head'.bytes > 0 /\ journal'[head'.bytes].state = head'.state
    BY <1>0, <1>1, <1>2, Rows DEF Files, Vouched
  <2>3. \A i \in 1..Vouched + 1 : i \in 1..Vouched \/ i = Vouched + 1
    BY <1>1
  <2>4. \A i \in 1..Vouched : i # 1 => i - 1 \in 1..Vouched
    BY <1>1
  <2>5. snapshot' = Settled'
    BY <1>0, <1>2 DEF Appending, Writing
  <2>6. row.base = IF Vouched + 1 = 1 THEN None ELSE journal'[Vouched].state
    BY <1>0, <1>1, <1>2, Rows DEF Files, Vouched, Settled
  <2> QED
    BY <1>0, <1>1, <1>2, <2>2, <2>3, <2>4, <2>5, <2>6 DEF Files
<1>5. SnapshotLeft'
  <2>1. call'.todo = <<"snapshot", "head">> /\ call'.next = call.next /\ call'.op = "commit"
    BY <1>0, Plans DEF Appending, Writing, TypeOK, Call
  <2> QED
    BY <1>0, <1>1, <1>2, <2>1 DEF SnapshotLeft, Ahead, Appending, Writing
<1> QED
  BY <1>0, <1>3, <1>4, <1>5 DEF IInv, Phase, Answers, Lists, ListSound, TypeOK, Call

LEMMA SnapshotInv ==
  ASSUME IInv, WriteSnapshot
  PROVE  IInv'
<1>0. /\ (Phase' => Work') /\ TypeOK /\ Files /\ Answers /\ Lists /\ SnapshotLeft
      /\ call' = [call EXCEPT !.todo = Tail(call.todo)] /\ call' \in Call /\ acked' = acked /\ lister' = lister
      /\ snapshot' = call.next /\ journal' = journal /\ head' = head /\ call.op # "idle"
  BY NextOf DEF IInv, WriteSnapshot, FileStep
<1>1. Ahead(call.next) /\ call.next \in State
  <2>1. Vouched + 1 \in 1..Len(journal)
    BY <1>0, Rows DEF SnapshotLeft, Ahead
  <2> QED
    BY <1>0, <2>1, Rows DEF SnapshotLeft, Ahead
<1>2. TypeOK'
  BY <1>0, <1>1 DEF TypeOK
<1>3. Vouched' = Vouched /\ Settled' = Settled
  BY <1>0 DEF Vouched, Settled
<1>4. Files'
  BY <1>0, <1>1, <1>3 DEF Files, Ahead
<1>5. HeadLeft'
  BY <1>0, <1>1, <1>3, Plans DEF SnapshotLeft, HeadLeft, Ahead, TypeOK, Call
<1> QED
  BY <1>0, <1>2, <1>4, <1>5 DEF IInv, Phase, Answers, Lists, ListSound, TypeOK, Call

LEMMA HeadInv ==
  ASSUME IInv, WriteHead
  PROVE  IInv'
<1>0. /\ (Phase' => Work') /\ TypeOK /\ Files /\ Answers /\ Lists /\ HeadLeft
      /\ call' = [call EXCEPT !.todo = Tail(call.todo)] /\ call' \in Call /\ acked' = acked /\ lister' = lister
      /\ head' = [state |-> call.next, bytes |-> Len(journal)]
      /\ snapshot' = snapshot /\ journal' = journal /\ call.op # "idle"
  BY NextOf DEF IInv, WriteHead, FileStep
<1>1. /\ Len(journal) = Vouched + 1 /\ Vouched \in Nat /\ snapshot = call.next
      /\ journal[Vouched + 1] # Torn /\ journal[Vouched + 1].state = call.next
      /\ call.next \in State /\ call.next.sequence = Vouched + 1
  <2>1. Vouched + 1 \in 1..Len(journal) /\ Vouched \in Nat
    BY <1>0, Rows DEF HeadLeft, Ahead
  <2> QED
    BY <1>0, <2>1, Rows DEF HeadLeft, Ahead, Files
<1>2. head' \in JournalHead /\ head' # None
  BY <1>0, <1>1, JournalAssumption DEF JournalHead
<1>3. TypeOK'
  BY <1>0, <1>2 DEF TypeOK
<1>4. Vouched' = Vouched + 1 /\ Settled' = call.next
  BY <1>0, <1>1, <1>2 DEF Vouched, Settled
<1>5. Files'
  <2>1. \A i \in 1..Vouched + 1 : journal'[i] # Torn
    <3>1. \A i \in 1..Vouched + 1 : i \in 1..Vouched \/ i = Vouched + 1
      BY <1>1
    <3> QED
      BY <1>0, <1>1, <3>1 DEF Files
  <2>2. head'.bytes > 0 /\ journal'[head'.bytes].state = head'.state
    BY <1>0, <1>1
  <2> QED
    BY <1>0, <1>1, <1>4, <2>1, <2>2 DEF Files
<1>6. Finished'
  BY <1>0, <1>1, <1>2, <1>4, Plans DEF Finished, HeadLeft, FileStep, TypeOK, Call
<1>7. head # None => head.bytes = Vouched /\ head.state.sequence = head.bytes
  BY <1>0, Rows DEF Files, Vouched
<1>8. head # None => head.state.sequence <= head'.state.sequence /\ head.bytes <= head'.bytes
  BY <1>0, <1>1, <1>7
<1>9. Answers'
  BY <1>0, <1>1, <1>2, <1>7, Rows DEF Answers, TypeOK
<1>10. Lists'
  BY <1>0, <1>1, <1>2, <1>7, Rows DEF Lists, ListSound, TypeOK, Lister
<1> QED
  BY <1>0, <1>3, <1>5, <1>6, <1>9, <1>10 DEF IInv, Phase, TypeOK, Call

(* An operation that reads starts from what the files say. *)
LEMMA ReadWork ==
  ASSUME IInv, NEW op \in {"load", "mutate"}, NEW v \in Value \cup {None}, op = "mutate" => v \in Value, Read(op, v)
  PROVE  /\ call' \in Call /\ Work' /\ TypeOK /\ Files /\ Loaded \in State
         /\ head # None => Loaded.sequence >= head.state.sequence
         /\ journal' = journal /\ snapshot' = snapshot /\ head' = head /\ acked' = acked
<1>0. /\ TypeOK /\ Files /\ Loaded \in State
      /\ call' = [op |-> op, want |-> v, todo |-> RepairPlan, keep |-> RepairKeep, prev |-> None, next |-> Loaded]
      /\ journal' = journal /\ snapshot' = snapshot /\ head' = head /\ acked' = acked
  BY DEF IInv, Read, NoCall
<1>1. Vouched' = Vouched /\ Settled' = Settled /\ \A s : Ahead(s)' <=> Ahead(s)
  BY <1>0 DEF Vouched, Settled, Ahead
<1>2. /\ call'.op = op /\ (call'.op = "mutate" => call'.want \in Value) /\ call'.op # "commit" /\ call'.op # "idle" /\ call'.next = Loaded
      /\ call'.todo = RepairPlan /\ call'.keep = RepairKeep
  BY <1>0
<1>3. CASE head # None /\ snapshot = Settled /\ Loaded = Settled /\ ValidHead(snapshot)
  <2>1. RepairKeep = head.bytes /\ Vouched = head.bytes /\ head.bytes \in Nat /\ Len(journal) \in Nat
    BY <1>0, <1>3, Rows DEF RepairKeep, Vouched
  <2>2. CASE Len(journal) = Vouched
    <3>1. RepairPlan = <<>>
      BY <1>3, <2>1, <2>2 DEF RepairPlan
    <3>2. Finished'
      BY <1>0, <1>1, <1>2, <1>3, <2>2, <3>1 DEF Finished
    <3>3. call' \in Call
      BY <1>0, <2>1, <3>1, Plans DEF Call
    <3> QED
      BY <1>0, <1>2, <1>3, <3>2, <3>3, Rows DEF Work, Phase, Settled
  <2>3. CASE Len(journal) = Vouched + 1
    <3>1. RepairPlan = <<"truncate">>
      BY <1>3, <2>1, <2>3 DEF RepairPlan
    <3>2. Trimming'
      BY <1>0, <1>1, <1>2, <1>3, <2>1, <3>1 DEF Trimming
    <3>3. call' \in Call
      BY <1>0, <2>1, <3>1, Plans DEF Call, FileStep
    <3> QED
      BY <1>0, <1>2, <1>3, <3>2, <3>3, Rows DEF Work, Phase, Settled
  <2> QED
    BY <1>0, <2>2, <2>3 DEF Files
<1>4. CASE /\ Ahead(Loaded) /\ (head = None \/ snapshot = Loaded) /\ ~ValidHead(snapshot)
           /\ Len(CommittedRows) = Len(journal)
  <2>1. RepairPlan = <<"truncate", "snapshot", "head">> /\ RepairKeep = Len(journal) /\ Len(journal) \in Nat
    BY <1>0, <1>4, Rows DEF RepairPlan, RepairKeep
  <2>2. Repairing'
    BY <1>0, <1>1, <1>2, <1>4, <2>1 DEF Repairing
  <2>3. call' \in Call
    BY <1>0, <2>1, Plans DEF Call
  <2>4. head # None => Loaded.sequence >= head.state.sequence
    <3>1. Vouched + 1 \in 1..Len(journal) /\ Vouched \in Nat
      BY <1>0, <1>4, Rows DEF Ahead
    <3>2. Loaded.sequence = Vouched + 1
      BY <1>0, <1>4, <3>1 DEF Ahead, Files
    <3>3. head # None => head.state.sequence = head.bytes /\ Vouched = head.bytes
      BY <1>0, Rows DEF Files, Vouched
    <3> QED
      BY <3>1, <3>2, <3>3
  <2> QED
    BY <1>0, <1>2, <2>2, <2>3, <2>4 DEF Work, Phase
<1> QED
  BY <1>0, <1>3, <1>4, Readable

LEMMA LoadInv ==
  ASSUME IInv, NEW op \in {"load", "mutate"}, NEW v \in Value \cup {None}, op = "mutate" => v \in Value, Read(op, v), UNCHANGED lister
  PROVE  IInv'
<1>1. /\ call' \in Call /\ Work' /\ TypeOK /\ Files
      /\ journal' = journal /\ snapshot' = snapshot /\ head' = head /\ acked' = acked /\ lister' = lister
  BY ReadWork
<1>2. TypeOK' /\ Files'
  BY <1>1 DEF TypeOK, Files, Vouched, Settled, Ahead
<1>3. Answers' /\ Lists'
  BY <1>1 DEF IInv, Answers, Lists, ListSound
<1> QED
  BY <1>1, <1>2, <1>3 DEF IInv

LEMMA CreateInv ==
  ASSUME IInv, NEW v \in Value, Create(v)
  PROVE  IInv'
<1>0. /\ TypeOK /\ Files /\ Answers /\ Lists /\ Loaded = None
      /\ call' = [op |-> "commit", want |-> None, todo |-> CommitPlan, keep |-> 0, prev |-> None,
                  next |-> [sequence |-> 1, value |-> v]]
      /\ journal' = journal /\ snapshot' = snapshot /\ head' = head /\ acked' = acked /\ lister' = lister
  BY DEF IInv, Create, NoCall
<1>1. [sequence |-> 1, value |-> v] \in State
  BY JournalAssumption DEF State
<1>2. call' \in Call
  BY <1>0, <1>1, Plans DEF Call
<1>3. head = None /\ journal = <<>> /\ snapshot = None
  BY <1>0, NothingThere
<1>4. TypeOK' /\ Files'
  BY <1>0, <1>2 DEF TypeOK, Files, Vouched, Settled, Ahead
<1>5. Begun'
  BY <1>0, <1>1, <1>3 DEF Begun, Writing, Vouched, Settled
<1>6. Answers' /\ Lists'
  BY <1>0 DEF Answers, Lists, ListSound
<1> QED
  BY <1>0, <1>4, <1>5, <1>6 DEF IInv, Work, Phase

LEMMA CommitInv ==
  ASSUME IInv, StartCommit
  PROVE  IInv' /\ Finished /\ call.next \in State /\ call'.next \in State
<1>0. /\ TypeOK /\ Files /\ Answers /\ Lists /\ Work /\ call.op = "mutate" /\ call.todo = <<>> /\ call.want # call.next.value
      /\ call.next.sequence < MaxSequence /\ ValidHead(call.next)
      /\ call' = [call EXCEPT
          !.op = "commit", !.prev = call.next, !.keep = head.bytes,
          !.next = [sequence |-> call.next.sequence + 1, value |-> call.want],
          !.todo = (IF Len(journal) > head.bytes THEN <<"truncate">> ELSE <<>>) \o CommitPlan]
      /\ journal' = journal /\ snapshot' = snapshot /\ head' = head /\ acked' = acked /\ lister' = lister
  BY DEF IInv, StartCommit
<1>1. Finished
  BY <1>0, Plans DEF Work, Phase, NoCall, HeadLeft, SnapshotLeft, Trimming, Repairing, Begun, Appending, FileStep
<1>2. call.next \in State /\ call.next.sequence = Vouched /\ Vouched \in Nat /\ Len(journal) = Vouched /\ Vouched = head.bytes
  BY <1>0, <1>1, Rows DEF Finished, Settled, Vouched, Files
<1>3. call' = [call EXCEPT !.op = "commit", !.prev = call.next, !.keep = head.bytes,
                           !.next = [sequence |-> call.next.sequence + 1, value |-> call.want], !.todo = CommitPlan]
  <2>1. ~(Len(journal) > head.bytes) /\ <<>> \o CommitPlan = CommitPlan
    BY <1>2, Plans
  <2> QED
    BY <1>0, <2>1
<1> DEFINE n == [sequence |-> call.next.sequence + 1, value |-> call.want]
<1>4. n \in State /\ n.sequence = Vouched + 1
  <2>1. call.want \in Value
    BY <1>0 DEF Work, Phase, NoCall
  <2> QED
    BY <1>0, <1>2, <2>1, JournalAssumption DEF State
<1>5. /\ call' \in Call /\ call'.op = "commit" /\ call'.prev = call.next /\ call'.next = n /\ call'.todo = CommitPlan
      /\ call'.next \in State /\ call'.next.sequence = Vouched + 1
  <2> HIDE DEF n
  <2>1. call' = [call EXCEPT !.op = "commit", !.prev = call.next, !.keep = head.bytes, !.next = n, !.todo = CommitPlan]
    BY <1>3 DEF n
  <2>2. head.bytes \in Nat /\ CommitPlan \in Seq(FileStep) /\ call \in Call
    BY <1>0, <1>2, Plans DEF TypeOK
  <2>3. call' \in Call
    BY <1>2, <1>4, <2>1, <2>2 DEF Call
  <2>4. /\ call'.op = "commit" /\ call'.prev = call.next /\ call'.next = n /\ call'.todo = CommitPlan
    BY <2>1, <2>2 DEF Call
  <2> QED
    BY <1>4, <2>3, <2>4
<1>6. TypeOK' /\ Files'
  BY <1>0, <1>5 DEF TypeOK, Files, Vouched, Settled, Ahead
<1>7. Begun'
  BY <1>0, <1>1, <1>2, <1>5 DEF Finished, Begun, Writing, Vouched, Settled
<1>8. Answers' /\ Lists'
  BY <1>0 DEF Answers, Lists, ListSound
<1> QED
  BY <1>1, <1>2, <1>5, <1>6, <1>7, <1>8 DEF IInv, Work, Phase

LEMMA ReturnInv ==
  ASSUME IInv, Return
  PROVE  IInv' /\ Finished
<1>0. /\ TypeOK /\ Files /\ Answers /\ Lists /\ Work /\ call.op # "idle" /\ call.todo = <<>>
      /\ acked' = call.next /\ call' = NoCall
      /\ journal' = journal /\ snapshot' = snapshot /\ head' = head /\ lister' = lister
  BY DEF IInv, Return
<1>1. Finished
  BY <1>0, Plans DEF Work, Phase, NoCall, HeadLeft, SnapshotLeft, Trimming, Repairing, Begun, Appending, FileStep
<1>2. TypeOK' /\ Files'
  BY <1>0, <1>1, Plans DEF TypeOK, Files, Vouched, Settled, Ahead, Call, NoCall
<1>3. Answers'
  BY <1>0, <1>1, Rows DEF Answers, Finished, Settled
<1>4. Lists'
  BY <1>0 DEF Lists, ListSound
<1> QED
  BY <1>0, <1>1, <1>2, <1>3, <1>4 DEF IInv, Work, Phase

LEMMA AbandonInv ==
  ASSUME IInv, Abandon
  PROVE  IInv'
<1>1. /\ call' = NoCall /\ TypeOK /\ Files /\ Answers /\ Lists
      /\ journal' = journal /\ snapshot' = snapshot /\ head' = head /\ acked' = acked /\ lister' = lister
  BY DEF IInv, Abandon
<1>2. TypeOK' /\ Files'
  BY <1>1, Plans DEF TypeOK, Files, Vouched, Settled, Ahead, Call, NoCall
<1>3. Answers' /\ Lists'
  BY <1>1 DEF Answers, Lists, ListSound
<1> QED
  BY <1>1, <1>2, <1>3 DEF IInv, Work, Phase

-----------------------------------------------------------------------------
(* list() *)

(* Only what the lister holds is to be proved of a step of list(). *)
LEMMA ListStep ==
  ASSUME IInv, UNCHANGED <<journal, snapshot, head, acked>>, lister' \in Lister, Lists', call' = call
  PROVE  IInv'
<1>1. /\ TypeOK /\ Files /\ Answers /\ Work
      /\ journal' = journal /\ snapshot' = snapshot /\ head' = head /\ acked' = acked
  BY DEF IInv
<1>2. TypeOK' /\ Files' /\ Answers'
  BY <1>1 DEF TypeOK, Files, Vouched, Settled, Ahead, Answers
<1>3. Work'
  BY <1>1 DEF Work, Phase, Finished, HeadLeft, SnapshotLeft, Trimming, Repairing, Writing, Begun, Appending,
              Vouched, Settled, Ahead
<1> QED
  BY <1>2, <1>3 DEF IInv

(* The snapshot is as fresh as any answer given. *)
LEMMA SnapshotFresh ==
  ASSUME IInv, acked # None
  PROVE  snapshot \in State /\ snapshot.sequence >= acked.sequence
<1>1. head # None /\ acked.sequence <= head.state.sequence /\ head.state \in State /\ acked \in State
      /\ head.state.sequence = head.bytes /\ Vouched = head.bytes /\ head.bytes \in Nat
  <2>1. TypeOK /\ Files /\ head # None /\ acked.sequence <= head.state.sequence
    BY DEF IInv, Answers
  <2> QED
    BY <2>1, Rows DEF TypeOK, Files, Vouched
<1>2. CASE snapshot = Settled
  BY <1>1, <1>2, Rows DEF Settled
<1>3. CASE snapshot # Settled
  <2>1. Ahead(snapshot) /\ Vouched + 1 \in 1..Len(journal)
    BY <1>1, <1>3, Rows DEF IInv, Files, Ahead
  <2>2. snapshot \in State /\ snapshot.sequence = Vouched + 1
    BY <2>1, Rows DEF IInv, Files, Ahead
  <2> QED
    BY <1>1, <2>2, Rows DEF IInv
<1> QED
  BY <1>2, <1>3

LEMMA ListInv ==
  ASSUME IInv, List
  PROVE  IInv'
<1>0. /\ TypeOK /\ Files /\ Answers /\ Lists /\ lister \in Lister
      /\ head # None => /\ head.bytes \in Nat /\ head.bytes > 0 /\ head.bytes <= Len(journal) /\ Len(journal) \in Nat
                        /\ head.state \in State /\ journal[1] # Torn
  BY Rows DEF IInv, TypeOK, Files, Vouched
<1>1. CASE ListSnapshot
  <2>1. /\ UNCHANGED <<journal, snapshot, head, call, acked>>
        /\ lister' = [at |-> IF snapshot # None THEN "head" ELSE "journal", snap |-> snapshot,
                      hasHead |-> head # None, bytes |-> 0, floor |-> acked, result |-> None]
    BY <1>1 DEF ListSnapshot, NoList
  <2>2. lister' \in Lister
    BY <1>0, <2>1 DEF TypeOK, Lister
  <2>3. Lists'
    BY <1>0, <2>1, SnapshotFresh DEF Lists, ListSound, Answers, TypeOK
  <2> QED
    BY <2>1, <2>2, <2>3, ListStep
<1>2. CASE ListHead
  <2>1. UNCHANGED <<journal, snapshot, head, call, acked>> /\ lister.at = "head"
    BY <1>2 DEF ListHead
  <2>2. CASE lister' = [lister EXCEPT !.at = "size", !.bytes = head.bytes] /\ ValidHead(lister.snap)
    <3>1. lister' \in Lister
      BY <1>0, <2>2 DEF ValidHead, Lister
    <3>2. Lists'
      BY <1>0, <2>1, <2>2 DEF ValidHead, Lister, Lists, ListSound
    <3> QED
      BY <2>1, <3>1, <3>2, ListStep
  <2>3. CASE lister' = [lister EXCEPT !.at = "journal"]
    <3>1. lister' \in Lister
      BY <1>0, <2>3 DEF Lister
    <3>2. Lists'
      BY <1>0, <2>1, <2>3 DEF Lister, Lists, ListSound
    <3> QED
      BY <2>1, <3>1, <3>2, ListStep
  <2> QED
    BY <1>2, <2>2, <2>3 DEF ListHead
<1>3. CASE ListSize
  <2>1. /\ UNCHANGED <<journal, snapshot, head, call, acked>> /\ lister.at = "size"
        /\ lister' = [lister EXCEPT !.at = "idle", !.result = IF Len(journal) < lister.bytes THEN Corrupt ELSE lister.snap]
    BY <1>3 DEF ListSize, Listed
  <2>2. ~(Len(journal) < lister.bytes)
    BY <1>0, <2>1, Rows DEF Lists, Lister
  <2>3. lister' = [lister EXCEPT !.at = "idle", !.result = lister.snap]
    BY <2>1, <2>2
  <2>4. lister' \in Lister
    BY <1>0, <2>3 DEF Lister
  <2>5. Lists'
    BY <1>0, <2>1, <2>3 DEF Lister, Lists, ListSound
  <2> QED
    BY <2>1, <2>4, <2>5, ListStep
<1>4. CASE ListJournal
  <2>1. UNCHANGED <<journal, snapshot, head, call, acked>> /\ lister.at = "journal"
    BY <1>4 DEF ListJournal
  <2>2. CASE lister' = [lister EXCEPT !.at = "idle", !.result = Corrupt] /\ (~JournalExists \/ journal[1] = Torn)
    <3>1. lister' \in Lister
      BY <1>0, <2>2 DEF Lister
    <3>2. head = None
      BY <1>0, <2>2 DEF JournalExists
    <3>3. Lists'
      BY <1>0, <2>1, <2>2, <3>2 DEF Lister, Lists, ListSound
    <3> QED
      BY <2>1, <3>1, <3>3, ListStep
  <2>3. CASE lister' = [lister EXCEPT !.at = "locked"]
    <3>1. lister' \in Lister
      BY <1>0, <2>3 DEF Lister
    <3>2. Lists'
      BY <1>0, <2>1, <2>3 DEF Lister, Lists, ListSound
    <3> QED
      BY <2>1, <3>1, <3>2, ListStep
  <2> QED
    BY <1>4, <2>2, <2>3 DEF ListJournal, Listed
<1>5. CASE ListLocked
  <2>1. /\ Read("load", None) /\ lister.at = "locked"
        /\ lister' = [lister EXCEPT !.at = "idle", !.result = Loaded]
    BY <1>5 DEF ListLocked, Listed
  <2>2. /\ call' \in Call /\ Work' /\ Loaded \in State
        /\ head # None => Loaded.sequence >= head.state.sequence
        /\ journal' = journal /\ snapshot' = snapshot /\ head' = head /\ acked' = acked
    BY <2>1, ReadWork
  <2>3. lister' \in Lister
    BY <1>0, <2>1, <2>2 DEF Lister
  <2>4. Lists'
    BY <1>0, <2>1, <2>2, Rows DEF Lister, Lists, ListSound
  <2>5. TypeOK' /\ Files' /\ Answers'
    BY <1>0, <2>2, <2>3 DEF TypeOK, Files, Vouched, Settled, Ahead, Answers
  <2> QED
    BY <2>2, <2>4, <2>5 DEF IInv
<1> QED
  BY <1>1, <1>2, <1>3, <1>4, <1>5 DEF List

-----------------------------------------------------------------------------
(* The invariant and the properties of the runs *)

LEMMA InitInv == Init => IInv
<1> SUFFICES ASSUME Init PROVE IInv
  OBVIOUS
<1>1. TypeOK
  BY DEF Init, TypeOK, Call, Lister, NoCall, NoList
<1>2. Files
  BY DEF Init, Files, Vouched, Settled
<1>3. Work /\ Answers /\ Lists
  BY DEF Init, Work, Answers, Lists, ListSound, NoList
<1> QED
  BY <1>1, <1>2, <1>3 DEF IInv

LEMMA NextInv ==
  ASSUME IInv, [Next]_journalVars
  PROVE  IInv'
<1>1. CASE \E v \in Value : Create(v)
  BY <1>1, CreateInv
<1>2. CASE \E v \in Value : Mutate(v)
  BY <1>2, LoadInv DEF Mutate
<1>3. CASE Load
  BY <1>3, LoadInv DEF Load
<1>4. CASE StartCommit
  BY <1>4, CommitInv
<1>5. CASE Return
  BY <1>5, ReturnInv
<1>6. CASE Abandon
  BY <1>6, AbandonInv
<1>7. CASE Truncate
  BY <1>7, TruncateInv
<1>8. CASE AppendRow
  BY <1>8, AppendInv
<1>9. CASE FinishAppend
  BY <1>9, FinishAppendInv
<1>10. CASE WriteSnapshot
  BY <1>10, SnapshotInv
<1>11. CASE WriteHead
  BY <1>11, HeadInv
<1>12. CASE List
  BY <1>12, ListInv
<1>13. CASE UNCHANGED journalVars
  <2>1. lister' \in Lister /\ Lists'
    BY <1>13 DEF journalVars, IInv, TypeOK, Lists, ListSound
  <2> QED
    BY <1>13, <2>1, ListStep DEF journalVars
<1> QED
  BY <1>1, <1>2, <1>3, <1>4, <1>5, <1>6, <1>7, <1>8, <1>9, <1>10, <1>11, <1>12, <1>13 DEF Next, Operate, WriteFiles

LEMMA Invariant == Spec => []IInv
<1>1. IInv /\ [Next]_journalVars => IInv'
  BY NextInv
<1> QED
  BY InitInv, <1>1, PTL DEF Spec

(* The variables keep their types. *)
THEOREM TypeCorrect == Spec => []TypeOK
<1>1. IInv => TypeOK
  BY DEF IInv
<1> QED
  BY Invariant, <1>1, PTL

(* A record some caller was given can be read whatever failed since: the    *)
(* rows its head vouches for are whole and at most one follows them, so     *)
(* load() never answers pipeline_run_state_corrupt.                         *)
THEOREM Readability == Spec => []AcknowledgedLoadable
<1>1. IInv => AcknowledgedLoadable
  <2> SUFFICES ASSUME IInv, acked # None PROVE Loaded \in State
    BY DEF AcknowledgedLoadable
  <2>1. TypeOK /\ Files /\ head # None
    BY DEF IInv, Answers
  <2>2. snapshot = Settled \/ Ahead(snapshot)
    BY <2>1 DEF Files
  <2> QED
    BY <2>1, <2>2, LoadedSettled, LoadedAhead
<1> QED
  BY Invariant, <1>1, PTL

(* list(), on its lock-free fast path too, answers no older state than an   *)
(* answer given before it began, and no error for such a record.            *)
THEOREM FreshLists == Spec => []ListSound
<1>1. IInv => ListSound
  BY DEF IInv, Lists
<1> QED
  BY Invariant, <1>1, PTL

-----------------------------------------------------------------------------
(* The refinement *)

VisibleAs ==
    /\ head # None /\ snapshot = Settled => Visible = Settled /\ Settled \in State
    /\ \A s \in State : Ahead(s) /\ (head = None \/ snapshot = s) => Visible = s
    /\ head = None /\ (journal = <<>> \/ journal[1] = Torn) => Visible = None

LEMMA VisibleInv == IInv => VisibleAs
<1> SUFFICES ASSUME IInv PROVE VisibleAs
  OBVIOUS
<1>1. TypeOK /\ Files
  BY DEF IInv
<1>2. head # None /\ snapshot = Settled => Visible = Settled /\ Settled \in State
  BY <1>1, LoadedSettled, Rows DEF Visible
<1>3. \A s \in State : Ahead(s) /\ (head = None \/ snapshot = s) => Visible = s
  BY <1>1, LoadedAhead, Rows DEF Visible
<1>4. ASSUME head = None, journal = <<>> \/ journal[1] = Torn PROVE Visible = None
  <2>1. ~\E s \in State : Ahead(s)
    BY <1>1, <1>4 DEF Ahead, Vouched
  <2> QED
    BY <1>1, <1>4, <2>1, LoadedNothing, JournalAssumption DEF Visible
<1> QED
  BY <1>2, <1>3, <1>4 DEF VisibleAs

Asked == IF call.op = "commit" THEN call.next ELSE None

(* A step that leaves the visible record and the write under way alone. *)
Stutters == Visible' = Visible /\ Asked' = Asked /\ acked' = acked

LEMMA Unseen ==
  ASSUME UNCHANGED <<journal, snapshot, head>>
  PROVE  Visible' = Visible
BY DEF Visible, Loaded, ValidHead, JournalExists, RecoverJournalState, CommittedRows, Replays

(* A repair and the writing of the head change nothing a reader sees; a row *)
(* takes effect when its snapshot is in place, the first when it is whole.  *)
LEMMA FileSteps ==
  ASSUME IInv, IInv', VisibleAs, VisibleAs', WriteFiles
  PROVE  Stutters \/ Record!TakeEffect
<1>0. TypeOK /\ Files /\ Vouched \in Nat /\ Len(journal) \in Nat
  BY Rows DEF IInv
<1>1. CASE Truncate
  <2>1. /\ Trimming \/ Repairing
        /\ call' = [call EXCEPT !.todo = Tail(call.todo)] /\ call' \in Call /\ acked' = acked
        /\ journal' = SubSeq(journal, 1, call.keep) /\ snapshot' = snapshot /\ head' = head
    BY <1>1, NextOf DEF Truncate, FileStep
  <2>2. Asked' = Asked
    BY <2>1, <1>0 DEF Asked, TypeOK, Call
  <2>3. CASE Trimming
    BY <2>1, <2>2, <2>3 DEF Trimming, VisibleAs, Settled, Stutters
  <2>4. CASE Repairing
    <3>1. journal' = journal
      BY <1>0, <2>1, <2>4 DEF Repairing, TypeOK
    <3> QED
      BY <2>1, <2>2, <3>1, Unseen DEF Stutters
  <2> QED
    BY <2>1, <2>3, <2>4
<1>2. CASE AppendRow
  <2>1. /\ Begun
        /\ call' = [call EXCEPT !.todo = Tail(call.todo)] /\ call' \in Call /\ acked' = acked
        /\ journal' = Append(journal, Torn) /\ snapshot' = snapshot /\ head' = head
    BY <1>2, NextOf DEF AppendRow, FileStep
  <2>2. Asked' = Asked
    BY <2>1, <1>0 DEF Asked, TypeOK, Call
  <2>3. CASE head = None
    <3>1. journal = <<>>
      BY <1>0, <2>1, <2>3 DEF Begun, Vouched, TypeOK
    <3>2. journal'[1] = Torn
      BY <2>1, <3>1
    <3> QED
      BY <2>1, <2>2, <2>3, <3>1, <3>2 DEF VisibleAs, Stutters
  <2>4. CASE head # None
    BY <2>1, <2>2, <2>4 DEF Begun, Writing, VisibleAs, Settled, Stutters
  <2> QED
    BY <2>3, <2>4
<1>3. CASE FinishAppend
  <2>1. /\ Appending
        /\ call' = [call EXCEPT !.todo = Tail(call.todo)] /\ call' \in Call /\ acked' = acked
        /\ journal' = [journal EXCEPT ![Len(journal)] = [base |-> call.prev, state |-> call.next]]
        /\ snapshot' = snapshot /\ head' = head
    BY <1>3, NextOf DEF FinishAppend, FileStep
  <2>2. Asked' = Asked /\ Asked = call.next /\ call.next \in State /\ call.next.sequence = Vouched + 1
    BY <2>1, <1>0 DEF Asked, TypeOK, Call, Appending, Writing
  <2>3. CASE head = None
    <3>1. Vouched = 0 /\ Len(journal) = 1 /\ journal[1] = Torn
      BY <2>1, <2>3 DEF Appending, Vouched
    <3>2. Ahead(call.next)'
      <4> DEFINE row == [base |-> call.prev, state |-> call.next]
      <4>1. row \in Row
        BY <1>0, <2>1, <2>2 DEF Row, TypeOK, Call
      <4>2. Len(journal') = 1 /\ journal'[1] = row
        <5> HIDE DEF row
        <5>1. journal' = [journal EXCEPT ![Len(journal)] = row]
          BY <2>1 DEF row
        <5> QED
          BY <1>0, <3>1, <5>1, <4>1 DEF TypeOK
      <4>3. call'.next = call.next /\ Vouched' = 0
        BY <1>0, <2>1, <2>3 DEF TypeOK, Call, Vouched
      <4> QED
        BY <4>1, <4>2, <4>3, JournalAssumption DEF Ahead
    <3>3. call'.next = call.next
      BY <1>0, <2>1 DEF TypeOK, Call
    <3>4. Visible = None /\ Visible' = call.next
      BY <2>1, <2>2, <2>3, <3>1, <3>2, <3>3 DEF VisibleAs
    <3>5. call.next = [sequence |-> 1, value |-> call.next.value]
      BY <2>2, <3>1 DEF State
    <3> QED
      BY <2>1, <2>2, <3>4, <3>5, JournalAssumption DEF Record!TakeEffect, Record!Successor, Asked
  <2>4. CASE head # None
    BY <2>1, <2>2, <2>4 DEF Appending, Writing, VisibleAs, Settled, Stutters
  <2> QED
    BY <2>3, <2>4
<1>4. CASE WriteSnapshot
  <2>1. /\ SnapshotLeft
        /\ call' = [call EXCEPT !.todo = Tail(call.todo)] /\ call' \in Call /\ acked' = acked
        /\ snapshot' = call.next /\ journal' = journal /\ head' = head
    BY <1>4, NextOf DEF WriteSnapshot, FileStep
  <2>2. Asked' = Asked /\ call'.next = call.next
    BY <2>1, <1>0 DEF Asked, TypeOK, Call
  <2>3. call.next \in State /\ Ahead(call.next) /\ Ahead(call.next)' /\ call.next.sequence = Vouched + 1
    <3>1. Ahead(call.next) /\ Vouched + 1 \in 1..Len(journal)
      BY <1>0, <2>1 DEF SnapshotLeft, Ahead
    <3> QED
      BY <1>0, <2>1, <2>2, <3>1, Rows DEF Ahead, Files, Vouched
  <2>4. Visible' = call.next
    BY <2>1, <2>2, <2>3 DEF VisibleAs
  <2>5. CASE head = None \/ snapshot = call.next
    BY <2>1, <2>2, <2>3, <2>4, <2>5 DEF VisibleAs, Stutters
  <2>6. CASE head # None /\ snapshot = Settled /\ call.op = "commit"
    <3>1. Visible = head.state /\ head.state \in State /\ head.state.sequence = Vouched
      BY <1>0, <2>6, Rows DEF VisibleAs, Settled, Files, Vouched
    <3>2. call.next = [sequence |-> Visible.sequence + 1, value |-> call.next.value] /\ Visible # None
      BY <1>0, <2>3, <3>1, Rows DEF State
    <3> QED
      BY <2>1, <2>2, <2>3, <2>4, <2>6, <3>2, Rows, <1>0 DEF Record!TakeEffect, Record!Successor, Asked
  <2> QED
    BY <2>1, <2>5, <2>6 DEF SnapshotLeft
<1>5. CASE WriteHead
  <2>1. /\ HeadLeft
        /\ call' = [call EXCEPT !.todo = Tail(call.todo)] /\ call' \in Call /\ acked' = acked
        /\ head' = [state |-> call.next, bytes |-> Len(journal)] /\ journal' = journal /\ snapshot' = snapshot
    BY <1>5, NextOf DEF WriteHead, FileStep
  <2>2. Asked' = Asked
    BY <2>1, <1>0 DEF Asked, TypeOK, Call
  <2>3. call.next \in State /\ Ahead(call.next) /\ snapshot = call.next
    <3>1. Ahead(call.next) /\ Vouched + 1 \in 1..Len(journal)
      BY <1>0, <2>1 DEF HeadLeft, Ahead
    <3> QED
      BY <1>0, <2>1, <3>1, Rows DEF HeadLeft, Ahead
  <2>4. Visible = call.next
    BY <2>3 DEF VisibleAs
  <2>5. head' # None /\ Settled' = call.next
    BY <1>0, <2>1, <2>3, JournalAssumption DEF Settled, JournalHead
  <2> QED
    BY <2>1, <2>2, <2>3, <2>4, <2>5 DEF VisibleAs, Stutters
<1> QED
  BY <1>1, <1>2, <1>3, <1>4, <1>5 DEF WriteFiles

(* Under the lock, starting a commit asks, and its return answers. *)
LEMMA CallSteps ==
  ASSUME IInv, IInv', VisibleAs, Operate \/ List
  PROVE  Stutters \/ (\E v \in Value : Record!Ask(v)) \/ Record!Answer \/ Record!GiveUp
<1>0. TypeOK /\ Files /\ UNCHANGED <<journal, snapshot, head>> /\ Visible' = Visible
  <2>1. UNCHANGED <<journal, snapshot, head>>
    BY DEF Operate, List, Create, Load, Mutate, Read, StartCommit, Return, Abandon, ListSnapshot, ListHead, ListSize,
           ListJournal, ListLocked
  <2> QED
    BY <2>1, Unseen DEF IInv
<1>1. ASSUME NEW v \in Value, Create(v) PROVE Record!Ask(v)
  <2>1. call.op = "idle" /\ Loaded = None /\ acked' = acked
        /\ call' = [op |-> "commit", want |-> None, todo |-> CommitPlan, keep |-> 0, prev |-> None,
                    next |-> [sequence |-> 1, value |-> v]]
    BY <1>1 DEF Create, NoCall
  <2>2. Visible = None /\ Asked = None /\ Asked' = [sequence |-> 1, value |-> v]
    BY <2>1, JournalAssumption DEF Visible, Asked
  <2> QED
    BY <1>0, <2>1, <2>2, JournalAssumption DEF Record!Ask, Record!Successor, Asked
<1>2. ASSUME NEW op \in {"load", "mutate"}, NEW v, Read(op, v) PROVE Stutters
  <2>1. call.op = "idle" /\ acked' = acked /\ call'.op = op
    BY <1>2 DEF Read, NoCall
  <2> QED
    BY <1>0, <2>1 DEF Stutters, Asked
<1>3. ASSUME StartCommit PROVE \E v \in Value : Record!Ask(v)
  <2>1. /\ call.op = "mutate" /\ call.want # call.next.value /\ acked' = acked /\ call.next.sequence < MaxSequence
        /\ call' = [call EXCEPT
            !.op = "commit", !.prev = call.next, !.keep = head.bytes,
            !.next = [sequence |-> call.next.sequence + 1, value |-> call.want],
            !.todo = (IF Len(journal) > head.bytes THEN <<"truncate">> ELSE <<>>) \o CommitPlan]
    BY <1>3 DEF StartCommit
  <2>2. Finished /\ call.next \in State /\ call.want \in Value
    BY <1>3, <2>1, CommitInv DEF IInv, Work, NoCall
  <2>3. Visible = call.next /\ call.next # None
    BY <1>0, <2>2, Rows DEF VisibleAs, Finished
  <2>4. call'.op = "commit" /\ call'.next = [sequence |-> call.next.sequence + 1, value |-> call.want]
    BY <1>0, <2>1 DEF TypeOK, Call
  <2>5. Asked = None /\ Asked' = Record!Successor(Visible, call.want)
    BY <2>1, <2>3, <2>4 DEF Asked, Record!Successor
  <2>6. Asked'.sequence <= MaxSequence
    BY <2>1, <2>2, <2>4, JournalAssumption DEF Asked, State
  <2>7. Record!Ask(call.want)
    BY <1>0, <2>1, <2>5, <2>6 DEF Record!Ask, Asked
  <2> QED
    BY <2>2, <2>7
<1>4. ASSUME Return PROVE Record!Answer
  <2>1. Finished /\ acked' = call.next /\ call' = NoCall
    BY <1>4, ReturnInv DEF Return
  <2>2. Visible = call.next /\ call.next # None
    BY <1>0, <2>1, Rows DEF VisibleAs, Finished
  <2>3. Asked \in {None, Visible} /\ Asked' = None
    BY <2>1, <2>2 DEF Asked, NoCall
  <2> QED
    BY <1>0, <2>1, <2>2, <2>3 DEF Record!Answer, Asked
<1>5. ASSUME Abandon PROVE Record!GiveUp
  <2>1. call' = NoCall /\ acked' = acked
    BY <1>5 DEF Abandon
  <2> QED
    BY <1>0, <2>1 DEF Record!GiveUp, NoCall
<1>6. ASSUME ListSnapshot \/ ListHead \/ ListSize \/ ListJournal PROVE Stutters
  BY <1>0, <1>6 DEF ListSnapshot, ListHead, ListSize, ListJournal, Stutters, Asked
<1>7. Load \/ (\E v \in Value : Mutate(v)) \/ ListLocked => Stutters
  BY <1>2 DEF Load, Mutate, ListLocked
<1> QED
  BY <1>1, <1>3, <1>4, <1>5, <1>6, <1>7 DEF Operate, List

(* The three files behave as one record that changes atomically: a mutation *)
(* is seen whole or not at all, in order, and one that failed never takes   *)
(* effect later.                                                            *)
THEOREM Refinement == Spec => RefinesAtomicRecord
<1>1. Init => Record!RecordInit
  <2> SUFFICES ASSUME Init PROVE Record!RecordInit
    OBVIOUS
  <2>1. Visible = None
    BY InitInv, VisibleInv DEF VisibleAs, Init
  <2> QED
    BY <2>1 DEF Init, NoCall, Record!RecordInit
<1>2. IInv /\ IInv' /\ VisibleAs /\ VisibleAs' /\ [Next]_journalVars => [Record!RecordNext]_(Record!recordVars)
  <2> SUFFICES ASSUME IInv, IInv', VisibleAs, VisibleAs', [Next]_journalVars
               PROVE  [Record!RecordNext]_(Record!recordVars)
    OBVIOUS
  <2>1. Stutters => UNCHANGED Record!recordVars
    BY DEF Stutters, Asked, Record!recordVars
  <2>2. CASE UNCHANGED journalVars
    BY <2>1, <2>2, Unseen DEF journalVars, Stutters, Asked
  <2>3. CASE WriteFiles
    BY <2>1, <2>3, FileSteps DEF Record!RecordNext
  <2>4. CASE Operate \/ List
    BY <2>1, <2>4, CallSteps DEF Record!RecordNext
  <2> QED
    BY <2>2, <2>3, <2>4 DEF Next
<1> QED
  BY Invariant, VisibleInv, <1>1, <1>2, PTL DEF Spec, RefinesAtomicRecord, Record!RecordSpec
=============================================================================
