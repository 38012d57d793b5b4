------------------------------- MODULE FileLocks -------------------------------
(***************************************************************************)
(* The two advisory locks that serialise writers of different processes.   *)
(*                                                                         *)
(* "dir": a lock directory with an owner file, around every operation of   *)
(* the pipeline run store (_withRunLock) and of the workspace lease store  *)
(* (_withFileLock).  Releasing compares the owner first.                   *)
(*                                                                         *)
(* "file": a sentinel file created with O_EXCL that names a process id,    *)
(* around every write of structured memory (core/engine/memory/lock.ts),   *)
(* shared with the Python tool (ltm/bin/ltm.py, _file_lock).               *)
(*                                                                         *)
(* Creating the lock, writing the owner into it, inspecting it and         *)
(* removing it are system calls of their own; other processes act between  *)
(* them.                                                                   *)
(***************************************************************************)
EXTENDS FiniteSets

CONSTANTS
    Process,    \* the processes that contend
    Kind,       \* the kinds of lock in this instance
    Slow,       \* TRUE if an operation may outlast the stale limit
    None

ASSUME LockAssumption ==
    /\ None \notin Process
    /\ Kind \subseteq {"dir", "file"}
    /\ Slow \in BOOLEAN

VARIABLES
    kind,       \* which lock this is; fixed
    lock,       \* the lock on disk: its creator, the owner written, past the stale limit
    pc,         \* where each process is
    aged        \* history: some lock was past the stale limit

vars == <<kind, lock, pc, aged>>

NoLock == [by |-> None, owner |-> None, old |-> FALSE]

Lock == [by : Process \cup {None}, owner : Process \cup {None}, old : BOOLEAN]

Init ==
    /\ kind \in Kind
    /\ lock = NoLock
    /\ pc = [p \in Process |-> "idle"]
    /\ aged = FALSE

Go(p, to) == pc' = [pc EXCEPT ![p] = to]

Arrive(p) ==
    /\ pc[p] = "idle"
    /\ Go(p, "try")
    /\ UNCHANGED <<kind, lock, aged>>

(* mkdir(lockDir), open(lock, "wx"): made, or EEXIST. *)
Create(p) ==
    /\ pc[p] = "try"
    /\ IF lock = NoLock
       THEN Go(p, "mark") /\ lock' = [NoLock EXCEPT !.by = p]
       ELSE Go(p, "inspect") /\ UNCHANGED lock
    /\ UNCHANGED <<kind, aged>>

(* The owner is written: into whatever directory is there, which refreshes  *)
(* its time if the owner file is new; or to the file that was opened, which *)
(* may have been unlinked.                                                  *)
Mark(p) ==
    /\ pc[p] = "mark"
    /\ kind = "dir" => lock # NoLock
    /\ Go(p, "hold")
    /\ lock' = IF kind = "file" /\ lock.by # p THEN lock
               ELSE [lock EXCEPT !.owner = p, !.old = @ /\ lock.owner # None]
    /\ UNCHANGED <<kind, aged>>

(* The write fails, for one because the directory is gone: the directory is *)
(* removed, the file stays.                                                 *)
MarkFails(p) ==
    /\ pc[p] = "mark"
    /\ Go(p, IF kind = "dir" THEN "remove" ELSE "idle")
    /\ UNCHANGED <<kind, lock, aged>>

Dead(p) == pc[p] = "dead"

(* Mutant: the age is not looked at. *)
StaleAlways(p) == lock # NoLock

(* The age of a directory; the age of a file, an owner that is gone, or     *)
(* anything that keeps isStale() from reading one: no file, an empty file.  *)
Stale(p) ==
    \/ lock.old
    \/ kind = "file" /\ (lock.owner = None \/ Dead(lock.owner))

(* Mutant: a contender only waits. *)
InspectWaits(p) ==
    /\ pc[p] = "inspect"
    /\ Go(p, "try") \/ Go(p, "idle")
    /\ UNCHANGED <<kind, lock, aged>>

(* A contender finds the lock stale, or waits and tries again, or gives up  *)
(* at its deadline.                                                         *)
Inspect(p) ==
    /\ pc[p] = "inspect"
    /\ IF Stale(p) THEN Go(p, "break") ELSE Go(p, "try") \/ (lock # NoLock /\ Go(p, "idle"))
    /\ UNCHANGED <<kind, lock, aged>>

(* It removes the lock that is there by now. *)
Break(p) ==
    /\ pc[p] = "break"
    /\ Go(p, "try")
    /\ lock' = NoLock
    /\ UNCHANGED <<kind, aged>>

(* The operation is over.  The directory is removed if it is still its own. *)
Leave(p) ==
    /\ pc[p] = "hold"
    /\ Go(p, IF kind = "file" \/ lock.owner = p THEN "remove" ELSE "idle")
    /\ UNCHANGED <<kind, lock, aged>>

Remove(p) ==
    /\ pc[p] = "remove"
    /\ Go(p, "idle")
    /\ lock' = NoLock
    /\ UNCHANGED <<kind, aged>>

Crash(p) ==
    /\ pc[p] \notin {"idle", "dead"}
    /\ Go(p, "dead")
    /\ UNCHANGED <<kind, lock, aged>>

Abandoned == lock # NoLock /\ pc[lock.by] \notin {"mark", "hold", "remove"}

(* A lock passes the stale limit: one its creator abandoned, or one whose   *)
(* operation takes too long.                                                *)
Age ==
    /\ lock # NoLock /\ ~lock.old
    /\ Abandoned \/ Slow
    /\ lock' = [lock EXCEPT !.old = TRUE]
    /\ aged' = TRUE
    /\ UNCHANGED <<kind, pc>>

Step(p) ==
    Create(p) \/ Mark(p) \/ MarkFails(p) \/ Inspect(p) \/ Break(p) \/ Leave(p) \/ Remove(p)

Next == Age \/ \E p \in Process : Arrive(p) \/ Step(p) \/ Crash(p)

Spec == Init /\ [][Next]_vars

(* A process goes on with what it began, and time passes. *)
FairSpec == Spec /\ WF_vars(Age) /\ \A p \in Process : WF_vars(Step(p))

-----------------------------------------------------------------------------
(* Properties *)

(* The types of the variables. *)
TypeOK ==
    /\ kind \in Kind
    /\ lock \in Lock
    /\ pc \in [Process -> {"idle", "try", "mark", "inspect", "break", "hold", "remove", "dead"}]
    /\ aged \in BOOLEAN

Holder == {p \in Process : pc[p] = "hold"}

(* What makes the directory exclusive while nothing is stale: whoever is    *)
(* between mkdir and rm made the directory that is there, and nobody is     *)
(* about to break it.                                                       *)
CreatorOnly ==
    kind = "dir" /\ ~aged =>
        /\ ~lock.old
        /\ \A p \in Process :
              /\ pc[p] # "break"
              /\ pc[p] \in {"mark", "hold", "remove"} => lock.by = p
              /\ pc[p] = "hold" => lock.owner = p

(* As long as no lock has passed the stale limit, at most one process works *)
(* under the lock directory, wherever the others are between their system   *)
(* calls and whoever died.                                                  *)
DirExclusive == kind = "dir" /\ ~aged => \A p, q \in Holder : p = q

(* A lock whose holder is gone does not keep contenders out for ever. *)
AbandonedLockBroken == \A p \in Process : lock.by = p /\ Dead(p) /\ (\E q \in Process : pc[q] = "inspect")
                          ~> lock.by # p \/ \A q \in Process : pc[q] \in {"idle", "dead"}

(* One writer per structural file: with nobody slow and nobody dead.        *)
OneFileWriter == ~aged /\ (\A p \in Process : ~Dead(p)) => \A p, q \in Holder : p = q
=============================================================================
