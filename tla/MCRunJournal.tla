---------------------------- MODULE MCRunJournal ----------------------------
(* One record, two contents, up to four mutations. *)
EXTENDS RunJournal
=============================================================================
