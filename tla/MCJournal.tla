------------------------------ MODULE MCJournal ------------------------------
(* A segment holds two small frames; an Append of two events is multipart. *)
EXTENDS Journal
CONSTANT q1
==============================================================================
