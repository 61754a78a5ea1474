------------------------------ MODULE MCJournal ------------------------------
(***************************************************************************)
(* A small instance of the journal's file.                                 *)
(***************************************************************************)
EXTENDS Journal
=============================================================================
