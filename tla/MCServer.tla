------------------------------ MODULE MCServer ------------------------------
(***************************************************************************)
(* A small instance of the coordinator's threads and clients.              *)
(***************************************************************************)
EXTENDS Server
=============================================================================
