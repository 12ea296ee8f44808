-------------------------- MODULE MCApiPersistence --------------------------
(* A small instance of ApiPersistence for TLC. *)
EXTENDS ApiPersistence
=============================================================================
