----------------------------- MODULE MCIngestion -----------------------------
(* Ingestion for TLC; the constants get their values in the .cfg files. *)
EXTENDS Ingestion
=============================================================================
