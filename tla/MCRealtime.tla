----------------------------- MODULE MCRealtime -----------------------------
(* Realtime for TLC; the constants get their values in the .cfg files. *)
EXTENDS Realtime
=============================================================================
