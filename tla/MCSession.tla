----------------------------- MODULE MCSession -----------------------------
(* Session for TLC; the constants get their values in the .cfg files. *)
EXTENDS Session
=============================================================================
