----------------------------- MODULE MCSessionLock -----------------------------
(* Hook processes of one session. *)
EXTENDS SessionLock
================================================================================
