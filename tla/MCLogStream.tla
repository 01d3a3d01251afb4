----------------------------- MODULE MCLogStream -----------------------------
(* Small instances of LogStream for TLC. *)
EXTENDS LogStream
=============================================================================
