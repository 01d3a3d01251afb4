----------------------------- MODULE MCViewStore -----------------------------
(* Small instances of ViewStore for TLC. *)
EXTENDS ViewStore
=============================================================================
