-------------------------- MODULE MCTerminalHandoff --------------------------
(* Small instances of TerminalHandoff for TLC. *)
EXTENDS TerminalHandoff
=============================================================================
