---------------------------- MODULE MCNavigation ----------------------------
(* Small instances of Navigation for TLC: one warm kind, one screen-scoped    *)
(* workload that drills into it.                                              *)
EXTENDS Navigation
=============================================================================
