---------------------------- MODULE AtomicWrites ----------------------------
(***************************************************************************)
(* What the write actions promise: every write takes effect at once, on    *)
(* the contents the object has at that moment.  A client that reads,       *)
(* computes and writes back can never undo what another client wrote in    *)
(* between, and a signing request is decided once.                         *)
(***************************************************************************)
EXTENDS WriteOps

VARIABLE contents    \* the contents of every object

Init == contents = Initially

\* A command of this client or of another one.
Command == \E c \in Commands :
  LET k == KindOf(c)
  IN /\ Decidable(c, contents[k])
     /\ contents' = [contents EXCEPT ![k] = Change(c, @)]

\* A rollback or an applied manifest merges a template into the current one.  The
\* template that results is itself one that merges to that result, so it serves as
\* the witness: nothing has to be said about where the merged one came from, which
\* may be a revision of a workload that has been deleted since.
Rollback ==
  contents' = [contents EXCEPT !["workload"] = PatchTemplate(@, contents'["workload"].template)]

\* Somebody deletes the workload and creates it anew.
Recreate == contents' = [contents EXCEPT !["workload"] = Initially["workload"]]

Next == Command \/ Rollback \/ Recreate
Spec == Init /\ [][Next]_contents
=============================================================================
