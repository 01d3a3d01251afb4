------------------------------ MODULE WriteOps ------------------------------
(***************************************************************************)
(* What kubetui's write actions do to the contents of the object they      *)
(* name: the node, the signing request, the workload and the cron job of   *)
(* the packages under internal/action.  Each action is a function from     *)
(* contents to contents; how its calls reach the server is the business of *)
(* module ClusterWrites.                                                   *)
(*                                                                         *)
(* A command is a record [op, key, n]: the operation, the key it is about  *)
(* (a taint effect, a container, "-" where there is none) and a number (a  *)
(* replica count, an image, a flag, a revision).                           *)
(***************************************************************************)
EXTENDS Integers, FiniteSets, FiniteSetsExt

Kinds == {"node", "csr", "workload", "cronjob"}

\* A node's taints, by effect (of one taint key); 0 for no taint.
Effects == {"NoSchedule", "NoExecute"}
\* What a pod template holds: an image per container, and the restart stamp.
TemplateKeys == {"app", "sidecar", "restartedAt"}

FirstTemplate == [k \in TemplateKeys |-> IF k = "app" THEN 1 ELSE 0]
Initially ==
  [node |-> [unsched |-> FALSE, taints |-> [e \in Effects |-> 0]],
   csr |-> [state |-> "Pending"],
   workload |-> [replicas |-> 1, paused |-> FALSE, template |-> FirstTemplate,
                 revs |-> {[number |-> 1, template |-> FirstTemplate]}],
   cronjob |-> [suspend |-> FALSE, jobs |-> 0, label |-> 0]]

\* Taint replaces the taint of the same key and effect or appends it; Untaint
\* drops one effect, or every effect of the key when none is named.
Taint(node, effect, value) == [node EXCEPT !.taints[effect] = value]
Untaint(node, effect) ==
  [node EXCEPT !.taints = [e \in Effects |-> IF effect \in {"-", e} THEN 0 ELSE @[e]]]
Cordon(node, on) == [node EXCEPT !.unsched = on]

\* decide appends the condition to a request that has none yet.
Condition(csr) == csr.state
Decide(csr, decision) == [csr EXCEPT !.state = decision]

Scale(w, replicas) == [w EXCEPT !.replicas = replicas]
SetPaused(w, paused) == [w EXCEPT !.paused = paused]

\* A strategic merge patch: the keys the patch names take its values, every
\* other key stays, also the ones the patch's author never knew of.
StrategicMerge(template, patch) ==
  [k \in TemplateKeys |-> IF patch[k] # 0 THEN patch[k] ELSE template[k]]
NoKeys == [k \in TemplateKeys |-> 0]

\* The workload controller numbers every template the workload runs: a new one
\* gets the next number, one that has been run before moves to the next number.
RunTemplate(w, t) ==
  LET next == 1 + Max({r.number : r \in w.revs})
  IN IF t = w.template THEN w
     ELSE [w EXCEPT !.template = t,
                    !.revs = {r \in @ : r.template # t} \cup {[number |-> next, template |-> t]}]

PatchTemplate(w, patch) == RunTemplate(w, StrategicMerge(w.template, patch))
Restart(w) == PatchTemplate(w, [NoKeys EXCEPT !["restartedAt"] = 1 + w.template["restartedAt"]])
\* The other entries of the set menu (env, resources, service account) are
\* patches of the same shape.
SetImage(w, container, image) == PatchTemplate(w, [NoKeys EXCEPT ![container] = image])

\* History, newest first, the highest number marked as current.
CurrentRevision(w) == Max({r.number : r \in w.revs})
Revision(w, number) == {r \in w.revs : r.number = number}
UndoPatch(w, number) == (CHOOSE r \in Revision(w, number) : TRUE).template

SetSuspend(cj, suspend) == [cj EXCEPT !.suspend = suspend]
TriggerJob(cj) == [cj EXCEPT !.jobs = @ + 1]
\* A JSON merge patch of one label: 0 stands for null, which removes it.
MetaPatch(cj, value) == [cj EXCEPT !.label = value]

Commands ==
  {[op |-> "taint", key |-> "NoSchedule", n |-> 1],
   [op |-> "untaint", key |-> "-", n |-> 0],
   [op |-> "cordon", key |-> "-", n |-> 1], [op |-> "cordon", key |-> "-", n |-> 0],
   [op |-> "approve", key |-> "-", n |-> 0], [op |-> "deny", key |-> "-", n |-> 0],
   [op |-> "scale", key |-> "-", n |-> 2],
   [op |-> "pause", key |-> "-", n |-> 1], [op |-> "pause", key |-> "-", n |-> 0],
   [op |-> "restart", key |-> "-", n |-> 0],
   [op |-> "setimage", key |-> "app", n |-> 2], [op |-> "setimage", key |-> "sidecar", n |-> 1],
   [op |-> "suspend", key |-> "-", n |-> 1],
   [op |-> "trigger", key |-> "-", n |-> 0],
   [op |-> "label", key |-> "-", n |-> 1], [op |-> "label", key |-> "-", n |-> 0]}

KindOf(c) ==
  CASE c.op \in {"taint", "untaint", "cordon"} -> "node"
    [] c.op \in {"approve", "deny"} -> "csr"
    [] c.op \in {"scale", "pause", "restart", "setimage", "undo"} -> "workload"
    [] c.op \in {"suspend", "trigger", "label"} -> "cronjob"

\* The contents a command leaves behind; an undo brings its own patch.
Change(c, f) ==
  CASE c.op = "taint" -> Taint(f, c.key, c.n)
    [] c.op = "untaint" -> Untaint(f, c.key)
    [] c.op = "cordon" -> Cordon(f, c.n = 1)
    [] c.op = "approve" -> Decide(f, "Approved")
    [] c.op = "deny" -> Decide(f, "Denied")
    [] c.op = "scale" -> Scale(f, c.n)
    [] c.op = "pause" -> SetPaused(f, c.n = 1)
    [] c.op = "restart" -> Restart(f)
    [] c.op = "setimage" -> SetImage(f, c.key, c.n)
    [] c.op = "suspend" -> SetSuspend(f, c.n = 1)
    [] c.op = "trigger" -> TriggerJob(f)
    [] c.op = "label" -> MetaPatch(f, c.n)

\* Only a pending request may be decided.
Decidable(c, f) == c.op \in {"approve", "deny"} => Condition(f) = "Pending"
=============================================================================
