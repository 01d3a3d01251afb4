---------------------------- MODULE ClusterWrites ----------------------------
(***************************************************************************)
(* The life of a write: a key on a page or menu asks for it, a message     *)
(* brings up the confirm dialog or the input prompt, the answer starts a   *)
(* goroutine that calls the API server - a blind patch, a read followed by *)
(* an update that carries the resource version read, or one call per       *)
(* object - and a toast reports the outcome.  Other clients write to the   *)
(* same objects, calls fail, replies are lost, and the user switches the   *)
(* context while dialogs are open and goroutines run.                      *)
(***************************************************************************)
EXTENDS WriteOps

CONSTANTS Ids,        \* the writes asked for in a behaviour, numbers from 1
          MaxOthers,  \* bound: changes made by other clients
          MaxSession, \* bound: sessions (context switches + 1)
          Movable,    \* names of the pods of the node that a drain may evict
          Pinned,     \* its DaemonSet, mirror and terminated pods
          Modes,      \* values of the read-only setting
          Menus       \* bound: a behaviour stays with the operations of one of these sets

Pods == Movable \cup Pinned
\* The documents of an applied manifest; one does not parse.
Docs == {"workload.yaml", "broken.yaml"}

\* The tags of effects on other objects are not names of pods.
ASSUME ConstantsOK == /\ Ids \subseteq Nat \ {0} /\ IsFiniteSet(Ids) /\ MaxOthers \in Nat
                      /\ MaxSession \in Nat \ {0} /\ Modes \subseteq BOOLEAN
                      /\ Movable \cap Pinned = {} /\ IsFiniteSet(Pods)
                      /\ Pods \cap ({"object", "cordon"} \cup Docs) = {}

VARIABLES obj,      \* the server's objects: UID, resource version and contents
          pods,     \* the pods of the node (and of the pod list) that exist
          others,   \* changes made by other clients so far
          session,  \* the current session
          readOnly, \* the read-only setting
          menu,     \* the operations of this behaviour, by this client and others
          ask,      \* the writes: stage, command, session, and where their goroutine is
          prompt, promptErr, confirm,  \* the dialogs: the write asked about, 0 for none
          effects   \* what each write has done to the cluster

vars == <<obj, pods, others, session, readOnly, menu, ask, prompt, promptErr, confirm, effects>>
server == <<obj, pods, others>>
settings == <<readOnly, menu>>
dialogs == <<prompt, promptErr, confirm>>

Free == [stage |-> "free", cmd |-> [op |-> "none", key |-> "-", n |-> 0], sess |-> 0, pc |-> "-",
         uid |-> 0, rv |-> 0, seen |-> Initially["csr"], patch |-> NoKeys, want |-> {}, todo |-> {}, ok |-> 0, level |-> "-"]

-----------------------------------------------------------------------------
(* The pages and menus: which dialog a write goes through, and whether the *)
(* page itself refuses it in read-only mode.                               *)

NodeMenu(op) == CASE op = "cordon" -> "none" [] op = "drain" -> "confirm" [] op \in {"taint", "untaint"} -> "prompt"
RolloutMenu(op) == CASE op = "pause" -> "none" [] op \in {"restart", "undo"} -> "confirm"
CronJobMenu(op) == CASE op = "suspend" -> "none" [] op = "trigger" -> "confirm"
PageKeys(op) == CASE op \in {"delete", "approve", "deny"} -> "confirm" [] op = "scale" -> "prompt" [] op = "exec" -> "none"
SetMenu(op) == "prompt"
MetaMenu(op) == "prompt"
DiffPage(op) == "none"
Dialog(op) ==
  CASE op \in {"cordon", "drain", "taint", "untaint"} -> NodeMenu(op)
    [] op \in {"pause", "restart", "undo"} -> RolloutMenu(op)
    [] op \in {"suspend", "trigger"} -> CronJobMenu(op)
    [] op = "setimage" -> SetMenu(op)
    [] op = "label" -> MetaMenu(op)
    [] op = "apply" -> DiffPage(op)
    [] OTHER -> PageKeys(op)

\* Shell, copy and port-forward have no check of their own.
Gated(op) == op # "exec"
\* The scale prompt checks its input before it closes; the others report a bad
\* input as the outcome of the action.
Validates(op) == op = "scale"

\* Where the goroutine of an operation starts.
FirstCall(op) ==
  CASE op \in {"taint", "untaint", "approve", "deny", "scale", "trigger", "undo"} -> "get"
    [] op \in {"cordon", "pause", "restart", "setimage", "suspend", "label", "exec"} -> "write"
    [] op = "drain" -> "cordon"
    [] op \in {"delete", "apply"} -> "loop"

-----------------------------------------------------------------------------
Modal == prompt # 0 \/ confirm # 0
Put(i, a) == ask' = [ask EXCEPT ![i] = a]
NextId == CHOOSE i \in Ids : ask[i].stage = "free" /\ \A j \in Ids : ask[j].stage = "free" => i <= j

\* A key asks for a write.  The dialogs swallow every key while one is open, but
\* the message that opens one is still under way when the next key comes.
Ask(c, want) ==
  /\ ~Modal /\ session = 1 /\ \E i \in Ids : ask[i].stage = "free"
  /\ Put(NextId, [Free EXCEPT !.cmd = c, !.sess = session, !.want = want, !.todo = want,
                              !.pc = FirstCall(c.op),
                              !.stage = CASE readOnly /\ Gated(c.op) -> "done"
                                          [] Dialog(c.op) = "none" -> "running"
                                          [] OTHER -> "requested",
                              !.level = IF readOnly /\ Gated(c.op) THEN "warn" ELSE "-"])
  /\ UNCHANGED <<server, session, settings, dialogs, effects>>

\* The targets of a delete are the names of the rows marked when the key came.
AskCommand == \E c \in Commands : c.op \in menu /\ Ask(c, {"object"})
AskDelete == \E S \in SUBSET pods : S # {} /\ "delete" \in menu /\ Ask([op |-> "delete", key |-> "-", n |-> 0], S)
AskOther == \E o \in {"drain", "apply", "exec"} \cap menu :
  Ask([op |-> o, key |-> "-", n |-> 0], IF o = "apply" THEN Docs ELSE IF o = "exec" THEN {"object"} ELSE {})
\* The revision list offers every revision but the current one.
AskUndo == \E r \in obj["workload"].f.revs :
  /\ "undo" \in menu /\ r.number # CurrentRevision(obj["workload"].f)
  /\ Ask([op |-> "undo", key |-> "-", n |-> r.number], {"object"})

\* Update handles the request: a dialog that is open is replaced.
Show(i, old) == [j \in Ids |-> IF j = i THEN [ask[j] EXCEPT !.stage = "shown"]
                               ELSE IF j = old THEN [ask[j] EXCEPT !.stage = "dropped"] ELSE ask[j]]
RequestArrives(i) ==
  /\ ask[i].stage = "requested"
  /\ ask' = Show(i, IF Dialog(ask[i].cmd.op) = "prompt" THEN prompt ELSE confirm)
  /\ IF Dialog(ask[i].cmd.op) = "prompt"
     THEN prompt' = i /\ promptErr' = FALSE /\ UNCHANGED confirm
     ELSE confirm' = i /\ UNCHANGED <<prompt, promptErr>>
  /\ UNCHANGED <<server, session, settings, effects>>

\* y or enter runs the action, any other key drops it; a prompt comes first.
ConfirmKey(yes) ==
  /\ prompt = 0 /\ confirm # 0
  /\ Put(confirm, [ask[confirm] EXCEPT !.stage = IF yes THEN "running" ELSE "dropped"])
  /\ confirm' = 0
  /\ UNCHANGED <<server, session, settings, prompt, promptErr, effects>>

\* Enter in a prompt; "valid" is what the validator or the action's parser says.
PromptEnter(valid) ==
  /\ prompt # 0
  /\ LET a == ask[prompt]
     IN IF ~valid /\ Validates(a.cmd.op)
        THEN promptErr' = TRUE /\ UNCHANGED <<prompt, ask>>
        ELSE /\ prompt' = 0 /\ promptErr' = FALSE
             /\ Put(prompt, IF valid THEN [a EXCEPT !.stage = "running"]
                                     ELSE [a EXCEPT !.stage = "done", !.level = "error"])
  /\ UNCHANGED <<server, session, settings, confirm, effects>>
PromptEsc == /\ prompt # 0 /\ prompt' = 0 /\ promptErr' = FALSE
             /\ Put(prompt, [ask[prompt] EXCEPT !.stage = "dropped"])
             /\ UNCHANGED <<server, session, settings, confirm, effects>>
PromptEdit == /\ promptErr /\ promptErr' = FALSE
              /\ UNCHANGED <<server, session, settings, ask, prompt, confirm, effects>>

\* The session's context is cancelled; its goroutines and open dialogs live on.
SwitchContext == /\ session < MaxSession /\ session' = session + 1
                 /\ UNCHANGED <<server, settings, ask, dialogs, effects>>

-----------------------------------------------------------------------------
(* Calls.  Every call may fail; a call that changes something may also     *)
(* succeed and lose its reply, which the goroutine cannot tell apart.      *)

Running(i, pc) == ask[i].stage = "running" /\ ask[i].pc = pc
MutatingButPost(verb) == verb \in {"put", "patch", "delete"}  \* (mutant) exec looks like a read
\* The context of the session that asked, and the transport's read-only guard.
ContextAlive(i) == ask[i].sess = session
Mutating(verb) == verb \in {"post", "put", "patch", "delete"}
Verb(op) == CASE op \in {"approve", "deny", "taint", "untaint", "scale"} -> "put"
              [] op \in {"trigger", "drain", "exec"} -> "post"
              [] op = "delete" -> "delete"
              [] OTHER -> "patch"
Sends(i) == ContextAlive(i) /\ ~(readOnly /\ Mutating(Verb(ask[i].cmd.op)))
\* The toast is sent and the goroutine's locals are gone.
Finished(a, level) == [Free EXCEPT !.stage = "done", !.level = level, !.cmd = a.cmd,
                                   !.sess = a.sess, !.want = a.want, !.ok = a.ok]
Did(i, x) == effects' = [effects EXCEPT ![i] = @ \cup {x}]
Store(k, f) == obj' = [obj EXCEPT ![k].rv = @ + 1, ![k].f = f]

\* The read before an update: it remembers the resource version, and the
\* decision on a request that is no longer pending ends here.
Get(i) ==
  /\ Running(i, "get") /\ ContextAlive(i)
  /\ LET a == ask[i]
         o == obj[KindOf(a.cmd)]
     IN Put(i, IF ~Decidable(a.cmd, o.f) THEN Finished(a, "error")
               ELSE [a EXCEPT !.uid = o.uid, !.rv = o.rv, !.seen = o.f,
                              !.pc = IF a.cmd.op = "undo" THEN "list" ELSE "write"])
  /\ UNCHANGED <<server, session, settings, dialogs, effects>>

\* Undo lists the revisions, keeps those owned by the UID it has read, and takes
\* the template of the one with the number asked for.
ListRevisions(i) ==
  /\ Running(i, "list") /\ ask[i].cmd.op = "undo" /\ ContextAlive(i)
  /\ LET w == obj["workload"].f
         n == ask[i].cmd.n
     IN Put(i, IF obj["workload"].uid # ask[i].uid \/ Revision(w, n) = {} THEN Finished(ask[i], "error")
               ELSE [ask[i] EXCEPT !.patch = UndoPatch(w, n), !.pc = "write"])
  /\ UNCHANGED <<server, session, settings, dialogs, effects>>

\* Update sends the resource version it has read, and the server refuses an old
\* one; patches and the create of a job carry none.
Updates(op) == op \in {"taint", "untaint", "approve", "deny", "scale"}
NotCompared(i) == TRUE   \* (mutant) the update is built afresh, without the version read
Current(i) == Updates(ask[i].cmd.op) => obj[KindOf(ask[i].cmd)].rv = ask[i].rv

\* An update writes what the read returned, changed; a patch changes what is there.
Written(i) ==
  LET c == ask[i].cmd
      f == obj[KindOf(c)].f
  IN IF c.op = "undo" THEN PatchTemplate(f, ask[i].patch)
     ELSE Change(c, IF Updates(c.op) THEN ask[i].seen ELSE f)

Write(i, reply) ==
  /\ Running(i, "write") /\ Sends(i)
  /\ IF ask[i].cmd.op = "exec" THEN UNCHANGED obj
     ELSE Current(i) /\ Store(KindOf(ask[i].cmd), Written(i))
  /\ Did(i, "object")
  /\ Put(i, Finished(ask[i], IF reply THEN "success" ELSE "error"))
  /\ UNCHANGED <<pods, others, session, settings, dialogs>>

\* A read, an update or a patch that fails ends the write with an error toast.
CallFails(i) ==
  /\ ask[i].stage = "running" /\ ask[i].pc \in {"get", "list", "write", "cordon"}
  /\ Put(i, Finished(ask[i], "error"))
  /\ UNCHANGED <<server, session, settings, dialogs, effects>>

\* Drain fences the node first; without a fence it evicts nothing.
CordonCall(i, reply) ==
  /\ Running(i, "cordon") /\ ContextAlive(i) /\ ~(readOnly /\ Mutating("patch"))
  /\ Store("node", Cordon(obj["node"].f, TRUE))
  /\ Did(i, "cordon")
  /\ Put(i, IF reply THEN [ask[i] EXCEPT !.pc = "list"] ELSE Finished(ask[i], "error"))
  /\ UNCHANGED <<pods, others, session, settings, dialogs>>

AllPods(ps) == ps    \* (mutant) nothing is skipped
DrainablePods(ps) == ps \ Pinned
ListPods(i) ==
  /\ Running(i, "list") /\ ask[i].cmd.op = "drain" /\ ContextAlive(i)
  /\ Put(i, [ask[i] EXCEPT !.pc = "loop", !.want = DrainablePods(pods), !.todo = DrainablePods(pods)])
  /\ UNCHANGED <<server, session, settings, dialogs, effects>>

\* One object of a loop: a pod is deleted or evicted by name, a document applied.
\* Whether the name still is the object the user saw is not asked.
Done1(i, x, ok) == Put(i, [ask[i] EXCEPT !.todo = @ \ {x}, !.ok = IF ok THEN @ + 1 ELSE @])
ItemCall(i, x, reply) ==
  /\ Running(i, "loop") /\ x \in ask[i].todo /\ Sends(i)
  /\ IF x \in Docs
     THEN x # "broken.yaml" /\ Store("workload", SetImage(obj["workload"].f, "app", 3)) /\ UNCHANGED pods
     ELSE x \in pods /\ pods' = pods \ {x} /\ UNCHANGED obj
  /\ Did(i, x) /\ Done1(i, x, reply)
  /\ UNCHANGED <<others, session, settings, dialogs>>
ItemFails(i, x) ==
  /\ Running(i, "loop") /\ x \in ask[i].todo
  /\ Done1(i, x, FALSE)
  /\ UNCHANGED <<server, session, settings, dialogs, effects>>

\* The toast at the end of a loop.
\* (mutant) one success is enough for a success toast
AnySuccess(a) == IF a.ok > 0 THEN "success" ELSE "error"
Outcome(a) ==
  CASE a.ok = Cardinality(a.want) -> "success"
    [] a.cmd.op = "drain" -> "warn"
    [] a.cmd.op = "delete" /\ a.ok > 0 -> "warn"
    [] OTHER -> "error"
LoopEnds(i) ==
  /\ Running(i, "loop") /\ ask[i].todo = {}
  /\ Put(i, Finished(ask[i], Outcome(ask[i])))
  /\ UNCHANGED <<server, session, settings, dialogs, effects>>

-----------------------------------------------------------------------------
(* Other clients and controllers.                                          *)

OtherChange == \E c \in Commands :
  /\ c.op \in menu /\ others < MaxOthers /\ others' = others + 1
  /\ Decidable(c, obj[KindOf(c)].f)
  /\ Store(KindOf(c), Change(c, obj[KindOf(c)].f))
  /\ UNCHANGED <<pods, session, settings, ask, dialogs, effects>>
OtherRecreates ==
  /\ "undo" \in menu /\ others < MaxOthers /\ others' = others + 1
  /\ obj' = [obj EXCEPT !["workload"] = [uid |-> @.uid + 1, rv |-> @.rv + 1, f |-> Initially["workload"]]]
  /\ UNCHANGED <<pods, session, settings, ask, dialogs, effects>>
OtherPod(p) ==
  /\ menu \cap {"drain", "delete"} # {} /\ others < MaxOthers /\ others' = others + 1
  /\ pods' = IF p \in pods THEN pods \ {p} ELSE pods \cup {p}
  /\ UNCHANGED <<obj, session, settings, ask, dialogs, effects>>

Init == /\ obj = [k \in Kinds |-> [uid |-> 1, rv |-> 1, f |-> Initially[k]]]
        /\ pods = Pods /\ others = 0 /\ session = 1 /\ readOnly \in Modes /\ menu \in Menus
        /\ ask = [i \in Ids |-> Free] /\ prompt = 0 /\ promptErr = FALSE /\ confirm = 0
        /\ effects = [i \in Ids |-> {}]

Next == \/ AskCommand \/ AskDelete \/ AskOther \/ AskUndo
        \/ \E yes \in BOOLEAN : ConfirmKey(yes) \/ PromptEnter(yes)
        \/ PromptEsc \/ PromptEdit \/ SwitchContext
        \/ \E i \in Ids :
             \/ RequestArrives(i) \/ Get(i) \/ ListRevisions(i) \/ ListPods(i) \/ CallFails(i) \/ LoopEnds(i)
             \/ \E reply \in BOOLEAN : Write(i, reply) \/ CordonCall(i, reply)
             \/ \E x \in ask[i].todo : ItemFails(i, x) \/ \E reply \in BOOLEAN : ItemCall(i, x, reply)
        \/ OtherChange \/ OtherRecreates \/ \E p \in Pods : OtherPod(p)

Spec == Init /\ [][Next]_vars
-----------------------------------------------------------------------------
TypeOK ==
  /\ DOMAIN obj = Kinds /\ pods \subseteq Pods /\ others \in 0 .. MaxOthers /\ session \in 1 .. MaxSession
  /\ \A i \in Ids : /\ ask[i].stage \in {"free", "requested", "shown", "running", "done", "dropped"}
                     /\ ask[i].todo \subseteq ask[i].want
                     /\ ask[i].ok \in 0 .. Cardinality(ask[i].want \ ask[i].todo)
  /\ prompt \in Ids \cup {0} /\ confirm \in Ids \cup {0} /\ promptErr \in BOOLEAN
  \* What is on screen is exactly what has been shown and neither answered nor replaced.
  /\ \A i \in Ids : ask[i].stage = "shown" <=> i \in {prompt, confirm}

\* A success toast is never a lie: whatever was lost, refused or raced, every
\* object the write was about has been changed by it (summarizeApply, the toasts
\* of deleteAction and drain, and the single writes).
ReportTruth ==
  \A i \in Ids : ask[i].stage = "done" /\ ask[i].level = "success" => ask[i].want \subseteq effects[i]

\* A drain touches a pod only after it has fenced the node, and never one of the
\* pods it has to leave in place (the comments of Drain and drainablePods).
DrainFenced ==
  \A i \in Ids : ask[i].cmd.op = "drain" => /\ effects[i] \cap Pods # {} => "cordon" \in effects[i]
                                            /\ effects[i] \cap Pinned = {}

\* Both guards hold over every sequence of dialogs, calls and context switches.
\* Read-only mode changes nothing, also for the pages that forget to check it: the
\* transport refuses (the comment of readOnlyRoundTripper).  And once the context
\* has been switched, nothing that was asked for, confirmed or already running in
\* the old session reaches the old cluster any more (Session.Dispose).
GuardsHold == [][\A i \in Ids : effects'[i] # effects[i] => ~readOnly /\ ask[i].sess = session]_vars

\* Every write is atomic: read-modify-write over the API server, with other
\* clients in between, implements AtomicWrites.
Atomic == INSTANCE AtomicWrites WITH contents <- [k \in Kinds |-> obj[k].f]
WritesAreAtomic == Atomic!Spec

\* A success is only reported of a write that was carried out in full, for every
\* action and every pattern of failed, lost and half-done calls; and the dialogs on
\* screen are those of the writes that were neither answered nor replaced.
WritesReported == TypeOK /\ ReportTruth
=============================================================================
