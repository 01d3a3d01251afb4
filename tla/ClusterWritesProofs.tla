------------------------- MODULE ClusterWritesProofs -------------------------
(***************************************************************************)
(* For every number of writes, clients and context switches: a success     *)
(* toast tells the truth, a drain fences first, read-only mode and a       *)
(* disposed session let nothing through, and reading, computing and        *)
(* writing back implements atomic writes.                                  *)
(***************************************************************************)
EXTENDS ClusterWrites, FiniteSetTheorems, WellFoundedInduction, TLAPS

-----------------------------------------------------------------------------
(* The inductive invariant, about one write "a" and its effects "E" *)

AskFields == {"stage", "cmd", "sess", "pc", "uid", "rv", "seen", "patch", "want", "todo", "ok", "level"}

\* The loops count only what they have done: an object counted as a success is one
\* that has left "todo" and has been changed.
Counted(a, E) ==
  /\ IsFiniteSet(a.want) /\ a.todo \subseteq a.want /\ a.ok \in Nat
  /\ a.ok <= Cardinality((a.want \ a.todo) \cap E)

\* Which operations reach which call, and what they are about there.
AtCall(a) ==
  /\ a.pc \in {"get", "write"} =>
       /\ a.want = {"object"}
       /\ a.cmd \in Commands \/ a.cmd.op = "undo" \/ (a.cmd.op = "exec" /\ a.pc = "write")
  /\ a.pc = "list" => (a.cmd.op = "undo" /\ a.want = {"object"}) \/ a.cmd.op = "drain"
  /\ a.pc = "cordon" => a.cmd.op = "drain"

\* A drain is past its first call, and has touched anything, only with the fence up;
\* until it has listed the pods it is about none.
DrainOrder(a, E) ==
  a.cmd.op = "drain" =>
    /\ a.want \subseteq Movable /\ E \subseteq Movable \cup {"cordon"}
    /\ (E # {} \/ a.pc \in {"list", "loop"}) => "cordon" \in E
    /\ a.pc \in {"cordon", "list"} => a.want = {}

Truth(a, E) == a.stage = "done" /\ a.level = "success" => a.want \subseteq E

WriteOK(a, E) ==
  /\ DOMAIN a = AskFields /\ a.stage \in {"free", "requested", "shown", "running", "done", "dropped"}
  /\ a.stage = "free" => E = {}
  /\ a.rv \in Nat
  /\ Counted(a, E) /\ AtCall(a) /\ DrainOrder(a, E) /\ Truth(a, E)

\* Optimistic concurrency: as long as the version read is the server's version, what
\* was read is what the server has, and it was found fit to be decided.
Fresh(a, ob) ==
  a.pc = "write" /\ Updates(a.cmd.op) =>
    /\ a.rv <= ob[KindOf(a.cmd)].rv
    /\ a.rv = ob[KindOf(a.cmd)].rv => /\ a.seen = ob[KindOf(a.cmd)].f
                                      /\ Decidable(a.cmd, a.seen)

WorkloadFields(w) == DOMAIN w = {"replicas", "paused", "template", "revs"}

ObjectsOK(ob) ==
  /\ DOMAIN ob = Kinds
  /\ \A k \in Kinds : DOMAIN ob[k] = {"uid", "rv", "f"} /\ ob[k].rv \in Nat
  /\ WorkloadFields(ob["workload"].f)

\* The prompt shows a write that asks by prompt, the confirm dialog one that does not.
DialogsOK ==
  /\ prompt \in Ids \cup {0} /\ confirm \in Ids \cup {0} /\ promptErr \in BOOLEAN
  /\ prompt # 0 => Dialog(ask[prompt].cmd.op) = "prompt"
  /\ confirm # 0 => Dialog(ask[confirm].cmd.op) # "prompt"
  /\ \A i \in Ids : ask[i].stage = "shown" <=> i \in {prompt, confirm}

Bounds ==
  /\ pods \subseteq Pods /\ others \in 0 .. MaxOthers /\ session \in 1 .. MaxSession
  /\ readOnly \in BOOLEAN

AsksOK == /\ DOMAIN ask = Ids /\ DOMAIN effects = Ids
          /\ \A i \in Ids : WriteOK(ask[i], effects[i]) /\ Fresh(ask[i], obj)

WritesInv == Bounds /\ ObjectsOK(obj) /\ AsksOK /\ DialogsOK

-----------------------------------------------------------------------------
(* What the operators keep *)

\* The CHOOSE of NextId has a value: a set of numbers has a least element.
LEMMA NextIdIsFree ==
  ASSUME \E i \in Ids : ask[i].stage = "free"
  PROVE  NextId \in Ids /\ ask[NextId].stage = "free"
<1> DEFINE F == {i \in Ids : ask[i].stage = "free"}
<1>1. F \subseteq Nat /\ F # {}
  BY ConstantsOK
<1>2. PICK i \in F : \A j \in F : ~(<<j, i>> \in OpToRel(<, Nat))
  <2> DEFINE R == OpToRel(<, Nat)
  <2>1. IsWellFoundedOn(R, Nat)
    BY NatLessThanWellFounded, Zenon
  <2> SUFFICES \E i \in F : \A j \in F : ~(<<j, i>> \in R)
    OBVIOUS
  <2> HIDE DEF F, R
  <2> QED
    BY <1>1, <2>1, WFMin
<1>3. OpToRel(<, Nat) = {ss \in Nat \X Nat : ss[1] < ss[2]}
  BY Zenon DEF OpToRel
<1>4. \A j \in F : i <= j
  <2> HIDE DEF F
  <2> TAKE j \in F
  <2>1. <<j, i>> \in Nat \X Nat /\ ~(<<j, i>> \in {ss \in Nat \X Nat : ss[1] < ss[2]})
    <3>1. ~(<<j, i>> \in {ss \in Nat \X Nat : ss[1] < ss[2]})
      BY <1>2, <1>3, Zenon
    <3> QED
      BY <1>1, <3>1
  <2> QED
    BY <1>1, <2>1
<1> QED
  BY <1>4 DEF NextId

\* A finished write keeps what it is about and what it has counted.
LEMMA FinishedOK ==
  ASSUME NEW a, NEW E, NEW level, WriteOK(a, E), level = "success" => a.want \subseteq E
  PROVE  WriteOK(Finished(a, level), E) /\ Finished(a, level).pc = "-" /\ Finished(a, level).stage = "done"
         /\ Finished(a, level).cmd = a.cmd
<1>0. PICK b : b = Finished(a, level)
  OBVIOUS
<1>1. /\ b.stage = "done" /\ b.pc = "-" /\ b.rv = 0 /\ b.todo = {} /\ b.want = a.want /\ b.ok = a.ok
      /\ b.cmd = a.cmd /\ b.level = level /\ DOMAIN b = AskFields
  BY <1>0 DEF Finished, Free, AskFields
<1>2. Counted(b, E)
  <2>1. (a.want \ a.todo) \cap E \subseteq a.want \cap E
    OBVIOUS
  <2>2. IsFiniteSet(a.want \cap E)
    BY FS_Subset, a.want \cap E \subseteq a.want DEF WriteOK, Counted
  <2>3. Cardinality((a.want \ a.todo) \cap E) <= Cardinality(a.want \cap E)
    BY <2>1, <2>2, FS_Subset
  <2>4. Cardinality((a.want \ a.todo) \cap E) \in Nat /\ Cardinality(a.want \cap E) \in Nat
    BY <2>1, <2>2, FS_Subset, FS_CardinalityType
  <2>5. (b.want \ b.todo) \cap E = a.want \cap E
    BY <1>1
  <2>6. a.ok <= Cardinality(a.want \cap E)
    BY <2>3, <2>4 DEF WriteOK, Counted
  <2> QED
    BY <1>1, <2>5, <2>6 DEF WriteOK, Counted
<1>3. AtCall(b) /\ DrainOrder(b, E) /\ Truth(b, E)
  BY <1>1 DEF WriteOK, AtCall, DrainOrder, Truth
<1>4. WriteOK(b, E)
  <2>1. b.rv \in Nat /\ b.stage # "free" /\ b.stage \in {"free", "requested", "shown", "running", "done", "dropped"}
    BY <1>0 DEF Finished, Free
  <2> QED
    BY <1>1, <1>2, <1>3, <2>1, Zenon DEF WriteOK
<1> QED
  BY <1>0, <1>1, <1>4

\* The operations a command may name, and the kind each is about.
LEMMA CommandOps ==
  \A c \in Commands : c.op \in {"taint", "untaint", "cordon", "approve", "deny", "scale", "pause", "restart",
                               "setimage", "suspend", "trigger", "label"}
<1> TAKE c \in Commands
<1>1. \E o \in {"taint", "untaint", "cordon", "approve", "deny", "scale", "pause", "restart",
               "setimage", "suspend", "trigger", "label"} :
        \E k, m : c = [op |-> o, key |-> k, n |-> m]
  BY ZenonT(60) DEF Commands
<1> QED
  BY <1>1

\* Every command works on one of the objects of the model.
LEMMA KindOfCommand == \A c \in Commands : KindOf(c) \in Kinds
BY CommandOps DEF KindOf, Kinds

\* So does every operation that reads, computes and writes back.
LEMMA KindOfUpdate == \A c : Updates(c.op) => KindOf(c) \in Kinds
BY DEF Updates, KindOf, Kinds

\* Patches and scaling leave a workload a workload.
LEMMA PatchFields ==
  ASSUME NEW w, NEW patch, WorkloadFields(w)
  PROVE  WorkloadFields(PatchTemplate(w, patch))
BY DEF PatchTemplate, RunTemplate, WorkloadFields

\* A command on a workload leaves it a workload.
LEMMA ChangeFields ==
  ASSUME NEW c \in Commands, NEW f, KindOf(c) = "workload", WorkloadFields(f)
  PROVE  WorkloadFields(Change(c, f))
<1>1. c.op \in {"scale", "pause", "restart", "setimage"}
  BY CommandOps DEF KindOf
<1>2. CASE c.op = "scale"
  BY <1>2 DEF Change, Scale, WorkloadFields
<1>3. CASE c.op = "pause"
  BY <1>3 DEF Change, SetPaused, WorkloadFields
<1>4. CASE c.op = "restart"
  <2>1. Change(c, f) = Restart(f)
    BY <1>4 DEF Change
  <2> QED
    BY <2>1, PatchFields DEF Restart
<1>5. CASE c.op = "setimage"
  <2>1. Change(c, f) = SetImage(f, c.key, c.n)
    BY <1>5 DEF Change
  <2> QED
    BY <2>1, PatchFields DEF SetImage
<1> QED
  BY <1>1, <1>2, <1>3, <1>4, <1>5

\* Every write to the server moves the version on, so what was read before it is
\* never mistaken for what is there (Store is the API server's update).
LEMMA StoreKeeps ==
  ASSUME ObjectsOK(obj), NEW k \in Kinds, NEW f, Store(k, f), k = "workload" => WorkloadFields(f)
  PROVE  /\ ObjectsOK(obj')
         /\ \A a : Fresh(a, obj) /\ a.rv \in Nat => Fresh(a, obj')
         /\ obj'[k].f = f
         /\ \A j \in Kinds \ {k} : obj'[j] = obj[j]
<1>1. /\ DOMAIN obj' = Kinds /\ DOMAIN obj'[k] = {"uid", "rv", "f"}
      /\ obj'[k].f = f /\ obj'[k].rv = obj[k].rv + 1
      /\ \A j \in Kinds \ {k} : obj'[j] = obj[j]
  BY DEF ObjectsOK, Store
<1> QED
  BY <1>1, KindOfUpdate DEF ObjectsOK, Fresh, Kinds

\* One write moves: the others, and what they have read, stay as they are.
LEMMA AsksStep ==
  ASSUME AsksOK, NEW i \in Ids, NEW a, Put(i, a),
         DOMAIN effects' = Ids, \A j \in Ids \ {i} : effects'[j] = effects[j],
         WriteOK(a, effects'[i]), Fresh(a, obj'),
         \A b : Fresh(b, obj) /\ b.rv \in Nat => Fresh(b, obj')
  PROVE  AsksOK' /\ ask'[i] = a
<1>1. DOMAIN ask' = Ids /\ ask'[i] = a /\ \A j \in Ids \ {i} : ask'[j] = ask[j]
  BY DEF AsksOK, Put
<1>2. \A j \in Ids : ask[j].rv \in Nat
  BY Zenon DEF AsksOK, WriteOK
<1> QED
  BY <1>1, <1>2, Zenon DEF AsksOK

\* A step that neither shows nor takes away a dialog.
LEMMA DialogsStep ==
  ASSUME AsksOK, DialogsOK, NEW i \in Ids, NEW a, Put(i, a), UNCHANGED dialogs,
         a.stage # "shown", ask[i].stage # "shown"
  PROVE  DialogsOK'
<1>1. DOMAIN ask' = Ids /\ ask'[i] = a /\ \A j \in Ids \ {i} : ask'[j] = ask[j]
  BY DEF AsksOK, Put
<1> QED
  BY <1>1 DEF DialogsOK, dialogs

-----------------------------------------------------------------------------
(* The invariant is kept *)

\* Initially there is no write and no dialog.
LEMMA WritesInit == Init => WritesInv
<1> SUFFICES ASSUME Init PROVE WritesInv
  OBVIOUS
<1>1. Bounds
  BY ConstantsOK DEF Init, Bounds
<1>0. DialogsOK
  <2>1. \A i \in Ids : ask[i].stage = "free" /\ i # 0
    BY ConstantsOK DEF Init, Free
  <2> QED
    BY <2>1 DEF Init, DialogsOK
<1>2. ObjectsOK(obj)
  BY DEF Init, ObjectsOK, Kinds, WorkloadFields, Initially
<1>3. PICK a : a = Free
  OBVIOUS
<1>4. /\ DOMAIN a = AskFields /\ a.stage = "free" /\ a.pc = "-" /\ a.cmd.op = "none" /\ a.want = {} /\ a.todo = {}
      /\ a.ok = 0 /\ a.ok \in Nat /\ a.rv \in Nat /\ a.stage \in {"free", "requested", "shown", "running", "done", "dropped"}
  BY <1>3 DEF Free, AskFields
<1>5. Counted(a, {})
  <2>1. (a.want \ a.todo) \cap {} = {}
    OBVIOUS
  <2>2. IsFiniteSet(a.want) /\ a.todo \subseteq a.want /\ a.ok <= 0
    <3>1. a.want = {} /\ a.todo = {} /\ a.ok <= 0
      BY <1>3 DEF Free
    <3> QED
      BY <3>1, FS_EmptySet, Zenon
  <2> QED
    BY <1>4, <2>1, <2>2, FS_EmptySet DEF Counted
<1>6. WriteOK(a, {})
  BY <1>4, <1>5, Zenon DEF WriteOK, AtCall, DrainOrder, Truth
<1>7. Fresh(a, obj)
  BY <1>4, Zenon DEF Fresh
<1>8. AsksOK
  BY <1>3, <1>6, <1>7 DEF Init, AsksOK
<1> QED
  BY <1>0, <1>1, <1>2, <1>8 DEF WritesInv

\* A key that asks for a write fills a free place, and has done nothing yet.
LEMMA AskKeeps ==
  ASSUME WritesInv, NEW c, NEW want, Ask(c, want), IsFiniteSet(want),
         \/ c \in Commands /\ want = {"object"}
         \/ c.op \in {"undo", "exec"} /\ want = {"object"}
         \/ c.op = "drain" /\ want = {}
         \/ c.op \in {"delete", "apply"}
  PROVE  WritesInv'
<1> DEFINE i == NextId
<1>1. i \in Ids /\ ask[i].stage = "free"
  BY NextIdIsFree DEF Ask
<1>2. effects[i] = {}
  BY <1>1, Zenon DEF WritesInv, AsksOK, WriteOK
<1>3. PICK a : /\ Put(i, a) /\ DOMAIN a = AskFields
               /\ a.stage \in {"requested", "running", "done"} /\ a.level # "success"
               /\ a.cmd = c /\ a.pc = FirstCall(c.op) /\ a.want = want /\ a.todo = want
               /\ a.ok = 0 /\ a.rv = 0
  <2>1. PICK a : /\ Put(i, a)
                 /\ a = [Free EXCEPT !.cmd = c, !.sess = session, !.want = want, !.todo = want,
                              !.pc = FirstCall(c.op),
                              !.stage = CASE readOnly /\ Gated(c.op) -> "done"
                                          [] Dialog(c.op) = "none" -> "running"
                                          [] OTHER -> "requested",
                              !.level = IF readOnly /\ Gated(c.op) THEN "warn" ELSE "-"]
    BY DEF Ask
  <2> HIDE DEF i
  <2>2. a.stage \in {"requested", "running", "done"} /\ a.level # "success"
    BY <2>1 DEF Free
  <2>3. /\ DOMAIN a = AskFields /\ a.cmd = c /\ a.pc = FirstCall(c.op) /\ a.want = want /\ a.todo = want
        /\ a.ok = 0 /\ a.rv = 0
    BY <2>1 DEF Free, AskFields
  <2> QED
    BY <2>1, <2>2, <2>3
<1> HIDE DEF i
<1>4. Counted(a, {})
  <2>1. (a.want \ a.todo) \cap {} = {}
    OBVIOUS
  <2> QED
    BY <1>3, <2>1, FS_EmptySet DEF Counted
<1>5. AtCall(a)
  BY <1>3, CommandOps DEF AtCall, FirstCall
<1>6. DrainOrder(a, {}) /\ Truth(a, {})
  <2>1. c.op = "drain" => want = {} /\ a.pc = "cordon" /\ a.want = {}
    BY <1>3, CommandOps DEF FirstCall
  <2> QED
    BY <1>3, <2>1 DEF DrainOrder, Truth
<1>7. Updates(c.op) => a.pc = "get"
  BY <1>3 DEF Updates, FirstCall
<1>8. Fresh(a, obj)
  BY <1>3, <1>7 DEF Fresh
<1>9. WriteOK(a, {})
  <2>1. a.stage # "free" /\ a.stage \in {"free", "requested", "shown", "running", "done", "dropped"} /\ a.rv \in Nat
    BY <1>3
  <2> QED
    BY <1>3, <1>4, <1>5, <1>6, <2>1, Zenon DEF WriteOK
<1>10. UNCHANGED <<obj, pods, others, session, readOnly, dialogs, effects>>
  BY DEF Ask, server, settings
<1>11. AsksOK'
  BY <1>1, <1>2, <1>3, <1>8, <1>9, <1>10, AsksStep DEF WritesInv, AsksOK
<1>12. DialogsOK'
  BY <1>1, <1>3, <1>10, DialogsStep DEF WritesInv
<1> QED
  BY <1>10, <1>11, <1>12 DEF WritesInv, Bounds, ObjectsOK

\* A write that moves from stage to stage, or to its next call, keeps what it is
\* about, what it has counted and what it has done.
LEMMA MovedOK ==
  ASSUME NEW a, NEW b, NEW E, WriteOK(a, E), DOMAIN b = AskFields, b.rv \in Nat,
         b.stage \in {"requested", "shown", "running", "done", "dropped"},
         b.stage = "done" => b.level # "success",
         b.cmd = a.cmd, b.want = a.want, b.todo = a.todo, b.ok = a.ok, AtCall(b), DrainOrder(b, E)
  PROVE  WriteOK(b, E)
<1>1. Counted(b, E)
  BY DEF WriteOK, Counted
<1>2. Truth(b, E)
  BY DEF Truth
<1>3. b.stage # "free" /\ b.stage \in {"free", "requested", "shown", "running", "done", "dropped"}
  OBVIOUS
<1> QED
  BY <1>1, <1>2, <1>3, Zenon DEF WriteOK

\* Dialogs: a request is shown in place of the dialog that is open, and an answer
\* runs or drops the write that is shown.
LEMMA DialogSteps ==
  ASSUME WritesInv,
         \/ \E i \in Ids : RequestArrives(i)
         \/ \E yes \in BOOLEAN : ConfirmKey(yes) \/ PromptEnter(yes)
         \/ PromptEsc \/ PromptEdit
  PROVE  WritesInv'
<1> USE DEF WritesInv
<1>0. UNCHANGED <<obj, pods, others, session, readOnly, effects>>
  BY DEF RequestArrives, ConfirmKey, PromptEnter, PromptEsc, PromptEdit, server, settings
<1>1. ASSUME NEW j \in Ids, NEW s \in {"shown", "running", "dropped"}, NEW b, b = [ask[j] EXCEPT !.stage = s]
      PROVE  WriteOK(b, effects[j]) /\ Fresh(b, obj) /\ b.cmd = ask[j].cmd /\ b.stage = s
  <2>1. PICK a, E : a = ask[j] /\ E = effects[j] /\ WriteOK(a, E) /\ Fresh(a, obj)
    BY DEF AsksOK
  <2>2. /\ DOMAIN b = AskFields /\ b.rv = a.rv /\ b.stage = s /\ b.level = a.level /\ b.cmd = a.cmd /\ b.want = a.want
        /\ b.todo = a.todo /\ b.ok = a.ok /\ b.pc = a.pc /\ b.seen = a.seen
    BY <1>1, <2>1 DEF WriteOK, AskFields
  <2>3. AtCall(b) /\ DrainOrder(b, E) /\ Fresh(b, obj)
    BY <2>1, <2>2, Zenon DEF WriteOK, AtCall, DrainOrder, Fresh
  <2>4. b.rv \in Nat
    BY <2>1, <2>2 DEF WriteOK
  <2>5. WriteOK(b, E)
    BY <1>1, <2>1, <2>2, <2>3, <2>4, MovedOK
  <2> QED
    BY <2>1, <2>2, <2>3, <2>5
<1>2. ASSUME NEW i \in Ids, RequestArrives(i)
      PROVE  WritesInv'
  <2>o. PICK old : old = IF Dialog(ask[i].cmd.op) = "prompt" THEN prompt ELSE confirm
    OBVIOUS
  <2>1. \A j \in Ids :
          /\ j = i => ask'[j] = [ask[j] EXCEPT !.stage = "shown"]
          /\ j # i /\ j = old => ask'[j] = [ask[j] EXCEPT !.stage = "dropped"]
          /\ j # i /\ j # old => ask'[j] = ask[j]
    BY <1>2, <2>o DEF RequestArrives, Show
  <2>2. DOMAIN ask' = Ids
    BY <1>2 DEF RequestArrives, Show
  <2>3. ASSUME NEW j \in Ids
        PROVE  /\ WriteOK(ask'[j], effects[j]) /\ Fresh(ask'[j], obj) /\ ask'[j].cmd = ask[j].cmd
               /\ ask'[j].stage = "shown" <=> j = i \/ (j # old /\ ask[j].stage = "shown")
    <3>1. CASE j = i
      <4>1. ask'[j] = [ask[j] EXCEPT !.stage = "shown"]
        BY <2>1, <3>1
      <4> QED
        BY <1>1, <3>1, <4>1, ZenonT(30)
    <3>2. CASE j # i /\ j = old
      <4>1. ask'[j] = [ask[j] EXCEPT !.stage = "dropped"]
        BY <2>1, <3>2
      <4>2. ask'[j].stage = "dropped" /\ "dropped" # "shown"
        BY <1>1, <4>1
      <4> QED
        BY <1>1, <3>2, <4>1, <4>2, Zenon
    <3>3. CASE j # i /\ j # old
      <4>1. ask'[j] = ask[j]
        BY <2>1, <3>3
      <4> QED
        BY <3>3, <4>1, Zenon DEF AsksOK
    <3> QED
      BY <3>1, <3>2, <3>3
  <2>5. AsksOK'
    BY <1>0, <2>2, <2>3 DEF AsksOK
  <2>6. DialogsOK'
    <3>1. CASE Dialog(ask[i].cmd.op) = "prompt"
      <4>1. prompt' = i /\ promptErr' = FALSE /\ confirm' = confirm /\ old = prompt
        BY <1>2, <2>o, <3>1 DEF RequestArrives
      <4> QED
        BY <2>3, <3>1, <4>1, ConstantsOK DEF DialogsOK
    <3>2. CASE Dialog(ask[i].cmd.op) # "prompt"
      <4>1. prompt' = prompt /\ promptErr' = promptErr /\ confirm' = i /\ old = confirm
        BY <1>2, <2>o, <3>2 DEF RequestArrives
      <4> QED
        BY <2>3, <3>2, <4>1, ConstantsOK DEF DialogsOK
    <3> QED
      BY <3>1, <3>2
  <2> QED
    BY <1>0, <2>5, <2>6 DEF Bounds, ObjectsOK
<1>3. ASSUME NEW j \in Ids, NEW b, Put(j, b), WriteOK(b, effects[j]), Fresh(b, obj)
      PROVE  AsksOK' /\ DOMAIN ask' = Ids /\ ask'[j] = b /\ \A k \in Ids \ {j} : ask'[k] = ask[k]
  BY <1>0, <1>3, AsksStep DEF AsksOK, Put
<1>4. ASSUME NEW yes \in BOOLEAN, ConfirmKey(yes)
      PROVE  WritesInv'
  <2>1. confirm \in Ids
    BY <1>4 DEF ConfirmKey, DialogsOK
  <2>2. PICK b : /\ Put(confirm, b) /\ WriteOK(b, effects[confirm]) /\ Fresh(b, obj) /\ b.stage # "shown"
                 /\ b.cmd = ask[confirm].cmd
    BY <1>1, <1>4, <2>1 DEF ConfirmKey
  <2>3. AsksOK' /\ DOMAIN ask' = Ids /\ ask'[confirm] = b /\ \A k \in Ids \ {confirm} : ask'[k] = ask[k]
    BY <1>3, <2>1, <2>2
  <2>4. DialogsOK'
    BY <1>4, <2>1, <2>2, <2>3, ConstantsOK DEF ConfirmKey, DialogsOK
  <2> QED
    BY <1>0, <2>3, <2>4 DEF Bounds, ObjectsOK
<1>5. ASSUME prompt \in Ids, NEW b, Put(prompt, b), WriteOK(b, effects[prompt]), Fresh(b, obj), b.stage # "shown",
             prompt' = 0, promptErr' = FALSE, confirm' = confirm
      PROVE  WritesInv'
  <2>3. AsksOK' /\ DOMAIN ask' = Ids /\ ask'[prompt] = b /\ \A k \in Ids \ {prompt} : ask'[k] = ask[k]
    BY <1>3, <1>5
  <2>4. DialogsOK'
    BY <1>5, <2>3, ConstantsOK DEF DialogsOK
  <2> QED
    BY <1>0, <2>3, <2>4 DEF Bounds, ObjectsOK
<1>6. ASSUME NEW valid \in BOOLEAN, PromptEnter(valid)
      PROVE  WritesInv'
  <2>1. prompt \in Ids
    BY <1>6 DEF PromptEnter, DialogsOK
  <2>2. CASE ~valid /\ Validates(ask[prompt].cmd.op)
    <3>1. promptErr' = TRUE /\ UNCHANGED <<prompt, confirm, ask>>
      BY <1>6, <2>2 DEF PromptEnter
    <3> QED
      BY <1>0, <3>1 DEF Bounds, ObjectsOK, AsksOK, DialogsOK
  <2>3. CASE valid
    <3>1. PICK b : Put(prompt, b) /\ b = [ask[prompt] EXCEPT !.stage = "running"]
      BY <1>6, <2>3 DEF PromptEnter
    <3>2. prompt' = 0 /\ promptErr' = FALSE /\ confirm' = confirm
      BY <1>6, <2>3 DEF PromptEnter
    <3>3. WriteOK(b, effects[prompt]) /\ Fresh(b, obj) /\ b.stage # "shown"
      BY <1>1, <2>1, <3>1
    <3> QED
      BY <1>5, <2>1, <3>1, <3>2, <3>3
  <2>4. CASE ~valid /\ ~Validates(ask[prompt].cmd.op)
    <3>1. PICK b : Put(prompt, b) /\ b = [ask[prompt] EXCEPT !.stage = "done", !.level = "error"]
      BY <1>6, <2>4 DEF PromptEnter
    <3>2. prompt' = 0 /\ promptErr' = FALSE /\ confirm' = confirm
      BY <1>6, <2>4 DEF PromptEnter
    <3>3. PICK a, E : a = ask[prompt] /\ E = effects[prompt] /\ WriteOK(a, E) /\ Fresh(a, obj)
      BY <2>1 DEF AsksOK
    <3>4. /\ DOMAIN b = AskFields /\ b.rv = a.rv /\ b.stage = "done" /\ b.level # "success" /\ b.cmd = a.cmd /\ b.want = a.want
          /\ b.todo = a.todo /\ b.ok = a.ok /\ b.pc = a.pc /\ b.seen = a.seen
      BY <3>1, <3>3 DEF WriteOK, AskFields
    <3>5. AtCall(b) /\ DrainOrder(b, E) /\ Fresh(b, obj)
      BY <3>3, <3>4, Zenon DEF WriteOK, AtCall, DrainOrder, Fresh
    <3>6. b.rv \in Nat
      BY <3>3, <3>4 DEF WriteOK
    <3>7. WriteOK(b, E)
      BY <3>3, <3>4, <3>5, <3>6, MovedOK
    <3> QED
      BY <1>5, <2>1, <3>1, <3>2, <3>3, <3>4, <3>5, <3>7
  <2> QED
    BY <2>2, <2>3, <2>4
<1>7. ASSUME PromptEsc
      PROVE  WritesInv'
  <2>1. prompt \in Ids /\ prompt' = 0 /\ promptErr' = FALSE /\ confirm' = confirm
    BY <1>7 DEF PromptEsc, DialogsOK
  <2>2. PICK b : Put(prompt, b) /\ b = [ask[prompt] EXCEPT !.stage = "dropped"]
    BY <1>7 DEF PromptEsc
  <2>3. WriteOK(b, effects[prompt]) /\ Fresh(b, obj) /\ b.stage # "shown"
    BY <1>1, <2>1, <2>2
  <2> QED
    BY <1>5, <2>1, <2>2, <2>3
<1>8. ASSUME PromptEdit
      PROVE  WritesInv'
  BY <1>0, <1>8 DEF PromptEdit, Bounds, ObjectsOK, AsksOK, DialogsOK
<1> QED
  BY <1>2, <1>4, <1>6, <1>7, <1>8

\* Counting is monotone in what has been done.
LEMMA CountedGrows ==
  ASSUME NEW a, NEW E, NEW x, Counted(a, E)
  PROVE  Counted(a, E \cup {x})
<1>1. /\ IsFiniteSet((a.want \ a.todo) \cap (E \cup {x}))
      /\ (a.want \ a.todo) \cap E \subseteq (a.want \ a.todo) \cap (E \cup {x})
  BY FS_Subset, (a.want \ a.todo) \cap (E \cup {x}) \subseteq a.want DEF Counted
<1>2. /\ Cardinality((a.want \ a.todo) \cap E) <= Cardinality((a.want \ a.todo) \cap (E \cup {x}))
      /\ Cardinality((a.want \ a.todo) \cap E) \in Nat
      /\ Cardinality((a.want \ a.todo) \cap (E \cup {x})) \in Nat
  BY <1>1, FS_Subset, FS_CardinalityType
<1> QED
  BY <1>2 DEF Counted

\* An object leaves "todo", and is counted only if it has been changed.
LEMMA CountedItem ==
  ASSUME NEW a, NEW b, NEW E, NEW x, Counted(a, E), x \in a.todo,
         b.want = a.want, b.todo = a.todo \ {x},
         b.ok = a.ok \/ (b.ok = a.ok + 1 /\ x \in E)
  PROVE  Counted(b, E)
<1> DEFINE S == (a.want \ a.todo) \cap E
           T == (b.want \ b.todo) \cap E
<1>1. T = IF x \in E THEN S \cup {x} ELSE S
  BY DEF Counted
<1>2. IsFiniteSet(S) /\ x \notin S
  BY FS_Subset, S \subseteq a.want DEF Counted
<1>3. a.ok <= Cardinality(S) /\ a.ok \in Nat
  BY DEF Counted
<1>4. IsFiniteSet(b.want) /\ b.todo \subseteq b.want
  BY DEF Counted
<1> HIDE DEF S, T
<1>5. Cardinality(S) \in Nat /\ Cardinality(S \cup {x}) = Cardinality(S) + 1
  BY <1>2, FS_CardinalityType, FS_AddElement
<1>6. b.ok \in Nat /\ b.ok <= Cardinality(T)
  BY <1>1, <1>3, <1>5
<1> QED
  BY <1>4, <1>6 DEF Counted, T

\* At the end of a loop, as many successes as objects means every object.
LEMMA CountedAll ==
  ASSUME NEW a, NEW E, Counted(a, E), a.todo = {}, a.ok = Cardinality(a.want)
  PROVE  a.want \subseteq E
<1>1. (a.want \ a.todo) \cap E = a.want \cap E
  OBVIOUS
<1>2. IsFiniteSet(a.want) /\ Cardinality(a.want) <= Cardinality(a.want \cap E)
  BY <1>1 DEF Counted
<1>3. /\ Cardinality(a.want \cap E) <= Cardinality(a.want)
      /\ Cardinality(a.want) = Cardinality(a.want \cap E) => a.want = a.want \cap E
      /\ Cardinality(a.want \cap E) \in Nat /\ Cardinality(a.want) \in Nat
  BY <1>2, FS_Subset, FS_CardinalityType, a.want \cap E \in SUBSET a.want
<1> QED
  BY <1>2, <1>3

\* A running write has an effect: a drain's is the fence, or a pod it may evict
\* behind the fence.
LEMMA EffectOK ==
  ASSUME NEW a, NEW E, NEW x, WriteOK(a, E), a.stage = "running",
         a.cmd.op = "drain" => x = "cordon" \/ (x \in Movable /\ a.pc = "loop")
  PROVE  WriteOK(a, E \cup {x})
<1>1. Counted(a, E \cup {x})
  BY CountedGrows DEF WriteOK
<1>2. DrainOrder(a, E \cup {x}) /\ Truth(a, E \cup {x})
  BY DEF WriteOK, DrainOrder, Truth
<1>3. a.stage # "free"
  OBVIOUS
<1> QED
  BY <1>1, <1>2, <1>3, Zenon DEF WriteOK

\* A step of a write's goroutine, put together from its parts.
LEMMA GoroutineStep ==
  ASSUME WritesInv, NEW i \in Ids, ask[i].stage = "running", NEW b, Put(i, b), b.stage \in {"running", "done"},
         UNCHANGED dialogs, Bounds', ObjectsOK(obj'),
         \A c : Fresh(c, obj) /\ c.rv \in Nat => Fresh(c, obj'),
         \/ UNCHANGED effects
         \/ \E x : Did(i, x),
         WriteOK(b, effects'[i]), Fresh(b, obj')
  PROVE  WritesInv'
<1>1. DOMAIN effects' = Ids /\ \A j \in Ids \ {i} : effects'[j] = effects[j]
  BY DEF WritesInv, AsksOK, Did
<1>2. AsksOK'
  BY <1>1, AsksStep DEF WritesInv
<1>3. b.stage # "shown" /\ ask[i].stage # "shown"
  OBVIOUS
<1>4. DialogsOK'
  BY <1>3, DialogsStep DEF WritesInv
<1> QED
  BY <1>2, <1>4 DEF WritesInv

\* The steps of a goroutine that change nothing on the server: reads, failures, and
\* the toast at the end of a loop.
LEMMA ReadSteps ==
  ASSUME WritesInv, NEW i \in Ids,
         \/ Get(i) \/ ListRevisions(i) \/ ListPods(i) \/ CallFails(i) \/ LoopEnds(i)
         \/ \E x \in ask[i].todo : ItemFails(i, x)
  PROVE  WritesInv'
<1>1. UNCHANGED <<obj, pods, others, session, readOnly, dialogs, effects>> /\ ask[i].stage = "running"
  BY DEF Get, ListRevisions, ListPods, CallFails, LoopEnds, ItemFails, Running, server, settings
<1>2. PICK a, E : a = ask[i] /\ E = effects[i] /\ WriteOK(a, E) /\ Fresh(a, obj) /\ a.stage = "running"
  BY <1>1 DEF WritesInv, AsksOK
<1>3. Bounds' /\ ObjectsOK(obj')
  BY <1>1 DEF WritesInv, Bounds
<1>4. ASSUME NEW b, Put(i, b), b.stage \in {"running", "done"}, WriteOK(b, E), Fresh(b, obj)
      PROVE  WritesInv'
  <2>1. WriteOK(b, effects'[i]) /\ Fresh(b, obj') /\ \A c : Fresh(c, obj) /\ c.rv \in Nat => Fresh(c, obj')
    BY <1>1, <1>2, <1>4, Zenon
  <2> QED
    BY <1>1, <1>3, <1>4, <2>1, GoroutineStep
<1>5. ASSUME NEW level, level = "success" => a.want \subseteq E, Put(i, Finished(a, level))
      PROVE  WritesInv'
  <2>1. PICK b : b = Finished(a, level)
    OBVIOUS
  <2>2. WriteOK(b, E) /\ b.pc = "-" /\ b.stage = "done"
    BY <1>2, <1>5, <2>1, FinishedOK
  <2>3. Fresh(b, obj)
    BY <2>2 DEF Fresh
  <2> QED
    BY <1>4, <1>5, <2>1, <2>2, <2>3
<1>6. CASE Get(i)
  <2> DEFINE o == obj[KindOf(a.cmd)]
  <2>1. CASE ~Decidable(a.cmd, o.f)
    BY <1>2, <1>5, <1>6, <2>1 DEF Get
  <2>2. CASE Decidable(a.cmd, o.f)
    <3>1. PICK b : /\ Put(i, b)
                   /\ b = [a EXCEPT !.uid = o.uid, !.rv = o.rv, !.seen = o.f,
                                    !.pc = IF a.cmd.op = "undo" THEN "list" ELSE "write"]
      BY <1>2, <1>6, <2>2 DEF Get
    <3>2. /\ DOMAIN b = AskFields /\ b.rv = o.rv /\ b.stage = "running" /\ b.cmd = a.cmd /\ b.want = a.want
          /\ b.todo = a.todo /\ b.ok = a.ok /\ b.seen = o.f
          /\ b.pc = IF a.cmd.op = "undo" THEN "list" ELSE "write"
      BY <1>2, <3>1 DEF WriteOK, AskFields
    <3>3. a.pc = "get" /\ a.want = {"object"} /\ (a.cmd \in Commands \/ a.cmd.op = "undo")
      BY <1>2, <1>6 DEF Get, Running, WriteOK, AtCall
    <3>4. KindOf(a.cmd) \in Kinds /\ a.cmd.op # "drain"
      BY <3>3, KindOfCommand, CommandOps DEF KindOf, Kinds
    <3>5. AtCall(b) /\ DrainOrder(b, E)
      BY <3>2, <3>3, <3>4 DEF AtCall, DrainOrder
    <3>6. b.rv \in Nat
      BY <3>2, <3>4 DEF WritesInv, ObjectsOK
    <3>7. WriteOK(b, E)
      BY <1>2, <3>2, <3>5, <3>6, MovedOK
    <3>8. Fresh(b, obj)
      BY <2>2, <3>2, <3>6 DEF Fresh
    <3> QED
      BY <1>4, <3>1, <3>2, <3>7, <3>8
  <2> QED
    BY <2>1, <2>2
<1>7. CASE ListRevisions(i)
  <2> DEFINE w == obj["workload"].f
             m == ask[i].cmd.n
  <2>1. CASE obj["workload"].uid # ask[i].uid \/ Revision(w, m) = {}
    BY <1>2, <1>5, <1>7, <2>1 DEF ListRevisions
  <2>2. CASE ~(obj["workload"].uid # ask[i].uid \/ Revision(w, m) = {})
    <3>1. PICK b, patch : Put(i, b) /\ b = [a EXCEPT !.patch = patch, !.pc = "write"]
      BY <1>2, <1>7, <2>2 DEF ListRevisions
    <3>2. /\ DOMAIN b = AskFields /\ b.rv = a.rv /\ b.stage = "running" /\ b.cmd = a.cmd /\ b.want = a.want
          /\ b.todo = a.todo /\ b.ok = a.ok /\ b.pc = "write"
      BY <1>2, <3>1 DEF WriteOK, AskFields
    <3>3. a.cmd.op = "undo" /\ a.want = {"object"}
      BY <1>2, <1>7 DEF ListRevisions, Running, WriteOK, AtCall
    <3>4. AtCall(b) /\ DrainOrder(b, E) /\ Fresh(b, obj)
      BY <3>2, <3>3 DEF AtCall, DrainOrder, Fresh, Updates
    <3>5. b.rv \in Nat
      BY <1>2, <3>2 DEF WriteOK
    <3>6. WriteOK(b, E)
      BY <1>2, <3>2, <3>4, <3>5, MovedOK
    <3> QED
      BY <1>4, <3>1, <3>2, <3>4, <3>6
  <2> QED
    BY <2>1, <2>2
<1>8. CASE ListPods(i)
  <2>1. PICK b, S : /\ Put(i, b) /\ b = [a EXCEPT !.pc = "loop", !.want = S, !.todo = S]
                    /\ S = DrainablePods(pods)
    BY <1>2, <1>8 DEF ListPods
  <2>2. /\ DOMAIN b = AskFields /\ b.rv = a.rv /\ b.stage = "running" /\ b.cmd = a.cmd /\ b.want = S
        /\ b.todo = S /\ b.ok = a.ok /\ b.pc = "loop"
    BY <1>2, <2>1 DEF WriteOK, AskFields
  <2>3. a.cmd.op = "drain" /\ a.pc = "list"
    BY <1>2, <1>8 DEF ListPods, Running
  <2>4. S \subseteq Movable /\ IsFiniteSet(S)
    <3>1. S \subseteq Movable /\ S \subseteq Pods
      BY <2>1 DEF DrainablePods, WritesInv, Bounds, Pods
    <3> QED
      BY <3>1, FS_Subset, ConstantsOK
  <2>5. Counted(b, E)
    <3>1. (a.want \ a.todo) \cap E = {} /\ (b.want \ b.todo) \cap E = {}
      BY <1>2, <2>2, <2>3 DEF WriteOK, DrainOrder
    <3>2. a.ok \in Nat /\ a.ok <= Cardinality({})
      BY <1>2, <3>1 DEF WriteOK, Counted
    <3>3. a.ok <= Cardinality((b.want \ b.todo) \cap E)
      BY <3>1, <3>2
    <3> QED
      BY <2>2, <2>4, <3>2, <3>3 DEF Counted
  <2>6. AtCall(b) /\ DrainOrder(b, E) /\ Truth(b, E) /\ Fresh(b, obj)
    BY <1>2, <2>2, <2>3, <2>4 DEF WriteOK, AtCall, DrainOrder, Truth, Fresh
  <2>7. b.stage # "free" /\ b.stage \in {"free", "requested", "shown", "running", "done", "dropped"}
    BY <2>2
  <2>8. WriteOK(b, E)
    BY <1>2, <2>2, <2>5, <2>6, <2>7, Zenon DEF WriteOK
  <2> QED
    BY <1>4, <2>1, <2>2, <2>6, <2>8
<1>9. CASE CallFails(i)
  BY <1>2, <1>5, <1>9 DEF CallFails
<1>10. CASE LoopEnds(i)
  <2>1. Outcome(a) = "success" => a.ok = Cardinality(a.want)
    BY DEF Outcome
  <2>2. a.todo = {} /\ Counted(a, E)
    BY <1>2, <1>10 DEF LoopEnds, WriteOK
  <2>3. Outcome(a) = "success" => a.want \subseteq E
    BY <2>1, <2>2, CountedAll
  <2> QED
    BY <1>2, <1>5, <1>10, <2>3 DEF LoopEnds
<1>11. ASSUME NEW x \in ask[i].todo, ItemFails(i, x)
       PROVE  WritesInv'
  <2>1. PICK b : Put(i, b) /\ b = [a EXCEPT !.todo = a.todo \ {x}, !.ok = a.ok]
    BY <1>2, <1>11 DEF ItemFails, Done1
  <2>2. /\ DOMAIN b = AskFields /\ b.rv = a.rv /\ b.stage = "running" /\ b.cmd = a.cmd /\ b.want = a.want
        /\ b.todo = a.todo \ {x} /\ b.ok = a.ok /\ b.pc = a.pc /\ b.seen = a.seen
    BY <1>2, <2>1 DEF WriteOK, AskFields
  <2>3. Counted(b, E)
    BY <1>2, <1>11, <2>2, CountedItem DEF WriteOK
  <2>4. AtCall(b) /\ DrainOrder(b, E) /\ Fresh(b, obj)
    BY <1>2, <2>2, Zenon DEF WriteOK, AtCall, DrainOrder, Fresh
  <2>5. b.stage # "free" /\ b.stage \in {"free", "requested", "shown", "running", "done", "dropped"} /\ Truth(b, E)
    BY <2>2 DEF Truth
  <2>6. WriteOK(b, E)
    BY <1>2, <2>2, <2>3, <2>4, <2>5, Zenon DEF WriteOK
  <2> QED
    BY <1>4, <2>1, <2>2, <2>4, <2>6
<1> QED
  BY <1>6, <1>7, <1>8, <1>9, <1>10, <1>11

\* What a single write stores fits the object it is about.
LEMMA WriteStores ==
  ASSUME WritesInv, NEW i \in Ids, NEW reply, Write(i, reply), ask[i].cmd.op # "exec"
  PROVE  /\ KindOf(ask[i].cmd) \in Kinds /\ Store(KindOf(ask[i].cmd), Written(i))
         /\ KindOf(ask[i].cmd) = "workload" => WorkloadFields(Written(i))
         /\ \/ KindOf(ask[i].cmd) = "workload" /\ Written(i) = PatchTemplate(obj["workload"].f, ask[i].patch)
            \/ /\ ask[i].cmd \in Commands
               /\ Decidable(ask[i].cmd, obj[KindOf(ask[i].cmd)].f)
               /\ Written(i) = Change(ask[i].cmd, obj[KindOf(ask[i].cmd)].f)
<1> DEFINE a == ask[i]
           c == ask[i].cmd
           f == obj[KindOf(ask[i].cmd)].f
<1>1. c \in Commands \/ c.op = "undo"
  BY DEF Write, Running, WritesInv, AsksOK, WriteOK, AtCall
<1>2. Store(KindOf(c), Written(i)) /\ Current(i)
  BY DEF Write
<1>3. WorkloadFields(obj["workload"].f)
  BY DEF WritesInv, ObjectsOK
<1>4. CASE c.op = "undo"
  <2>1. KindOf(c) = "workload" /\ KindOf(c) \in Kinds
    BY <1>4 DEF KindOf, Kinds
  <2>2. Written(i) = PatchTemplate(obj["workload"].f, a.patch)
    BY <1>4, <2>1 DEF Written
  <2> QED
    BY <1>2, <1>3, <2>1, <2>2, PatchFields
<1>5. CASE c \in Commands
  <2>1. KindOf(c) \in Kinds /\ c.op # "undo"
    BY <1>5, KindOfCommand, CommandOps
  <2>2. CASE Updates(c.op)
    <3>1. a.seen = f /\ Decidable(c, f)
      BY <1>2, <2>2 DEF Write, Running, Current, WritesInv, AsksOK, Fresh
    <3>2. Written(i) = Change(c, f)
      BY <2>1, <2>2, <3>1 DEF Written
    <3> QED
      BY <1>2, <1>3, <1>5, <2>1, <3>1, <3>2, ChangeFields
  <2>3. CASE ~Updates(c.op)
    <3>1. Written(i) = Change(c, f)
      BY <2>1, <2>3 DEF Written
    <3>2. Decidable(c, f)
      BY <2>3 DEF Decidable, Updates
    <3> QED
      BY <1>2, <1>3, <1>5, <2>1, <3>1, <3>2, ChangeFields
  <2> QED
    BY <2>2, <2>3
<1> QED
  BY <1>1, <1>4, <1>5

\* The calls that change the cluster.
LEMMA WriteSteps ==
  ASSUME WritesInv, NEW i \in Ids, NEW reply \in BOOLEAN,
         \/ Write(i, reply) \/ CordonCall(i, reply)
         \/ \E x \in ask[i].todo : ItemCall(i, x, reply)
  PROVE  WritesInv'
<1>1. UNCHANGED <<others, session, readOnly, dialogs>> /\ ask[i].stage = "running"
  BY DEF Write, CordonCall, ItemCall, Running, settings
<1>2. PICK a, E : a = ask[i] /\ E = effects[i] /\ WriteOK(a, E) /\ Fresh(a, obj) /\ a.stage = "running"
  BY <1>1 DEF WritesInv, AsksOK
<1>3. ASSUME NEW b, NEW x, Put(i, b), Did(i, x), b.stage \in {"running", "done"}, WriteOK(b, E \cup {x}),
             b.pc # "write", pods' \subseteq pods, ObjectsOK(obj'),
             \A c : Fresh(c, obj) /\ c.rv \in Nat => Fresh(c, obj')
      PROVE  WritesInv'
  <2>1. effects'[i] = E \cup {x}
    BY <1>2, <1>3 DEF Did, WritesInv, AsksOK
  <2>2. Bounds'
    BY <1>1, <1>3 DEF WritesInv, Bounds
  <2>3. WriteOK(b, effects'[i])
    BY <1>3, <2>1
  <2>4. Fresh(b, obj')
    BY <1>3 DEF Fresh
  <2> QED
    BY <1>1, <1>3, <2>2, <2>3, <2>4, GoroutineStep
<1>4. ASSUME NEW x, NEW level, WriteOK(a, E \cup {x}), level = "success" => a.want \subseteq E \cup {x}
      PROVE  LET b == Finished(a, level)
             IN b.stage \in {"running", "done"} /\ WriteOK(b, E \cup {x}) /\ b.pc # "write"
  <2>1. PICK b : b = Finished(a, level)
    OBVIOUS
  <2>2. PICK F : F = E \cup {x} /\ WriteOK(a, F) /\ (level = "success" => a.want \subseteq F)
    BY <1>4
  <2>3. WriteOK(b, F) /\ b.pc = "-" /\ b.stage = "done"
    BY <2>1, <2>2, FinishedOK
  <2> QED
    BY <2>1, <2>2, <2>3
<1>5. CASE Write(i, reply)
  <2>1. a.want = {"object"} /\ a.cmd.op # "drain"
    BY <1>2, <1>5, CommandOps DEF Write, Running, WriteOK, AtCall
  <2>2. WriteOK(a, E \cup {"object"})
    BY <1>2, <2>1, EffectOK
  <2>3. ObjectsOK(obj') /\ \A c : Fresh(c, obj) /\ c.rv \in Nat => Fresh(c, obj')
    <3>1. CASE a.cmd.op = "exec"
      <4>1. obj' = obj
        BY <1>2, <1>5, <3>1 DEF Write
      <4> QED
        BY <4>1, Zenon DEF WritesInv
    <3>2. CASE a.cmd.op # "exec"
      BY <1>2, <1>5, <3>2, WriteStores, StoreKeeps DEF WritesInv
    <3> QED
      BY <3>1, <3>2
  <2>4. PICK level : Put(i, Finished(a, level)) /\ Did(i, "object") /\ pods' = pods
    BY <1>2, <1>5 DEF Write
  <2> QED
    BY <1>3, <1>4, <2>1, <2>2, <2>3, <2>4
<1>6. CASE CordonCall(i, reply)
  <2>1. a.pc = "cordon" /\ a.cmd.op = "drain" /\ a.want = {}
    BY <1>2, <1>6 DEF CordonCall, Running, WriteOK, AtCall, DrainOrder
  <2>2. WriteOK(a, E \cup {"cordon"})
    BY <1>2, EffectOK
  <2>3. ObjectsOK(obj') /\ \A c : Fresh(c, obj) /\ c.rv \in Nat => Fresh(c, obj')
    <3>1. "node" \in Kinds /\ "node" # "workload"
      BY DEF Kinds
    <3>2. Store("node", Cordon(obj["node"].f, TRUE))
      BY <1>6 DEF CordonCall
    <3> QED
      BY <3>1, <3>2, StoreKeeps DEF WritesInv
  <2>4. Did(i, "cordon") /\ pods' = pods
    BY <1>6 DEF CordonCall
  <2>5. CASE reply
    <3>1. PICK b : Put(i, b) /\ b = [a EXCEPT !.pc = "list"]
      BY <1>2, <1>6, <2>5 DEF CordonCall
    <3>2. /\ DOMAIN b = AskFields /\ b.rv = a.rv /\ b.stage = "running" /\ b.cmd = a.cmd /\ b.want = a.want
          /\ b.todo = a.todo /\ b.ok = a.ok /\ b.pc = "list"
      BY <1>2, <3>1 DEF WriteOK, AskFields
    <3>3. AtCall(b) /\ DrainOrder(b, E \cup {"cordon"})
      BY <2>1, <2>2, <3>2 DEF WriteOK, AtCall, DrainOrder
    <3>4. b.rv \in Nat
      BY <1>2, <3>2 DEF WriteOK
    <3>5. WriteOK(b, E \cup {"cordon"})
      BY <2>2, <3>2, <3>3, <3>4, MovedOK
    <3> QED
      BY <1>3, <2>3, <2>4, <3>1, <3>2, <3>5
  <2>6. CASE ~reply
    <3>1. Put(i, Finished(a, "error"))
      BY <1>2, <1>6, <2>6 DEF CordonCall
    <3> QED
      BY <1>3, <1>4, <2>2, <2>3, <2>4, <3>1
  <2> QED
    BY <2>5, <2>6
<1>7. ASSUME NEW x \in ask[i].todo, ItemCall(i, x, reply)
      PROVE  WritesInv'
  <2>1. a.pc = "loop" /\ x \in a.todo /\ Did(i, x)
    BY <1>2, <1>7 DEF ItemCall, Running
  <2>2. a.cmd.op = "drain" => x \in Movable
    BY <1>2, <2>1 DEF WriteOK, Counted, DrainOrder
  <2>3. WriteOK(a, E \cup {x})
    BY <1>2, <2>1, <2>2, EffectOK
  <2>4. PICK b : Put(i, b) /\ b = [a EXCEPT !.todo = a.todo \ {x}, !.ok = IF reply THEN a.ok + 1 ELSE a.ok]
    BY <1>2, <1>7 DEF ItemCall, Done1
  <2>5. /\ DOMAIN b = AskFields /\ b.rv = a.rv /\ b.stage = "running" /\ b.cmd = a.cmd /\ b.want = a.want
        /\ b.todo = a.todo \ {x} /\ b.pc = a.pc /\ b.seen = a.seen
        /\ b.ok = IF reply THEN a.ok + 1 ELSE a.ok
    BY <1>2, <2>4 DEF WriteOK, AskFields
  <2>6. Counted(b, E \cup {x})
    BY <2>1, <2>3, <2>5, CountedItem DEF WriteOK
  <2>7. AtCall(b) /\ DrainOrder(b, E \cup {x})
    BY <2>3, <2>5, Zenon DEF WriteOK, AtCall, DrainOrder
  <2>8. /\ b.stage # "free" /\ b.stage \in {"free", "requested", "shown", "running", "done", "dropped"}
        /\ b.pc # "write" /\ Truth(b, E \cup {x})
    BY <2>1, <2>5 DEF Truth
  <2>9. WriteOK(b, E \cup {x})
    BY <1>2, <2>5, <2>6, <2>7, <2>8, Zenon DEF WriteOK
  <2>10. ObjectsOK(obj') /\ (\A c : Fresh(c, obj) /\ c.rv \in Nat => Fresh(c, obj')) /\ pods' \subseteq pods
    <3>1. CASE x \in Docs
      <4>1. Store("workload", SetImage(obj["workload"].f, "app", 3)) /\ pods' = pods
        BY <1>7, <3>1 DEF ItemCall
      <4>2. WorkloadFields(SetImage(obj["workload"].f, "app", 3)) /\ "workload" \in Kinds
        BY PatchFields DEF SetImage, WritesInv, ObjectsOK, Kinds
      <4> QED
        BY <4>1, <4>2, StoreKeeps DEF WritesInv
    <3>2. CASE x \notin Docs
      <4>1. obj' = obj /\ pods' \subseteq pods
        BY <1>7, <3>2 DEF ItemCall
      <4> QED
        BY <4>1, Zenon DEF WritesInv
    <3> QED
      BY <3>1, <3>2
  <2> QED
    BY <1>3, <2>1, <2>4, <2>5, <2>8, <2>9, <2>10
<1> QED
  BY <1>5, <1>6, <1>7

\* Context switches, and what other clients do.
LEMMA OtherSteps ==
  ASSUME WritesInv,
         SwitchContext \/ OtherChange \/ OtherRecreates \/ \E p \in Pods : OtherPod(p)
  PROVE  WritesInv'
<1> USE DEF WritesInv
<1>1. UNCHANGED <<readOnly, ask, dialogs, effects>>
  BY DEF SwitchContext, OtherChange, OtherRecreates, OtherPod, settings
<1>2. DialogsOK'
  BY <1>1 DEF DialogsOK, dialogs
<1>3. ASSUME ObjectsOK(obj'), \A c : Fresh(c, obj) /\ c.rv \in Nat => Fresh(c, obj')
      PROVE  ObjectsOK(obj') /\ AsksOK'
  <2>1. \A j \in Ids : ask[j].rv \in Nat
    BY Zenon DEF AsksOK, WriteOK
  <2> QED
    BY <1>1, <1>3, <2>1, Zenon DEF AsksOK
<1>4. CASE UNCHANGED obj
  <2>1. ObjectsOK(obj') /\ \A c : Fresh(c, obj) /\ c.rv \in Nat => Fresh(c, obj')
    BY <1>4, Zenon
  <2>2. Bounds'
    BY <1>1, <1>4, ConstantsOK DEF SwitchContext, OtherChange, OtherRecreates, OtherPod, server, Bounds
  <2> QED
    BY <1>2, <1>3, <2>1, <2>2
<1>5. CASE OtherChange
  <2>1. PICK c \in Commands : Store(KindOf(c), Change(c, obj[KindOf(c)].f))
    BY <1>5 DEF OtherChange
  <2>2. KindOf(c) \in Kinds /\ (KindOf(c) = "workload" => WorkloadFields(Change(c, obj[KindOf(c)].f)))
    BY KindOfCommand, ChangeFields DEF ObjectsOK
  <2>3. ObjectsOK(obj') /\ \A d : Fresh(d, obj) /\ d.rv \in Nat => Fresh(d, obj')
    BY <2>1, <2>2, StoreKeeps
  <2>4. Bounds'
    BY <1>1, <1>5, ConstantsOK DEF OtherChange, Bounds
  <2> QED
    BY <1>2, <1>3, <2>3, <2>4
<1>6. CASE OtherRecreates
  <2>1. /\ DOMAIN obj' = Kinds /\ \A k \in Kinds \ {"workload"} : obj'[k] = obj[k]
        /\ DOMAIN obj'["workload"] = {"uid", "rv", "f"} /\ obj'["workload"].rv = obj["workload"].rv + 1
        /\ obj'["workload"].f = Initially["workload"]
    BY <1>6 DEF OtherRecreates, ObjectsOK, Kinds
  <2>2. WorkloadFields(Initially["workload"])
    BY DEF Initially, WorkloadFields
  <2>3. ObjectsOK(obj')
    BY <2>1, <2>2 DEF ObjectsOK, Kinds
  <2>4. \A d : Fresh(d, obj) /\ d.rv \in Nat => Fresh(d, obj')
    BY <2>1, KindOfUpdate DEF Fresh, ObjectsOK, Kinds
  <2>5. Bounds'
    BY <1>1, <1>6, ConstantsOK DEF OtherRecreates, Bounds
  <2> QED
    BY <1>2, <1>3, <2>3, <2>4, <2>5
<1> QED
  BY <1>4, <1>5, <1>6 DEF SwitchContext, OtherPod, server

\* Every step keeps the invariant.
LEMMA WritesStep == WritesInv /\ [Next]_vars => WritesInv'
<1> SUFFICES ASSUME WritesInv, [Next]_vars PROVE WritesInv'
  OBVIOUS
<1>1. CASE AskCommand
  <2>1. PICK c \in Commands : Ask(c, {"object"})
    BY <1>1 DEF AskCommand
  <2> QED
    BY <2>1, AskKeeps, FS_Singleton
<1>2. CASE AskDelete
  <2>1. PICK S \in SUBSET pods : \E c : Ask(c, S) /\ c = [op |-> "delete", key |-> "-", n |-> 0]
    BY <1>2 DEF AskDelete
  <2>2. PICK c : Ask(c, S) /\ c = [op |-> "delete", key |-> "-", n |-> 0]
    BY <2>1, Zenon
  <2>3. IsFiniteSet(S) /\ c.op \in {"delete", "apply"}
    BY <2>2, ConstantsOK, FS_Subset DEF WritesInv, Bounds
  <2> QED
    BY <2>2, <2>3, AskKeeps
<1>3. CASE AskOther
  <2>1. PICK o \in {"drain", "apply", "exec"} : \E c, want :
          /\ Ask(c, want) /\ c = [op |-> o, key |-> "-", n |-> 0]
          /\ want = IF o = "apply" THEN Docs ELSE IF o = "exec" THEN {"object"} ELSE {}
    BY <1>3 DEF AskOther
  <2>2. PICK c, want :
          /\ Ask(c, want) /\ c = [op |-> o, key |-> "-", n |-> 0]
          /\ want = IF o = "apply" THEN Docs ELSE IF o = "exec" THEN {"object"} ELSE {}
    BY <2>1, Zenon
  <2>3. c.op = o
    BY <2>2
  <2>4. IsFiniteSet(want)
    <3>1. Docs = {"workload.yaml"} \cup {"broken.yaml"}
      BY DEF Docs
    <3>2. IsFiniteSet(Docs) /\ IsFiniteSet({}) /\ IsFiniteSet({"object"})
      BY <3>1, FS_Singleton, FS_EmptySet, FS_Union
    <3> QED
      BY <2>2, <3>2
  <2> QED
    BY <2>2, <2>3, <2>4, AskKeeps
<1>4. CASE AskUndo
  <2>1. PICK c, m : Ask(c, {"object"}) /\ c = [op |-> "undo", key |-> "-", n |-> m]
    BY <1>4 DEF AskUndo
  <2>2. c.op \in {"undo", "exec"}
    BY <2>1
  <2> QED
    BY <2>1, <2>2, AskKeeps, FS_Singleton
<1>5. CASE \/ \E yes \in BOOLEAN : ConfirmKey(yes) \/ PromptEnter(yes)
           \/ PromptEsc \/ PromptEdit \/ \E i \in Ids : RequestArrives(i)
  BY <1>5, DialogSteps
<1>6. CASE SwitchContext \/ OtherChange \/ OtherRecreates \/ \E p \in Pods : OtherPod(p)
  BY <1>6, OtherSteps
<1>7. ASSUME NEW i \in Ids, Get(i) \/ ListRevisions(i) \/ ListPods(i) \/ CallFails(i) \/ LoopEnds(i)
      PROVE  WritesInv'
  BY <1>7, ReadSteps
<1>8. ASSUME NEW i \in Ids, NEW reply \in BOOLEAN, Write(i, reply) \/ CordonCall(i, reply)
      PROVE  WritesInv'
  BY <1>8, WriteSteps
<1>9. ASSUME NEW i \in Ids, NEW x \in ask[i].todo, ItemFails(i, x) \/ \E reply \in BOOLEAN : ItemCall(i, x, reply)
      PROVE  WritesInv'
  BY <1>9, ReadSteps, WriteSteps
<1>10. CASE UNCHANGED vars
  BY <1>10 DEF vars, WritesInv, Bounds, AsksOK, DialogsOK
<1> QED
  BY <1>1, <1>2, <1>3, <1>4, <1>5, <1>6, <1>7, <1>8, <1>9, <1>10 DEF Next

-----------------------------------------------------------------------------
(* Theorems *)

\* A success toast is the truth and the dialogs on screen are the open ones, whatever
\* calls fail or lose their reply (summarizeApply, deleteAction, drain).
THEOREM SuccessIsTrue == Spec => []WritesReported
<1>1. WritesInv => WritesReported
  <2> SUFFICES ASSUME WritesInv PROVE WritesReported
    OBVIOUS
  <2>1. ASSUME NEW i \in Ids
        PROVE  /\ ask[i].stage \in {"free", "requested", "shown", "running", "done", "dropped"}
               /\ ask[i].todo \subseteq ask[i].want
               /\ ask[i].ok \in 0 .. Cardinality(ask[i].want \ ask[i].todo)
               /\ Truth(ask[i], effects[i])
    <3>1. PICK a, E : a = ask[i] /\ E = effects[i] /\ WriteOK(a, E)
      BY DEF WritesInv, AsksOK
    <3>2. PICK S : S = a.want \ a.todo
      OBVIOUS
    <3>3. IsFiniteSet(S) /\ a.ok \in Nat /\ a.ok <= Cardinality(S \cap E)
      BY <3>1, <3>2, FS_Difference DEF WriteOK, Counted
    <3>4. Cardinality(S \cap E) <= Cardinality(S) /\ Cardinality(S) \in Nat /\ Cardinality(S \cap E) \in Nat
      BY <3>3, FS_Intersection, FS_CardinalityType
    <3>5. a.ok \in 0 .. Cardinality(S)
      BY <3>3, <3>4
    <3> QED
      BY <3>1, <3>2, <3>5 DEF WriteOK, Counted
  <2>2. TypeOK
    BY <2>1 DEF TypeOK, WritesInv, Bounds, ObjectsOK, DialogsOK
  <2>3. ReportTruth
    BY <2>1 DEF ReportTruth, Truth
  <2> QED
    BY <2>2, <2>3 DEF WritesReported
<1> QED
  BY WritesInit, WritesStep, <1>1, PTL DEF Spec

\* A drain evicts nothing before the node is fenced, and never a DaemonSet, mirror
\* or terminated pod (Drain, drainablePods), however the pods change meanwhile.
THEOREM DrainIsFenced == Spec => []DrainFenced
<1>1. WritesInv => DrainFenced
  <2> SUFFICES ASSUME WritesInv, NEW i \in Ids, ask[i].cmd.op = "drain"
               PROVE  /\ effects[i] \cap Pods # {} => "cordon" \in effects[i]
                      /\ effects[i] \cap Pinned = {}
    BY DEF DrainFenced
  <2>1. DrainOrder(ask[i], effects[i])
    BY DEF WritesInv, AsksOK, WriteOK
  <2> QED
    BY <2>1, ConstantsOK DEF DrainOrder, Pods
<1> QED
  BY WritesInit, WritesStep, <1>1, PTL DEF Spec

\* Nothing is written in read-only mode, nor for a session that has been disposed
\* of (readOnlyRoundTripper, Session.Dispose): of all steps only a call changes the
\* cluster, and each call passes both guards.
THEOREM GuardsAreKept == Spec => GuardsHold
<1>1. WritesInv /\ [Next]_vars
        => [\A i \in Ids : effects'[i] # effects[i] => ~readOnly /\ ask[i].sess = session]_vars
  <2> SUFFICES ASSUME WritesInv, Next, NEW i \in Ids, effects'[i] # effects[i]
               PROVE  ~readOnly /\ ask[i].sess = session
    BY DEF vars
  <2>1. \A op : Mutating(Verb(op))
    BY DEF Mutating, Verb
  <2>2. \A x : \A j \in Ids : Did(j, x) => j = i
    BY DEF Did, WritesInv, AsksOK
  <2>3. \/ \E reply \in BOOLEAN : Write(i, reply) \/ CordonCall(i, reply)
        \/ \E x \in ask[i].todo, reply \in BOOLEAN : ItemCall(i, x, reply)
    <3>1. UNCHANGED effects \/ \E j \in Ids :
            \/ \E reply \in BOOLEAN : Write(j, reply) \/ CordonCall(j, reply)
            \/ \E x \in ask[j].todo, reply \in BOOLEAN : ItemCall(j, x, reply)
      BY DEF Next, AskCommand, AskDelete, AskOther, AskUndo, Ask, ConfirmKey, PromptEnter, PromptEsc, PromptEdit,
             SwitchContext, RequestArrives, Get, ListRevisions, ListPods, CallFails, LoopEnds, ItemFails,
             OtherChange, OtherRecreates, OtherPod
    <3> QED
      BY <2>2, <3>1, ZenonT(30) DEF Write, CordonCall, ItemCall
  <2> QED
    BY <2>1, <2>3 DEF Write, CordonCall, ItemCall, Sends, ContextAlive, Mutating
<1> QED
  BY WritesInit, WritesStep, <1>1, PTL DEF Spec, GuardsHold

-----------------------------------------------------------------------------
(* Refinement: the write actions implement atomic writes *)

Contents == [k \in Kinds |-> obj[k].f]

\* A template that results from a merge merges to the same result: it can stand for
\* the patch that was sent.
LEMMA MergeOfResult ==
  ASSUME NEW w, NEW patch, WorkloadFields(w)
  PROVE  PatchTemplate(w, PatchTemplate(w, patch).template) = PatchTemplate(w, patch)
<1>1. PICK t : t = StrategicMerge(w.template, patch)
  OBVIOUS
<1>2. StrategicMerge(w.template, t) = t
  BY <1>1 DEF StrategicMerge
<1>3. PatchTemplate(w, patch).template = t
  BY <1>1 DEF PatchTemplate, RunTemplate, WorkloadFields
<1>4. PatchTemplate(w, patch) = RunTemplate(w, t) /\ PatchTemplate(w, t) = RunTemplate(w, t)
  BY <1>1, <1>2 DEF PatchTemplate
<1> QED
  BY <1>3, <1>4

\* An update of one object, seen from the contents.
LEMMA StoreContents ==
  ASSUME ObjectsOK(obj), NEW k \in Kinds, NEW f, Store(k, f), k = "workload" => WorkloadFields(f)
  PROVE  Contents' = [Contents EXCEPT ![k] = f]
BY StoreKeeps DEF Contents

\* The abstract specification's operations are this module's.
LEMMA SameCommands == Atomic!Commands = Commands /\ Atomic!Kinds = Kinds /\ Atomic!Initially = Initially
BY Zenon DEF Atomic!Commands, Commands, Atomic!Kinds, Kinds, Atomic!Initially, Initially,
   Atomic!FirstTemplate, FirstTemplate, Atomic!TemplateKeys, TemplateKeys, Atomic!Effects, Effects

\* The object a command works on is the same in both specifications,
LEMMA SameKinds == \A c : Atomic!KindOf(c) = KindOf(c)
BY Zenon DEF Atomic!KindOf, KindOf

\* and so are the condition under which a request can be decided,
LEMMA SameDecidable == \A c, f : Atomic!Decidable(c, f) <=> Decidable(c, f)
BY Zenon DEF Atomic!Decidable, Decidable, Atomic!Condition, Condition

\* the merge of a patch into a template,
LEMMA SamePatch == \A w, patch : Atomic!PatchTemplate(w, patch) = PatchTemplate(w, patch)
BY Zenon DEF Atomic!PatchTemplate, PatchTemplate, Atomic!RunTemplate, RunTemplate, Atomic!StrategicMerge, StrategicMerge,
   Atomic!TemplateKeys, TemplateKeys, Atomic!Max, Max

\* and what a command does to the contents of its object.
LEMMA SameChange == \A c, f : Atomic!Change(c, f) = Change(c, f)
BY SamePatch, ZenonT(30) DEF Atomic!Change, Change, Atomic!Taint, Taint, Atomic!Untaint, Untaint, Atomic!Cordon, Cordon,
   Atomic!Decide, Decide, Atomic!Scale, Scale, Atomic!SetPaused, SetPaused, Atomic!Restart, Restart,
   Atomic!SetImage, SetImage, Atomic!SetSuspend, SetSuspend, Atomic!TriggerJob, TriggerJob, Atomic!MetaPatch, MetaPatch,
   Atomic!NoKeys, NoKeys, Atomic!TemplateKeys, TemplateKeys, Atomic!Effects, Effects

\* A command on the contents it finds is a step of the abstract specification.
LEMMA CommandIsAtomic ==
  ASSUME NEW c \in Commands, Decidable(c, Contents[KindOf(c)]),
         Contents' = [Contents EXCEPT ![KindOf(c)] = Change(c, Contents[KindOf(c)])]
  PROVE  Atomic!Next
<1>1. c \in Atomic!Commands /\ Atomic!Decidable(c, Contents[Atomic!KindOf(c)])
      /\ Contents' = [Contents EXCEPT ![Atomic!KindOf(c)] = Atomic!Change(c, Contents[Atomic!KindOf(c)])]
  BY SameCommands, SameKinds, SameDecidable, SameChange, Zenon
<1> QED
  BY <1>1, Zenon DEF Atomic!Next, Atomic!Command, Contents

\* So is a merge into the workload's template.
LEMMA MergeIsAtomic ==
  ASSUME NEW patch, WorkloadFields(Contents["workload"]),
         Contents' = [Contents EXCEPT !["workload"] = PatchTemplate(Contents["workload"], patch)]
  PROVE  Atomic!Next
<1> DEFINE w == Contents["workload"]
<1>1. Contents'["workload"] = PatchTemplate(w, patch)
  BY DEF Contents, Kinds
<1>2. PatchTemplate(w, Contents'["workload"].template) = PatchTemplate(w, patch)
  BY <1>1, MergeOfResult, Zenon
<1>3. Contents' = [Contents EXCEPT !["workload"] = Atomic!PatchTemplate(w, Contents'["workload"].template)]
  BY <1>2, SamePatch, Zenon
<1> QED
  BY <1>3, Zenon DEF Atomic!Next, Atomic!Rollback, Contents

\* Every step is a step of the abstract specification or leaves the contents alone.
\* The update that carries the version it has read is the case that matters: it is
\* accepted only when what was read is still there (Fresh), and then computing from
\* the copy is computing from the object.
LEMMA StepIsAtomic == WritesInv /\ [Next]_vars => [Atomic!Next]_Contents
<1> SUFFICES ASSUME WritesInv, [Next]_vars PROVE Atomic!Next \/ Contents' = Contents
  OBVIOUS
<1>1. WorkloadFields(Contents["workload"]) /\ ObjectsOK(obj) /\ \A k \in Kinds : Contents[k] = obj[k].f
  BY DEF WritesInv, ObjectsOK, Contents, Kinds
<1>2. CASE UNCHANGED obj
  BY <1>2 DEF Contents
<1>3. ASSUME NEW i \in Ids, NEW reply \in BOOLEAN, Write(i, reply), ask[i].cmd.op # "exec"
      PROVE  Atomic!Next
  <2>1. PICK k, f, c : k = KindOf(c) /\ f = Written(i) /\ c = ask[i].cmd
    OBVIOUS
  <2>2. /\ k \in Kinds /\ Store(k, f) /\ (k = "workload" => WorkloadFields(f))
        /\ \/ k = "workload" /\ f = PatchTemplate(obj["workload"].f, ask[i].patch)
           \/ c \in Commands /\ Decidable(c, obj[k].f) /\ f = Change(c, obj[k].f)
    BY <1>3, <2>1, WriteStores
  <2>3. Contents' = [Contents EXCEPT ![k] = f]
    BY <1>1, <2>2, StoreContents
  <2>4. CASE k = "workload" /\ f = PatchTemplate(obj["workload"].f, ask[i].patch)
    <3>1. Contents' = [Contents EXCEPT !["workload"] = PatchTemplate(Contents["workload"], ask[i].patch)]
      BY <1>1, <2>2, <2>3, <2>4, Zenon
    <3> QED
      BY <1>1, <3>1, MergeIsAtomic, Zenon
  <2>5. CASE c \in Commands /\ Decidable(c, obj[k].f) /\ f = Change(c, obj[k].f)
    <3>1. c \in Commands /\ Decidable(c, Contents[k]) /\ Contents' = [Contents EXCEPT ![k] = Change(c, Contents[k])]
      BY <1>1, <2>2, <2>3, <2>5, Zenon
    <3> QED
      BY <2>1, <3>1, CommandIsAtomic, Zenon
  <2> QED
    BY <2>2, <2>4, <2>5
<1>4. ASSUME NEW i \in Ids, NEW reply \in BOOLEAN, CordonCall(i, reply)
      PROVE  Atomic!Next
  <2>1. PICK c : c = [op |-> "cordon", key |-> "-", n |-> 1]
    OBVIOUS
  <2>2. c \in Commands /\ c.op = "cordon" /\ (c.n = 1) = TRUE
    BY <2>1, Zenon DEF Commands
  <2>3. KindOf(c) = "node" /\ "node" \in Kinds /\ "node" # "workload" /\ \A f : Decidable(c, f)
    BY <2>2 DEF KindOf, Kinds, Decidable
  <2>4. \A f : Change(c, f) = Cordon(f, TRUE)
    <3>1. \A f : Change(c, f) = Cordon(f, c.n = 1)
      BY <2>2 DEF Change
    <3> QED
      BY <2>2, <3>1, Zenon
  <2>5. Contents' = [Contents EXCEPT !["node"] = Cordon(obj["node"].f, TRUE)]
    BY <1>1, <1>4, <2>3, StoreContents DEF CordonCall
  <2>6. Contents' = [Contents EXCEPT ![KindOf(c)] = Change(c, Contents[KindOf(c)])]
    BY <1>1, <2>3, <2>4, <2>5, Zenon
  <2> QED
    BY <2>2, <2>3, <2>6, CommandIsAtomic, Zenon
<1>5. ASSUME NEW i \in Ids, NEW x \in Docs, NEW reply \in BOOLEAN, ItemCall(i, x, reply)
      PROVE  Atomic!Next
  <2>1. PICK patch : Store("workload", PatchTemplate(obj["workload"].f, patch))
    BY <1>5 DEF ItemCall, SetImage
  <2>2. "workload" \in Kinds /\ WorkloadFields(PatchTemplate(obj["workload"].f, patch))
    BY <1>1, PatchFields DEF Kinds
  <2>3. Contents' = [Contents EXCEPT !["workload"] = PatchTemplate(obj["workload"].f, patch)]
    BY <1>1, <2>1, <2>2, StoreContents
  <2>4. Contents' = [Contents EXCEPT !["workload"] = PatchTemplate(Contents["workload"], patch)]
    BY <1>1, <2>2, <2>3, Zenon
  <2> QED
    BY <1>1, <2>4, MergeIsAtomic, Zenon
<1>6. ASSUME OtherChange
      PROVE  Atomic!Next
  <2>1. PICK c \in Commands : Decidable(c, obj[KindOf(c)].f) /\ Store(KindOf(c), Change(c, obj[KindOf(c)].f))
    BY <1>6 DEF OtherChange
  <2>2. KindOf(c) \in Kinds /\ (KindOf(c) = "workload" => WorkloadFields(Change(c, obj[KindOf(c)].f)))
    BY <1>1, KindOfCommand, ChangeFields
  <2>3. Contents' = [Contents EXCEPT ![KindOf(c)] = Change(c, obj[KindOf(c)].f)]
    BY <1>1, <2>1, <2>2, StoreContents
  <2>4. Decidable(c, Contents[KindOf(c)]) /\ Contents' = [Contents EXCEPT ![KindOf(c)] = Change(c, Contents[KindOf(c)])]
    BY <1>1, <2>1, <2>2, <2>3, Zenon
  <2> QED
    BY <2>4, CommandIsAtomic, Zenon
<1>7. ASSUME OtherRecreates
      PROVE  Atomic!Next
  <2>1. \A k \in Kinds : obj'[k].f = IF k = "workload" THEN Initially["workload"] ELSE obj[k].f
    BY <1>1, <1>7 DEF OtherRecreates, ObjectsOK
  <2>2. Contents' = [Contents EXCEPT !["workload"] = Initially["workload"]]
    BY <2>1 DEF Contents, Kinds
  <2>3. Contents' = [Contents EXCEPT !["workload"] = Atomic!Initially["workload"]]
    BY <2>2, SameCommands, Zenon
  <2> QED
    BY <2>3, Zenon DEF Atomic!Next, Atomic!Recreate, Contents
<1>8. ASSUME NEW i \in Ids, NEW reply \in BOOLEAN, Write(i, reply) \/ CordonCall(i, reply)
      PROVE  Atomic!Next \/ UNCHANGED obj
  BY <1>3, <1>4, <1>8 DEF Write
<1>9. ASSUME NEW i \in Ids, NEW x, NEW reply \in BOOLEAN, ItemCall(i, x, reply)
      PROVE  Atomic!Next \/ UNCHANGED obj
  BY <1>5, <1>9 DEF ItemCall
<1>10. \/ UNCHANGED obj \/ OtherChange \/ OtherRecreates
       \/ \E i \in Ids, reply \in BOOLEAN : Write(i, reply) \/ CordonCall(i, reply)
       \/ \E i \in Ids, x \in UNION {ask[j].todo : j \in Ids}, reply \in BOOLEAN : ItemCall(i, x, reply)
  BY DEF Next, vars, AskCommand, AskDelete, AskOther, AskUndo, Ask, ConfirmKey, PromptEnter, PromptEsc, PromptEdit,
         SwitchContext, RequestArrives, Get, ListRevisions, ListPods, CallFails, LoopEnds, ItemFails, OtherPod, server
<1> QED
  BY <1>2, <1>6, <1>7, <1>8, <1>9, <1>10

\* Reading, computing and writing back over an API server that other clients use
\* implements writes that happen at once (Taint, Untaint, decide and Scale read and
\* update, the others patch or create): no other client's change is lost,
\* and a signing request is decided once.
THEOREM WritesImplementAtomicWrites == Spec => WritesAreAtomic
<1>1. Init => Atomic!Init
  <2> SUFFICES ASSUME Init PROVE Contents = Atomic!Initially
    BY Zenon DEF Atomic!Init, Contents
  <2>1. Contents = [k \in Kinds |-> Initially[k]]
    BY DEF Init, Contents
  <2>2. Initially = [k \in Kinds |-> Initially[k]]
    BY DEF Initially, Kinds
  <2> QED
    BY <2>1, <2>2, SameCommands, Zenon
<1>2. WritesInv /\ [Next]_vars => [Atomic!Next]_([k \in Kinds |-> obj[k].f])
  BY StepIsAtomic DEF Contents
<1> QED
  BY WritesInit, WritesStep, <1>1, <1>2, PTL DEF Spec, WritesAreAtomic, Atomic!Spec
=============================================================================
