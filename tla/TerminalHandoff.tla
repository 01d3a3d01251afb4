--------------------------- MODULE TerminalHandoff ---------------------------
(***************************************************************************)
(* Handing the terminal to a child process: the TerminalGate               *)
(* (internal/action/gate.go), the root model's handleExecRequest and       *)
(* onExecDone (internal/app/app.go), the pausing of the engine's stores    *)
(* (internal/engine/engine.go), and the three actions that ask for it: a   *)
(* shell, an edit, which leaves a temporary file, and a node debug shell,  *)
(* which leaves a privileged pod (internal/view, internal/action/debug).   *)
(*                                                                         *)
(* A request travels as a message.  Bubble Tea runs the child on the event *)
(* loop, so nothing is handled while it runs; the result comes back as     *)
(* another message, and requests that have waited meanwhile may be handled *)
(* before it.                                                              *)
(***************************************************************************)
EXTENDS Naturals, FiniteSets

CONSTANTS
  Shells, Edits, NodeDebugs,  \* the actions the user starts, by kind
  Stores,                     \* informer stores that may be live in a session
  Users                       \* the users considered: see UserActs

Tasks == Shells \cup Edits \cup NodeDebugs

ASSUME HandoffAssumption ==
  /\ IsFiniteSet(Tasks) /\ Users \subseteq {"patient", "hasty"}
  /\ Shells \cap Edits = {} /\ Shells \cap NodeDebugs = {} /\ Edits \cap NodeDebugs = {}

VARIABLES
  st,       \* where each task is
  residue,  \* what it leaves behind outside the process: a file or a pod
  named,    \* tasks whose residue a toast has named
  gate,     \* TerminalGate.state
  session,  \* m.sess # nil
  live,     \* stores in the engine's map
  pausedStores,  \* live stores that are paused
  user      \* who sits at the keyboard; never changes

handoffVars == <<st, residue, named, gate, session, live, pausedStores, user>>

HasAfter == Edits \cup NodeDebugs

\* The event loop is not running a child.
LoopFree == \A t \in Tasks : st[t] # "child"

\* The user acts; a patient one waits for the action that is under way.
UserActs == LoopFree /\ (user = "hasty" \/ \A t \in Tasks : st[t] \in {"new", "done"})

Advance(t, from, to) == st[t] = from /\ st' = [st EXCEPT ![t] = to]

-----------------------------------------------------------------------------
(* The actions that ask for the terminal *)

StartShell(t) ==
  /\ t \in Shells /\ session /\ UserActs
  /\ Advance(t, "new", "request")
  /\ UNCHANGED <<residue, named, gate, session, live, pausedStores, user>>

\* editAction writes the temporary file before it asks.
StartEdit(t) ==
  /\ t \in Edits /\ session /\ UserActs
  /\ \/ /\ Advance(t, "new", "request")
        /\ residue' = [residue EXCEPT ![t] = "left"]
     \/ /\ Advance(t, "new", "done")
        /\ UNCHANGED residue
  /\ UNCHANGED <<named, gate, session, live, pausedStores, user>>

\* nodeOpsPage.debug, once confirmed: CreateNodeDebug on a goroutine of its own.
StartNodeDebug(t) ==
  /\ t \in NodeDebugs /\ session /\ UserActs
  /\ Advance(t, "new", "create")
  /\ UNCHANGED <<residue, named, gate, session, live, pausedStores, user>>

CreatePod(t) ==
  /\ \/ /\ Advance(t, "create", "wait")
        /\ residue' = [residue EXCEPT ![t] = "left"]
     \/ /\ Advance(t, "create", "done")
        /\ UNCHANGED residue
  /\ UNCHANGED <<named, gate, session, live, pausedStores, user>>

WaitSucceeds(t) ==
  /\ Advance(t, "wait", "request")
  /\ UNCHANGED <<residue, named, gate, session, live, pausedStores, user>>

\* The pod may still come up: it is kept, and named.
TimesOutSilently(t) ==
  /\ Advance(t, "wait", "done")
  /\ UNCHANGED <<residue, named, gate, session, live, pausedStores, user>>
WaitTimesOut(t) ==
  /\ Advance(t, "wait", "done")
  /\ named' = named \cup {t}
  /\ UNCHANGED <<residue, gate, session, live, pausedStores, user>>

\* DeletePod, which may fail; its error names the pod.
Remove(t) ==
  /\ \/ residue' = [residue EXCEPT ![t] = "none"]
     \/ t \in NodeDebugs /\ UNCHANGED residue
  /\ named' = named \cup (NodeDebugs \cap {t})

\* The container died, an API call failed or the session's context is cancelled.
WaitFails(t) ==
  /\ Advance(t, "wait", "done")
  /\ Remove(t)
  /\ UNCHANGED <<gate, session, live, pausedStores, user>>

-----------------------------------------------------------------------------
(* The gate and the root model *)

AcquireAny == TRUE
CanAcquire == gate = "tui"

HandleExecRequest(t) ==
  /\ LoopFree /\ st[t] = "request"
  /\ IF session /\ CanAcquire
       THEN /\ Advance(t, "request", "granted")
            /\ gate' = "child" /\ pausedStores' = live
       ELSE /\ Advance(t, "request", "done")  \* dropped, or rejected with a toast
            /\ UNCHANGED <<gate, pausedStores>>
  /\ UNCHANGED <<residue, named, session, live, user>>

\* The command of tea.Exec reaches the event loop, which runs the child.
RunChild(t) ==
  /\ LoopFree
  /\ Advance(t, "granted", "child")
  /\ UNCHANGED <<residue, named, gate, session, live, pausedStores, user>>

ChildExits(t) ==
  /\ Advance(t, "child", "exited")
  /\ UNCHANGED <<residue, named, gate, session, live, pausedStores, user>>

ExecDoneKeepsGate(t) ==
  /\ LoopFree
  /\ Advance(t, "exited", IF t \in HasAfter THEN "after" ELSE "done")
  /\ pausedStores' = IF session THEN {} ELSE pausedStores
  /\ UNCHANGED <<residue, named, gate, session, live, user>>
ExecDoneKeepsPause(t) ==
  /\ LoopFree
  /\ Advance(t, "exited", IF t \in HasAfter THEN "after" ELSE "done")
  /\ gate' = "tui"
  /\ UNCHANGED <<residue, named, session, live, pausedStores, user>>
OnExecDone(t) ==
  /\ LoopFree
  /\ Advance(t, "exited", IF t \in HasAfter THEN "after" ELSE "done")
  /\ gate' = "tui"
  /\ pausedStores' = IF session THEN {} ELSE pausedStores
  /\ UNCHANGED <<residue, named, session, live, user>>

RunAfter(t) ==
  /\ Advance(t, "after", "done")
  /\ Remove(t)
  /\ UNCHANGED <<gate, session, live, pausedStores, user>>

-----------------------------------------------------------------------------
(* Meanwhile: navigation and context switches *)

\* Ensure starts a store; a new store is not paused.
StartStore(i) ==
  /\ session /\ UserActs /\ i \notin live
  /\ live' = live \cup {i}
  /\ UNCHANGED <<st, residue, named, gate, session, pausedStores, user>>

StopStore(i) ==
  /\ session /\ UserActs /\ i \in live
  /\ live' = live \ {i} /\ pausedStores' = pausedStores \ {i}
  /\ UNCHANGED <<st, residue, named, gate, session, user>>

\* switchContext: the stores go with the session.
SwitchContext ==
  /\ session /\ UserActs
  /\ session' = FALSE /\ live' = {} /\ pausedStores' = {}
  /\ UNCHANGED <<st, residue, named, gate, user>>

OnSessionReady ==
  /\ ~session /\ LoopFree
  /\ session' = TRUE
  /\ \E i \in Stores : live' = {i}
  /\ UNCHANGED <<st, residue, named, gate, pausedStores, user>>

-----------------------------------------------------------------------------
HandoffInit ==
  /\ st = [t \in Tasks |-> "new"] /\ residue = [t \in Tasks |-> "none"] /\ named = {}
  /\ gate = "tui" /\ session = FALSE /\ live = {} /\ pausedStores = {} /\ user \in Users

TaskStep(t) ==
  \/ StartShell(t) \/ StartEdit(t) \/ StartNodeDebug(t)
  \/ CreatePod(t) \/ WaitSucceeds(t) \/ WaitTimesOut(t) \/ WaitFails(t)
  \/ HandleExecRequest(t) \/ RunChild(t) \/ ChildExits(t) \/ OnExecDone(t) \/ RunAfter(t)

HandoffNext ==
  \/ \E t \in Tasks : TaskStep(t)
  \/ \E i \in Stores : StartStore(i) \/ StopStore(i)
  \/ SwitchContext \/ OnSessionReady

\* The event loop and the goroutines proceed, every wait is bounded, and the user
\* leaves a child process sooner or later.
HandoffFairness ==
  \A t \in Tasks :
    /\ WF_handoffVars(CreatePod(t)) /\ WF_handoffVars(WaitTimesOut(t))
    /\ SF_handoffVars(HandleExecRequest(t)) /\ SF_handoffVars(RunChild(t)) /\ WF_handoffVars(ChildExits(t))
    /\ SF_handoffVars(OnExecDone(t)) /\ WF_handoffVars(RunAfter(t))

HandoffSpec == HandoffInit /\ [][HandoffNext]_handoffVars
HandoffFairSpec == HandoffSpec /\ HandoffFairness

-----------------------------------------------------------------------------
(* Properties *)

HandoffTypeOK ==
  /\ st \in [Tasks -> {"new", "create", "wait", "request", "granted", "child", "exited",
                       "after", "done"}]
  /\ residue \in [Tasks -> {"none", "left"}] /\ named \subseteq Tasks
  /\ gate \in {"tui", "child"} /\ session \in BOOLEAN
  /\ live \subseteq Stores /\ pausedStores \subseteq live /\ user \in Users

Holders == {t \in Tasks : st[t] \in {"granted", "child", "exited"}}

\* "Two shells can never fight over the terminal" (gate.go): from the grant until
\* the result has been handled one task at most holds the terminal, and the gate
\* is open exactly when none does.
OneHolder ==
  /\ \A t, u \in Holders : t = u
  /\ gate = "child" <=> Holders # {}

\* Pausing never outlives the handoff, also when the context is switched or stores
\* come and go while the result is on its way: a store of the current session is
\* paused only while the gate is taken.
NoStuckPause == gate = "tui" => pausedStores = {}

\* "The engine coalescer pauses while a child owns the terminal" (ARCHITECTURE.md):
\* every store of a patient user's session.  A hasty one may start a store between
\* PauseAll and the child, and that store is not paused.
PausedWhileChild ==
  user = "patient" => \A t \in Tasks : st[t] = "child" => pausedStores = live

\* A debug pod or temporary file never stays behind unnoticed: once a task is over
\* it is removed, or a toast has named it (nodeops.go: the operator is never left
\* guessing what is on the node).  The user waits for one action before the next;
\* every outcome of the creation, the wait, the child and the removal is covered.
NothingLeftUnnamed ==
  user = "patient" => \A t \in Tasks : st[t] = "done" /\ residue[t] = "left" => t \in named

\* The terminal comes back to the TUI after every handoff.
TerminalReturns == gate = "child" ~> gate = "tui"

\* For a user who waits for one action before the next, a handoff is clean from
\* the grant to the follow-up: all stores are paused as long as a child has the
\* terminal, and a pod or file that was created is removed or named to the user.
CleanHandoff == HandoffTypeOK /\ PausedWhileChild /\ NothingLeftUnnamed
=============================================================================
