----------------------------- MODULE SessionProofs -----------------------------
(***************************************************************************)
(* Three components that a session owns: a store with its informer and its *)
(* page, the handoff of the terminal and the port-forward manager.  They   *)
(* are proved side by side, about variables of their own.                  *)
(*                                                                         *)
(* A store: its inductive invariant is cut into one part per property;     *)
(* each part is inductive on its own, given type correctness.              *)
(*                                                                         *)
(* The terminal has one holder, pausing never outlives a handoff, and for  *)
(* a user who waits for one action before the next a handoff is clean from *)
(* the grant to the follow-up: for every set of tasks and stores.          *)
(*                                                                         *)
(* Forwards cannot get out of hand, for any number of them: whatever runs  *)
(* can be stopped, what is active forwards, and what has broken says so.   *)
(***************************************************************************)
EXTENDS ViewStore, TerminalHandoff, PortForward, TLAPS

-----------------------------------------------------------------------------
(* The store *)

USE DEF Phases, Errors, Flushers, Readers, Threads, Goto,
        informerVars, storeVars, loopVars, pageVars

\* The page holds the store's current view id; while OnEnter is under way there
\* is still an id left for it and no page is on the stack.
IdInv ==
  /\ pageID = viewID
  /\ pc["ui"] = "enter" => viewID < MaxViews
  /\ pc["ui"] # "idle" => ~active

TypeInv == TypeOK /\ IdInv

\* The pair (phase, err) is consistent wherever it is stored or copied.
ErrInv ==
  /\ err = ErrOf(phase)
  /\ \A t \in Readers : pc[t] \in {"list", "send"} => snap[t].err = ErrOf(snap[t].phase)
  /\ ErrMatchesPhase

\* NoLostUpdate, and the loop nudges only after the informer has synced.
LostInv == NoLostUpdate /\ (syncedOnce => synced)

\* Snapshots in flight with the current id were listed after the entry.
EntryInv ==
  /\ enterVer <= ver
  /\ \A t \in Flushers :
       /\ snap[t].id <= viewID
       /\ pc[t] = "send" /\ snap[t].id = pageID => snap[t].ver >= enterVer
  /\ pc["ui"] = "send" => snap["ui"].ver >= enterVer
  /\ FreshSinceEntry

\* A store is stopped by a terminal error or by a page that is gone.
ZombieInv ==
  /\ stopped => phase = "Terminal" \/ (~active /\ pc["ui"] = "idle")
  /\ pc["reflector"] = "stop" => phase = "Terminal"

-----------------------------------------------------------------------------
\* Every variable keeps its type under every step of the store, its informer
\* and its page.
LEMMA TypeStep == TypeInv /\ [Next]_vars => TypeInv'
<1> SUFFICES ASSUME TypeInv, [Next]_vars PROVE TypeInv'
  OBVIOUS
<1> USE ConstantsAssumption DEF TypeInv, TypeOK, IdInv, Snapshots, NoSnap
<1>1. CASE ListSucceeds BY <1>1 DEF ListSucceeds
<1>2. CASE InformerSyncs BY <1>2 DEF InformerSyncs
<1>3. CASE WatchEvent BY <1>3 DEF WatchEvent
<1>4. CASE OnTransientError BY <1>4 DEF OnTransientError, SetPhase
<1>5. CASE OnTerminalError BY <1>5 DEF OnTerminalError
<1>6. CASE TerminalStop BY <1>6 DEF TerminalStop
<1>7. CASE ReflectorExits BY <1>7 DEF ReflectorExits
<1>8. CASE LoopTick
  <2>1. syncedOnce' \in BOOLEAN /\ dirty' \in BOOLEAN
    BY <1>8, Zenon DEF LoopTick, Nudge
  <2>2. sinceFlush' \in 0..HeartbeatTicks
    BY <1>8 DEF LoopTick, Elapsed
  <2>3. pc' = pc \/ pc' = [pc EXCEPT !["loop"] = "stamp"]
    BY <1>8, Zenon DEF LoopTick
  <2>4. UNCHANGED <<informerVars, phase, err, paused, viewID, stopped, snap, pageVars>>
    BY <1>8, Zenon DEF LoopTick
  <2>5. QED BY <2>1, <2>2, <2>3, <2>4
<1>9. CASE LoopExits BY <1>9 DEF LoopExits
<1>10. CASE Enter BY <1>10 DEF Enter
<1>11. CASE SetViewID BY <1>11 DEF SetViewID
<1>12. CASE Paint BY <1>12 DEF Paint
<1>13. CASE OnLeave
  <2>1. active' \in BOOLEAN /\ front' \in BOOLEAN /\ stopped' \in BOOLEAN
    BY <1>13, Zenon DEF OnLeave
  <2>2. QED BY <1>13, <2>1 DEF OnLeave
<1>14. CASE PushPop BY <1>14 DEF PushPop
<1>15. CASE Pause BY <1>15 DEF Pause
<1>16. CASE ResumeAndFlush
  <2>1. paused' \in BOOLEAN /\ dirty' \in BOOLEAN
    BY <1>16, Zenon DEF ResumeAndFlush
  <2>2. QED BY <1>16, <2>1 DEF ResumeAndFlush
<1>17. CASE OnEvent BY <1>17 DEF OnEvent, SetPhase
<1>18. ASSUME NEW t \in {"listener", "reflector"}, MarkDirty(t) PROVE TypeInv'
  BY <1>18 DEF MarkDirty
<1>19. ASSUME NEW t \in Flushers, FlushStamp(t) PROVE TypeInv'
  BY <1>19 DEF FlushStamp
<1>20. ASSUME NEW t \in Flushers, Deliver(t) PROVE TypeInv'
  BY <1>20 DEF Deliver
<1>21. ASSUME NEW t \in Readers, SnapshotPhase(t) PROVE TypeInv'
  BY <1>21 DEF SnapshotPhase
<1>22. ASSUME NEW t \in Readers, SnapshotList(t) PROVE TypeInv'
  BY <1>22 DEF SnapshotList, Upgrade
<1>23. CASE UNCHANGED vars BY <1>23 DEF vars
<1>24. QED
  BY <1>1, <1>2, <1>3, <1>4, <1>5, <1>6, <1>7, <1>8, <1>9, <1>10, <1>11, <1>12, <1>13,
     <1>14, <1>15, <1>16, <1>17, <1>18, <1>19, <1>20, <1>21, <1>22, <1>23
     DEF Next, Informer, Loop, UI

\* NewViewStore and the page start with values of their types and unused view ids.
LEMMA TypeInit == Init => TypeInv
<1> SUFFICES ASSUME Init PROVE TypeInv
  OBVIOUS
<1> USE ConstantsAssumption DEF Init
<1>1. /\ hasRows \in BOOLEAN /\ synced \in BOOLEAN /\ dirty \in BOOLEAN /\ paused \in BOOLEAN
      /\ stopped \in BOOLEAN /\ syncedOnce \in BOOLEAN /\ active \in BOOLEAN /\ front \in BOOLEAN
  BY Zenon
<1>2. NoSnap \in Snapshots
  BY DEF NoSnap, Snapshots
<1>3. snap \in [Readers -> Snapshots] /\ shown \in Snapshots
  BY <1>2
<1>4. QED
  BY <1>1, <1>3 DEF TypeInv, TypeOK, IdInv

\* Type correctness of the store, its goroutines and its page.
THEOREM TypeCorrect == Spec => []TypeOK
<1>1. TypeInv => TypeOK
  BY DEF TypeInv
<1>2. QED
  BY <1>1, TypeInit, TypeStep, PTL DEF Spec

-----------------------------------------------------------------------------

\* Every writer of (phase, err) writes a consistent pair and every reader copies one.
LEMMA ErrStep == TypeInv /\ ErrInv /\ [Next]_vars => ErrInv'
<1> SUFFICES ASSUME TypeInv, ErrInv, [Next]_vars PROVE ErrInv'
  OBVIOUS
<1> USE DEF TypeInv, TypeOK, ErrInv, ErrMatchesPhase, ErrOf, Snapshots, NoSnap
<1>1. CASE ListSucceeds BY <1>1 DEF ListSucceeds
<1>2. CASE InformerSyncs BY <1>2 DEF InformerSyncs
<1>3. CASE WatchEvent BY <1>3 DEF WatchEvent
<1>4. CASE OnTransientError BY <1>4 DEF OnTransientError, SetPhase
<1>5. CASE OnTerminalError BY <1>5 DEF OnTerminalError
<1>6. CASE TerminalStop BY <1>6 DEF TerminalStop
<1>7. CASE ReflectorExits BY <1>7 DEF ReflectorExits
<1>8. CASE LoopTick BY <1>8 DEF LoopTick, Nudge, Elapsed, Heartbeat
<1>9. CASE LoopExits BY <1>9 DEF LoopExits
<1>10. CASE Enter BY <1>10 DEF Enter
<1>11. CASE SetViewID BY <1>11 DEF SetViewID
<1>12. CASE Paint BY <1>12 DEF Paint
<1>13. CASE OnLeave BY <1>13 DEF OnLeave
<1>14. CASE PushPop BY <1>14 DEF PushPop
<1>15. CASE Pause BY <1>15 DEF Pause
<1>16. CASE ResumeAndFlush BY <1>16 DEF ResumeAndFlush
<1>17. CASE OnEvent BY <1>17 DEF OnEvent, SetPhase
<1>18. ASSUME NEW t \in {"listener", "reflector"}, MarkDirty(t) PROVE ErrInv'
  BY <1>18 DEF MarkDirty
<1>19. ASSUME NEW t \in Flushers, FlushStamp(t) PROVE ErrInv'
  BY <1>19 DEF FlushStamp
<1>20. ASSUME NEW t \in Flushers, Deliver(t) PROVE ErrInv'
  BY <1>20 DEF Deliver, Accepts, Visible
<1>21. ASSUME NEW t \in Readers, SnapshotPhase(t) PROVE ErrInv'
  BY <1>21 DEF SnapshotPhase
<1>22. ASSUME NEW t \in Readers, SnapshotList(t) PROVE ErrInv'
  BY <1>22 DEF SnapshotList, Upgrade
<1>23. CASE UNCHANGED vars BY <1>23 DEF vars
<1>24. QED
  BY <1>1, <1>2, <1>3, <1>4, <1>5, <1>6, <1>7, <1>8, <1>9, <1>10, <1>11, <1>12, <1>13,
     <1>14, <1>15, <1>16, <1>17, <1>18, <1>19, <1>20, <1>21, <1>22, <1>23
     DEF Next, Informer, Loop, UI

\* Only a terminal error or the departure of the page closes stopCh.
LEMMA ZombieStep == TypeInv /\ ZombieInv /\ [Next]_vars => ZombieInv'
<1> SUFFICES ASSUME TypeInv, ZombieInv, [Next]_vars PROVE ZombieInv'
  OBVIOUS
<1> USE DEF TypeInv, TypeOK, ZombieInv
<1>1. CASE ListSucceeds BY <1>1 DEF ListSucceeds
<1>2. CASE InformerSyncs BY <1>2 DEF InformerSyncs
<1>3. CASE WatchEvent BY <1>3 DEF WatchEvent
<1>4. CASE OnTransientError BY <1>4 DEF OnTransientError, SetPhase
<1>5. CASE OnTerminalError BY <1>5 DEF OnTerminalError
<1>6. CASE TerminalStop BY <1>6 DEF TerminalStop
<1>7. CASE ReflectorExits BY <1>7 DEF ReflectorExits
<1>8. CASE LoopTick BY <1>8 DEF LoopTick, Nudge, Elapsed, Heartbeat
<1>9. CASE LoopExits BY <1>9 DEF LoopExits
<1>10. CASE Enter BY <1>10 DEF Enter
<1>11. CASE SetViewID BY <1>11 DEF SetViewID
<1>12. CASE Paint BY <1>12 DEF Paint
<1>13. CASE OnLeave BY <1>13 DEF OnLeave
<1>14. CASE PushPop BY <1>14 DEF PushPop
<1>15. CASE Pause BY <1>15 DEF Pause
<1>16. CASE ResumeAndFlush BY <1>16 DEF ResumeAndFlush
<1>17. CASE OnEvent BY <1>17 DEF OnEvent, SetPhase
<1>18. ASSUME NEW t \in {"listener", "reflector"}, MarkDirty(t) PROVE ZombieInv'
  BY <1>18 DEF MarkDirty
<1>19. ASSUME NEW t \in Flushers, FlushStamp(t) PROVE ZombieInv'
  BY <1>19 DEF FlushStamp
<1>20. ASSUME NEW t \in Flushers, Deliver(t) PROVE ZombieInv'
  BY <1>20 DEF Deliver, Accepts, Visible
<1>21. ASSUME NEW t \in Readers, SnapshotPhase(t) PROVE ZombieInv'
  BY <1>21 DEF SnapshotPhase
<1>22. ASSUME NEW t \in Readers, SnapshotList(t) PROVE ZombieInv'
  BY <1>22 DEF SnapshotList, Upgrade
<1>23. CASE UNCHANGED vars BY <1>23 DEF vars
<1>24. QED
  BY <1>1, <1>2, <1>3, <1>4, <1>5, <1>6, <1>7, <1>8, <1>9, <1>10, <1>11, <1>12, <1>13,
     <1>14, <1>15, <1>16, <1>17, <1>18, <1>19, <1>20, <1>21, <1>22, <1>23
     DEF Next, Informer, Loop, UI

\* A snapshot is listed after its id was loaded, so the current id implies fresh rows.
LEMMA EntryStep == TypeInv /\ EntryInv /\ [Next]_vars => EntryInv'
<1> SUFFICES ASSUME TypeInv, EntryInv, [Next]_vars PROVE EntryInv'
  OBVIOUS
<1> USE ConstantsAssumption DEF TypeInv, TypeOK, IdInv, EntryInv, FreshSinceEntry, Snapshots, NoSnap
<1>1. CASE ListSucceeds BY <1>1 DEF ListSucceeds
<1>2. CASE InformerSyncs BY <1>2 DEF InformerSyncs
<1>3. CASE WatchEvent BY <1>3 DEF WatchEvent
<1>4. CASE OnTransientError BY <1>4 DEF OnTransientError, SetPhase
<1>5. CASE OnTerminalError BY <1>5 DEF OnTerminalError
<1>6. CASE TerminalStop BY <1>6 DEF TerminalStop
<1>7. CASE ReflectorExits BY <1>7 DEF ReflectorExits
<1>8. CASE LoopTick BY <1>8 DEF LoopTick, Nudge, Elapsed, Heartbeat
<1>9. CASE LoopExits BY <1>9 DEF LoopExits
<1>10. CASE Enter BY <1>10 DEF Enter
<1>11. CASE SetViewID
  <2>1. viewID' = viewID + 1 /\ pageID' = viewID + 1 /\ enterVer' = ver
    BY <1>11 DEF SetViewID
  <2>2. UNCHANGED <<informerVars, snap, active, shown>> /\ pc' = [pc EXCEPT !["ui"] = "phase"]
    BY <1>11 DEF SetViewID
  <2>3. \A t \in Flushers : snap'[t].id <= viewID /\ snap'[t].id \in Nat
    BY <2>2
  <2>4. \A t \in Flushers : snap'[t].id <= viewID' /\ snap'[t].id # pageID'
    BY <2>1, <2>3
  <2>5. ~active'
    BY <1>11 DEF SetViewID, TypeInv
  <2>6. QED BY <2>1, <2>2, <2>4, <2>5
<1>12. CASE Paint BY <1>12 DEF Paint
<1>13. CASE OnLeave BY <1>13 DEF OnLeave
<1>14. CASE PushPop BY <1>14 DEF PushPop
<1>15. CASE Pause BY <1>15 DEF Pause
<1>16. CASE ResumeAndFlush BY <1>16 DEF ResumeAndFlush
<1>17. CASE OnEvent BY <1>17 DEF OnEvent, SetPhase
<1>18. ASSUME NEW t \in {"listener", "reflector"}, MarkDirty(t) PROVE EntryInv'
  BY <1>18 DEF MarkDirty
<1>19. ASSUME NEW t \in Flushers, FlushStamp(t) PROVE EntryInv'
  BY <1>19 DEF FlushStamp
<1>20. ASSUME NEW t \in Flushers, Deliver(t) PROVE EntryInv'
  BY <1>20 DEF Deliver, Accepts, Visible
<1>21. ASSUME NEW t \in Readers, SnapshotPhase(t) PROVE EntryInv'
  BY <1>21 DEF SnapshotPhase
<1>22. ASSUME NEW t \in Readers, SnapshotList(t) PROVE EntryInv'
  BY <1>22 DEF SnapshotList, Upgrade
<1>23. CASE UNCHANGED vars BY <1>23 DEF vars
<1>24. QED
  BY <1>1, <1>2, <1>3, <1>4, <1>5, <1>6, <1>7, <1>8, <1>9, <1>10, <1>11, <1>12, <1>13,
     <1>14, <1>15, <1>16, <1>17, <1>18, <1>19, <1>20, <1>21, <1>22, <1>23
     DEF Next, Informer, Loop, UI

\* The dirty flag is raised after the state changes and lowered before it is read.
LEMMA LostStep == TypeInv /\ LostInv /\ [Next]_vars => LostInv'
<1> SUFFICES ASSUME TypeInv, LostInv, [Next]_vars PROVE LostInv'
  OBVIOUS
<1> USE ConstantsAssumption DEF TypeInv, TypeOK, LostInv, NoLostUpdate, LoopBehind, Announced, CurrentPhase, Upgrade, Nudge, Snapshots, NoSnap
<1>1. CASE ListSucceeds BY <1>1 DEF ListSucceeds
<1>2. CASE InformerSyncs BY <1>2 DEF InformerSyncs
<1>3. CASE WatchEvent BY <1>3 DEF WatchEvent
<1>4. CASE OnTransientError BY <1>4 DEF OnTransientError, SetPhase
<1>5. CASE OnTerminalError BY <1>5 DEF OnTerminalError
<1>6. CASE TerminalStop BY <1>6 DEF TerminalStop
<1>7. CASE ReflectorExits BY <1>7 DEF ReflectorExits
<1>8. CASE LoopTick BY <1>8 DEF LoopTick, Nudge, Elapsed, Heartbeat
<1>9. CASE LoopExits BY <1>9 DEF LoopExits
<1>10. CASE Enter BY <1>10 DEF Enter
<1>11. CASE SetViewID BY <1>11 DEF SetViewID
<1>12. CASE Paint BY <1>12 DEF Paint
<1>13. CASE OnLeave BY <1>13 DEF OnLeave
<1>14. CASE PushPop BY <1>14 DEF PushPop
<1>15. CASE Pause BY <1>15 DEF Pause
<1>16. CASE ResumeAndFlush BY <1>16 DEF ResumeAndFlush
<1>17. CASE OnEvent BY <1>17 DEF OnEvent, SetPhase
<1>18. ASSUME NEW t \in {"listener", "reflector"}, MarkDirty(t) PROVE LostInv'
  BY <1>18 DEF MarkDirty
<1>19. ASSUME NEW t \in Flushers, FlushStamp(t) PROVE LostInv'
  BY <1>19 DEF FlushStamp
<1>20. ASSUME NEW t \in Flushers, Deliver(t) PROVE LostInv'
  BY <1>20 DEF Deliver, Accepts, Visible
<1>21. ASSUME NEW t \in Readers, SnapshotPhase(t) PROVE LostInv'
  BY <1>21 DEF SnapshotPhase
<1>22. ASSUME NEW t \in Readers, SnapshotList(t) PROVE LostInv'
  BY <1>22 DEF SnapshotList, Upgrade
<1>23. CASE UNCHANGED vars BY <1>23 DEF vars
<1>24. QED
  BY <1>1, <1>2, <1>3, <1>4, <1>5, <1>6, <1>7, <1>8, <1>9, <1>10, <1>11, <1>12, <1>13,
     <1>14, <1>15, <1>16, <1>17, <1>18, <1>19, <1>20, <1>21, <1>22, <1>23
     DEF Next, Informer, Loop, UI

\* The page never shows an error without its phase or a phase without its error.
THEOREM ErrorTravelsWithPhase == Spec => []ErrMatchesPhase
<1>1. Init => ErrInv
  BY ConstantsAssumption DEF Init, ErrInv, ErrMatchesPhase, ErrOf, NoSnap
<1>2. ErrInv => ErrMatchesPhase
  BY DEF ErrInv
<1>3. QED
  BY <1>1, <1>2, TypeInit, TypeStep, ErrStep, PTL DEF Spec

\* An entered page never watches a stopped store that does not report a terminal error.
THEOREM NoZombieStore == Spec => []NoZombie
<1>1. Init => ZombieInv
  BY ConstantsAssumption DEF Init, ZombieInv
<1>2. ZombieInv => NoZombie
  BY DEF ZombieInv, NoZombie
<1>3. QED
  BY <1>1, <1>2, TypeInit, TypeStep, ZombieStep, PTL DEF Spec

\* No snapshot taken before the page was entered ever reaches it.
THEOREM EntryFreshness == Spec => []FreshSinceEntry
<1>1. Init => EntryInv
  BY ConstantsAssumption DEF Init, EntryInv, FreshSinceEntry, NoSnap
<1>2. EntryInv => FreshSinceEntry
  BY DEF EntryInv
<1>3. QED
  BY <1>1, <1>2, TypeInit, TypeStep, EntryStep, PTL DEF Spec

\* The coalescer never forgets an update of a store that is not terminal.
THEOREM UpdatesNotLost == Spec => []NoLostUpdate
<1>1. Init => LostInv
  BY ConstantsAssumption DEF Init, LostInv, NoLostUpdate, LoopBehind, CurrentPhase, Upgrade, NoSnap
<1>2. LostInv => NoLostUpdate
  BY DEF LostInv
<1>3. QED
  BY <1>1, <1>2, TypeInit, TypeStep, LostStep, PTL DEF Spec

HIDE DEF Phases, Errors, Flushers, Readers, Threads, Goto,
        informerVars, storeVars, loopVars, pageVars

-----------------------------------------------------------------------------
(* The terminal *)

\* Without a session there is no store: onExecDone has then nothing to resume.
NoSessionNoStore == ~session => live = {}

\* The inductive invariant: the types, the exclusion of holders with its tie to the
\* gate, the pausing that the gate covers, and what makes it safe for onExecDone to
\* skip the resume when the context is being switched.
HandoffInv == HandoffTypeOK /\ OneHolder /\ NoStuckPause /\ NoSessionNoStore

\* Initially nobody holds the terminal (New builds an open gate).
LEMMA HandoffInvInit == HandoffInit => HandoffInv
BY DEF HandoffInit, HandoffInv, HandoffTypeOK, OneHolder, NoStuckPause, Holders,
   NoSessionNoStore

\* Every step of a task, of the navigation and of the session keeps the invariant:
\* handleExecRequest grants only through the open gate, and onExecDone opens the
\* gate and resumes in one Update.
LEMMA HandoffInvStep == HandoffInv /\ [HandoffNext]_handoffVars => HandoffInv'
<1> SUFFICES ASSUME HandoffInv, [HandoffNext]_handoffVars PROVE HandoffInv'
  OBVIOUS
<1> USE DEF HandoffInv, NoSessionNoStore
<1>1. ASSUME NEW t \in Tasks, StartShell(t) \/ StartEdit(t) \/ StartNodeDebug(t)
      PROVE  HandoffInv'
  BY <1>1 DEF StartShell, StartEdit, StartNodeDebug, Advance, HandoffTypeOK, OneHolder, NoStuckPause, Holders
<1>2. ASSUME NEW t \in Tasks, CreatePod(t) \/ WaitSucceeds(t) \/ WaitTimesOut(t)
      PROVE  HandoffInv'
  BY <1>2 DEF CreatePod, WaitSucceeds, WaitTimesOut, Advance, HandoffTypeOK, OneHolder, NoStuckPause, Holders
<1>3. ASSUME NEW t \in Tasks, WaitFails(t) \/ RunAfter(t)
      PROVE  HandoffInv'
  BY <1>3 DEF WaitFails, RunAfter, Remove, Advance, HandoffTypeOK, OneHolder, NoStuckPause, Holders
<1>4. ASSUME NEW t \in Tasks, HandleExecRequest(t)
      PROVE  HandoffInv'
  BY <1>4 DEF HandleExecRequest, CanAcquire, Advance, HandoffTypeOK, OneHolder, NoStuckPause, Holders
<1>5. ASSUME NEW t \in Tasks, RunChild(t) \/ ChildExits(t)
      PROVE  HandoffInv'
  BY <1>5 DEF RunChild, ChildExits, Advance, HandoffTypeOK, OneHolder, NoStuckPause, Holders
<1>6. ASSUME NEW t \in Tasks, OnExecDone(t)
      PROVE  HandoffInv'
  BY <1>6 DEF OnExecDone, Advance, HandoffTypeOK, OneHolder, NoStuckPause, Holders
<1>7. ASSUME NEW i \in Stores, StartStore(i) \/ StopStore(i)
      PROVE  HandoffInv'
  BY <1>7 DEF StartStore, StopStore, HandoffTypeOK, OneHolder, NoStuckPause, Holders
<1>8. ASSUME SwitchContext \/ OnSessionReady
      PROVE  HandoffInv'
  BY <1>8 DEF SwitchContext, OnSessionReady, HandoffTypeOK, OneHolder, NoStuckPause, Holders
<1>9. CASE UNCHANGED handoffVars
  BY <1>9 DEF handoffVars, HandoffTypeOK, OneHolder, NoStuckPause, Holders
<1> QED
  BY <1>1, <1>2, <1>3, <1>4, <1>5, <1>6, <1>7, <1>8, <1>9 DEF HandoffNext, TaskStep

\* At most one task holds the terminal, and the gate says so (gate.go, Acquire and
\* Release): for any number of shells, edits and debug pods.
THEOREM TerminalIsExclusive == HandoffSpec => []OneHolder
BY HandoffInvInit, HandoffInvStep, PTL DEF HandoffSpec, HandoffInv

\* No store of the current session stays paused once the gate is open again
\* (app.go, onExecDone), whatever navigation and context switches happened.
THEOREM PauseEndsWithHandoff == HandoffSpec => []NoStuckPause
BY HandoffInvInit, HandoffInvStep, PTL DEF HandoffSpec, HandoffInv

-----------------------------------------------------------------------------
(* The patient user *)

Busy(t) == st[t] \notin {"new", "done"}

\* A user who waits has one action under way at most, and as long as it is the
\* session stays: switchContext is a key press as well.
OneAtATime ==
  user = "patient" => /\ \A t, u \in Tasks : Busy(t) /\ Busy(u) => t = u
                      /\ \A t \in Tasks : Busy(t) => session

\* From the grant to the result, not only while the child runs, every live store
\* of that session is paused.
PausedFromGrant == user = "patient" => (Holders # {} => pausedStores = live)

\* What each stage of an action says about its file or pod: a shell has none, none
\* exists before it is created, and only a node debug creates and waits.
StageOfResidue ==
  \A t \in Tasks :
    /\ t \in Shells \/ st[t] \in {"new", "create"} => residue[t] = "none"
    /\ st[t] \in {"create", "wait"} => t \in NodeDebugs

PatientInv ==
  HandoffInv /\ OneAtATime /\ PausedFromGrant /\ StageOfResidue /\ NothingLeftUnnamed

\* Initially no action is under way and nothing is left behind.
LEMMA PatientInit == HandoffInit => PatientInv
BY HandoffInvInit DEF HandoffInit, PatientInv, HandoffInv, OneAtATime, Busy, PausedFromGrant, Holders,
   StageOfResidue, NothingLeftUnnamed

\* Every step keeps the patient user's invariant.  The case that needs it is
\* handleExecRequest: it drops a request, with the pod or file that request left
\* and no follow-up to remove it, when there is no session or the gate is taken;
\* neither happens to the only action under way.
LEMMA PatientStep == PatientInv /\ [HandoffNext]_handoffVars => PatientInv'
<1> SUFFICES ASSUME PatientInv, [HandoffNext]_handoffVars PROVE PatientInv'
  OBVIOUS
<1> USE HandoffAssumption
<1> USE DEF PatientInv, OneAtATime, Busy, PausedFromGrant, StageOfResidue, NothingLeftUnnamed, Holders
<1>0. HandoffInv'
  BY HandoffInvStep
<1>t. HandoffTypeOK /\ OneHolder
  BY DEF HandoffInv
<1>1. ASSUME NEW t \in Tasks, StartShell(t) \/ StartEdit(t) \/ StartNodeDebug(t)
      PROVE  PatientInv'
  BY <1>0, <1>t, <1>1 DEF StartShell, StartEdit, StartNodeDebug, UserActs, Advance, HandoffTypeOK, Tasks
<1>2. ASSUME NEW t \in Tasks, CreatePod(t) \/ WaitSucceeds(t) \/ WaitTimesOut(t)
      PROVE  PatientInv'
  BY <1>0, <1>t, <1>2 DEF CreatePod, WaitSucceeds, WaitTimesOut, Advance, HandoffTypeOK, Tasks
<1>3. ASSUME NEW t \in Tasks, WaitFails(t) \/ RunAfter(t)
      PROVE  PatientInv'
  BY <1>0, <1>t, <1>3 DEF WaitFails, RunAfter, Remove, Advance, HandoffTypeOK, Tasks
<1>4. ASSUME NEW t \in Tasks, HandleExecRequest(t)
      PROVE  PatientInv'
  <2>1. user = "patient" => session /\ CanAcquire
    BY <1>t, <1>4 DEF HandleExecRequest, CanAcquire, HandoffTypeOK, OneHolder
  <2> QED
    BY <1>0, <1>t, <1>4, <2>1 DEF HandleExecRequest, Advance, HandoffTypeOK, Tasks
<1>5. ASSUME NEW t \in Tasks, RunChild(t) \/ ChildExits(t)
      PROVE  PatientInv'
  BY <1>0, <1>t, <1>5 DEF RunChild, ChildExits, Advance, HandoffTypeOK, Tasks
<1>6. ASSUME NEW t \in Tasks, OnExecDone(t)
      PROVE  PatientInv'
  BY <1>0, <1>t, <1>6 DEF OnExecDone, HasAfter, Advance, HandoffTypeOK, OneHolder, Tasks
<1>7. ASSUME NEW i \in Stores, StartStore(i) \/ StopStore(i)
      PROVE  PatientInv'
  BY <1>0, <1>t, <1>7 DEF StartStore, StopStore, UserActs, HandoffTypeOK
<1>8. ASSUME SwitchContext \/ OnSessionReady
      PROVE  PatientInv'
  BY <1>0, <1>t, <1>8 DEF SwitchContext, OnSessionReady, UserActs, HandoffTypeOK
<1>9. CASE UNCHANGED handoffVars
  BY <1>0, <1>9 DEF handoffVars
<1> QED
  BY <1>1, <1>2, <1>3, <1>4, <1>5, <1>6, <1>7, <1>8, <1>9 DEF HandoffNext, TaskStep

\* For a patient user every live store is paused while a child has the terminal, and
\* a temporary file or debug pod that outlives its action has been named in a toast
\* (app.go, handleExecRequest and onExecDone; nodeops.go; edit.go): for any number
\* of actions, however creation, wait, child and removal turn out.
THEOREM HandoffIsClean == HandoffSpec => []CleanHandoff
<1>1. PatientInv => CleanHandoff
  BY DEF PatientInv, HandoffInv, CleanHandoff, PausedFromGrant, PausedWhileChild, Holders
<1>2. PatientInv /\ [HandoffNext]_handoffVars => PatientInv'
  BY PatientStep
<1> QED
  BY PatientInit, <1>1, <1>2, PTL DEF HandoffSpec

-----------------------------------------------------------------------------
(* The forwards *)

\* The types of what the manager and its goroutines share.
ManagerTypes ==
  /\ seq \in 0..MaxForwards
  /\ state \in [Forwards -> {"new", "starting", "active", "broken", "closed"}]
  /\ run \in [Forwards -> {"new", "setup", "forward", "done"}]
  /\ ready \in [Forwards -> {"new", "wait", "report", "done"}]
  /\ listed \subseteq Forwards /\ stoppedForwards \subseteq Forwards /\ late \subseteq Forwards
  /\ disposed \in BOOLEAN

\* What the three properties rest on: numbers not yet given out are unused, the
\* channel of a listed forward is open, closed is said only of a forward that was
\* told to stop, only the goroutine of a running forward makes it active, and a
\* disposed session lists late forwards only.
ManagerInv ==
  /\ ManagerTypes
  /\ \A i \in Forwards : i > seq <=> run[i] = "new"
  /\ \A i \in Forwards : i > seq =>
       state[i] = "new" /\ ready[i] = "new" /\ i \notin listed /\ i \notin stoppedForwards /\ i \notin late
  /\ listed \cap stoppedForwards = {}
  /\ \A i \in Forwards : state[i] = "closed" => i \in stoppedForwards
  /\ \A i \in Forwards : state[i] \in {"starting", "active"} => Running(i)
  /\ \A i \in Forwards : run[i] = "setup" => state[i] # "active" /\ ready[i] = "new"
  /\ disposed => listed \subseteq late
  /\ \A i \in Forwards : run[i] # "new" => i \in listed \/ i \in stoppedForwards
  /\ \A i \in Forwards : run[i] = "done" => state[i] \in {"broken", "closed"}

\* NewManager lists nothing and nothing runs.
LEMMA ManagerInit == ForwardsInit => ManagerInv
<1> SUFFICES ASSUME ForwardsInit PROVE ManagerInv
  OBVIOUS
<1>1. ManagerTypes
  <2>1. seq \in 0..MaxForwards
    BY ForwardAssumption DEF ForwardsInit
  <2> QED
    BY <2>1 DEF ForwardsInit, ManagerTypes
<1>2. \A i \in Forwards : i > seq /\ run[i] = "new" /\ state[i] = "new" /\ ready[i] = "new"
  BY ForwardAssumption DEF ForwardsInit, Forwards
<1>3. listed = {} /\ stoppedForwards = {} /\ late = {} /\ ~disposed
  BY DEF ForwardsInit
<1> QED
  BY <1>1, <1>2, <1>3 DEF ManagerInv, Running

\* Every critical section of the manager, on whichever goroutine, keeps the invariant.
LEMMA ManagerStep == ManagerInv /\ [ForwardsNext]_forwardsVars => ManagerInv'
<1> SUFFICES ASSUME ManagerInv, [ForwardsNext]_forwardsVars PROVE ManagerInv'
  OBVIOUS
<1> USE ForwardAssumption DEF ManagerInv, ManagerTypes, Forwards, Running
<1>1. ASSUME NEW i \in Forwards, SetupFails(i) PROVE ManagerInv'
  BY <1>1 DEF SetupFails
<1>2. ASSUME NEW i \in Forwards, ForwardPorts(i) PROVE ManagerInv'
  BY <1>2 DEF ForwardPorts
<1>3. ASSUME NEW i \in Forwards, Listening(i) PROVE ManagerInv'
  BY <1>3 DEF Listening
<1>4. ASSUME NEW i \in Forwards, ReportReady(i) PROVE ManagerInv'
  BY <1>4 DEF ReportReady
<1>5. ASSUME NEW i \in Forwards, ForwardEnds(i) PROVE ManagerInv'
  BY <1>5 DEF ForwardEnds, EndState
<1>6. ASSUME NEW i \in Forwards, RemoveForward(i) PROVE ManagerInv'
  BY <1>6 DEF RemoveForward, Hit, Closed, StopOne
<1>7. ASSUME NEW i \in Forwards, Restart(i) PROVE ManagerInv'
  <2>1. /\ seq + 1 \in Forwards /\ i \in listed /\ i <= seq /\ ~disposed
        /\ seq' = seq + 1 /\ stoppedForwards' = stoppedForwards \cup {i}
        /\ listed' = (listed \ {i}) \cup {seq + 1}
        /\ late' = late /\ disposed' = disposed /\ ready' = ready
    BY <1>7 DEF Restart, Hit, StopOne, Start
  <2>2. state' = [[state EXCEPT ![i] = "closed"] EXCEPT ![seq + 1] = "starting"]
    BY <1>7 DEF Restart, Closed, Start
  <2>3. run' = [run EXCEPT ![seq + 1] = "setup"]
    BY <1>7 DEF Restart, Start
  <2>4. ManagerTypes'
    BY <2>1, <2>2, <2>3
  <2>5. \A j \in Forwards :
          /\ state'[j] = IF j = seq + 1 THEN "starting" ELSE IF j = i THEN "closed" ELSE state[j]
          /\ run'[j] = IF j = seq + 1 THEN "setup" ELSE run[j]
    BY <2>1, <2>2, <2>3
  <2>6. ASSUME NEW j \in Forwards
        PROVE  /\ j > seq' <=> run'[j] = "new"
               /\ j > seq' => /\ state'[j] = "new" /\ ready'[j] = "new"
                              /\ j \notin listed' /\ j \notin stoppedForwards' /\ j \notin late'
    BY <2>1, <2>5
  <2>7. ASSUME NEW j \in Forwards
        PROVE  /\ state'[j] = "closed" => j \in stoppedForwards'
               /\ state'[j] \in {"starting", "active"} => run'[j] \in {"setup", "forward"}
               /\ run'[j] = "setup" => state'[j] # "active" /\ ready'[j] = "new"
               /\ run'[j] # "new" => j \in listed' \/ j \in stoppedForwards'
               /\ run'[j] = "done" => state'[j] \in {"broken", "closed"}
    BY <2>1, <2>5
  <2>8. listed' \cap stoppedForwards' = {} /\ ~disposed'
    BY <2>1
  <2> QED
    BY <2>4, <2>6, <2>7, <2>8
<1>8. CASE ForwardPod \/ StartForwardTo
  <2>1. Start(state, listed) /\ stoppedForwards' = stoppedForwards /\ disposed' = disposed
    BY <1>8 DEF ForwardPod, StartForwardTo
  <2> QED
    BY <2>1 DEF Start
<1>9. CASE ForwardResolved \/ ResolveFails \/ View \/ EnterPage \/ Move
  <2>1. UNCHANGED fwdVars /\ disposed' = disposed
    BY <1>9 DEF ForwardResolved, ResolveFails, View, EnterPage, Move
  <2> QED
    BY <2>1 DEF fwdVars
<1>10. CASE Dispose
  BY <1>10 DEF Dispose, CloseListed
<1>11. CASE UNCHANGED forwardsVars
  BY <1>11 DEF forwardsVars, fwdVars
<1> QED
  BY <1>1, <1>2, <1>3, <1>4, <1>5, <1>6, <1>7, <1>8, <1>9, <1>10, <1>11 DEF ForwardsNext, RunStep

\* The three properties follow from the invariant.
LEMMA ManagerImplies == ManagerInv => NoStray /\ ActiveForwards /\ BrokenSurfaces
BY DEF ManagerInv, ManagerTypes, NoStray, ActiveForwards, BrokenSurfaces, Running,
       Forwards

\* Hence a run of the manager satisfies the invariant throughout.
LEMMA ManagerInvariance == ForwardsSpec => []ManagerInv
<1>1. ForwardsInit => ManagerInv
  BY ManagerInit
<1>2. ManagerInv /\ [ForwardsNext]_forwardsVars => ManagerInv'
  BY ManagerStep
<1> QED
  BY <1>1, <1>2, PTL DEF ForwardsSpec

\* A running forward that was not told to stop is always within reach of the user or
\* of the session's disposal (Manager.Remove, StopAll).
THEOREM ForwardsWithinReach == ForwardsSpec => []NoStray
BY ManagerInvariance, ManagerImplies, PTL

\* No late report of the listeners shows an ended forward as active (Manager.run).
THEOREM ActiveMeansForwarding == ForwardsSpec => []ActiveForwards
BY ManagerInvariance, ManagerImplies, PTL

\* A forward that ends by itself is listed as broken (Manager.run, fail).
THEOREM BrokenIsSurfaced == ForwardsSpec => []BrokenSurfaces
BY ManagerInvariance, ManagerImplies, PTL
================================================================================
