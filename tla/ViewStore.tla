------------------------------ MODULE ViewStore ------------------------------
(***************************************************************************)
(* One ViewStore (internal/engine/store.go) between its informer and the   *)
(* resourcePage (internal/view/resource.go) that shows it.                 *)
(*                                                                         *)
(* Four goroutines touch a store:                                          *)
(*   listener  - client-go's event callbacks, onEvent;                     *)
(*   reflector - client-go's watch-error callback, onWatchError, which     *)
(*               flushes by itself after a terminal error;                 *)
(*   loop      - the coalescer;                                            *)
(*   ui        - Bubble Tea's event loop: OnEnter, OnLeave, Pause,         *)
(*               ResumeAndFlush and the delivery of snapshots.             *)
(* A flush is not atomic: the view id is loaded, then phase and error are  *)
(* read under the mutex, then the cache is listed, then the message waits  *)
(* on an unbuffered channel until the event loop takes it.  Each of these  *)
(* is a step here, so everything that can slip in between does.            *)
(*                                                                         *)
(* The rows are abstracted to the version of the informer cache they were  *)
(* listed from, and to whether there are any.                              *)
(***************************************************************************)
EXTENDS Naturals

CONSTANTS
  MaxVer,          \* bound: number of changes of the informer cache
  MaxPending,      \* bound: undelivered event notifications
  MaxViews,        \* bound: number of times the page is entered
  HeartbeatTicks,  \* heartbeat / interval, in ticks of the coalescer
  ScreenScoped,    \* the kind is registered with warm = false
  Faults,          \* kinds of watch error that occur
  CanBury,         \* other pages may be pushed on top of the page
  CanPause         \* a child process may take the terminal

ASSUME ConstantsAssumption ==
  /\ MaxVer \in Nat
  /\ MaxPending \in Nat \ {0}
  /\ MaxViews \in Nat \ {0}
  /\ HeartbeatTicks \in Nat \ {0}
  /\ ScreenScoped \in BOOLEAN
  /\ Faults \subseteq {"transient", "terminal"}
  /\ CanBury \in BOOLEAN
  /\ CanPause \in BOOLEAN

VARIABLES
  link,        \* reflector's connection: "list" (listing or backing off), "watch"
  ver,         \* version of the informer cache
  hasRows,     \* the cache is not empty
  synced,      \* informer.HasSynced()
  pending,     \* notifications queued for the listener
  phase,       \* vs.phase, guarded by vs.mu
  err,         \* class of vs.err, guarded by vs.mu
  dirty,       \* vs.dirty
  paused,      \* vs.paused
  viewID,      \* vs.viewID
  stopped,     \* vs.stopCh is closed
  syncedOnce,  \* local of loop
  sinceFlush,  \* local of loop, in ticks
  pc,          \* control point of every goroutine
  snap,        \* the SnapshotMsg each goroutine is building or sending; the loop's
               \* stays, as a record of the latest one
  active,      \* the resourcePage is on the stack of pages
  front,       \* ... and on top of it
  pageID,      \* its viewID
  enterVer,    \* history: version of the cache when the page stamped its view id
  shown        \* its remote: the snapshot on screen

informerVars == <<link, ver, hasRows, synced, pending>>
storeVars == <<phase, err, dirty, paused, viewID, stopped>>
loopVars  == <<syncedOnce, sinceFlush>>
pageVars  == <<active, front, pageID, enterVer, shown>>
vars == <<informerVars, storeVars, loopVars, pageVars, pc, snap>>

Phases   == {"Loading", "Ready", "Stale", "Terminal"}
Errors   == {"none", "transient", "terminal"}
Flushers == {"loop", "reflector"}
Readers  == Flushers \cup {"ui"}
Threads  == Readers \cup {"listener"}

Snapshots == [id: Nat, phase: Phases, err: Errors, ver: Nat]
NoSnap    == [id |-> 0, phase |-> "Loading", err |-> "none", ver |-> 0]


Goto(t, from, to) ==
  /\ pc[t] = from
  /\ pc' = [pc EXCEPT ![t] = to]

Visible == active /\ front

-----------------------------------------------------------------------------
(* The informer (client-go), as far as the store can see it.               *)

\* A list succeeds.  Every object listed or found deleted is announced, also
\* one that did not change; an empty list over an empty cache announces nothing.
ListSucceeds ==
  /\ link = "list" /\ pc["reflector"] = "idle" /\ ~stopped
  /\ pending < MaxPending
  /\ link' = "watch"
  /\ \/ UNCHANGED <<ver, hasRows>>
     \/ /\ ver < MaxVer
        /\ ver' = ver + 1
        /\ hasRows' \in BOOLEAN
        /\ hasRows \/ hasRows'
  /\ pending' = IF hasRows \/ hasRows' THEN pending + 1 ELSE pending
  /\ UNCHANGED <<storeVars, loopVars, synced, pc, snap, pageVars>>

\* The initial list has been popped into the cache.
InformerSyncs ==
  /\ link = "watch" /\ ~synced
  /\ synced' = TRUE
  /\ UNCHANGED <<storeVars, loopVars, link, ver, hasRows, pending, pc, snap, pageVars>>

\* A watch event is applied to the cache and queued for the listener.
WatchEvent ==
  /\ link = "watch" /\ pc["reflector"] = "idle" /\ ~stopped
  /\ ver < MaxVer /\ pending < MaxPending
  /\ ver' = ver + 1
  /\ hasRows' \in BOOLEAN
  /\ pending' = pending + 1
  /\ UNCHANGED <<storeVars, loopVars, link, synced, pc, snap, pageVars>>

\* The informer's goroutines end once stopCh is closed.
ReflectorExits ==
  /\ stopped
  /\ Goto("reflector", "idle", "exited")
  /\ UNCHANGED <<informerVars, storeVars, loopVars, snap, pageVars>>

-----------------------------------------------------------------------------
(* onEvent: the phase under the mutex, then the dirty flag.                *)

\* A terminal phase is sticky: neither an event nor a late transient error clears it.
SetPhaseZombie(p, e) == phase' = p /\ err' = e
SetPhaseOnly(p, e) ==
  phase' = (IF phase = "Terminal" THEN phase ELSE p) /\ UNCHANGED err
SetPhase(p, e) ==
  IF phase # "Terminal" THEN phase' = p /\ err' = e ELSE UNCHANGED <<phase, err>>

OnEvent ==
  /\ pending > 0
  /\ Goto("listener", "idle", "mark")
  /\ pending' = pending - 1
  /\ SetPhase("Ready", "none")
  /\ UNCHANGED <<loopVars, link, ver, hasRows, synced, dirty, paused, viewID, stopped,
                 snap, pageVars>>

\* The last statement of onEvent, and of onWatchError after a transient error.
MarkDirtyEventsOnly(t) ==
  /\ Goto(t, "mark", "idle")
  /\ dirty' = (dirty \/ t = "listener")
  /\ UNCHANGED <<informerVars, loopVars, phase, err, paused, viewID, stopped, snap, pageVars>>
MarkDirty(t) ==
  /\ Goto(t, "mark", "idle")
  /\ dirty' = TRUE
  /\ UNCHANGED <<informerVars, loopVars, phase, err, paused, viewID, stopped, snap, pageVars>>

(* onWatchError, on the reflector's goroutine.                             *)

OnTransientError ==
  /\ "transient" \in Faults /\ ~stopped
  /\ Goto("reflector", "idle", "mark")
  /\ link' = "list"
  /\ SetPhase("Stale", "transient")
  /\ UNCHANGED <<loopVars, ver, hasRows, synced, pending, dirty, paused, viewID, stopped,
                 snap, pageVars>>

OnTerminalError ==
  /\ "terminal" \in Faults /\ ~stopped
  /\ Goto("reflector", "idle", "stop")
  /\ link' = "list"
  /\ phase' = "Terminal" /\ err' = "terminal"
  /\ UNCHANGED <<loopVars, ver, hasRows, synced, pending, dirty, paused, viewID, stopped,
                 snap, pageVars>>

\* Stop() inside onWatchError; flush() follows.
TerminalNoStop ==
  /\ Goto("reflector", "stop", "stamp")
  /\ UNCHANGED <<informerVars, storeVars, loopVars, snap, pageVars>>
TerminalStop ==
  /\ Goto("reflector", "stop", "stamp")
  /\ stopped' = TRUE
  /\ UNCHANGED <<informerVars, loopVars, phase, err, dirty, paused, viewID, snap, pageVars>>

-----------------------------------------------------------------------------
(* loop: one tick.  Between its reads the others can only set dirty, so    *)
(* the decision is one step.                                               *)

\* The Loading -> Ready edge fires no event; the tick looks for it once.
NoNudge == FALSE
Nudge == synced /\ ~syncedOnce

\* sinceFlush += interval, saturating at the heartbeat.
Overrun == sinceFlush + 1
Elapsed == IF sinceFlush < HeartbeatTicks THEN sinceFlush + 1 ELSE sinceFlush

NoHeartbeat == FALSE
Heartbeat == Elapsed >= HeartbeatTicks /\ hasRows

LoopTick ==
  /\ pc["loop"] = "idle"
  /\ syncedOnce' = (syncedOnce \/ Nudge)
  /\ \/ /\ paused
        /\ dirty' = (dirty \/ Nudge)
        /\ UNCHANGED <<sinceFlush, pc>>
     \/ /\ ~paused /\ (dirty \/ Nudge \/ Heartbeat)
        /\ dirty' = FALSE
        /\ sinceFlush' = 0
        /\ pc' = [pc EXCEPT !["loop"] = "stamp"]
     \/ /\ ~paused /\ ~(dirty \/ Nudge \/ Heartbeat)
        /\ sinceFlush' = Elapsed
        /\ UNCHANGED <<dirty, pc>>
  /\ UNCHANGED <<informerVars, phase, err, paused, viewID, stopped, snap, pageVars>>

LoopExits ==
  /\ stopped
  /\ Goto("loop", "idle", "exited")
  /\ UNCHANGED <<informerVars, storeVars, loopVars, snap, pageVars>>

-----------------------------------------------------------------------------
(* flush and Snapshot, by the loop, the reflector and (Snapshot) the ui.   *)

FlushStamp(t) ==
  /\ Goto(t, "stamp", "phase")
  /\ snap' = [snap EXCEPT ![t].id = viewID]
  /\ UNCHANGED <<informerVars, storeVars, loopVars, pageVars>>

\* The mutex section of Snapshot.
SnapshotPhase(t) ==
  /\ Goto(t, "phase", "list")
  /\ snap' = [snap EXCEPT ![t].phase = phase, ![t].err = err]
  /\ UNCHANGED <<informerVars, storeVars, loopVars, pageVars>>

\* Loading counts as Ready once the informer has synced.
Upgrade(p, s) == IF p = "Loading" /\ s THEN "Ready" ELSE p

SnapshotList(t) ==
  /\ Goto(t, "list", "send")
  /\ snap' = [snap EXCEPT ![t].phase = Upgrade(@, synced), ![t].ver = ver]
  /\ UNCHANGED <<informerVars, storeVars, loopVars, pageVars>>

\* resourcePage.Update on a SnapshotMsg: only the page on top of the stack is
\* asked, and it takes only the snapshots stamped with its own view id.
AcceptsAny(m) == Visible
Accepts(m) == Visible /\ m.id = pageID

\* The event loop is between two Updates and takes the message t waits with.
Deliver(t) ==
  /\ pc["ui"] = "idle"
  /\ Goto(t, "send", "idle")
  /\ shown' = IF Accepts(snap[t]) THEN snap[t] ELSE shown
  /\ snap' = [snap EXCEPT ![t] = IF t = "loop" THEN [@ EXCEPT !.id = 0] ELSE NoSnap]
  /\ UNCHANGED <<informerVars, storeVars, loopVars, active, front, pageID, enterVer>>

-----------------------------------------------------------------------------
(* The ui: resourcePage.OnEnter / OnLeave, pushes and pops above the page, *)
(* and the terminal handoff's Pause and ResumeAndFlush.                    *)

\* Ensure returned this store: it is neither terminal nor forgotten.
Enter ==
  /\ ~active /\ viewID < MaxViews
  /\ phase # "Terminal" /\ ~stopped
  /\ Goto("ui", "idle", "enter")
  /\ UNCHANGED <<informerVars, storeVars, loopVars, snap, pageVars>>

\* NextViewID and SetViewID.
SetViewID ==
  /\ Goto("ui", "enter", "phase")
  /\ viewID' = viewID + 1
  /\ pageID' = viewID'
  /\ enterVer' = ver
  /\ UNCHANGED <<informerVars, loopVars, phase, err, dirty, paused, stopped, snap,
                 active, front, shown>>

\* apply(vs.Snapshot()) ends OnEnter.
Paint ==
  /\ Goto("ui", "send", "idle")
  /\ active' = TRUE /\ front' = TRUE /\ shown' = snap["ui"]
  /\ snap' = [snap EXCEPT !["ui"] = NoSnap]
  /\ UNCHANGED <<informerVars, storeVars, loopVars, pageID, enterVer>>

\* The page is dropped; a later entry builds a new one.
OnLeave ==
  /\ pc["ui"] = "idle" /\ active
  /\ active' = FALSE /\ front' = FALSE /\ enterVer' = 0 /\ shown' = NoSnap
  /\ stopped' = (stopped \/ ScreenScoped)
  /\ UNCHANGED <<informerVars, loopVars, phase, err, dirty, paused, viewID, pageID, pc, snap>>

PushPop ==
  /\ CanBury /\ pc["ui"] = "idle" /\ active
  /\ front' = ~front
  /\ UNCHANGED <<informerVars, storeVars, loopVars, active, pageID, enterVer, shown, pc, snap>>

Pause ==
  /\ CanPause /\ pc["ui"] = "idle" /\ ~paused
  /\ paused' = TRUE
  /\ UNCHANGED <<informerVars, loopVars, phase, err, dirty, viewID, stopped, pc, snap, pageVars>>

ResumeAndFlush ==
  /\ pc["ui"] = "idle" /\ paused
  /\ paused' = FALSE
  /\ dirty' = TRUE
  /\ UNCHANGED <<informerVars, loopVars, phase, err, viewID, stopped, pc, snap, pageVars>>

-----------------------------------------------------------------------------
\* Start has just been called by the Ensure of the first OnEnter.
Init ==
  /\ link = "list" /\ ver = 0 /\ hasRows = FALSE /\ synced = FALSE
  /\ pending = 0
  /\ phase = "Loading" /\ err = "none"
  /\ dirty = FALSE /\ paused = FALSE /\ viewID = 0 /\ stopped = FALSE
  /\ syncedOnce = FALSE /\ sinceFlush = 0
  /\ pc = [t \in Threads |-> IF t = "ui" THEN "enter" ELSE "idle"]
  /\ snap = [t \in Readers |-> NoSnap]
  /\ active = FALSE /\ front = FALSE /\ pageID = 0 /\ enterVer = 0 /\ shown = NoSnap

Informer == ListSucceeds \/ InformerSyncs \/ WatchEvent \/ OnTransientError
            \/ OnTerminalError \/ TerminalStop \/ ReflectorExits
Loop     == LoopTick \/ LoopExits
UI       == Enter \/ SetViewID \/ Paint \/ OnLeave \/ PushPop \/ Pause \/ ResumeAndFlush

Next ==
  \/ Informer \/ Loop \/ UI
  \/ OnEvent
  \/ \E t \in {"listener", "reflector"} : MarkDirty(t)
  \/ \E t \in Flushers : FlushStamp(t) \/ Deliver(t)
  \/ \E t \in Readers : SnapshotPhase(t) \/ SnapshotList(t)

\* Go schedules every runnable goroutine, the ticker keeps ticking, the event
\* loop keeps receiving and the reflector keeps retrying.  Nothing is assumed of
\* the cluster (events and errors) or of the user.
Flushing(t) == FlushStamp(t) \/ SnapshotPhase(t) \/ SnapshotList(t)

Fairness ==
  /\ WF_vars(ListSucceeds) /\ WF_vars(InformerSyncs)
  /\ WF_vars(OnEvent \/ MarkDirty("listener"))
  /\ WF_vars(MarkDirty("reflector") \/ TerminalStop \/ ReflectorExits \/ Flushing("reflector"))
  /\ WF_vars(LoopTick \/ Flushing("loop")) /\ SF_vars(LoopExits)
  /\ WF_vars(SetViewID \/ Flushing("ui") \/ Paint)
  /\ \A t \in Flushers : SF_vars(Deliver(t))

Spec     == Init /\ [][Next]_vars
FairSpec == Spec /\ Fairness

-----------------------------------------------------------------------------
(* Properties                                                              *)

TypeOK ==
  /\ link \in {"list", "watch"} /\ ver \in 0..MaxVer
  /\ hasRows \in BOOLEAN /\ synced \in BOOLEAN
  /\ pending \in 0..MaxPending
  /\ phase \in Phases /\ err \in Errors
  /\ dirty \in BOOLEAN /\ paused \in BOOLEAN /\ stopped \in BOOLEAN
  /\ viewID \in 0..MaxViews
  /\ syncedOnce \in BOOLEAN /\ sinceFlush \in 0..HeartbeatTicks
  /\ pc \in [Threads -> {"idle", "mark", "stop", "enter", "stamp", "phase", "list",
                         "send", "exited"}]
  /\ snap \in [Readers -> Snapshots]
  /\ active \in BOOLEAN /\ front \in BOOLEAN
  /\ pageID \in 0..MaxViews /\ enterVer \in 0..MaxVer /\ shown \in Snapshots

\* What Phase() answers.
CurrentPhase == Upgrade(phase, synced)

\* The state of the store differs from the loop's latest snapshot of it.
LoopBehind ==
  IF pc["loop"] = "list"
    THEN Upgrade(snap["loop"].phase, synced) # CurrentPhase
    ELSE snap["loop"].phase # CurrentPhase \/ snap["loop"].ver # ver

\* Something will make the loop take another snapshot.
Announced ==
  \/ dirty \/ pending > 0 \/ Nudge
  \/ pc["listener"] = "mark" \/ pc["reflector"] = "mark"
  \/ pc["loop"] \in {"stamp", "phase"}

\* No update is lost in the dirty-flag protocol (store.go, onEvent, onWatchError,
\* loop): as long as the store is not terminal, whatever the coalescer's latest
\* snapshot does not show is still announced, whichever way the callbacks
\* interleave with the swap of the flag and the reads of the snapshot.
NoLostUpdate == phase # "Terminal" /\ LoopBehind => Announced

\* View ids (SetViewID, and the test in resourcePage.Update) keep out snapshots
\* taken before the page was entered: the rows on screen are never older than
\* the cache was when OnEnter stamped the store.
FreshSinceEntry == active => shown.ver >= enterVer

ErrOf(p) == CASE p = "Stale" -> "transient" [] p = "Terminal" -> "terminal" [] OTHER -> "none"

\* Phase and error always travel together (Snapshot reads both in one mutex
\* section): the page never shows a stale or terminal view without its error,
\* nor an error on a healthy view, although three goroutines write the pair.
ErrMatchesPhase == shown.err = ErrOf(shown.phase)

\* A page on the stack never watches a stopped store that does not say so:
\* the informer of an entered view is only stopped by a terminal error, and no
\* event still queued at that moment brings the phase back (onEvent).
NoZombie == stopped /\ active => phase = "Terminal"

\* Stop, and a terminal error through it, halts the informer and the coalescer,
\* wherever they were (a pending tick may win over the closed stopCh once more).
StopHalts == stopped \/ phase = "Terminal" ~> pc["loop"] = "exited" /\ pc["reflector"] = "exited"

ShowsCurrent ==
  shown.phase = CurrentPhase /\ shown.err = err /\ shown.ver = ver

\* A visible page with rows converges to the store once the watch is healthy for
\* good: the heartbeat repairs what was dropped while it was buried.
Converges ==
  <>[](Visible /\ ~paused /\ hasRows /\ link = "watch") => <>[](Visible => ShowsCurrent)

\* The initial Loading ends for a visible page that was never buried, even in an
\* empty namespace where no event ever fires (the HasSynced nudge of the loop).
LoadingEnds ==
  [](active => front) /\ <>[](Visible /\ ~paused /\ link = "watch")
  => <>(shown.phase # "Loading")

\* A terminal error is surfaced (README "surface an actionable banner"; remote.go:
\* "the informer has stopped and the error is surfaced"): a page that stays on
\* screen ends up showing it.
TerminalSurfaces == <>[](Visible /\ phase = "Terminal") => <>[](shown.phase = "Terminal")
=============================================================================
