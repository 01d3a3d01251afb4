----------------------------- MODULE Navigation -----------------------------
(***************************************************************************)
(* The root model (internal/app/app.go): sessions, the stack of pages, and *)
(* the engine's registry of stores (internal/engine/engine.go).            *)
(*                                                                         *)
(* Update runs to completion, so each handler is one action.  What is      *)
(* concurrent are the commands: a bootstrap builds a Session on its own    *)
(* goroutine and reports when it is done, and a drill-in comes back as a   *)
(* PushMsg after any number of other messages.                             *)
(*                                                                         *)
(* A store is a record of the sequence stores, which only grows; its       *)
(* fields reg (it is in the engine's map) and state change.  "run" means   *)
(* that its informer runs, "terminal" that a terminal error stopped it,    *)
(* "stopped" that Stop was called.  Store's own protocol: module ViewStore.*)
(***************************************************************************)
EXTENDS Naturals, FiniteSets, Sequences, SequencesExt

CONSTANTS
  Contexts,      \* kubeconfig contexts
  Kinds,         \* registered kinds, "pods" among them
  Warm,          \* kinds registered with warm = true
  Workloads,     \* kinds whose rows drill into pods
  Namespaces,    \* "all" stands for all namespaces
  MaxSessions,   \* bound: bootstraps
  MaxStores,     \* bound: stores ever built
  MaxViews,      \* bound: view ids taken
  MaxDepth,      \* bound: pages on the stack
  MaxFlight,     \* bound: PushMsgs in flight
  Users          \* "patient": waits for a drill-in and for a boot; "hasty": types ahead

ASSUME NavAssumption ==
  /\ "pods" \in Kinds /\ "text" \notin Kinds /\ Warm \subseteq Kinds /\ Workloads \subseteq Kinds \ {"pods"}
  /\ Contexts # {} /\ "all" \in Namespaces
  /\ MaxViews \in Nat \ {0} /\ MaxSessions \in Nat \ {0} /\ MaxStores \in Nat \ {0}
  /\ MaxDepth \in Nat \ {0} /\ MaxFlight \in Nat \ {0}
  /\ Users # {} /\ Users \subseteq {"patient", "hasty"}

VARIABLES
  boots,     \* bootstraps in flight, as <<session number, context>>
  built,     \* number of bootstraps started
  sess,      \* m.sess: number of the current session, 0 for nil
  ctxOf,     \* context of every session delivered so far
  disposed,  \* sessions that Dispose was called on
  override,  \* m.cfg.ContextOverride
  booting,   \* m.booting
  fatal,     \* m.fatal # nil
  stores,    \* every ViewStore ever built, over all sessions
  viewSeq,   \* the process-wide counter of view ids
  pages,     \* m.pages, the last one is active
  flight,    \* PushMsgs not yet handled
  user       \* who is typing; never changes

sessVars == <<boots, built, sess, ctxOf, disposed, override, booting, fatal>>
navVars  == <<stores, viewSeq, pages, flight>>
vars     == <<sessVars, navVars, user>>

Top    == pages[Len(pages)]
IsTable(p) == p.kind \in Kinds

-----------------------------------------------------------------------------
(* The engine.  These operators map the sequence of stores to its next value. *)

\* StopKind: the store of kind k of session s is stopped and forgotten.
StopKinds(ss, sks) ==
  [i \in DOMAIN ss |->
     IF ss[i].reg /\ <<ss[i].sess, ss[i].kind>> \in sks
       THEN [ss[i] EXCEPT !.reg = FALSE, !.state = "stopped"] ELSE ss[i]]

\* StopAll.
StopNone(ss, s) == ss
StopAll(ss, s) == StopKinds(ss, {s} \X Kinds)

Registered(ss, s, k) == {i \in DOMAIN ss : ss[i].reg /\ ss[i].sess = s /\ ss[i].kind = k}

NewStore(s, k, ns) ==
  [sess |-> s, kind |-> k, ns |-> ns, view |-> 0, reg |-> TRUE, state |-> "run"]

\* Ensure: reuse the store unless its namespace differs or it is terminal.
EnsureKeepsTerminal(ss, s, k, ns) ==
  IF \E i \in Registered(ss, s, k) : ss[i].ns = ns
    THEN ss
    ELSE Append(StopKinds(ss, {<<s, k>>}), NewStore(s, k, ns))
Ensure(ss, s, k, ns) ==
  IF \E i \in Registered(ss, s, k) : ss[i].ns = ns /\ ss[i].state # "terminal"
    THEN ss
    ELSE Append(StopKinds(ss, {<<s, k>>}), NewStore(s, k, ns))

\* OnLeave of a set of pages: StopIfScreenScoped.
Leave(ss, ps) == StopKinds(ss, {<<p.sess, p.kind>> : p \in {q \in ps : q.kind \notin Warm}})

-----------------------------------------------------------------------------
(* Pages *)

\* The view id OnEnter takes: process-wide, never reused.
ViewIdPerSession(s) == 1 + Cardinality({i \in DOMAIN stores : stores[i].sess = s})
NextViewID(s) == viewSeq + 1

\* OnEnter of a page p whose stack below it is ps, with the stores ss: Ensure,
\* NextViewID, SetViewID.  A page that is no table (text, menus) has no store.
EnterPage(ss, ps, p) ==
  IF ~IsTable(p)
    THEN /\ stores' = ss /\ pages' = Append(ps, p)
         /\ UNCHANGED viewSeq
    ELSE LET es == Ensure(ss, p.sess, p.kind, p.ns)
             i  == CHOOSE j \in Registered(es, p.sess, p.kind) : TRUE
             id == NextViewID(p.sess)
         IN  /\ Len(es) <= MaxStores /\ viewSeq < MaxViews
             /\ stores' = [es EXCEPT ![i].view = id]
             /\ viewSeq' = viewSeq + 1
             /\ pages' = Append(ps, [p EXCEPT !.view = id, !.store = i])

Page(s, k, ns) == [sess |-> s, kind |-> k, ns |-> ns, view |-> 0, store |-> 0]

-----------------------------------------------------------------------------
(* Handlers of the root model *)

\* A key reaches the model: no fatal screen, and a patient user waits for the
\* drill-in that is under way.
KeyOK == ~fatal /\ (user = "hasty" \/ flight = <<>>) /\ UNCHANGED user

StartBootstrap(c) ==
  /\ built < MaxSessions
  /\ built' = built + 1
  /\ boots' = boots \cup {<<built + 1, c>>}

\* switchContext, also through reconnect and the context picker.
SwitchContext(c) ==
  /\ KeyOK /\ (user = "hasty" \/ boots = {})
  /\ StartBootstrap(c)
  /\ stores' = IF sess = 0 THEN Leave(stores, ToSet(pages))
                           ELSE StopAll(Leave(stores, ToSet(pages)), sess)
  /\ pages' = <<>>
  /\ disposed' = disposed \cup ({sess} \ {0})
  /\ sess' = 0 /\ booting' = TRUE /\ override' = c
  /\ UNCHANGED <<ctxOf, fatal, viewSeq, flight>>

\* onSessionReady, ending in navigate(StartKind, the context's namespace).
SessionReady(b) ==
  /\ b \in boots
  /\ boots' = boots \ {b}
  /\ sess' = b[1] /\ ctxOf' = [ctxOf EXCEPT ![b[1]] = b[2]]
  /\ booting' = FALSE
  /\ \E ns \in Namespaces :
       EnterPage(Leave(stores, ToSet(pages)), <<>>, Page(b[1], "pods", ns))
  /\ UNCHANGED <<built, disposed, override, fatal, flight, user>>

SessionError(b) ==
  /\ b \in boots
  /\ boots' = boots \ {b}
  /\ booting' = FALSE /\ fatal' = TRUE
  /\ UNCHANGED <<built, sess, ctxOf, disposed, override, navVars, user>>

\* navigate: a command, a digit key or a row of the namespaces page.
Navigate(k, ns) ==
  /\ KeyOK /\ sess # 0
  /\ EnterPage(Leave(stores, ToSet(pages)), <<>>, Page(sess, k, ns))
  /\ UNCHANGED <<sessVars, flight>>

\* A key of the active page opens a drill-in, unless a banner hides its rows: the
\* page is built now, with the page's session and the row's namespace, and arrives
\* later as a PushMsg.
DrillIn(k, ns) ==
  /\ KeyOK /\ pages # <<>> /\ IsTable(Top)
  /\ ns # "all" /\ Top.ns \in {"all", ns}
  /\ k = "pods" => Top.kind \in Workloads /\ Registered(stores, Top.sess, Top.kind) # {}
  /\ Len(flight) < MaxFlight
  /\ flight' = Append(flight, Page(Top.sess, k, ns))
  /\ UNCHANGED <<sessVars, stores, viewSeq, pages>>

\* pushPage.
PushMsg(i) ==
  /\ i \in DOMAIN flight /\ Len(pages) < MaxDepth
  /\ flight' = RemoveAt(flight, i)
  /\ EnterPage(stores, pages, flight[i])
  /\ UNCHANGED <<sessVars, user>>

\* popPage: esc, or the PopMsg of a page that is done.
PopLeavesAll ==
  /\ KeyOK /\ Len(pages) > 1
  /\ stores' = Leave(stores, ToSet(pages))
  /\ pages' = Front(pages)
  /\ UNCHANGED <<sessVars, viewSeq, flight>>
PopPage ==
  /\ KeyOK /\ Len(pages) > 1
  /\ stores' = Leave(stores, {Top})
  /\ pages' = Front(pages)
  /\ UNCHANGED <<sessVars, viewSeq, flight>>

\* retryActive on a banner that is not an authentication failure (that one is
\* SwitchContext(override)).  The page's OnEnter runs again in place.
Retry ==
  /\ KeyOK /\ pages # <<>> /\ sess # 0 /\ IsTable(Top)
  /\ stores[Top.store].state = "terminal"
  /\ EnterPage(StopKinds(stores, {<<sess, Top.kind>>}), Front(pages), Top)
  /\ UNCHANGED <<sessVars, flight>>

\* A watch fails for good (ViewStore: OnTerminalError).
StoreFails(i) ==
  /\ i \in DOMAIN stores /\ stores[i].state = "run"
  /\ stores' = [stores EXCEPT ![i].state = "terminal"]
  /\ UNCHANGED <<sessVars, viewSeq, pages, flight, user>>

Init ==
  /\ built = 1 /\ override \in Contexts /\ boots = {<<1, override>>}
  /\ sess = 0 /\ ctxOf = [s \in 1..MaxSessions |-> override]
  /\ disposed = {} /\ booting = TRUE /\ fatal = FALSE
  /\ stores = <<>> /\ viewSeq = 0 /\ pages = <<>> /\ flight = <<>>
  /\ user \in Users

Next ==
  \/ \E c \in Contexts : SwitchContext(c)
  \/ \E b \in boots : SessionReady(b) \/ SessionError(b)
  \/ \E k \in Kinds, ns \in Namespaces : Navigate(k, ns)
  \/ \E k \in {"pods", "text"}, ns \in Namespaces : DrillIn(k, ns)
  \/ \E i \in 1..MaxFlight : PushMsg(i)
  \/ PopPage \/ Retry
  \/ \E i \in 1..MaxStores : StoreFails(i)

Spec == Init /\ [][Next]_vars

\* A bootstrap returns: NewSession does no unbounded work and the version query
\* is bounded by a timeout.
FairSpec == Spec /\ WF_vars(\E b \in boots : SessionReady(b) \/ SessionError(b))

-----------------------------------------------------------------------------
(* Properties *)

PageType == [sess: 1..MaxSessions, kind: Kinds \cup {"text"}, ns: Namespaces, view: Nat,
             store: 0..MaxStores]

TypeOK ==
  /\ boots \subseteq (1..MaxSessions) \X Contexts
  /\ built \in 1..MaxSessions /\ sess \in 0..MaxSessions
  /\ ctxOf \in [1..MaxSessions -> Contexts]
  /\ disposed \subseteq 1..MaxSessions
  /\ override \in Contexts /\ booting \in BOOLEAN /\ fatal \in BOOLEAN
  /\ viewSeq \in Nat /\ user \in Users
  /\ stores \in Seq([sess: 1..MaxSessions, kind: Kinds, ns: Namespaces, view: 0..viewSeq,
                     reg: BOOLEAN, state: {"run", "terminal", "stopped"}])
  /\ pages \in Seq(PageType) /\ flight \in Seq(PageType)

\* A snapshot is taken by the active page only if it comes from the very store the
\* page entered: view ids are process-wide (engine.go, viewSeq), so neither an
\* earlier entry nor a store of a disposed session can carry the page's id.
SnapshotOwnership ==
  pages # <<>> /\ IsTable(Top) =>
    \A i \in DOMAIN stores :
      stores[i].kind = Top.kind /\ stores[i].view = Top.view => i = Top.store

\* One informer per kind and session, whatever the order of namespace changes,
\* retries and terminal errors (Ensure stops what it replaces).
OneStorePerKind ==
  \A i, j \in DOMAIN stores :
    /\ stores[i].state = "run" /\ stores[j].state = "run"
    /\ stores[i].sess = stores[j].sess /\ stores[i].kind = stores[j].kind
    => i = j

\* All informers die with their session (ARCHITECTURE.md, decision 9): whatever
\* runs belongs to the current session, if no drill-in was still in flight when the
\* context was switched.
OnlyCurrentSessionRuns ==
  user = "patient" => \A i \in DOMAIN stores : stores[i].state = "run" => stores[i].sess = sess

\* A screen-scoped informer runs only while a page that shows it is on the stack.
ScreenScopedStops ==
  \A i \in DOMAIN stores :
    stores[i].state = "run" /\ stores[i].kind \notin Warm =>
      \E p \in ToSet(pages) : p.store = i

\* The active table is fed: its store has not been stopped behind its back and
\* still stamps its snapshots with the page's view id, also after a pop, if no
\* drill-in was repeated before it had opened.
TopPageLive ==
  user = "patient" /\ pages # <<>> /\ IsTable(Top) =>
    stores[Top.store].view = Top.view /\ stores[Top.store].state # "stopped"

\* Every entry of a table (navigation, drill-in, retry) ends with a running store:
\* a terminal store is rebuilt, never handed back (Ensure).
EntryRuns ==
  [][viewSeq' # viewSeq => stores'[Top'.store].state = "run" /\ stores'[Top'.store].reg]_vars

\* The session on screen is the one for the context asked for last (switchContext,
\* reconnect), for a user who waits for a session to boot before switching again.
RightContext == user = "patient" /\ ~booting /\ ~fatal => ctxOf[sess] = override

\* Booting always ends, in a session or in the fatal screen.
BootEnds == booting ~> sess # 0 \/ fatal

\* Whatever the order of pushes, pops, namespace changes and context switches,
\* every running informer belongs: it is the only one of its kind in its session,
\* a screen-scoped one has a page on the stack and, for a user who waits for
\* drill-ins to open, it is of the current session (Ensure, Leave, StopAll).
InformersBelong == TypeOK /\ OneStorePerKind /\ OnlyCurrentSessionRuns /\ ScreenScopedStops

\* A user who waits for drill-ins and sessions always looks at what was asked
\* for: the page on top is fed by an informer that carries its view id, and the
\* session is that of the context chosen last (popPage, switchContext).
RightPage == TopPageLive /\ RightContext

\* Work that was begun ends: entering a page leaves it with a running informer,
\* and a bootstrap ends with a session or with a fatal error.
EntriesSettle == EntryRuns /\ BootEnds
=============================================================================
