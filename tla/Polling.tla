------------------------------- MODULE Polling -------------------------------
(***************************************************************************)
(* The parts of kubetui that refresh themselves without a watch: the pages  *)
(* that fetch on a tea.Tick chain (crdbrowse.go, nodetop.go, tenants.go),   *)
(* the pages that fetch once (crdlist.go, apiresources.go), the metrics     *)
(* poller of a session (metrics/poller.go) and the toast timer of the root  *)
(* model.  Bubble Tea runs every command in a goroutine of its              *)
(* own, so requests, answers and timers complete in any order, and an       *)
(* answer goes to whatever page is on top when it arrives (routeToPage).    *)
(***************************************************************************)
EXTENDS Integers, Sequences, Bags, FiniteSets

CONSTANTS Scenes,      \* the sets of page kinds a behaviour may open; {} stands for the poller and the toasts
          MaxPages,    \* bound on the pages ever built
          MaxDepth,    \* bound on the page stack
          MaxTokens,   \* bound on crdTokenSeq
          MaxFlight,   \* bound on what is in flight when the user asks for more
          MaxTrouble,  \* bound on the cluster's changes and on the requests that fail in a live session, together
          MaxSessions, \* bound on the sessions
          MaxToasts    \* bound on the toasts

\* "text" stands for every page that neither fetches nor ticks.
PageKinds == {"browse", "nodetop", "tenants", "list", "api", "text"}

ASSUME ConstantsOK ==
    /\ \A s \in Scenes : s \subseteq PageKinds
    /\ {MaxPages, MaxTokens, MaxFlight, MaxTrouble, MaxToasts} \subseteq Nat
    /\ {MaxDepth, MaxSessions} \subseteq Nat \ {0}

\* Pages that re-arm when a drill-in above them is popped (view.Resumable).
Resumable == {"browse", "nodetop", "tenants"}

VARIABLES
    scene,      \* the kinds of this behaviour
    pages,      \* Model.pages, the last one on top
    built,      \* how many pages were built
    tokenSeq,   \* crdTokenSeq
    flight,     \* the bag of commands, timers and answers in flight
    cluster,    \* what a request to the cluster would see now
    trouble,    \* changes and failed requests so far
    sess,       \* the number of the current session
    alive,      \* it is up (Model.sess # nil), not booting
    poller,     \* session -> the control state of its metrics poller
    served,     \* the metrics API is served and answers
    metricsOK,  \* Model.metricsOK, the namespace of the last usage shown, or "off"
    pollNs,     \* Poller.ns of the current session's poller
    toast,      \* the token of the toast on screen, 0 for none
    toastToken  \* Model.toastToken

pageVars == <<pages, built, tokenSeq, flight, cluster, trouble>>
pollVars == <<poller, served, metricsOK, pollNs>>
toastVars == <<toast, toastToken>>
vars == <<scene, sess, alive, pageVars, pollVars, toastVars>>

Nothing == [by |-> 0, at |-> 0, sess |-> 0]   \* no rows
Namespaces == {"all", "one"}
Emits == {"emit"} \X ({"off"} \cup Namespaces) \X {"slow", "fast", "nil"}   \* what, and what comes next
PollerStates == {<<c>> : c \in {"none", "probe", "collect", "slow", "fast", "done", "nil"}} \cup Emits

Top == pages[Len(pages)]
OnTop(p) == Len(pages) > 0 /\ Top.id = p

-----------------------------------------------------------------------------
(* What is in flight *)

\* A request and its answer name the page that asked only by its token, if any.
Fetch(p) == [what |-> "fetch", kind |-> p.kind, token |-> p.token, by |-> IF p.token = 0 THEN 0 ELSE p.id, sess |-> p.sess]
Tick(p) == [what |-> "tick", kind |-> p.kind, token |-> p.token]
Rearm == [what |-> "rearm", kind |-> "tenants", token |-> 0]    \* tenantTick
Answer(f, ok) == [what |-> "answer", kind |-> f.kind, token |-> f.token, ok |-> ok,
                  rows |-> [by |-> f.by, at |-> cluster, sess |-> f.sess]]
Expiry(t) == [what |-> "expire", token |-> t]

Of(what) == {i \in BagToSet(flight) : i.what = what}
One(i) == SetToBag({i})
Copies(i, B) == IF i \in BagToSet(B) THEN B[i] ELSE 0
Two(i) == One(i) (+) One(i)

\* The commands Init and OnEnter return together: node top and the two API
\* pages start the same request from both.
EnterCmds(p) ==
    CASE p.kind = "browse" -> One(Fetch(p)) (+) One(Tick(p))
      [] p.kind \in {"nodetop", "api"} -> Two(Fetch(p))
      [] p.kind \in {"tenants", "list"} -> One(Fetch(p))
      [] OTHER -> EmptyBag

\* OnResume of the page that a pop uncovers; browse takes a new token first.
ResumeSameToken(p) == [page |-> p, cmds |-> IF p.kind = "browse" THEN EnterCmds(p) ELSE One(Fetch(p)), seq |-> tokenSeq]
NoResume(p) == [page |-> p, cmds |-> EmptyBag, seq |-> tokenSeq]
OnResume(p) ==
    CASE p.kind = "browse" ->
           LET q == [p EXCEPT !.token = tokenSeq + 1]
           IN [page |-> q, cmds |-> One(Fetch(q)) (+) One(Tick(q)), seq |-> tokenSeq + 1]
      [] p.kind \in {"nodetop", "tenants"} -> [page |-> p, cmds |-> One(Fetch(p)), seq |-> tokenSeq]
      [] OTHER -> NoResume(p)

\* A message with another page's token is dropped; only browse has tokens.
AnyAnswer(p, a) == TRUE
OwnAnswer(p, a) == p.kind = "browse" => p.token = a.token
OwnTick(p, t) == p.kind = "browse" => p.token = t.token


\* Update on an answer: what the page shows afterwards.  Browse and the CRD
\* list keep their rows when a request fails, the other pages drop them.
Kept(p, a) == IF a.ok THEN a.rows ELSE p.rows
Replaced(a) == IF a.ok THEN a.rows ELSE Nothing
Shown(p, a) ==
    [p EXCEPT !.loaded = TRUE,
              !.failed = ~a.ok,
              !.rows = IF p.kind \in {"browse", "list"} THEN Kept(p, a) ELSE Replaced(a)]

\* What the page's Update asks for next: node top arms a timer with every
\* answer, a failed one too.
AfterAnswer(p, a) == IF p.kind = "nodetop" THEN One(Tick(p)) ELSE EmptyBag
OnlyRearms(p) == IF p.kind = "browse" THEN One(Tick(p)) ELSE One(Fetch(p))
AfterTick(p) == IF p.kind = "browse" THEN One(Fetch(p)) (+) One(Tick(p)) ELSE One(Fetch(p))

-----------------------------------------------------------------------------
(* Pages *)

NewPage(k) ==
    [id |-> built + 1, kind |-> k, sess |-> sess, loaded |-> FALSE, failed |-> FALSE, rows |-> Nothing,
     token |-> IF k = "browse" THEN tokenSeq + 1 ELSE 0]

Build(k, below) ==
    /\ built < MaxPages
    /\ k = "browse" => tokenSeq < MaxTokens
    /\ pages' = Append(below, NewPage(k))
    /\ built' = built + 1
    /\ tokenSeq' = NewPage(k).token + (IF k = "browse" THEN 0 ELSE tokenSeq)
    /\ flight' = flight (+) EnterCmds(NewPage(k))

\* navigate: a fresh stack, for any kind but browse, which only the CRD list opens.
Navigate(k) ==
    /\ alive /\ k \in scene \ {"browse", "text"}
    /\ Build(k, <<>>)
    /\ UNCHANGED <<scene, sess, alive, cluster, trouble, pollVars, toastVars>>

\* pushPage: Enter on a loaded CRD list builds a browse page; a text view (yaml,
\* describe, logs...) may be pushed over any page by an action whose answer is late.
Push(k) ==
    /\ alive /\ Len(pages) \in 1..(MaxDepth - 1)
    /\ \/ k = "browse" /\ Top.kind = "list" /\ Top.rows # Nothing /\ k \in scene
       \/ k = "text"
    /\ Build(k, pages)
    /\ UNCHANGED <<scene, sess, alive, cluster, trouble, pollVars, toastVars>>

Pop ==
    /\ Len(pages) > 1
    /\ LET r == OnResume(pages[Len(pages) - 1])
       IN /\ r.seq <= MaxTokens
          /\ pages' = Append(SubSeq(pages, 1, Len(pages) - 2), r.page)
          /\ flight' = flight (+) r.cmds
          /\ tokenSeq' = r.seq
    /\ UNCHANGED <<scene, sess, alive, built, cluster, trouble, pollVars, toastVars>>

\* 'r' on a page that fetches: one more request, whatever is in flight already.
Refresh ==
    /\ Len(pages) > 0 /\ Top.kind # "text"
    /\ BagCardinality(flight) < MaxFlight
    /\ flight' = flight (+) One(Fetch(Top))
    /\ UNCHANGED <<scene, sess, alive, pages, built, tokenSeq, cluster, trouble, pollVars, toastVars>>

\* Run begins with a probe, or, without a metrics client, reports that and ends.
RunFirst == {<<"probe">>, <<"emit", "off", "nil">>}

\* switchContext drops every page without a message to any of them, and cancels
\* the session's context; SessionReady starts the poller and opens a page.
SwitchContext ==
    /\ alive /\ sess < MaxSessions
    /\ pages' = <<>> /\ alive' = FALSE /\ sess' = sess + 1
    /\ UNCHANGED <<scene, built, tokenSeq, flight, cluster, trouble, pollVars, toastVars>>

SessionReady ==
    /\ ~alive /\ alive' = TRUE
    /\ IF scene = {} THEN UNCHANGED pageVars /\ \E c \in RunFirst : poller' = [poller EXCEPT ![sess] = c]
       ELSE /\ UNCHANGED <<poller, cluster, trouble>>
            /\ \E k \in scene \ {"browse", "text"} : Build(k, <<>>)
    /\ pollNs' = "all"
    /\ UNCHANGED <<scene, sess, served, metricsOK, toastVars>>

\* A request completes.  One whose session was disposed of fails: its context
\* is cancelled.
Complete(f) ==
    /\ f \in Of("fetch")
    /\ \E ok \in BOOLEAN :
         /\ ok => f.sess = sess /\ alive
         /\ ~ok /\ f.sess = sess => trouble < MaxTrouble
         /\ trouble' = IF ~ok /\ f.sess = sess THEN trouble + 1 ELSE trouble
         /\ flight' = (flight (-) One(f)) (+) One(Answer(f, ok))
    /\ UNCHANGED <<scene, sess, alive, pages, built, tokenSeq, cluster, pollVars, toastVars>>

\* An answer is routed to the page on top, which takes it if it is of its kind
\* and, for browse, of its token.  The tenants provider sends its snapshot
\* through the sink and then re-arms the timer, whoever got the snapshot.
Deliver(a) ==
    /\ a \in Of("answer")
    /\ LET rest == (flight (-) One(a)) (+) (IF a.kind = "tenants" THEN One(Rearm) ELSE EmptyBag)
       IN IF Len(pages) > 0 /\ Top.kind = a.kind /\ OwnAnswer(Top, a)
          THEN /\ pages' = [pages EXCEPT ![Len(pages)] = Shown(Top, a)]
               /\ flight' = rest (+) AfterAnswer(Top, a)
          ELSE pages' = pages /\ flight' = rest
    /\ UNCHANGED <<scene, sess, alive, built, tokenSeq, cluster, trouble, pollVars, toastVars>>

\* tenantTick reaches a tenants page, which arms the timer; any other drops it.
DeliverRearm ==
    /\ Rearm \in BagToSet(flight)
    /\ flight' = (flight (-) One(Rearm)) (+)
                 (IF Len(pages) > 0 /\ Top.kind = "tenants" THEN One(Tick(Top)) ELSE EmptyBag)
    /\ UNCHANGED <<scene, sess, alive, pages, built, tokenSeq, cluster, trouble, pollVars, toastVars>>

\* A timer fires and its message is routed like every other.
Fire(t) ==
    /\ t \in Of("tick")
    /\ t.kind = "browse" => BagCardinality(flight) - Cardinality(Of("tick")) <= MaxFlight
    /\ flight' = (flight (-) One(t)) (+)
                 (IF Len(pages) > 0 /\ Top.kind = t.kind /\ OwnTick(Top, t) THEN AfterTick(Top) ELSE EmptyBag)
    /\ UNCHANGED <<scene, sess, alive, pages, built, tokenSeq, cluster, trouble, pollVars, toastVars>>

\* The cluster's objects change.  (external)
ClusterChanges ==
    /\ scene # {} /\ trouble < MaxTrouble
    /\ cluster' = cluster + 1 /\ trouble' = trouble + 1
    /\ UNCHANGED <<scene, sess, alive, pages, built, tokenSeq, flight, pollVars, toastVars>>

-----------------------------------------------------------------------------
(* Metrics poller: one goroutine per session *)

\* The goroutine goes on from its control state c to another; emitting waits
\* until the root model has taken the snapshot (the sink is Program.Send).
PollerAt(s, c) == poller[s][1] = c
Goes(s, c) == poller' = [poller EXCEPT ![s] = c]
Emit(usage, next) == <<"emit", usage, next>>
Disposed(s) == s # sess

GivesUp(s) ==
    /\ PollerAt(s, "probe")
    /\ Goes(s, IF served THEN <<"collect">> ELSE <<"done">>)
    /\ UNCHANGED <<scene, sess, alive, pageVars, served, metricsOK, pollNs, toastVars>>

\* Probe asks discovery, which does not take the session's context.
Probe == served
PollerProbe(s) ==
    /\ PollerAt(s, "probe")
    /\ Goes(s, IF Probe THEN <<"collect">> ELSE Emit("off", "slow"))
    /\ UNCHANGED <<scene, sess, alive, pageVars, served, metricsOK, pollNs, toastVars>>

\* pollOnce: the namespace is read when the collection starts; an error, the
\* cancelled context's too, is reported as unavailable.
Collect(s) == served /\ ~Disposed(s)
PollerCollect(s) ==
    /\ PollerAt(s, "collect")
    /\ Goes(s, IF Collect(s) THEN Emit(pollNs, "fast") ELSE Emit("off", "fast"))
    /\ UNCHANGED <<scene, sess, alive, pageVars, served, metricsOK, pollNs, toastVars>>

PollerEmit(s) ==
    /\ PollerAt(s, "emit")
    /\ metricsOK' = poller[s][2]
    /\ Goes(s, <<poller[s][3]>>)
    /\ UNCHANGED <<scene, sess, alive, pageVars, served, pollNs, toastVars>>

\* sleep: the timer or the cancelled context ends it; both sleeps re-probe.
AfterSleep(s) == IF Disposed(s) THEN <<"done">> ELSE <<"probe">>
PollerSleep(s) ==
    /\ poller[s] \in {<<"slow">>, <<"fast">>}
    /\ Goes(s, AfterSleep(s))
    /\ UNCHANGED <<scene, sess, alive, pageVars, served, metricsOK, pollNs, toastVars>>

PollerStep(s) == PollerProbe(s) \/ PollerCollect(s) \/ PollerEmit(s) \/ PollerSleep(s)

\* navigate's SetNamespace.
SetNamespace(n) ==
    /\ scene = {} /\ alive /\ n # pollNs
    /\ pollNs' = n
    /\ UNCHANGED <<scene, sess, alive, pageVars, poller, served, metricsOK, toastVars>>

\* metrics-server comes and goes.  (external)
ServedChanges ==
    /\ scene = {} /\ trouble < MaxTrouble
    /\ served' = ~served /\ trouble' = trouble + 1
    /\ UNCHANGED <<scene, sess, alive, pages, built, tokenSeq, flight, cluster, poller, metricsOK, pollNs, toastVars>>

-----------------------------------------------------------------------------
(* Toasts *)

\* showToast replaces the toast on screen and starts a timer of its own.
ShowToast ==
    /\ scene = {} /\ toastToken < MaxToasts
    /\ toastToken' = toastToken + 1
    /\ toast' = toastToken + 1
    /\ flight' = flight (+) One(Expiry(toastToken + 1))
    /\ UNCHANGED <<scene, sess, alive, pages, built, tokenSeq, cluster, trouble, pollVars>>

Expires(t) == IF t.token = toastToken THEN 0 ELSE toast
ToastExpire(t) ==
    /\ t \in Of("expire")
    /\ toast' = Expires(t)
    /\ flight' = flight (-) One(t)
    /\ UNCHANGED <<scene, sess, alive, pages, built, tokenSeq, cluster, trouble, pollVars, toastToken>>

-----------------------------------------------------------------------------
Init ==
    /\ scene \in Scenes
    /\ pages = <<>> /\ built = 0 /\ tokenSeq = 0
    /\ flight = EmptyBag
    /\ cluster = 1 /\ trouble = 0
    /\ sess = 1 /\ alive = FALSE
    /\ poller = [s \in 1..MaxSessions |-> <<"none">>]
    /\ served \in BOOLEAN /\ (scene # {} => served)
    /\ metricsOK = "off" /\ pollNs = "all"
    /\ toast = 0 /\ toastToken = 0

\* A request ends, a timer fires or a message is delivered.
Arrives == DeliverRearm \/ \E f \in BagToSet(flight) : Complete(f) \/ Deliver(f) \/ Fire(f) \/ ToastExpire(f)

Next ==
    \/ \E k \in PageKinds : Navigate(k) \/ Push(k)
    \/ Pop \/ Refresh \/ SwitchContext \/ SessionReady \/ ClusterChanges
    \/ Arrives
    \/ \E s \in 1..MaxSessions : PollerStep(s)
    \/ \E n \in Namespaces : SetNamespace(n)
    \/ ServedChanges \/ ShowToast

Spec == Init /\ [][Next]_vars

\* As long as something is in flight, some request ends (with an answer or an
\* error), some timer fires or some message is delivered; the poller's goroutine
\* runs.  Nothing is assumed of the user,
\* of the cluster or of a bootstrap.
FairSpec ==
    /\ Spec
    /\ WF_vars(Arrives)
    /\ \A s \in 1..MaxSessions : WF_vars(PollerStep(s))

-----------------------------------------------------------------------------
(* Properties *)

Item == [what : {"fetch"}, kind : PageKinds, token : 0..MaxTokens, by : 0..MaxPages, sess : 1..MaxSessions]
        \cup [what : {"tick", "rearm"}, kind : PageKinds, token : 0..MaxTokens]
        \cup [what : {"expire"}, token : 1..MaxToasts]
Rows == [by : 0..MaxPages, at : 0..(MaxTrouble + 1), sess : 0..MaxSessions]
PageRec == [id : 1..MaxPages, kind : PageKinds, sess : 1..MaxSessions, loaded : BOOLEAN, failed : BOOLEAN,
            rows : Rows, token : 0..MaxTokens]
AnswerRec == [what : {"answer"}, kind : PageKinds, token : 0..MaxTokens, ok : BOOLEAN, rows : Rows]

\* Every variable has its type: pages hold only rows some request of theirs
\* could have returned, a page that shows rows has been loaded, and only a
\* browse page (NewCRDBrowse) has a token.
TypeOK ==
    /\ scene \in Scenes /\ pages \in Seq(PageRec) /\ Len(pages) <= MaxDepth
    /\ built \in 0..MaxPages /\ tokenSeq \in 0..MaxTokens
    /\ IsABag(flight) /\ BagToSet(flight) \subseteq (Item \cup AnswerRec)
    /\ sess \in 1..MaxSessions /\ alive \in BOOLEAN
    /\ poller \in [1..MaxSessions -> PollerStates]
    /\ served \in BOOLEAN /\ metricsOK \in {"off"} \cup Namespaces /\ pollNs \in Namespaces
    /\ toast \in 0..MaxToasts /\ toastToken \in 0..MaxToasts
    /\ \A n \in 1..Len(pages) : /\ pages[n].rows # Nothing => pages[n].loaded
                                /\ (pages[n].token # 0) <=> (pages[n].kind = "browse")

\* A browse page on top has exactly one tick of its token pending, a buried one
\* at most one: burying it, popping back and refreshing by hand neither lose
\* its refresh chain nor start a second, parallel one (OnResume's comment).
OneChain ==
    \A n \in 1..Len(pages) :
        pages[n].kind = "browse" =>
            /\ Copies(Tick(pages[n]), flight) <= 1
            /\ n = Len(pages) => Copies(Tick(pages[n]), flight) = 1

\* A page on top that refreshes itself has something in flight that will make
\* it refresh again, after a failed request as much as after a good one, and
\* after a drill-in above it was popped (the freeze view.Resumable is there for).
NeverFrozen ==
    (Len(pages) > 0 /\ Top.kind \in Resumable) =>
        \E i \in BagToSet(flight) : i.what # "expire" /\ i.kind = Top.kind

\* A browse page never shows a table that another page asked for, in particular
\* not one of another kind of resource or of another session (crdTokenSeq).
OwnTable ==
    \A n \in 1..Len(pages) :
        pages[n].kind = "browse" => pages[n].rows.by \in {0, pages[n].id}

\* A toast is on screen exactly as long as its own timer is pending: it is not
\* cut short by the timer of a toast it replaced, and it does not stay for good.
ToastOwnTimer ==
    /\ toast # 0 => Expiry(toast) \in BagToSet(flight)
    /\ toast = 0 => Expiry(toastToken) \notin BagToSet(flight)

\* A page that refreshes itself and stays on top comes to show what the cluster
\* holds, whatever failed, arrived late or was answered for another session.
KeepsFresh ==
    \A p \in 1..MaxPages :
        (OnTop(p) /\ Top.kind \in Resumable)
            ~> (~OnTop(p) \/ (~Top.failed /\ Top.rows.at = cluster /\ Top.rows.sess = sess))

\* The session has a metrics client: its poller did not end at once.
Reports(s) == poller[s] \notin {<<"none">>, <<"nil">>, Emit("off", "nil")}
Want == IF served THEN pollNs ELSE "off"

\* The header and the overlay come to follow the metrics API: usage disappears
\* when it stops being served, reappears without a restart when it is served
\* (again), and follows the namespace (Poller.Run, pollOnce).
MetricsFollow ==
    \A w \in {"off"} \cup Namespaces :
        (alive /\ Reports(sess) /\ Want = w) ~> (metricsOK = w \/ Want # w \/ ~alive)

\* The poller of a session that was disposed of ends (sleep on the context).
PollersEnd ==
    \A s \in 1..MaxSessions : Disposed(s) /\ poller[s] # <<"none">> ~> (poller[s] \in {<<"done">>, <<"nil">>} \/ ~Disposed(s))

\* Refresh chains neither die nor multiply, whatever the pages above do: a browse
\* page on top has exactly one chain of its token, and no page on top that refreshes
\* itself is ever left with nothing in flight (OnResume, Update on an answer).
ChainsAlive == TypeOK /\ OneChain /\ NeverFrozen

\* A late message of someone else changes nothing: a browse page never takes the
\* table another one asked for, and the timer of an earlier toast does not hide the
\* toast on screen (the tokens of browse pages and of toasts).
OwnAnswers == OwnTable /\ ToastOwnTimer

\* The poller follows API, namespace and session: usage disappears and reappears
\* with the metrics API, for the namespace in view, and the poller of a disposed
\* session ends (Poller.Run, pollOnce, sleep).
PollerFollows == MetricsFollow /\ PollersEnd
=============================================================================
