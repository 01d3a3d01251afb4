----------------------------- MODULE LogStream -----------------------------
(***************************************************************************)
(* Log streaming: the readers, the bounded buffer and the flusher of a     *)
(* stream (internal/action/logstream) and the log pages that show it       *)
(* (internal/view/logs.go).                                                *)
(*                                                                         *)
(* A stream is a Session (one reader) or a Group (one reader per           *)
(* container of a workload); grouped says which.  Its goroutines are the   *)
(* readers, of which the last one to finish becomes the finisher (drain,   *)
(* send the rest, stop the flusher, send LogEnded), and the flusher.  A    *)
(* goroutine that sends waits until the event loop takes its message, and  *)
(* the event loop takes the waiting messages in any order.                 *)
(*                                                                         *)
(* All pages of the model show the same pod and container (or workload):   *)
(* their stream ids differ in the restart generation only.  Lines are      *)
(* numbered per stream, in the order in which they entered the buffer.     *)
(***************************************************************************)
EXTENDS Naturals, FiniteSets, Sequences, SequencesExt

CONSTANTS
  Groupings,    \* TRUE: the pages follow a workload; FALSE: one container
  Cap,          \* capacity of the buffer (DefaultCap)
  MaxShown,     \* lines a page keeps (maxLogLines)
  MaxLines,     \* bound: log lines read per stream, besides the error lines of a Group
  MaxSources,   \* bound: containers of the workload
  MaxStreams,   \* bound: streams ever started
  MaxPages,     \* bound: pages of one container ever opened
  MaxGroupPages, \* bound: pages of a workload ever opened
  EmptyGroups   \* the workload may have no pods

ASSUME LogAssumption ==
  /\ Groupings # {} /\ Groupings \subseteq BOOLEAN /\ EmptyGroups \in BOOLEAN
  /\ Cap \in Nat \ {0} /\ MaxShown \in Nat \ {0}
  /\ MaxLines \in Nat /\ MaxSources \in Nat \ {0}
  /\ MaxStreams \in Nat \ {0} /\ MaxPages \in Nat \ {0} /\ MaxGroupPages \in Nat \ {0}

VARIABLES
  streams,    \* every stream ever started
  pages,      \* every log page ever opened
  stack,      \* the stack of pages: numbers of log pages, 0 for any other page
  resolving,  \* number of logRefsResolved messages on their way
  blocked,    \* Update waits in a send to its own program
  grouped     \* which kind of page is opened; never changes

vars == <<streams, pages, stack, resolving, blocked, grouped>>

TopOf == stack[Len(stack)]
OnTop(p) == p # 0 /\ p = TopOf
PageBound == IF grouped THEN MaxGroupPages ELSE MaxPages
NoBatch == [lines |-> <<>>, dropped |-> 0]

-----------------------------------------------------------------------------
(* buffer.go *)

\* append: evict the oldest line of a full buffer and count it.
AddLineUncounted(st) ==
  LET b == Append(st.buf, st.read + 1)
  IN  [st EXCEPT !.read = @ + 1, !.buf = IF Len(b) > Cap THEN Tail(b) ELSE b]
AddLine(st) ==
  LET b == Append(st.buf, st.read + 1)
  IN  IF Len(b) > Cap
        THEN [st EXCEPT !.read = @ + 1, !.buf = Tail(b), !.dropped = @ + 1]
        ELSE [st EXCEPT !.read = @ + 1, !.buf = b]

\* drain, for the goroutine w; there is nothing to send if the buffer is empty.
Drained(st, w) ==
  [st EXCEPT !.buf = <<>>, !.dropped = 0,
             !.mail[w] = [lines |-> st.buf, dropped |-> st.dropped]]
NothingToSend(st) == st.buf = <<>> /\ st.dropped = 0

-----------------------------------------------------------------------------
(* A stream *)

\* StartWithOptions and StartGroupWithOptions with n sources.
NewStream(id, n) ==
  [id |-> id, read |-> 0, buf |-> <<>>, dropped |-> 0,
   opening |-> n, reading |-> 0, cancelled |-> FALSE, flushStop |-> FALSE,
   finisher |-> "wait", flusher |-> "idle", err |-> "none",
   mail |-> [w \in {"finisher", "flusher"} |-> NoBatch]]

\* Stop: a Group's also stops the flusher.
StopStream(st) == [st EXCEPT !.cancelled = TRUE, !.flushStop = @ \/ grouped]

\* One reader has finished: the last one goes on as the finisher.
ReaderDoneNoFlush(st) ==
  IF st.opening + st.reading = 0 THEN [st EXCEPT !.finisher = "stop"] ELSE st
ReaderDone(st) ==
  IF st.opening + st.reading = 0 THEN [st EXCEPT !.finisher = "drain"] ELSE st

OpenSucceeds(s) ==
  /\ streams[s].opening > 0
  /\ streams' = [streams EXCEPT ![s].opening = @ - 1, ![s].reading = @ + 1]
  /\ UNCHANGED <<pages, stack, resolving, blocked, grouped>>

\* A Session reports the error with LogEnded, a Group writes it as a line.
OpenFails(s) ==
  /\ streams[s].opening > 0
  /\ LET st == [streams[s] EXCEPT !.opening = @ - 1]
     IN  streams' = [streams EXCEPT ![s] =
           IF grouped THEN ReaderDone(AddLine(st))
                      ELSE [st EXCEPT !.finisher = "stop", !.err = "open"]]
  /\ UNCHANGED <<pages, stack, resolving, blocked, grouped>>

ReadLine(s) ==
  /\ streams[s].reading > 0 /\ streams[s].read < MaxLines
  /\ streams' = [streams EXCEPT ![s] = AddLine(@)]
  /\ UNCHANGED <<pages, stack, resolving, blocked, grouped>>

\* The scan ends, at the end of the log, by an error, or because of the cancel;
\* only a Session that was not cancelled reports an error.
ScanEnds(s) ==
  /\ streams[s].reading > 0
  /\ \E e \in {"none", "read"} :
       /\ e = "read" => ~grouped /\ ~streams[s].cancelled
       /\ streams' = [streams EXCEPT ![s] =
            ReaderDone([streams[s] EXCEPT !.reading = @ - 1, !.err = e])]
  /\ UNCHANGED <<pages, stack, resolving, blocked, grouped>>

\* The finisher's flushNow: its drain.
FinalDrain(s) ==
  /\ streams[s].finisher = "drain"
  /\ streams' = [streams EXCEPT ![s] =
       [Drained(@, "finisher") EXCEPT !.finisher = IF NothingToSend(streams[s]) THEN "stop" ELSE "send"]]
  /\ UNCHANGED <<pages, stack, resolving, blocked, grouped>>

StopNothing(s) ==
  /\ streams[s].finisher = "stop"
  /\ streams' = [streams EXCEPT ![s].finisher = "end"]
  /\ UNCHANGED <<pages, stack, resolving, blocked, grouped>>
StopFlushing(s) ==
  /\ streams[s].finisher = "stop"
  /\ streams' = [streams EXCEPT ![s].flushStop = TRUE, ![s].finisher = "end"]
  /\ UNCHANGED <<pages, stack, resolving, blocked, grouped>>

\* flushLoop: a tick, as long as neither channel wins the select.
FlushTick(s) ==
  /\ streams[s].flusher = "idle"
  /\ ~NothingToSend(streams[s])
  /\ streams' = [streams EXCEPT ![s] = [Drained(@, "flusher") EXCEPT !.flusher = "send"]]
  /\ UNCHANGED <<pages, stack, resolving, blocked, grouped>>

FlushLoopEnds(s) ==
  /\ streams[s].flusher = "idle"
  /\ streams[s].cancelled \/ streams[s].flushStop
  /\ streams' = [streams EXCEPT ![s].flusher = "done"]
  /\ UNCHANGED <<pages, stack, resolving, blocked, grouped>>

-----------------------------------------------------------------------------
(* logsPage *)

NewPage == [gen |-> 0, stream |-> 0, lines |-> <<>>, scrolled |-> 0, dropped |-> 0, ended |-> "no",
            covered |-> FALSE]  \* covered: history, another page has been on top of it

\* Update on a LogBatch: the newest MaxShown lines are kept.
Show(pg, s, batch) ==
  LET ls   == pg.lines \o [i \in DOMAIN batch.lines |-> <<s, batch.lines[i]>>]
      over == IF Len(ls) > MaxShown THEN Len(ls) - MaxShown ELSE 0
  IN  [pg EXCEPT !.lines = SubSeq(ls, over + 1, Len(ls)), !.scrolled = @ + over,
                 !.dropped = @ + batch.dropped]

\* The page on top of the stack takes a message of stream s if the ids match.
Takes(p, s) == OnTop(p) /\ pages[p].gen = streams[s].id

DeliverBatch(s, w) ==
  /\ ~blocked /\ streams[s][w] = "send"
  /\ pages' = [p \in DOMAIN pages |->
       IF Takes(p, s) THEN Show(pages[p], s, streams[s].mail[w]) ELSE pages[p]]
  /\ streams' = [streams EXCEPT ![s].mail[w] = NoBatch,
                                ![s][w] = IF w = "flusher" THEN "idle" ELSE "stop"]
  /\ UNCHANGED <<stack, resolving, blocked, grouped>>

DeliverEnded(s) ==
  /\ ~blocked /\ streams[s].finisher = "end"
  /\ pages' = [p \in DOMAIN pages |->
       IF Takes(p, s) THEN [pages[p] EXCEPT !.ended = streams[s].err] ELSE pages[p]]
  /\ streams' = [streams EXCEPT ![s].finisher = "done"]
  /\ UNCHANGED <<stack, resolving, blocked, grouped>>

\* OnEnter of a page pushed on a table or on the container picker.  A Session is
\* started at once, a workload is resolved to its pods first.
Open ==
  /\ ~blocked /\ TopOf = 0 /\ Len(pages) < PageBound
  /\ stack' = Append(stack, Len(pages) + 1)
  /\ IF grouped
       THEN /\ pages' = Append(pages, NewPage)
            /\ resolving' = resolving + 1
            /\ UNCHANGED streams
       ELSE /\ Len(streams) < MaxStreams
            /\ pages' = Append(pages, [NewPage EXCEPT !.stream = Len(streams) + 1])
            /\ streams' = Append(streams, NewStream(0, 1))
            /\ UNCHANGED resolving
  /\ UNCHANGED <<blocked, grouped>>

\* logRefsResolved reaches the page on top; the answer is an error or n pods.
ResolveFails ==
  /\ ~blocked /\ resolving > 0
  /\ resolving' = resolving - 1
  /\ pages' = [p \in DOMAIN pages |->
       IF OnTop(p) THEN [pages[p] EXCEPT !.ended = "resolve"] ELSE pages[p]]
  /\ UNCHANGED <<streams, stack, blocked, grouped>>

\* StartGroup without pods sends LogEnded from within Update.
Resolved(n) ==
  /\ ~blocked /\ resolving > 0
  /\ n = 0 => EmptyGroups
  /\ resolving' = resolving - 1
  /\ IF TopOf = 0
       THEN UNCHANGED <<streams, pages, blocked>>
       ELSE /\ Len(streams) < MaxStreams
            /\ streams' = Append(streams, [NewStream(0, n) EXCEPT !.flushStop = (n = 0)])
            /\ pages' = [pages EXCEPT ![TopOf].stream = Len(streams) + 1]
            /\ blocked' = (n = 0)
  /\ UNCHANGED <<stack, grouped>>

\* restart: another generation of the id, an empty page, a new stream.
RestartWithoutStop ==
  /\ ~grouped /\ ~blocked /\ TopOf # 0 /\ Len(streams) < MaxStreams
  /\ LET g == pages[TopOf].gen + 1
     IN  /\ streams' = Append(streams, NewStream(g, 1))
         /\ pages' = [pages EXCEPT ![TopOf] = [NewPage EXCEPT !.gen = g, !.stream = Len(streams) + 1]]
  /\ UNCHANGED <<stack, resolving, blocked, grouped>>
Restart ==
  /\ ~grouped /\ ~blocked /\ TopOf # 0 /\ Len(streams) < MaxStreams
  /\ LET g == pages[TopOf].gen + 1
     IN  /\ streams' = Append([streams EXCEPT ![pages[TopOf].stream] = StopStream(@)],
                              NewStream(g, 1))
         /\ pages' = [pages EXCEPT ![TopOf] = [NewPage EXCEPT !.gen = g, !.stream = Len(streams) + 1]]
  /\ UNCHANGED <<stack, resolving, blocked, grouped>>

\* The container picker of a page of one container.
Pick ==
  /\ ~grouped /\ ~blocked /\ TopOf # 0
  /\ stack' = Append(stack, 0)
  /\ pages' = [pages EXCEPT ![TopOf].covered = TRUE]
  /\ UNCHANGED <<streams, resolving, blocked, grouped>>

\* OnLeave of a page, when it is popped.
Back ==
  /\ ~blocked /\ Len(stack) > 1
  /\ stack' = Front(stack)
  /\ IF TopOf # 0 /\ pages[TopOf].stream # 0
       THEN /\ streams' = [streams EXCEPT ![pages[TopOf].stream] = StopStream(@)]
            /\ pages' = [pages EXCEPT ![TopOf].stream = 0]
       ELSE UNCHANGED <<streams, pages>>
  /\ UNCHANGED <<resolving, blocked, grouped>>

\* The session is disposed: its context is the parent of every stream's.
Dispose ==
  /\ ~blocked /\ Len(stack) > 1
  /\ stack' = <<0>>
  /\ streams' = [s \in DOMAIN streams |->
       IF \E p \in ToSet(stack) : p # 0 /\ pages[p].stream = s
         THEN StopStream(streams[s]) ELSE [streams[s] EXCEPT !.cancelled = TRUE]]
  /\ pages' = [p \in DOMAIN pages |-> [pages[p] EXCEPT !.stream = 0]]
  /\ UNCHANGED <<resolving, blocked, grouped>>

-----------------------------------------------------------------------------
Init ==
  /\ streams = <<>> /\ pages = <<>> /\ stack = <<0>>
  /\ resolving = 0 /\ blocked = FALSE /\ grouped \in Groupings

StreamStep(s) ==
  \/ OpenSucceeds(s) \/ OpenFails(s) \/ ReadLine(s) \/ ScanEnds(s)
  \/ FinalDrain(s) \/ StopFlushing(s) \/ FlushTick(s) \/ FlushLoopEnds(s)
  \/ DeliverBatch(s, "flusher") \/ DeliverBatch(s, "finisher") \/ DeliverEnded(s)

Next ==
  \/ \E s \in DOMAIN streams : StreamStep(s)
  \/ Open \/ ResolveFails \/ (\E n \in 0..MaxSources : Resolved(n))
  \/ Restart \/ Pick \/ Back \/ Dispose

\* Go schedules every runnable goroutine, the ticker ticks and the event loop
\* receives.  A cancelled context ends a pending open and a scan; nothing is
\* assumed of a log that is still open, or of the user.
StreamFairness(s) ==
  /\ WF_vars(s \in DOMAIN streams /\ (FinalDrain(s) \/ StopFlushing(s)))
  /\ WF_vars(s \in DOMAIN streams /\ FlushTick(s))
  /\ SF_vars(s \in DOMAIN streams /\ FlushLoopEnds(s))
  /\ \A w \in {"flusher", "finisher"} : WF_vars(s \in DOMAIN streams /\ DeliverBatch(s, w))
  /\ WF_vars(s \in DOMAIN streams /\ DeliverEnded(s))
  /\ WF_vars(s \in DOMAIN streams /\ streams[s].cancelled /\ (OpenFails(s) \/ ScanEnds(s)))

Spec     == Init /\ [][Next]_vars
FairSpec == Spec /\ \A s \in 1..MaxStreams : StreamFairness(s)

-----------------------------------------------------------------------------
(* Properties *)

LineNumbers == 1..(MaxLines + MaxSources)
Batch == [lines: Seq(LineNumbers), dropped: {0} \cup LineNumbers]

TypeOK ==
  /\ streams \in Seq([id: Nat, read: {0} \cup LineNumbers,
                      buf: Seq(LineNumbers), dropped: {0} \cup LineNumbers,
                      opening: 0..MaxSources, reading: 0..MaxSources, cancelled: BOOLEAN,
                      flushStop: BOOLEAN, err: {"none", "open", "read"},
                      finisher: {"wait", "drain", "send", "stop", "end", "done"},
                      flusher: {"idle", "send", "done"},
                      mail: [{"finisher", "flusher"} -> Batch]])
  /\ pages \in Seq([gen: Nat, stream: 0..MaxStreams, scrolled: Nat, dropped: Nat,
                    lines: Seq((1..MaxStreams) \X LineNumbers), covered: BOOLEAN,
                    ended: {"no", "none", "open", "read", "resolve"}])
  /\ stack \in Seq(0..PageBound) /\ resolving \in 0..PageBound /\ blocked \in BOOLEAN
  /\ grouped \in BOOLEAN

\* The buffer and the page are bounded however far the event loop falls behind.
Bounded ==
  /\ \A s \in DOMAIN streams : Len(streams[s].buf) <= Cap
  /\ \A p \in DOMAIN pages : Len(pages[p].lines) <= MaxShown

InFlight(b) == Len(b.lines) + b.dropped

\* The page follows a stream, and no other stream ever had its id: a restart bumps
\* the generation (logs.go), but a second page of the same container reuses it.
Alone(p) ==
  /\ pages[p].stream # 0
  /\ \A s \in DOMAIN streams : streams[s].id = pages[p].gen => s = pages[p].stream

\* "The UI never silently loses data" (buffer.go): every line read for the stream
\* of a page that was never covered is on the page, scrolled off it, counted as
\* dropped, or on its way, in the buffer or in a batch, whichever way appends,
\* drains and deliveries interleave.
NoSilentLoss ==
  \A p \in DOMAIN pages : Alone(p) /\ ~pages[p].covered =>
    LET pg == pages[p]
        st == streams[pg.stream]
    IN  st.read = Len(pg.lines) + pg.scrolled + pg.dropped
                  + Len(st.buf) + st.dropped
                  + InFlight(st.mail["flusher"]) + InFlight(st.mail["finisher"])

\* After restart the new generation of the id keeps out what the old stream still
\* delivers (logs.go): the page shows lines of its own stream only, each at most
\* once, and "stream ended" is about that stream.
OnlyOwnStream ==
  \A p \in DOMAIN pages : Alone(p) =>
    LET ls == pages[p].lines
    IN  /\ \A i \in DOMAIN ls : ls[i][1] = pages[p].stream
        /\ Cardinality(ToSet(ls)) = Len(ls)
        /\ pages[p].ended \notin {"no", "resolve"} => streams[pages[p].stream].finisher = "done"

\* A stream that was not stopped belongs to a page on the stack (OnLeave, restart,
\* and the disposal of the session), unless a workload's page was reopened while
\* its pods were being listed.
NoOrphan ==
  (grouped => Len(pages) <= 1) =>
    \A s \in DOMAIN streams : ~streams[s].cancelled =>
      \E i \in DOMAIN stack : stack[i] # 0 /\ pages[stack[i]].stream = s

\* Update never waits for itself: a send from within Update can never be received.
UpdateReturns == ~blocked

\* Stop, and the natural end of a stream, end all of its goroutines.
GoroutinesEnd ==
  \A s \in 1..MaxStreams :
    (s \in DOMAIN streams /\ (streams[s].cancelled \/ streams[s].finisher = "done"))
    ~> (s \in DOMAIN streams /\ streams[s].finisher = "done" /\ streams[s].flusher = "done")

\* A page that stays on top of a stream that has ended shows all of it: what the
\* last reader left in the buffer is delivered (flushNow before stopFlushing).
Shows(p, s) == p # 0 /\ s \in DOMAIN streams /\ pages[p].stream = s
Complete(p, s) ==
  streams[s].read = Len(pages[p].lines) + pages[p].scrolled + pages[p].dropped
AllDelivered ==
  \A s \in 1..MaxStreams :
    <>[](Shows(TopOf, s) /\ Alone(TopOf) /\ ~pages[TopOf].covered
         /\ streams[s].finisher = "done")
    => <>[](Shows(TopOf, s) /\ Complete(TopOf, s))

\* Between the reader, the flusher, the buffer and the page at their limits,
\* every line of a page that was never covered is accounted for: shown, scrolled
\* off, on its way or counted as dropped; and neither the buffer nor the page
\* outgrows its capacity (buffer.append, drain, flushNow).
LinesAccounted == TypeOK /\ Bounded /\ NoSilentLoss

\* As long as no second page reuses its id, a page shows lines of the stream it
\* started and of no other, and every stream that was not told to stop has its
\* page on the stack (the generation in the id, restart, OnLeave).
StreamsBelong == OnlyOwnStream /\ NoOrphan
=============================================================================
