-------------------------- MODULE LogStreamProofs --------------------------
(***************************************************************************)
(* No line of a log is lost without a count, and none is shown that is not *)
(* the page's own: for every capacity of buffer and page, any number of    *)
(* lines, containers, pages and restarts.                                  *)
(***************************************************************************)
EXTENDS LogStream, SequenceTheorems, FiniteSetTheorems, TLAPS

-----------------------------------------------------------------------------
(* The inductive invariant *)

Finishers == {"wait", "drain", "send", "stop", "end", "done"}
StreamRec ==
  [id: Nat, read: {0} \cup LineNumbers, buf: Seq(LineNumbers), dropped: {0} \cup LineNumbers,
   opening: 0..MaxSources, reading: 0..MaxSources, cancelled: BOOLEAN,
   flushStop: BOOLEAN, err: {"none", "open", "read"}, finisher: Finishers,
   flusher: {"idle", "send", "done"}, mail: [{"finisher", "flusher"} -> Batch]]
PageRec ==
  [gen: Nat, stream: 0..MaxStreams, scrolled: Nat, dropped: Nat,
   lines: Seq((1..MaxStreams) \X LineNumbers), covered: BOOLEAN,
   ended: {"no", "none", "open", "read", "resolve"}]

\* What is on its way to the page: how much, and which lines.
Weight(st) == Len(st.buf) + st.dropped + InFlight(st.mail["flusher"]) + InFlight(st.mail["finisher"])
Pending(st) == ToSet(st.buf) \cup ToSet(st.mail["flusher"].lines) \cup ToSet(st.mail["finisher"].lines)
Once(q) == \A i, j \in 1 .. Len(q) : q[i] = q[j] => i = j
Disjoint(A, B) == \A x \in A : x \notin B

\* The budget of lines of a stream, and its last reader.
ReadersOK(st, g) ==
  /\ st.opening + st.reading <= MaxSources /\ (~g => st.opening + st.reading <= 1)
  /\ st.read + st.opening <= MaxLines + MaxSources
  /\ st.opening + st.reading > 0 => st.finisher = "wait"

\* A goroutine that does not send has no batch.
SendersOK(st) ==
  /\ st.finisher # "send" => st.mail["finisher"] = NoBatch
  /\ st.flusher # "send" => st.mail["flusher"] = NoBatch

\* A line on its way is at one place, and not more is on its way than was read.
LinesApart(st) ==
  /\ Once(st.buf) /\ Once(st.mail["flusher"].lines) /\ Once(st.mail["finisher"].lines)
  /\ Disjoint(ToSet(st.buf), ToSet(st.mail["flusher"].lines))
  /\ Disjoint(ToSet(st.buf), ToSet(st.mail["finisher"].lines))
  /\ Disjoint(ToSet(st.mail["flusher"].lines), ToSet(st.mail["finisher"].lines))
BufferOK(st) ==
  /\ Len(st.buf) <= Cap /\ Weight(st) <= st.read
  /\ \A n \in Pending(st) : n <= st.read
  /\ LinesApart(st)

StreamOK(st, g) == st \in StreamRec /\ ReadersOK(st, g) /\ SendersOK(st) /\ BufferOK(st)

\* A line of a page: of a stream that has the page's id, read and on its way no more.
LineOK(l, gen, sts) ==
  /\ l[1] \in 1 .. Len(sts) /\ sts[l[1]].id = gen
  /\ l[2] <= sts[l[1]].read /\ l[2] \notin Pending(sts[l[1]])
LinesOK(ls, gen, sts) == Once(ls) /\ \A i \in 1 .. Len(ls) : LineOK(ls[i], gen, sts)

\* No stream had the page's id: the page is as new.
Blank(pg) == pg.lines = <<>> /\ pg.scrolled = 0 /\ pg.dropped = 0
Unheard(gen, sts) == \A s \in 1 .. Len(sts) : sts[s].id # gen

\* A page that follows a stream, alone (Alone, of a page and streams).
Lone(pg, sts) == pg.stream # 0 /\ \A s \in 1 .. Len(sts) : sts[s].id = pg.gen => s = pg.stream
Accounted(pg, sts) ==
  sts[pg.stream].read = Len(pg.lines) + pg.scrolled + pg.dropped + Weight(sts[pg.stream])

PageOK(pg, sts) ==
  /\ pg \in PageRec /\ Len(pg.lines) <= MaxShown
  /\ LinesOK(pg.lines, pg.gen, sts)
  /\ pg.stream # 0 => pg.stream \in 1 .. Len(sts) /\ sts[pg.stream].id = pg.gen
  /\ Unheard(pg.gen, sts) => Blank(pg)
  /\ pg.ended \notin {"no", "resolve"} =>
       \E s \in 1 .. Len(sts) : sts[s].id = pg.gen /\ sts[s].finisher = "done"
  /\ Lone(pg, sts) /\ ~pg.covered => Accounted(pg, sts)

\* The stack: a log page is on it once, under another page only if covered, and as long
\* as it follows a stream.
StackOK(stk, pgs) ==
  /\ stk \in Seq(Nat) /\ stk # <<>> /\ \A i \in 1 .. Len(stk) : stk[i] <= Len(pgs)
  /\ \A i, j \in 1 .. Len(stk) : stk[i] # 0 /\ stk[i] = stk[j] => i = j
  /\ \A i \in 1 .. Len(stk) : i < Len(stk) /\ stk[i] # 0 => pgs[stk[i]].covered
  /\ \A p \in 1 .. Len(pgs) : pgs[p].stream # 0 => \E i \in 1 .. Len(stk) : stk[i] = p

\* Every stream that runs has its page (NoOrphan, of streams, pages and a stack).
Owned(sts, pgs, stk) ==
  \A s \in 1 .. Len(sts) : ~sts[s].cancelled =>
    \E i \in 1 .. Len(stk) : stk[i] # 0 /\ pgs[stk[i]].stream = s

\* A workload's page starts one stream for each answer it waits for.
CountsOK(sts, pgs, res, g) ==
  /\ Len(sts) <= MaxStreams /\ Len(pgs) <= (IF g THEN MaxGroupPages ELSE MaxPages)
  /\ res \in Nat /\ res <= Len(pgs) /\ (~g => res = 0)
  /\ g => res + Len(sts) <= Len(pgs) /\ \A p \in 1 .. Len(pgs) : pgs[p].gen = 0

LogOK(sts, pgs, stk, res, g) ==
  /\ sts \in Seq(StreamRec) /\ \A s \in 1 .. Len(sts) : StreamOK(sts[s], g)
  /\ pgs \in Seq(PageRec) /\ \A p \in 1 .. Len(pgs) : PageOK(pgs[p], sts)
  /\ StackOK(stk, pgs) /\ CountsOK(sts, pgs, res, g)
  /\ (g => Len(pgs) <= 1) => Owned(sts, pgs, stk)
LogInv == grouped \in BOOLEAN /\ blocked \in BOOLEAN /\ LogOK(streams, pages, stack, resolving, grouped)

-----------------------------------------------------------------------------
(* Sequences *)

\* The elements of a sequence.
LEMMA Elements ==
  ASSUME NEW S, NEW q \in Seq(S)
  PROVE  /\ Len(q) \in Nat /\ DOMAIN q = 1 .. Len(q) /\ \A i \in 1 .. Len(q) : q[i] \in S /\ q[i] \in ToSet(q)
         /\ \A x \in ToSet(q) : x \in S /\ \E i \in 1 .. Len(q) : q[i] = x
<1>1. Len(q) \in Nat /\ DOMAIN q = 1 .. Len(q) /\ \A i \in 1 .. Len(q) : q[i] \in S
  BY LenProperties, ElementOfSeq
<1> QED
  BY <1>1 DEF ToSet

\* The empty sequence.
LEMMA NoElements ==
  ASSUME NEW S
  PROVE  <<>> \in Seq(S) /\ Len(<<>>) = 0 /\ ToSet(<<>>) = {} /\ Once(<<>>)
<1>1. <<>> \in Seq(S) /\ Len(<<>>) = 0
  BY EmptySeq
<1>2. PICK e : e = <<>>
  OBVIOUS
<1>3. e \in Seq(S) /\ Len(e) = 0
  BY <1>1, <1>2
<1>4. ToSet(e) = {}
  <2>1. \A x \in ToSet(e) : \E i \in DOMAIN e : e[i] = x
    BY DEF ToSet
  <2>2. \A i : i \notin DOMAIN e
    BY <1>3
  <2> QED
    BY <2>1, <2>2, Zenon
<1> QED
  BY <1>1, <1>2, <1>4 DEF Once

\* A function on 1..n is a sequence.
LEMMA Listed ==
  ASSUME NEW S, NEW n \in Nat, NEW f \in [1 .. n -> S]
  PROVE  f \in Seq(S) /\ Len(f) = n
<1>1. f \in Seq(S)
  BY SeqDef
<1>2. Len(f) \in Nat /\ DOMAIN f = 1 .. Len(f) /\ DOMAIN f = 1 .. n
  BY <1>1, LenProperties
<1> QED
  BY <1>1, <1>2

\* A sequence without repetitions has as many elements as it is long.
LEMMA OnceCounts ==
  ASSUME NEW S, NEW q \in Seq(S), Once(q)
  PROVE  Cardinality(ToSet(q)) = Len(q)
<1>1. Len(q) \in Nat /\ q \in [1 .. Len(q) -> ToSet(q)]
  BY LenProperties, Elements
<1>2. IsFiniteSet(1 .. Len(q)) /\ Cardinality(1 .. Len(q)) = Len(q)
  BY <1>1, FS_Interval, SMTT(30)
<1>3. q \in Bijection(1 .. Len(q), ToSet(q))
  <2>1. \A x \in ToSet(q) : \E i \in 1 .. Len(q) : q[i] = x
    BY Elements
  <2>2. \A i, j \in 1 .. Len(q) : q[i] = q[j] => i = j
    BY DEF Once
  <2> QED
    BY <1>1, <2>1, <2>2 DEF Bijection, Injection, Surjection, IsInjective
<1> QED
  BY <1>2, <1>3, FS_Bijection DEF ExistsBijection

\* A sequence without repetitions of length n with elements of q and perhaps x.
MayFollow(b, q, x, n) == Len(b) = n /\ Once(b) /\ \A y \in ToSet(b) : y \in ToSet(q) \/ y = x

\* append: a new line goes to the end, and the oldest may have to go.
LEMMA Pushed ==
  ASSUME NEW S, NEW q \in Seq(S), Once(q), NEW x \in S, x \notin ToSet(q)
  PROVE  MayFollow(Append(q, x), q, x, Len(q) + 1) /\ MayFollow(Tail(Append(q, x)), q, x, Len(q))
         /\ Append(q, x) \in Seq(S) /\ Tail(Append(q, x)) \in Seq(S)
<1> PICK b : b = Append(q, x)
  OBVIOUS
<1>1. /\ b \in Seq(S) /\ b # <<>> /\ Len(b) = Len(q) + 1 /\ b[Len(q) + 1] = x /\ Len(q) \in Nat
      /\ \A i \in 1 .. Len(q) : b[i] = q[i] /\ q[i] \in ToSet(q)
  BY AppendProperties, Elements
<1>2. Once(b)
  <2> SUFFICES ASSUME NEW i \in 1 .. Len(b), NEW j \in 1 .. Len(b), b[i] = b[j] PROVE i = j
    BY DEF Once
  <2>1. CASE i <= Len(q) /\ j <= Len(q)
    BY <1>1, <2>1 DEF Once
  <2>2. CASE i = Len(q) + 1 \/ j = Len(q) + 1
    BY <1>1, <2>2
  <2> QED
    BY <1>1, <2>1, <2>2
<1>3. \A i \in 1 .. Len(b) : b[i] \in ToSet(q) \/ b[i] = x
  BY <1>1
<1>4. Tail(b) \in Seq(S) /\ Len(Tail(b)) = Len(q) /\ \A i \in 1 .. Len(q) : Tail(b)[i] = b[i + 1]
  BY <1>1, HeadTailProperties
<1>5. Once(Tail(b))
  BY <1>1, <1>2, <1>4 DEF Once
<1>6. \A y \in ToSet(b) : y \in ToSet(q) \/ y = x
  <2>1. PICK r : r = b
    OBVIOUS
  <2> SUFFICES ASSUME NEW y \in ToSet(r) PROVE y \in ToSet(q) \/ y = x
    BY <2>1
  <2>2. r \in Seq(S)
    BY <1>1, <2>1
  <2>3. PICK i \in 1 .. Len(r) : r[i] = y
    BY <2>2, Elements
  <2> QED
    BY <1>3, <2>1, <2>3
<1>7. \A y \in ToSet(Tail(b)) : y \in ToSet(q) \/ y = x
  <2>1. PICK r : r = Tail(b)
    OBVIOUS
  <2> SUFFICES ASSUME NEW y \in ToSet(r) PROVE y \in ToSet(q) \/ y = x
    BY <2>1
  <2>2. r \in Seq(S)
    BY <1>4, <2>1
  <2>3. PICK i \in 1 .. Len(r) : r[i] = y
    BY <2>2, Elements
  <2> QED
    BY <1>1, <1>3, <1>4, <2>1, <2>3
<1> QED
  BY <1>1, <1>2, <1>4, <1>5, <1>6, <1>7 DEF MayFollow

\* Every element of b is one of q or of r.
Either(b, q, r) ==
  \A k \in 1 .. Len(b) : (\E i \in 1 .. Len(q) : b[k] = q[i]) \/ (\E j \in 1 .. Len(r) : b[k] = r[j])

\* Concatenation of sequences without a common element.
LEMMA Joined ==
  ASSUME NEW S, NEW q \in Seq(S), NEW r \in Seq(S), Once(q), Once(r),
         \A i \in 1 .. Len(q), j \in 1 .. Len(r) : q[i] # r[j]
  PROVE  q \o r \in Seq(S) /\ Len(q \o r) = Len(q) + Len(r) /\ Once(q \o r) /\ Either(q \o r, q, r)
<1> PICK b : b = q \o r
  OBVIOUS
<1>1. /\ b \in Seq(S) /\ Len(b) = Len(q) + Len(r) /\ Len(q) \in Nat /\ Len(r) \in Nat
      /\ \A i \in 1 .. Len(q) + Len(r) : b[i] = IF i <= Len(q) THEN q[i] ELSE r[i - Len(q)]
  BY ConcatProperties, LenProperties
<1>2. \A k \in 1 .. Len(b) : k > Len(q) => k - Len(q) \in 1 .. Len(r)
  BY <1>1
<1>3. Once(b)
  <2> SUFFICES ASSUME NEW i \in 1 .. Len(b), NEW j \in 1 .. Len(b), b[i] = b[j] PROVE i = j
    BY DEF Once
  <2>1. CASE i <= Len(q) /\ j <= Len(q)
    BY <1>1, <2>1 DEF Once
  <2>2. CASE i > Len(q) /\ j > Len(q)
    <3>0. PICK c \in 1 .. Len(r), d \in 1 .. Len(r) : c = i - Len(q) /\ d = j - Len(q)
      BY <1>2, <2>2
    <3>1. i - Len(q) = j - Len(q)
      <4>1. b[i] = r[c] /\ b[j] = r[d]
        BY <1>1, <2>2, <3>0
      <4>2. c = d
        BY <4>1, Zenon DEF Once
      <4> QED
        BY <3>0, <4>2
    <3> QED
      BY <1>1, <3>1
  <2>3. CASE i <= Len(q) /\ j > Len(q)
    BY <1>1, <1>2, <2>3
  <2>4. CASE i > Len(q) /\ j <= Len(q)
    BY <1>1, <1>2, <2>4
  <2> QED
    BY <1>1, <2>1, <2>2, <2>3, <2>4
<1> QED
  BY <1>1, <1>2, <1>3 DEF Either

\* The rest of a sequence without repetitions.
LEMMA Cut ==
  ASSUME NEW S, NEW q \in Seq(S), Once(q), NEW o \in 0 .. Len(q)
  PROVE  /\ SubSeq(q, o + 1, Len(q)) \in Seq(S) /\ Len(SubSeq(q, o + 1, Len(q))) = Len(q) - o
         /\ Once(SubSeq(q, o + 1, Len(q))) /\ Either(SubSeq(q, o + 1, Len(q)), q, q)
<1> PICK c : c = SubSeq(q, o + 1, Len(q))
  OBVIOUS
<1>1. Len(q) \in Nat /\ \A i \in o + 1 .. Len(q) : q[i] \in S
  BY Elements
<1>2. c \in Seq(S) /\ Len(c) = Len(q) - o /\ \A k \in 1 .. Len(c) : c[k] = q[o + k]
  <2>1. /\ c \in Seq(S) /\ Len(c) = IF o + 1 <= Len(q) THEN Len(q) - (o + 1) + 1 ELSE 0
        /\ \A k \in 1 .. Len(q) - (o + 1) + 1 : c[k] = q[o + 1 + k - 1]
    BY <1>1, SubSeqProperties
  <2>2. Len(c) = Len(q) - o
    BY <1>1, <2>1
  <2>3. \A k \in 1 .. Len(c) : k \in 1 .. Len(q) - (o + 1) + 1 /\ o + 1 + k - 1 = o + k
    BY <1>1, <2>2
  <2> QED
    BY <2>1, <2>2, <2>3
<1>3. \A k \in 1 .. Len(c) : o + k \in 1 .. Len(q)
  BY <1>1, <1>2
<1>4. Once(c)
  <2> SUFFICES ASSUME NEW i \in 1 .. Len(c), NEW j \in 1 .. Len(c), c[i] = c[j] PROVE i = j
    BY DEF Once
  <2>1. o + i = o + j
    BY <1>2, <1>3 DEF Once
  <2> QED
    BY <2>1
<1>5. Either(c, q, q)
  BY <1>2, <1>3 DEF Either
<1> QED
  BY <1>2, <1>4, <1>5

-----------------------------------------------------------------------------
(* Streams *)

\* The fields of a stream.
LEMMA StreamFields ==
  ASSUME NEW st \in StreamRec
  PROVE  /\ st.id \in Nat /\ st.read \in Nat /\ st.read <= MaxLines + MaxSources
         /\ st.dropped \in Nat /\ st.dropped <= MaxLines + MaxSources
         /\ st.buf \in Seq(LineNumbers) /\ Len(st.buf) \in Nat
         /\ st.opening \in Nat /\ st.reading \in Nat /\ st.opening <= MaxSources /\ st.reading <= MaxSources
         /\ st.finisher \in Finishers /\ st.flusher \in {"idle", "send", "done"} /\ st.err \in {"none", "open", "read"}
         /\ st.cancelled \in BOOLEAN /\ st.flushStop \in BOOLEAN
         /\ st.mail \in [{"finisher", "flusher"} -> Batch]
         /\ \A w \in {"finisher", "flusher"} :
              /\ st.mail[w] \in Batch /\ st.mail[w].lines \in Seq(LineNumbers) /\ Len(st.mail[w].lines) \in Nat
              /\ st.mail[w].dropped \in Nat /\ InFlight(st.mail[w]) \in Nat
         /\ Weight(st) \in Nat
<1>1. MaxLines \in Nat /\ MaxSources \in Nat
  BY LogAssumption
<1>2. /\ st.id \in Nat /\ st.read \in {0} \cup LineNumbers /\ st.dropped \in {0} \cup LineNumbers
      /\ st.buf \in Seq(LineNumbers) /\ st.opening \in 0 .. MaxSources /\ st.reading \in 0 .. MaxSources
      /\ st.finisher \in Finishers /\ st.flusher \in {"idle", "send", "done"} /\ st.err \in {"none", "open", "read"}
      /\ st.cancelled \in BOOLEAN /\ st.flushStop \in BOOLEAN
      /\ st.mail \in [{"finisher", "flusher"} -> Batch]
  BY DEF StreamRec
<1>3. Len(st.buf) \in Nat
  BY <1>2, LenProperties
<1>4. ASSUME NEW w \in {"finisher", "flusher"}
      PROVE  /\ st.mail[w] \in Batch /\ st.mail[w].lines \in Seq(LineNumbers) /\ Len(st.mail[w].lines) \in Nat
             /\ st.mail[w].dropped \in Nat /\ InFlight(st.mail[w]) \in Nat
  <2>1. st.mail[w] \in Batch
    BY <1>2
  <2>2. st.mail[w].lines \in Seq(LineNumbers) /\ st.mail[w].dropped \in {0} \cup LineNumbers
    BY <2>1 DEF Batch
  <2>3. st.mail[w].dropped \in Nat
    BY <1>1, <2>2 DEF LineNumbers
  <2>4. Len(st.mail[w].lines) \in Nat
    BY <2>2, LenProperties
  <2> QED
    BY <2>1, <2>2, <2>3, <2>4 DEF InFlight
<1>5. /\ st.read \in Nat /\ st.read <= MaxLines + MaxSources /\ st.dropped \in Nat /\ st.dropped <= MaxLines + MaxSources
      /\ st.opening \in Nat /\ st.reading \in Nat /\ st.opening <= MaxSources /\ st.reading <= MaxSources
  BY <1>1, <1>2 DEF LineNumbers
<1>6. Weight(st) \in Nat
  BY <1>3, <1>4, <1>5, SMTT(30) DEF Weight
<1> QED
  BY <1>2, <1>3, <1>4, <1>5, <1>6

\* A number of a line, or none, or a size of what was read.
LEMMA Counts ==
  ASSUME NEW n \in Nat, n <= MaxLines + MaxSources
  PROVE  n \in {0} \cup LineNumbers /\ (n > 0 => n \in LineNumbers)
BY LogAssumption DEF LineNumbers

\* What a step that delivers nothing does to a stream: what was read is still shown or on
\* its way, only new lines join what is on its way, and nothing is taken back.
Quiet(st, st2) ==
  /\ st2.id = st.id /\ st.read <= st2.read
  /\ st2.read + Weight(st) = st.read + Weight(st2)
  /\ \A n \in Pending(st2) : n \in Pending(st) \/ n > st.read
  /\ st.finisher = "done" => st2.finisher = "done"
  /\ st.cancelled => st2.cancelled

\* The same lines, at the same places.
Alike(st, st2) ==
  st2.id = st.id /\ st2.read = st.read /\ st2.buf = st.buf /\ st2.dropped = st.dropped /\ st2.mail = st.mail

\* One step after another.
LEMMA QuietTwice ==
  ASSUME NEW a \in StreamRec, NEW b \in StreamRec, NEW c \in StreamRec, Quiet(a, b), Quiet(b, c)
  PROVE  Quiet(a, c)
<1>1. /\ a.read \in Nat /\ b.read \in Nat /\ c.read \in Nat
      /\ Weight(a) \in Nat /\ Weight(b) \in Nat /\ Weight(c) \in Nat
  BY StreamFields
<1>2. a.read <= c.read /\ c.read + Weight(a) = a.read + Weight(c)
  BY <1>1 DEF Quiet
<1>3. \A n \in Pending(c) : n \in Pending(a) \/ n > a.read
  <2> SUFFICES ASSUME NEW n \in Pending(c), n \notin Pending(a) PROVE n > a.read
    OBVIOUS
  <2>1. n \in Pending(b) \/ n > b.read
    BY DEF Quiet
  <2>2. CASE n \in Pending(b)
    BY <2>2 DEF Quiet
  <2>3. CASE n > b.read
    <3>1. n \in Nat
      <4>1. \A w \in {"finisher", "flusher"} : \A x \in ToSet(c.mail[w].lines) : x \in LineNumbers
        BY StreamFields, Elements
      <4>2. \A x \in ToSet(c.buf) : x \in LineNumbers
        BY StreamFields, Elements
      <4>3. n \in LineNumbers
        BY <4>1, <4>2 DEF Pending
      <4> QED
        BY <4>3, LogAssumption DEF LineNumbers
    <3> QED
      BY <1>1, <2>3, <3>1 DEF Quiet
  <2> QED
    BY <2>1, <2>2, <2>3
<1> QED
  BY <1>2, <1>3 DEF Quiet

\* A step that moves no line.
LEMMA AlikeOK ==
  ASSUME NEW g, NEW st, StreamOK(st, g), NEW st2 \in StreamRec, Alike(st, st2), ReadersOK(st2, g), SendersOK(st2),
         st.finisher = "done" => st2.finisher = "done", st.cancelled => st2.cancelled
  PROVE  StreamOK(st2, g) /\ Quiet(st, st2)
<1>1. st \in StreamRec /\ BufferOK(st)
  BY DEF StreamOK
<1>2. Weight(st2) = Weight(st) /\ Pending(st2) = Pending(st) /\ st2.read = st.read /\ st2.id = st.id
  BY Zenon DEF Alike, Weight, Pending
<1>3. LinesApart(st2) /\ Len(st2.buf) <= Cap
  BY <1>1, Zenon DEF Alike, LinesApart, BufferOK
<1>4. BufferOK(st2)
  BY <1>1, <1>2, <1>3, Zenon DEF BufferOK
<1>5. st.read \in Nat /\ Weight(st) \in Nat
  BY <1>1, StreamFields
<1> QED
  BY <1>2, <1>4, <1>5 DEF Quiet, StreamOK

\* append: a line is read and put into the buffer, or put there for the oldest one.
LEMMA AddLineOK ==
  ASSUME NEW g, NEW st, StreamOK(st, g), st.read + st.opening < MaxLines + MaxSources
  PROVE  /\ StreamOK(AddLine(st), g) /\ Quiet(st, AddLine(st)) /\ AddLine(st).opening = st.opening
         /\ AddLine(st).reading = st.reading /\ AddLine(st).finisher = st.finisher
<1> PICK st2 : st2 = AddLine(st)
  OBVIOUS
<1>1. st \in StreamRec /\ ReadersOK(st, g) /\ SendersOK(st) /\ BufferOK(st) /\ LinesApart(st)
  BY DEF StreamOK, BufferOK
<1>2. /\ st.read \in Nat /\ st.dropped \in Nat /\ st.opening \in Nat /\ st.reading \in Nat
      /\ st.buf \in Seq(LineNumbers) /\ Len(st.buf) \in Nat /\ Weight(st) \in Nat /\ Weight(st) <= st.read
      /\ MaxLines \in Nat /\ MaxSources \in Nat /\ Cap \in Nat
      /\ InFlight(st.mail["flusher"]) \in Nat /\ InFlight(st.mail["finisher"]) \in Nat
  BY <1>1, StreamFields, LogAssumption DEF BufferOK
<1>3. PICK n \in Nat : n = st.read + 1
  BY <1>2
<1>4. n \in LineNumbers /\ n <= MaxLines + MaxSources
  BY <1>2, <1>3, Counts
<1>5. \A y \in Pending(st) : y # n
  <2>1. \A x, y \in Nat : x <= y => x # y + 1
    OBVIOUS
  <2>2. \A y \in Pending(st) : y \in LineNumbers
    BY <1>1, StreamFields, Elements DEF Pending
  <2>3. \A y \in LineNumbers : y \in Nat
    BY <1>2 DEF LineNumbers
  <2> QED
    BY <1>1, <1>2, <1>3, <2>1, <2>2, <2>3 DEF BufferOK
<1>6. PICK b : b = Append(st.buf, n)
  OBVIOUS
<1>7. /\ b \in Seq(LineNumbers) /\ MayFollow(b, st.buf, n, Len(st.buf) + 1)
      /\ Tail(b) \in Seq(LineNumbers) /\ MayFollow(Tail(b), st.buf, n, Len(st.buf))
  <2>1. n \notin ToSet(st.buf) /\ Once(st.buf)
    BY <1>1, <1>5 DEF Pending, LinesApart
  <2> QED
    BY <1>2, <1>4, <1>6, <2>1, Pushed
<1>8. PICK l \in Nat, r \in Nat, o \in Nat, x \in Nat, y \in Nat :
         l = Len(st.buf) /\ r = st.dropped /\ o = st.read /\ x = InFlight(st.mail["flusher"]) /\ y = InFlight(st.mail["finisher"])
  BY <1>2
<1>9. Weight(st) = l + r + x + y /\ l + r + x + y <= o /\ n = o + 1 /\ l <= Cap
  <2>1. Weight(st) = l + r + x + y
    BY <1>8, Zenon DEF Weight
  <2> QED
    BY <1>1, <1>2, <1>3, <1>8, <2>1 DEF BufferOK
<1>10. \E nb \in Seq(LineNumbers), nd \in Nat, m \in Nat :
        /\ m + nd = l + r + 1 /\ m <= Cap /\ MayFollow(nb, st.buf, n, m)
        /\ st2 = [st EXCEPT !.read = n, !.buf = nb, !.dropped = nd]
  <2>1. PICK nd \in Nat : nd = r + 1
    OBVIOUS
  <2>4. PICK m \in Nat : m = l + 1
    OBVIOUS
  <2>2. CASE Len(b) > Cap
    <3>1. st2 = [st EXCEPT !.read = n, !.buf = Tail(b), !.dropped = nd]
      BY <1>3, <1>6, <1>8, <2>1, <2>2 DEF AddLine
    <3>2. l + nd = l + r + 1 /\ l <= Cap
      BY <1>9, <2>1
    <3>3. MayFollow(Tail(b), st.buf, n, l)
      BY <1>7, <1>8
    <3> QED
      BY <1>7, <3>1, <3>2, <3>3
  <2>3. CASE ~(Len(b) > Cap)
    <3>1. st2 = [st EXCEPT !.read = n, !.buf = b]
      BY <1>3, <1>6, <2>3 DEF AddLine
    <3>2. st2 = [st EXCEPT !.read = n, !.buf = b, !.dropped = r]
      BY <1>1, <1>8, <3>1 DEF StreamRec
    <3>3. MayFollow(b, st.buf, n, m) /\ Len(b) = m
      BY <1>7, <1>8, <2>4 DEF MayFollow
    <3>4. m + r = l + r + 1 /\ m <= Cap
      BY <1>2, <2>3, <2>4, <3>3
    <3> QED
      BY <1>7, <3>2, <3>3, <3>4
  <2> QED
    BY <2>2, <2>3
<1>11. PICK nb \in Seq(LineNumbers), nd \in Nat, m \in Nat :
        /\ m + nd = l + r + 1 /\ m <= Cap /\ MayFollow(nb, st.buf, n, m)
        /\ st2 = [st EXCEPT !.read = n, !.buf = nb, !.dropped = nd]
  BY <1>10
<1>12. Len(nb) = m /\ Once(nb) /\ \A z \in ToSet(nb) : z \in ToSet(st.buf) \/ z = n
  BY <1>11 DEF MayFollow
<1>13. nd \in {0} \cup LineNumbers
  <2>1. nd <= n
    BY <1>11, <1>9
  <2>2. nd <= MaxLines + MaxSources
    BY <1>2, <1>4, <2>1
  <2> QED
    BY <2>2, Counts
<1>14. /\ st2 \in StreamRec /\ st2.read = n /\ st2.buf = nb /\ st2.dropped = nd /\ st2.mail = st.mail /\ st2.id = st.id
       /\ st2.opening = st.opening /\ st2.reading = st.reading /\ st2.finisher = st.finisher /\ st2.flusher = st.flusher
       /\ st2.cancelled = st.cancelled
  BY <1>1, <1>4, <1>11, <1>13 DEF StreamRec
<1>15. Weight(st2) = Weight(st) + 1
  <2>1. Weight(st2) = m + nd + x + y
    BY <1>12, <1>14, <1>8, Zenon DEF Weight
  <2>2. m + nd + x + y = l + r + x + y + 1
    BY <1>11
  <2> QED
    BY <1>9, <2>1, <2>2
<1>16. \A z \in Pending(st2) : z \in Pending(st) \/ z = n
  BY <1>12, <1>14 DEF Pending
<1>17. \A z \in Pending(st2) : z <= st2.read
  <2>1. \A z \in Pending(st) : z \in Nat /\ z <= st.read
    <3>1. \A z \in Pending(st) : z \in LineNumbers
      BY <1>1, StreamFields, Elements DEF Pending
    <3> QED
      BY <1>1, <1>2, <3>1 DEF BufferOK, LineNumbers
  <2>2. \A z \in Nat : z <= st.read => z <= n
    BY <1>2, <1>3
  <2>3. n <= n
    BY <1>3
  <2> QED
    BY <1>14, <1>16, <2>1, <2>2, <2>3
<1>18. LinesApart(st2)
  <2>1. \A w \in {"flusher", "finisher"} : \A z \in ToSet(nb) : z \notin ToSet(st.mail[w].lines)
    BY <1>1, <1>5, <1>12 DEF Pending, LinesApart, Disjoint
  <2> QED
    BY <1>1, <1>12, <1>14, <2>1 DEF LinesApart, Disjoint
<1>19. BufferOK(st2)
  <2>1. Len(st2.buf) <= Cap
    BY <1>11, <1>12, <1>14
  <2>2. Weight(st2) <= st2.read
    BY <1>14, <1>15, <1>9
  <2> QED
    BY <1>17, <1>18, <2>1, <2>2, Zenon DEF BufferOK
<1>20. ReadersOK(st2, g) /\ SendersOK(st2)
  <2>0. \A i, j, k \in Nat : i + j < k => (i + 1) + j <= k
    OBVIOUS
  <2>1. st2.read + st2.opening <= MaxLines + MaxSources
    <3>1. MaxLines + MaxSources \in Nat
      BY <1>2
    <3>2. (st.read + 1) + st.opening <= MaxLines + MaxSources
      BY <1>2, <2>0, <3>1
    <3> QED
      BY <1>3, <1>14, <3>2
  <2> QED
    BY <1>1, <1>14, <2>1, Zenon DEF ReadersOK, SendersOK
<1>21. Quiet(st, st2)
  <2>1. st.read <= st2.read /\ st2.read + Weight(st) = st.read + Weight(st2) /\ n > st.read
    <3>1. o <= n /\ n > o /\ n + (l + r + x + y) = o + (l + r + x + y + 1)
      BY <1>9
    <3> QED
      BY <1>14, <1>15, <1>8, <1>9, <3>1
  <2> QED
    BY <1>14, <1>16, <2>1 DEF Quiet
<1> QED
  BY <1>14, <1>19, <1>20, <1>21 DEF StreamOK

\* The buffer has become the batch of w.
HandedOver(st, d, w) ==
  /\ d \in StreamRec /\ d.id = st.id /\ d.read = st.read /\ d.buf = <<>> /\ d.dropped = 0
  /\ d.opening = st.opening /\ d.reading = st.reading /\ d.finisher = st.finisher /\ d.flusher = st.flusher
  /\ d.cancelled = st.cancelled /\ \A v \in {"finisher", "flusher"} : v # w => d.mail[v] = st.mail[v]
  /\ d.mail[w] = [lines |-> st.buf, dropped |-> st.dropped]
  /\ Weight(d) = Weight(st) /\ Pending(d) = Pending(st) /\ BufferOK(d)

\* drain: the buffer and its count become the batch of a goroutine that had none.
LEMMA DrainedOK ==
  ASSUME NEW g, NEW st, StreamOK(st, g), NEW w \in {"finisher", "flusher"}, st.mail[w] = NoBatch
  PROVE  HandedOver(st, Drained(st, w), w)
<1> PICK d : d = Drained(st, w)
  OBVIOUS
<1>1. st \in StreamRec /\ BufferOK(st)
  BY DEF StreamOK
<1>2. /\ st.buf \in Seq(LineNumbers) /\ st.dropped \in {0} \cup LineNumbers /\ st.mail \in [{"finisher", "flusher"} -> Batch]
      /\ st.dropped \in Nat /\ Len(st.buf) \in Nat /\ Cap \in Nat
  BY <1>1, StreamFields, LogAssumption DEF StreamRec
<1>3. PICK b : b = [lines |-> st.buf, dropped |-> st.dropped]
  OBVIOUS
<1>4. b \in Batch /\ b.lines = st.buf /\ b.dropped = st.dropped
  BY <1>2, <1>3 DEF Batch
<1>5. PICK m : m = [st.mail EXCEPT ![w] = b]
  OBVIOUS
<1>6. m \in [{"finisher", "flusher"} -> Batch] /\ m[w] = b /\ \A v \in {"finisher", "flusher"} : v # w => m[v] = st.mail[v]
  BY <1>2, <1>4, <1>5
<1>7. PICK e : e = <<>>
  OBVIOUS
<1>8. e \in Seq(LineNumbers) /\ Len(e) = 0 /\ ToSet(e) = {} /\ Once(e)
  BY <1>7, NoElements
<1>9. d = [st EXCEPT !.buf = e, !.dropped = 0, !.mail = m]
  BY <1>1, <1>3, <1>5, <1>7 DEF Drained, StreamRec
<1>10. /\ d \in StreamRec /\ d.id = st.id /\ d.read = st.read /\ d.buf = e /\ d.dropped = 0 /\ d.mail = m
       /\ d.opening = st.opening /\ d.reading = st.reading /\ d.finisher = st.finisher /\ d.flusher = st.flusher
       /\ d.cancelled = st.cancelled
  BY <1>1, <1>6, <1>8, <1>9 DEF StreamRec
<1>11. NoBatch.lines = e /\ NoBatch.dropped = 0
  BY <1>7 DEF NoBatch
<1>12. \A v \in {"finisher", "flusher"} : InFlight(st.mail[v]) \in Nat
  BY <1>1, StreamFields
<1>13. InFlight(m[w]) = Len(st.buf) + st.dropped /\ InFlight(st.mail[w]) = 0
  BY <1>4, <1>6, <1>8, <1>11 DEF InFlight
<1>14. Weight(d) = Weight(st)
  <2>1. CASE w = "finisher"
    <3>1. m["flusher"] = st.mail["flusher"]
      BY <1>6, <2>1
    <3> QED
      BY <1>2, <1>8, <1>10, <1>12, <1>13, <2>1, <3>1 DEF Weight
  <2>2. CASE w = "flusher"
    <3>1. m["finisher"] = st.mail["finisher"]
      BY <1>6, <2>2
    <3> QED
      BY <1>2, <1>8, <1>10, <1>12, <1>13, <2>2, <3>1 DEF Weight
  <2> QED
    BY <2>1, <2>2
<1>15. Pending(d) = Pending(st)
  BY <1>4, <1>6, <1>8, <1>10, <1>11 DEF Pending
<1>16. LinesApart(d)
  <2>1. LinesApart(st) /\ \A A : Disjoint({}, A) /\ Disjoint(A, {}) /\ \A B : Disjoint(A, B) => Disjoint(B, A)
    BY <1>1 DEF BufferOK, Disjoint
  <2> QED
    BY <1>4, <1>6, <1>8, <1>10, <1>11, <2>1 DEF LinesApart
<1>17. Len(d.buf) <= Cap
  BY <1>2, <1>8, <1>10
<1>18. BufferOK(d)
  BY <1>1, <1>10, <1>14, <1>15, <1>16, <1>17, Zenon DEF BufferOK
<1> QED
  BY <1>3, <1>6, <1>7, <1>10, <1>14, <1>15, <1>18 DEF HandedOver

\* A step that changes only where the readers and senders of a stream are.
Turned(st, o, r, fi, fl, e) ==
  [st EXCEPT !.opening = o, !.reading = r, !.finisher = fi, !.flusher = fl, !.err = e]

\* It leaves them where they may be: readers only end, and the last one finishes.
Fits(st, o, r, fi, fl, e) ==
  /\ o \in Nat /\ r \in Nat /\ o + r <= st.opening + st.reading /\ st.read + o <= MaxLines + MaxSources
  /\ fi \in Finishers /\ fl \in {"idle", "send", "done"} /\ e \in {"none", "open", "read"}
  /\ o + r > 0 => fi = "wait"
  /\ fi # "send" => st.mail["finisher"] = NoBatch
  /\ fl # "send" => st.mail["flusher"] = NoBatch
  /\ st.finisher = "done" => fi = "done"

\* Such a step is quiet.
LEMMA TurnOK ==
  ASSUME NEW g, NEW st, StreamOK(st, g), NEW o, NEW r, NEW fi, NEW fl, NEW e, Fits(st, o, r, fi, fl, e),
         NEW st2, st2 = Turned(st, o, r, fi, fl, e)
  PROVE  StreamOK(st2, g) /\ Quiet(st, st2) /\ st2.opening = o /\ st2.reading = r /\ st2.finisher = fi
<1>1. /\ st \in StreamRec /\ ReadersOK(st, g) /\ MaxSources \in Nat /\ st.opening \in Nat /\ st.reading \in Nat
      /\ o \in Nat /\ r \in Nat
  BY StreamFields, LogAssumption DEF StreamOK, Fits
<1>2. o \in 0 .. MaxSources /\ r \in 0 .. MaxSources /\ o + r <= MaxSources /\ (~g => o + r <= 1)
  <2>1. st.opening + st.reading <= MaxSources /\ (~g => st.opening + st.reading <= 1)
    BY <1>1, Zenon DEF ReadersOK
  <2>2. o + r <= st.opening + st.reading
    BY DEF Fits
  <2>3. o + r <= MaxSources
    BY <1>1, <2>1, <2>2
  <2>4. ~g => o + r <= 1
    BY <1>1, <2>1, <2>2
  <2>5. o \in 0 .. MaxSources /\ r \in 0 .. MaxSources
    BY <1>1, <2>3
  <2> QED
    BY <2>3, <2>4, <2>5, Zenon
<1>3. /\ st2 \in StreamRec /\ Alike(st, st2) /\ st2.opening = o /\ st2.reading = r /\ st2.finisher = fi /\ st2.flusher = fl
      /\ st2.cancelled = st.cancelled /\ st2.read = st.read /\ st2.mail = st.mail
  <2>1. fi \in Finishers /\ fl \in {"idle", "send", "done"} /\ e \in {"none", "open", "read"}
    BY DEF Fits
  <2> QED
    BY <1>1, <1>2, <2>1 DEF StreamRec, Alike, Turned
<1>4. ReadersOK(st2, g) /\ SendersOK(st2)
  <2>1. /\ st.read + o <= MaxLines + MaxSources /\ (o + r > 0 => fi = "wait")
        /\ (fi # "send" => st.mail["finisher"] = NoBatch) /\ (fl # "send" => st.mail["flusher"] = NoBatch)
    BY Zenon DEF Fits
  <2> QED
    BY <1>2, <1>3, <2>1, Zenon DEF ReadersOK, SendersOK
<1>5. (st.finisher = "done" => st2.finisher = "done") /\ (st.cancelled => st2.cancelled)
  BY <1>3, Zenon DEF Fits
<1>6. StreamOK(st2, g) /\ Quiet(st, st2)
  BY <1>3, <1>4, <1>5, AlikeOK
<1> QED
  BY <1>3, <1>6, Zenon

\* Stop, and a channel that is closed.
Stopped(st, c, f) == [st EXCEPT !.cancelled = c, !.flushStop = f]

\* That is quiet, too.
LEMMA StopOK ==
  ASSUME NEW g, NEW st, StreamOK(st, g), NEW c \in BOOLEAN, NEW f \in BOOLEAN, st.cancelled => c
  PROVE  /\ StreamOK(Stopped(st, c, f), g) /\ Quiet(st, Stopped(st, c, f)) /\ (Stopped(st, c, f).cancelled <=> c)
         /\ Stopped(st, c, f).finisher = st.finisher
<1> PICK st2 : st2 = Stopped(st, c, f)
  OBVIOUS
<1>1. st \in StreamRec /\ ReadersOK(st, g) /\ SendersOK(st)
  BY DEF StreamOK
<1>2. /\ st2 \in StreamRec /\ Alike(st, st2) /\ st2.opening = st.opening /\ st2.reading = st.reading
      /\ st2.finisher = st.finisher /\ st2.flusher = st.flusher /\ st2.cancelled = c /\ st2.read = st.read
      /\ st2.mail = st.mail
  BY <1>1 DEF StreamRec, Alike, Stopped
<1>3. ReadersOK(st2, g) /\ SendersOK(st2)
  BY <1>1, <1>2, Zenon DEF ReadersOK, SendersOK
<1>4. (st2.cancelled <=> c) /\ (st.finisher = "done" => st2.finisher = "done") /\ (st.cancelled => st2.cancelled)
  BY <1>2, Zenon
<1> QED
  BY <1>2, <1>3, <1>4, AlikeOK

\* The Stop of a page that leaves, and the cancel of the session.
LEMMA StopsOK ==
  ASSUME NEW st, StreamOK(st, grouped), grouped \in BOOLEAN
  PROVE  /\ StreamOK(StopStream(st), grouped) /\ Quiet(st, StopStream(st)) /\ StopStream(st).cancelled
         /\ StreamOK([st EXCEPT !.cancelled = TRUE], grouped) /\ Quiet(st, [st EXCEPT !.cancelled = TRUE])
         /\ [st EXCEPT !.cancelled = TRUE].cancelled
<1>1. st \in StreamRec /\ st.flushStop \in BOOLEAN
  BY StreamFields DEF StreamOK
<1>2. PICK c \in BOOLEAN : c
  OBVIOUS
<1>3. PICK f \in BOOLEAN : f <=> (st.flushStop \/ grouped)
  OBVIOUS
<1>4. c = TRUE /\ f = (st.flushStop \/ grouped)
  BY <1>1, <1>2, <1>3, Zenon
<1>5. StopStream(st) = Stopped(st, c, f)
  BY <1>4, Zenon DEF StopStream, Stopped
<1>6. [st EXCEPT !.cancelled = c] = Stopped(st, c, st.flushStop)
  BY <1>1 DEF StreamRec, Stopped
<1>7. [st EXCEPT !.cancelled = TRUE] = Stopped(st, c, st.flushStop)
  BY <1>4, <1>6, Zenon
<1>8. StreamOK(Stopped(st, c, f), grouped) /\ Quiet(st, Stopped(st, c, f)) /\ Stopped(st, c, f).cancelled
  BY <1>2, StopOK
<1>9. /\ StreamOK(Stopped(st, c, st.flushStop), grouped) /\ Quiet(st, Stopped(st, c, st.flushStop))
      /\ Stopped(st, c, st.flushStop).cancelled
  BY <1>1, <1>2, StopOK
<1> QED
  BY <1>5, <1>7, <1>8, <1>9, Zenon

\* A new stream, whose flusher may have been told to stop.
Started(i, n, f) == [NewStream(i, n) EXCEPT !.flushStop = f]
Unread(st, g, i) ==
  StreamOK(st, g) /\ st.id = i /\ st.read = 0 /\ Weight(st) = 0 /\ Pending(st) = {} /\ st.finisher # "done"

\* Nothing has been read for it.
LEMMA NewStreamOK ==
  ASSUME NEW g \in BOOLEAN, NEW i \in Nat, NEW n \in 0 .. MaxSources, ~g => n <= 1, NEW f \in BOOLEAN
  PROVE  Unread(Started(i, n, f), g, i)
<1> PICK st : st = Started(i, n, f)
  OBVIOUS
<1>1. PICK e : e = <<>>
  OBVIOUS
<1>2. e \in Seq(LineNumbers) /\ Len(e) = 0 /\ ToSet(e) = {} /\ Once(e)
  BY <1>1, NoElements
<1>3. PICK b : b = NoBatch
  OBVIOUS
<1>4. b \in Batch /\ b.lines = e /\ b.dropped = 0
  BY <1>1, <1>2, <1>3 DEF NoBatch, Batch
<1>5. PICK m : m = [w \in {"finisher", "flusher"} |-> b]
  OBVIOUS
<1>6. m \in [{"finisher", "flusher"} -> Batch] /\ m["finisher"] = b /\ m["flusher"] = b
  BY <1>4, <1>5
<1>7. PICK c \in BOOLEAN : c = FALSE
  OBVIOUS
<1>8. PICK s : s = [id |-> i, read |-> 0, buf |-> e, dropped |-> 0, opening |-> n, reading |-> 0, cancelled |-> c,
                    flushStop |-> f, finisher |-> "wait", flusher |-> "idle", err |-> "none", mail |-> m]
  OBVIOUS
<1>9. NewStream(i, n) = [id |-> i, read |-> 0, buf |-> e, dropped |-> 0, opening |-> n, reading |-> 0, cancelled |-> c,
                         flushStop |-> FALSE, finisher |-> "wait", flusher |-> "idle", err |-> "none", mail |-> m]
  BY <1>1, <1>3, <1>5, <1>7, Zenon DEF NewStream
<1>10. st = s
  BY <1>8, <1>9 DEF Started
<1>11. MaxLines \in Nat /\ MaxSources \in Nat /\ Cap \in Nat
  BY LogAssumption
<1>12. /\ s \in StreamRec /\ s.id = i /\ s.read = 0 /\ s.buf = e /\ s.dropped = 0 /\ s.opening = n /\ s.reading = 0
       /\ s.finisher = "wait" /\ s.flusher = "idle" /\ s.mail = m
  BY <1>2, <1>6, <1>8, <1>11 DEF StreamRec, Finishers
<1>13. ReadersOK(s, g)
  BY <1>11, <1>12 DEF ReadersOK
<1>14. SendersOK(s)
  BY <1>3, <1>6, <1>12 DEF SendersOK
<1>15. Weight(s) = 0 /\ Pending(s) = {}
  BY <1>2, <1>4, <1>6, <1>12 DEF Weight, Pending, InFlight
<1>16. LinesApart(s)
  BY <1>2, <1>4, <1>6, <1>12 DEF LinesApart, Disjoint
<1>17. BufferOK(s)
  BY <1>2, <1>11, <1>12, <1>15, <1>16 DEF BufferOK
<1> QED
  BY <1>10, <1>12, <1>13, <1>14, <1>15, <1>17 DEF StreamOK, Unread

-----------------------------------------------------------------------------
(* Pages *)

\* The fields of a page.
LEMMA PageFields ==
  ASSUME NEW pg \in PageRec
  PROVE  /\ pg.gen \in Nat /\ pg.stream \in 0 .. MaxStreams /\ pg.stream \in Nat /\ pg.scrolled \in Nat /\ pg.dropped \in Nat
         /\ pg.lines \in Seq((1..MaxStreams) \X LineNumbers) /\ Len(pg.lines) \in Nat
         /\ \A i \in 1 .. Len(pg.lines) : pg.lines[i] \in (1..MaxStreams) \X LineNumbers /\ pg.lines[i][2] \in Nat
         /\ pg.covered \in BOOLEAN /\ pg.ended \in {"no", "none", "open", "read", "resolve"}
<1>1. /\ pg.gen \in Nat /\ pg.stream \in 0 .. MaxStreams /\ pg.scrolled \in Nat /\ pg.dropped \in Nat
      /\ pg.lines \in Seq((1..MaxStreams) \X LineNumbers)
      /\ pg.covered \in BOOLEAN /\ pg.ended \in {"no", "none", "open", "read", "resolve"}
  BY DEF PageRec
<1>2. Len(pg.lines) \in Nat /\ \A i \in 1 .. Len(pg.lines) : pg.lines[i] \in (1..MaxStreams) \X LineNumbers
  BY <1>1, Elements
<1>3. \A l \in (1..MaxStreams) \X LineNumbers : l[2] \in Nat
  BY LogAssumption DEF LineNumbers
<1>4. pg.stream \in Nat
  BY <1>1, LogAssumption
<1> QED
  BY <1>1, <1>2, <1>3, <1>4

\* What every step keeps of a stream, also one that delivers.
Calm(st, st2) ==
  /\ st2.id = st.id /\ st.read <= st2.read
  /\ \A n \in Pending(st2) : n \in Pending(st) \/ n > st.read
  /\ st.finisher = "done" => st2.finisher = "done"
CalmTo(sts, sts2) ==
  /\ sts \in Seq(StreamRec) /\ sts2 \in Seq(StreamRec) /\ Len(sts) <= Len(sts2)
  /\ \A s \in 1 .. Len(sts) : Calm(sts[s], sts2[s])

\* The lines of a page stay true of the streams; what is left is to count them.
LEMMA PageCalm ==
  ASSUME NEW sts, NEW sts2, CalmTo(sts, sts2), NEW pg, PageOK(pg, sts),
         Lone(pg, sts2) /\ ~pg.covered => Accounted(pg, sts2)
  PROVE  PageOK(pg, sts2)
<1>1. /\ Len(sts) \in Nat /\ Len(sts2) \in Nat /\ Len(sts) <= Len(sts2)
      /\ \A s \in 1 .. Len(sts) : Calm(sts[s], sts2[s]) /\ sts[s] \in StreamRec /\ sts2[s] \in StreamRec /\ s \in 1 .. Len(sts2)
  <2>1. sts \in Seq(StreamRec) /\ sts2 \in Seq(StreamRec) /\ Len(sts) <= Len(sts2)
    BY DEF CalmTo
  <2>2. Len(sts) \in Nat /\ Len(sts2) \in Nat
    BY <2>1, LenProperties
  <2>3. \A s \in 1 .. Len(sts) : s \in 1 .. Len(sts2)
    BY <2>1, <2>2
  <2> QED
    BY <2>1, <2>2, <2>3, ElementOfSeq DEF CalmTo
<1>2. \A s \in 1 .. Len(sts) : /\ sts2[s].id = sts[s].id /\ sts[s].read \in Nat /\ sts2[s].read \in Nat
                               /\ sts[s].read <= sts2[s].read
  BY <1>1, StreamFields DEF Calm
<1>3. pg \in PageRec /\ Len(pg.lines) <= MaxShown /\ Once(pg.lines)
  BY DEF PageOK, LinesOK
<1>4. ASSUME NEW i \in 1 .. Len(pg.lines) PROVE LineOK(pg.lines[i], pg.gen, sts2)
  <2>1. LineOK(pg.lines[i], pg.gen, sts) /\ pg.lines[i][2] \in Nat
    BY <1>3, PageFields DEF PageOK, LinesOK
  <2>2. PICK s \in 1 .. Len(sts) : s = pg.lines[i][1]
    BY <2>1 DEF LineOK
  <2>3. PICK n \in Nat : n = pg.lines[i][2]
    BY <2>1
  <2>4. sts[s].id = pg.gen /\ n <= sts[s].read /\ n \notin Pending(sts[s])
    BY <2>1, <2>2, <2>3 DEF LineOK
  <2>5. s \in 1 .. Len(sts2) /\ sts2[s].id = pg.gen /\ n <= sts2[s].read
    BY <1>1, <1>2, <2>4
  <2>6. n \notin Pending(sts2[s])
    <3>1. ~(n > sts[s].read)
      BY <1>2, <2>4
    <3> QED
      BY <1>1, <2>4, <3>1 DEF Calm
  <2> QED
    BY <2>2, <2>3, <2>5, <2>6 DEF LineOK
<1>5. LinesOK(pg.lines, pg.gen, sts2)
  BY <1>3, <1>4 DEF LinesOK
<1>6. pg.stream # 0 => /\ pg.stream \in 1 .. Len(sts) /\ sts[pg.stream].id = pg.gen
                       /\ pg.stream \in 1 .. Len(sts2) /\ sts2[pg.stream].id = pg.gen
  BY <1>1, <1>2 DEF PageOK
<1>7. Unheard(pg.gen, sts2) => Blank(pg)
  BY <1>1, <1>2 DEF PageOK, Unheard
<1>8. ASSUME pg.ended \notin {"no", "resolve"}
      PROVE  \E s \in 1 .. Len(sts2) : sts2[s].id = pg.gen /\ sts2[s].finisher = "done"
  <2>1. PICK s \in 1 .. Len(sts) : sts[s].id = pg.gen /\ sts[s].finisher = "done"
    BY <1>8 DEF PageOK
  <2> QED
    BY <1>1, <1>2, <2>1 DEF Calm
<1> QED
  BY <1>3, <1>5, <1>6, <1>7, <1>8 DEF PageOK

\* Streams after steps that deliver nothing, and perhaps a new one.
Grows(sts, sts2) ==
  /\ sts \in Seq(StreamRec) /\ sts2 \in Seq(StreamRec) /\ Len(sts) <= Len(sts2)
  /\ \A s \in 1 .. Len(sts) : Quiet(sts[s], sts2[s])

\* A page needs no more than that.
LEMMA PageStays ==
  ASSUME NEW sts, NEW sts2, Grows(sts, sts2), NEW pg, PageOK(pg, sts)
  PROVE  PageOK(pg, sts2)
<1>1. /\ Len(sts) \in Nat /\ Len(sts2) \in Nat /\ Len(sts) <= Len(sts2)
      /\ \A s \in 1 .. Len(sts) : Quiet(sts[s], sts2[s]) /\ sts[s] \in StreamRec /\ sts2[s] \in StreamRec /\ s \in 1 .. Len(sts2)
  <2>1. sts \in Seq(StreamRec) /\ sts2 \in Seq(StreamRec) /\ Len(sts) <= Len(sts2)
    BY DEF Grows
  <2>2. Len(sts) \in Nat /\ Len(sts2) \in Nat
    BY <2>1, LenProperties
  <2>3. \A s \in 1 .. Len(sts) : s \in 1 .. Len(sts2)
    BY <2>1, <2>2
  <2> QED
    BY <2>1, <2>2, <2>3, ElementOfSeq DEF Grows
<1>2. CalmTo(sts, sts2)
  <2>1. \A s \in 1 .. Len(sts) : Calm(sts[s], sts2[s])
    BY <1>1 DEF Quiet, Calm
  <2> QED
    BY <2>1 DEF Grows, CalmTo
<1>3. ASSUME Lone(pg, sts2), ~pg.covered PROVE Accounted(pg, sts2)
  <2>1. PICK s \in 1 .. Len(sts) : s = pg.stream
    BY <1>3 DEF Lone, PageOK
  <2>2. Lone(pg, sts)
    BY <1>1, <1>3 DEF Lone, Quiet
  <2>3. Accounted(pg, sts) /\ pg \in PageRec
    BY <1>3, <2>2 DEF PageOK
  <2>4. PICK k \in Nat : k = Len(pg.lines) + pg.scrolled + pg.dropped
    BY <2>3, PageFields
  <2>5. /\ sts[s].read \in Nat /\ sts2[s].read \in Nat /\ Weight(sts[s]) \in Nat /\ Weight(sts2[s]) \in Nat
        /\ sts2[s].read + Weight(sts[s]) = sts[s].read + Weight(sts2[s])
    BY <1>1, StreamFields DEF Quiet
  <2>6. sts[s].read = k + Weight(sts[s])
    BY <2>1, <2>3, <2>4, Zenon DEF Accounted
  <2>7. sts2[s].read = k + Weight(sts2[s])
    <3>1. PICK x \in Nat, y \in Nat, v \in Nat, w \in Nat :
            x = sts[s].read /\ y = sts2[s].read /\ v = Weight(sts[s]) /\ w = Weight(sts2[s])
      BY <2>5
    <3>2. y + v = x + w /\ x = k + v
      BY <2>5, <2>6, <3>1, Zenon
    <3>3. y = k + w
      BY <3>2
    <3> QED
      BY <3>1, <3>3, Zenon
  <2> QED
    BY <2>1, <2>4, <2>7, Zenon DEF Accounted
<1> QED
  BY <1>2, <1>3, PageCalm

-----------------------------------------------------------------------------
(* Deliveries *)

\* A stream after the event loop has taken the batch b of one of its goroutines.
AfterSend(st, w) ==
  [st EXCEPT !.mail = [@ EXCEPT ![w] = NoBatch], ![w] = IF w = "flusher" THEN "idle" ELSE "stop"]
Delivered(st, st2, b) ==
  /\ st2.id = st.id /\ st2.read = st.read /\ Weight(st) = Weight(st2) + InFlight(b)
  /\ \A n \in Pending(st2) : n \in Pending(st) /\ n \notin ToSet(b.lines)
  /\ \A n \in ToSet(b.lines) : n \in Pending(st) /\ n <= st.read
  /\ b \in Batch /\ Once(b.lines)
  /\ st.finisher = "done" => st2.finisher = "done"
  /\ st.cancelled => st2.cancelled

\* That is what is left on its way.
LEMMA AfterSendOK ==
  ASSUME NEW g, NEW st, StreamOK(st, g), NEW w \in {"flusher", "finisher"}, st[w] = "send"
  PROVE  StreamOK(AfterSend(st, w), g) /\ Delivered(st, AfterSend(st, w), st.mail[w])
<1> PICK st2 : st2 = AfterSend(st, w)
  OBVIOUS
<1>1. st \in StreamRec /\ ReadersOK(st, g) /\ SendersOK(st) /\ BufferOK(st) /\ LinesApart(st)
  BY DEF StreamOK, BufferOK
<1>2. PICK e : e = <<>>
  OBVIOUS
<1>3. e \in Seq(LineNumbers) /\ Len(e) = 0 /\ ToSet(e) = {} /\ Once(e)
  BY <1>2, NoElements
<1>4. PICK n : n = NoBatch
  OBVIOUS
<1>5. n \in Batch /\ n.lines = e /\ n.dropped = 0
  BY <1>2, <1>3, <1>4 DEF NoBatch, Batch
<1>6. st.mail \in [{"finisher", "flusher"} -> Batch]
  BY <1>1, StreamFields
<1>7. PICK m : m = [st.mail EXCEPT ![w] = n]
  OBVIOUS
<1>8. m \in [{"finisher", "flusher"} -> Batch] /\ m[w] = n /\ \A v \in {"finisher", "flusher"} : v # w => m[v] = st.mail[v]
  BY <1>5, <1>6, <1>7
<1>9. /\ st2 \in StreamRec /\ st2.id = st.id /\ st2.read = st.read /\ st2.buf = st.buf /\ st2.dropped = st.dropped
      /\ st2.opening = st.opening /\ st2.reading = st.reading /\ st2.mail = m /\ st2.cancelled = st.cancelled
      /\ st2.finisher = (IF w = "finisher" THEN "stop" ELSE st.finisher)
      /\ st2.flusher = (IF w = "flusher" THEN "idle" ELSE st.flusher)
  <2>1. CASE w = "flusher"
    <3>1. st2 = [st EXCEPT !.mail = m, !.flusher = "idle"]
      BY <1>1, <1>4, <1>7, <2>1 DEF AfterSend, StreamRec
    <3> QED
      BY <1>1, <1>8, <2>1, <3>1 DEF StreamRec
  <2>2. CASE w = "finisher"
    <3>1. st2 = [st EXCEPT !.mail = m, !.finisher = "stop"]
      BY <1>1, <1>4, <1>7, <2>2 DEF AfterSend, StreamRec
    <3> QED
      BY <1>1, <1>8, <2>2, <3>1 DEF StreamRec, Finishers
  <2> QED
    BY <2>1, <2>2
<1>10. /\ Len(st.buf) \in Nat /\ st.dropped \in Nat /\ Weight(st) \in Nat /\ Weight(st) <= st.read /\ st.read \in Nat
       /\ st.opening \in Nat /\ st.reading \in Nat
       /\ InFlight(st.mail["flusher"]) \in Nat /\ InFlight(st.mail["finisher"]) \in Nat
  BY <1>1, StreamFields DEF BufferOK
<1>11. PICK l \in Nat, d \in Nat, x \in Nat, y \in Nat :
         l = Len(st.buf) /\ d = st.dropped /\ x = InFlight(st.mail["flusher"]) /\ y = InFlight(st.mail["finisher"])
  BY <1>10
<1>12. InFlight(n) = 0 /\ Weight(st) = l + d + x + y
  <2>1. InFlight(n) = 0
    BY <1>3, <1>5 DEF InFlight
  <2>2. Weight(st) = l + d + x + y
    BY <1>11, Zenon DEF Weight
  <2> QED
    BY <2>1, <2>2
<1>13. Weight(st) = Weight(st2) + InFlight(st.mail[w])
  <2>1. Weight(st2) = l + d + InFlight(m["flusher"]) + InFlight(m["finisher"])
    BY <1>9, <1>11, Zenon DEF Weight
  <2>2. CASE w = "flusher"
    <3>1. m["flusher"] = n /\ m["finisher"] = st.mail["finisher"]
      BY <1>8, <2>2
    <3>2. Weight(st2) = l + d + 0 + y
      BY <1>11, <1>12, <2>1, <3>1, Zenon
    <3>3. l + d + x + y = l + d + 0 + y + x
      OBVIOUS
    <3> QED
      BY <1>11, <1>12, <2>2, <3>2, <3>3, Zenon
  <2>3. CASE w = "finisher"
    <3>1. m["finisher"] = n /\ m["flusher"] = st.mail["flusher"]
      BY <1>8, <2>3
    <3>2. Weight(st2) = l + d + x + 0
      BY <1>11, <1>12, <2>1, <3>1, Zenon
    <3>3. l + d + x + y = l + d + x + 0 + y
      OBVIOUS
    <3> QED
      BY <1>11, <1>12, <2>3, <3>2, <3>3, Zenon
  <2> QED
    BY <2>2, <2>3
<1>14. /\ \A z \in Pending(st2) : z \in Pending(st) /\ z \notin ToSet(st.mail[w].lines)
       /\ \A z \in ToSet(st.mail[w].lines) : z \in Pending(st)
  <2>1. CASE w = "flusher"
    BY <1>1, <1>3, <1>5, <1>8, <1>9, <2>1 DEF Pending, LinesApart, Disjoint
  <2>2. CASE w = "finisher"
    BY <1>1, <1>3, <1>5, <1>8, <1>9, <2>2 DEF Pending, LinesApart, Disjoint
  <2> QED
    BY <2>1, <2>2
<1>15. LinesApart(st2)
  <2>1. Once(n.lines) /\ \A A : Disjoint(ToSet(n.lines), A) /\ Disjoint(A, ToSet(n.lines))
    BY <1>3, <1>5 DEF Disjoint
  <2>2. CASE w = "flusher"
    BY <1>1, <1>8, <1>9, <2>1, <2>2 DEF LinesApart
  <2>3. CASE w = "finisher"
    BY <1>1, <1>8, <1>9, <2>1, <2>3 DEF LinesApart
  <2> QED
    BY <2>2, <2>3
<1>16. BufferOK(st2)
  <2>1. Weight(st2) \in Nat /\ InFlight(st.mail[w]) \in Nat
    BY <1>1, <1>9, StreamFields
  <2>2. Weight(st2) <= st2.read
    BY <1>9, <1>10, <1>13, <2>1
  <2>3. Len(st2.buf) <= Cap
    BY <1>1, <1>9 DEF BufferOK
  <2>4. \A z \in Pending(st2) : z <= st2.read
    BY <1>1, <1>9, <1>14 DEF BufferOK
  <2> QED
    BY <1>15, <2>2, <2>3, <2>4 DEF BufferOK
<1>17. SendersOK(st2)
  BY <1>1, <1>4, <1>8, <1>9 DEF SendersOK
<1>18. ReadersOK(st2, g)
  <2>1. w = "finisher" => ~(st.opening + st.reading > 0)
    BY <1>1 DEF ReadersOK
  <2>2. st2.opening + st2.reading > 0 => st2.finisher = "wait"
    BY <1>1, <1>9, <2>1 DEF ReadersOK
  <2> QED
    BY <1>1, <1>9, <2>2, Zenon DEF ReadersOK
<1>19. StreamOK(st2, g)
  BY <1>9, <1>16, <1>17, <1>18 DEF StreamOK
<1>20. st.mail[w] \in Batch /\ Once(st.mail[w].lines)
  <2>1. CASE w = "flusher"
    BY <1>1, <1>6, <2>1 DEF LinesApart
  <2>2. CASE w = "finisher"
    BY <1>1, <1>6, <2>2 DEF LinesApart
  <2> QED
    BY <2>1, <2>2
<1>21. \A z \in ToSet(st.mail[w].lines) : z <= st.read
  BY <1>1, <1>14 DEF BufferOK
<1>22. st.finisher = "done" => st2.finisher = "done"
  BY <1>9
<1>23. st.cancelled => st2.cancelled
  BY <1>9, Zenon
<1> QED
  BY <1>9, <1>13, <1>14, <1>19, <1>20, <1>21, <1>22, <1>23, Zenon DEF Delivered

\* The streams before and after the delivery of a batch b of stream s.
Delivery(sts, sts2, s, b) ==
  /\ sts \in Seq(StreamRec) /\ sts2 \in Seq(StreamRec) /\ Len(sts2) = Len(sts) /\ s \in 1 .. Len(sts)
  /\ Delivered(sts[s], sts2[s], b) /\ \A r \in 1 .. Len(sts) : r # s => sts2[r] = sts[r]

\* Every other stream is as it was, and this one goes on.
LEMMA DeliveryCalm ==
  ASSUME NEW sts, NEW sts2, NEW s, NEW b, Delivery(sts, sts2, s, b)
  PROVE  CalmTo(sts, sts2) /\ \A r \in 1 .. Len(sts) : sts2[r].id = sts[r].id
<1>1. sts \in Seq(StreamRec) /\ sts2 \in Seq(StreamRec) /\ Len(sts2) = Len(sts) /\ s \in 1 .. Len(sts)
  BY DEF Delivery
<1>2. \A r \in 1 .. Len(sts) : sts[r] \in StreamRec /\ sts[r].read \in Nat
  BY <1>1, ElementOfSeq, StreamFields
<1>3. \A r \in 1 .. Len(sts) : Calm(sts[r], sts2[r])
  <2> TAKE r \in 1 .. Len(sts)
  <2>1. sts[r].read \in Nat /\ sts[r].read <= sts[r].read
    BY <1>2
  <2>2. CASE r = s
    BY <2>1, <2>2 DEF Delivery, Delivered, Calm
  <2>3. CASE r # s
    BY <2>1, <2>3 DEF Delivery, Calm
  <2> QED
    BY <2>2, <2>3
<1>4. Len(sts) <= Len(sts2)
  <2>1. Len(sts) \in Nat
    BY <1>1, LenProperties
  <2> QED
    BY <1>1, <2>1
<1> QED
  BY <1>1, <1>3, <1>4 DEF CalmTo, Calm

\* A page that does not take the batch is right without it if it is not one that counts
\* the lines of this stream.
LEMMA Missed ==
  ASSUME NEW sts, NEW sts2, NEW s, NEW b, Delivery(sts, sts2, s, b), NEW pg, PageOK(pg, sts),
         ~(Lone(pg, sts) /\ ~pg.covered /\ pg.gen = sts[s].id)
  PROVE  PageOK(pg, sts2)
<1>1. CalmTo(sts, sts2) /\ Len(sts2) = Len(sts) /\ \A r \in 1 .. Len(sts) : sts2[r].id = sts[r].id
  <2>1. CalmTo(sts, sts2) /\ \A r \in 1 .. Len(sts) : sts2[r].id = sts[r].id
    BY DeliveryCalm
  <2>2. Len(sts2) = Len(sts)
    BY DEF Delivery
  <2> QED
    BY <2>1, <2>2
<1>2. ASSUME Lone(pg, sts2), ~pg.covered PROVE Accounted(pg, sts2)
  <2>1. Lone(pg, sts)
    BY <1>1, <1>2 DEF Lone
  <2>2. Accounted(pg, sts) /\ pg.gen # sts[s].id
    BY <1>2, <2>1 DEF PageOK
  <2>3. pg.stream \in 1 .. Len(sts) /\ sts[pg.stream].id = pg.gen
    BY <2>1 DEF PageOK, Lone
  <2>4. sts2[pg.stream] = sts[pg.stream]
    BY <2>2, <2>3 DEF Delivery
  <2> QED
    BY <2>2, <2>4, Zenon DEF Accounted
<1> QED
  BY <1>1, <1>2, PageCalm

\* The lines of a batch, as a page keeps them.
Shown(s, b) == [i \in DOMAIN b.lines |-> <<s, b.lines[i]>>]

\* Update on a batch that has the page's id: its lines join those of the page, the oldest
\* go, and every one is counted.
LEMMA ShowOK ==
  ASSUME NEW sts, NEW sts2, NEW s, NEW b, Delivery(sts, sts2, s, b), Len(sts) <= MaxStreams,
         NEW pg, PageOK(pg, sts), pg.gen = sts[s].id
  PROVE  /\ PageOK(Show(pg, s, b), sts2) /\ Show(pg, s, b).gen = pg.gen /\ Show(pg, s, b).stream = pg.stream
         /\ Show(pg, s, b).covered = pg.covered
<1>1. /\ CalmTo(sts, sts2) /\ Len(sts2) = Len(sts) /\ \A r \in 1 .. Len(sts) : sts2[r].id = sts[r].id
      /\ s \in 1 .. Len(sts) /\ Delivered(sts[s], sts2[s], b)
  <2>1. CalmTo(sts, sts2) /\ \A r \in 1 .. Len(sts) : sts2[r].id = sts[r].id
    BY DeliveryCalm
  <2>2. Len(sts2) = Len(sts) /\ s \in 1 .. Len(sts) /\ Delivered(sts[s], sts2[s], b)
    BY DEF Delivery
  <2> QED
    BY <2>1, <2>2
<1>2. b \in Batch /\ Once(b.lines)
  BY <1>1 DEF Delivered
<1>3. b.lines \in Seq(LineNumbers) /\ b.dropped \in Nat /\ Len(b.lines) \in Nat
  <2>1. b.lines \in Seq(LineNumbers) /\ b.dropped \in {0} \cup LineNumbers
    BY <1>2 DEF Batch
  <2> QED
    BY <2>1, LenProperties, LogAssumption DEF LineNumbers
<1>4. pg \in PageRec /\ Len(pg.lines) <= MaxShown /\ LinesOK(pg.lines, pg.gen, sts) /\ Once(pg.lines)
  BY DEF PageOK, LinesOK
<1>5. /\ pg.lines \in Seq((1..MaxStreams) \X LineNumbers) /\ Len(pg.lines) \in Nat /\ pg.scrolled \in Nat /\ pg.dropped \in Nat
      /\ pg.stream \in Nat
  BY <1>4, PageFields
<1>6. /\ sts[s] \in StreamRec /\ sts2[s] \in StreamRec /\ sts[s].read \in Nat /\ sts2[s].read \in Nat
      /\ Weight(sts[s]) \in Nat /\ Weight(sts2[s]) \in Nat
  BY <1>1, ElementOfSeq, StreamFields DEF Delivery
<1>7. PICK r : r = Shown(s, b)
  OBVIOUS
<1>8. /\ r \in Seq((1..MaxStreams) \X LineNumbers) /\ Len(r) = Len(b.lines)
      /\ \A i \in 1 .. Len(r) : r[i] = <<s, b.lines[i]>> /\ b.lines[i] \in ToSet(b.lines) /\ b.lines[i] \in LineNumbers
  <2>1. \A i \in 1 .. Len(b.lines) : b.lines[i] \in ToSet(b.lines) /\ b.lines[i] \in LineNumbers
    BY <1>3, Elements
  <2>2. s \in 1 .. MaxStreams /\ DOMAIN b.lines = 1 .. Len(b.lines)
    BY <1>1, <1>3, LenProperties, LogAssumption DEF Delivery
  <2>3. r \in [1 .. Len(b.lines) -> (1..MaxStreams) \X LineNumbers]
    BY <1>7, <2>1, <2>2 DEF Shown
  <2>4. r \in Seq((1..MaxStreams) \X LineNumbers) /\ Len(r) = Len(b.lines)
    BY <1>3, <2>3, Listed
  <2>5. \A i \in 1 .. Len(b.lines) : r[i] = <<s, b.lines[i]>>
    BY <1>7, <2>2 DEF Shown
  <2> QED
    BY <2>1, <2>4, <2>5
<1>9. Once(r)
  BY <1>2, <1>8 DEF Once
<1>10. \A i \in 1 .. Len(pg.lines), j \in 1 .. Len(r) : pg.lines[i] # r[j]
  <2> SUFFICES ASSUME NEW i \in 1 .. Len(pg.lines), NEW j \in 1 .. Len(r), pg.lines[i] = r[j] PROVE FALSE
    OBVIOUS
  <2>1. r[j][1] = s /\ r[j][2] = b.lines[j] /\ r[j][2] \in Pending(sts[s])
    BY <1>1, <1>8 DEF Delivered
  <2>2. LineOK(r[j], pg.gen, sts)
    BY <1>4 DEF LinesOK
  <2> QED
    BY <2>1, <2>2 DEF LineOK
<1>11. PICK q : q = pg.lines \o r
  OBVIOUS
<1>12. /\ q \in Seq((1..MaxStreams) \X LineNumbers) /\ Len(q) = Len(pg.lines) + Len(r) /\ Once(q)
       /\ Either(q, pg.lines, r)
  BY <1>4, <1>5, <1>8, <1>9, <1>10, <1>11, Joined
<1>13. PICK o \in 0 .. Len(q) : o = IF Len(q) > MaxShown THEN Len(q) - MaxShown ELSE 0
  <2>1. PICK k \in Nat, m \in Nat : k = Len(q) /\ m = MaxShown
    BY <1>12, LenProperties, LogAssumption
  <2>2. (IF k > m THEN k - m ELSE 0) \in 0 .. k
    OBVIOUS
  <2> QED
    BY <2>1, <2>2
<1>14. PICK c : c = SubSeq(q, o + 1, Len(q))
  OBVIOUS
<1>15. c \in Seq((1..MaxStreams) \X LineNumbers) /\ Len(c) = Len(q) - o /\ Once(c) /\ Either(c, q, q)
  BY <1>12, <1>14, Cut
<1>16. Len(c) <= MaxShown /\ Len(c) + o = Len(pg.lines) + Len(b.lines) /\ Len(c) \in Nat /\ o \in Nat
  <2>1. PICK k \in Nat, m \in Nat, u \in Nat, v \in Nat :
          k = Len(q) /\ m = MaxShown /\ u = Len(pg.lines) /\ v = Len(b.lines)
    BY <1>3, <1>5, <1>12, LenProperties, LogAssumption
  <2>2. k = u + v
    BY <1>8, <1>12, <2>1, Zenon
  <2>3. o = IF k > m THEN k - m ELSE 0
    BY <1>13, <2>1, Zenon
  <2>4. k - o <= m /\ k - o + o = u + v /\ k - o \in Nat /\ o \in Nat
    BY <2>2, <2>3
  <2>5. Len(c) = k - o
    BY <1>15, <2>1, Zenon
  <2> QED
    BY <2>1, <2>4, <2>5, Zenon
<1>17. PICK x \in Nat : x = pg.scrolled + o
  BY <1>5, <1>16
<1>18. PICK y \in Nat : y = pg.dropped + b.dropped
  BY <1>3, <1>5
<1>19. PICK p : p = Show(pg, s, b)
  OBVIOUS
<1>20. p = [pg EXCEPT !.lines = c, !.scrolled = x, !.dropped = y]
  BY <1>4, <1>7, <1>11, <1>13, <1>14, <1>17, <1>18, <1>19 DEF Show, Shown, PageRec
<1>21. /\ p \in PageRec /\ p.lines = c /\ p.scrolled = x /\ p.dropped = y /\ p.gen = pg.gen /\ p.stream = pg.stream
       /\ p.covered = pg.covered /\ p.ended = pg.ended
  BY <1>4, <1>15, <1>20 DEF PageRec
<1>22. \A i \in 1 .. Len(pg.lines) : LineOK(pg.lines[i], pg.gen, sts2)
  <2> SUFFICES ASSUME NEW i \in 1 .. Len(pg.lines) PROVE LineOK(pg.lines[i], pg.gen, sts2)
    OBVIOUS
  <2>1. PICK l : l = pg.lines[i]
    OBVIOUS
  <2>2. LineOK(l, pg.gen, sts) /\ l[2] \in Nat
    BY <1>4, <2>1, PageFields DEF LinesOK
  <2>3. PICK k \in 1 .. Len(sts) : k = l[1]
    BY <2>2 DEF LineOK
  <2>4. sts2[k].id = pg.gen /\ l[2] <= sts2[k].read /\ l[2] \notin Pending(sts2[k])
    <3>1. sts[k].id = pg.gen /\ l[2] <= sts[k].read /\ l[2] \notin Pending(sts[k])
      BY <2>2, <2>3 DEF LineOK
    <3>2. CASE k = s
      BY <1>1, <3>1, <3>2 DEF Delivered
    <3>3. CASE k # s
      BY <3>1, <3>3 DEF Delivery
    <3> QED
      BY <3>2, <3>3
  <2> QED
    BY <1>1, <2>1, <2>3, <2>4 DEF LineOK
<1>23. \A j \in 1 .. Len(r) : LineOK(r[j], pg.gen, sts2)
  <2> SUFFICES ASSUME NEW j \in 1 .. Len(r) PROVE LineOK(r[j], pg.gen, sts2)
    OBVIOUS
  <2>1. r[j][1] = s /\ r[j][2] = b.lines[j] /\ b.lines[j] \in ToSet(b.lines)
    BY <1>8
  <2>2. b.lines[j] <= sts2[s].read /\ b.lines[j] \notin Pending(sts2[s])
    BY <1>1, <2>1 DEF Delivered
  <2> QED
    BY <1>1, <2>1, <2>2 DEF LineOK
<1>24. LinesOK(c, pg.gen, sts2)
  <2>1. \A i \in 1 .. Len(q) : LineOK(q[i], pg.gen, sts2)
    BY <1>12, <1>22, <1>23 DEF Either
  <2>2. \A i \in 1 .. Len(c) : LineOK(c[i], pg.gen, sts2)
    BY <1>15, <2>1 DEF Either
  <2> QED
    BY <1>15, <2>2 DEF LinesOK
<1>25. p.stream # 0 => p.stream \in 1 .. Len(sts2) /\ sts2[p.stream].id = p.gen
  BY <1>1, <1>21 DEF PageOK
<1>26. ~Unheard(p.gen, sts2)
  BY <1>1, <1>21 DEF Unheard
<1>27. p.ended \notin {"no", "resolve"} => \E k \in 1 .. Len(sts2) : sts2[k].id = p.gen /\ sts2[k].finisher = "done"
  <2>1. pg.ended \notin {"no", "resolve"} => \E k \in 1 .. Len(sts) : sts[k].id = pg.gen /\ sts[k].finisher = "done"
    BY DEF PageOK
  <2>2. \A k \in 1 .. Len(sts) : sts[k].finisher = "done" => sts2[k].finisher = "done"
    BY <1>1 DEF CalmTo, Calm
  <2> QED
    BY <1>1, <1>21, <2>1, <2>2
<1>28. ASSUME Lone(p, sts2), ~p.covered PROVE Accounted(p, sts2)
  <2>1. Lone(pg, sts) /\ ~pg.covered
    BY <1>1, <1>21, <1>28 DEF Lone
  <2>2. pg.stream = s
    BY <1>1, <2>1 DEF Lone
  <2>3. Accounted(pg, sts)
    BY <2>1 DEF PageOK
  <2>4. PICK a \in Nat, d \in Nat, e \in Nat, f \in Nat, m \in Nat, u \in Nat, v \in Nat :
          /\ a = Len(pg.lines) /\ d = pg.scrolled /\ e = pg.dropped /\ f = Weight(sts[s]) /\ m = Weight(sts2[s])
          /\ u = Len(b.lines) /\ v = b.dropped
    BY <1>3, <1>5, <1>6
  <2>5. sts[s].read = a + d + e + f /\ sts2[s].read = sts[s].read /\ f = m + (u + v)
    BY <1>1, <2>2, <2>3, <2>4, Zenon DEF Accounted, Delivered, InFlight
  <2>6. PICK l \in Nat, k \in Nat : l = Len(c) /\ k = o
    BY <1>16
  <2>7. l + k = a + u /\ x = d + k /\ y = e + v
    BY <1>16, <1>17, <1>18, <2>4, <2>6, Zenon
  <2>8. a + d + e + (m + (u + v)) = l + x + y + m
    BY <2>7
  <2>9. sts2[s].read = l + x + y + m
    BY <2>5, <2>8, Zenon
  <2> QED
    BY <1>21, <2>2, <2>4, <2>6, <2>9, Zenon DEF Accounted
<1>29. PageOK(p, sts2)
  BY <1>16, <1>21, <1>24, <1>25, <1>26, <1>27, <1>28 DEF PageOK
<1> QED
  BY <1>19, <1>21, <1>29

-----------------------------------------------------------------------------
(* Steps of one stream *)

\* Pages whose streams and covers are as before fit the stack as before.
LEMMA StackSame ==
  ASSUME NEW stk, NEW pgs, NEW pgs2, StackOK(stk, pgs), Len(pgs2) = Len(pgs),
         \A p \in 1 .. Len(pgs) : pgs2[p].stream = pgs[p].stream /\ pgs2[p].covered = pgs[p].covered
  PROVE  StackOK(stk, pgs2)
<1>1. stk \in Seq(Nat) /\ Len(stk) \in Nat /\ \A i \in 1 .. Len(stk) : stk[i] \in Nat /\ stk[i] <= Len(pgs)
  BY Elements DEF StackOK
<1>2. \A i \in 1 .. Len(stk) : stk[i] # 0 => stk[i] \in 1 .. Len(pgs)
  <2>1. \A i \in 1 .. Len(stk) : stk[i] # 0 => stk[i] >= 1
    BY <1>1
  <2> SUFFICES ASSUME NEW i \in 1 .. Len(stk), stk[i] # 0 PROVE stk[i] \in 1 .. Len(pgs)
    OBVIOUS
  <2>2. PICK k \in Nat : k = stk[i]
    BY <1>1
  <2>3. k <= Len(pgs) /\ k >= 1
    BY <1>1, <2>1, <2>2
  <2> QED
    BY <2>2, <2>3
<1>3. \A i \in 1 .. Len(stk) : i < Len(stk) /\ stk[i] # 0 => pgs2[stk[i]].covered
  BY <1>2, Zenon DEF StackOK
<1>4. \A p \in 1 .. Len(pgs2) : pgs2[p].stream # 0 => \E i \in 1 .. Len(stk) : stk[i] = p
  BY Zenon DEF StackOK
<1> QED
  BY <1>3, <1>4, Zenon DEF StackOK

\* A step that changes nothing of a stream is quiet.
LEMMA QuietSelf == \A st \in StreamRec : Quiet(st, st)
BY StreamFields DEF Quiet

AllOK(sts, g) == \A r \in 1 .. Len(sts) : StreamOK(sts[r], g)
Stepped(sts, u, g) == Grows(sts, u) /\ Len(u) = Len(sts) /\ AllOK(u, g)

\* The streams after a quiet step of one of them.
LEMMA QuietStep ==
  ASSUME NEW g, NEW sts \in Seq(StreamRec), AllOK(sts, g),
         NEW s \in 1 .. Len(sts), NEW st, StreamOK(st, g), Quiet(sts[s], st)
  PROVE  Stepped(sts, [sts EXCEPT ![s] = st], g)
<1> PICK u : u = [sts EXCEPT ![s] = st]
  OBVIOUS
<1>1. /\ u \in Seq(StreamRec) /\ Len(u) = Len(sts) /\ Len(sts) \in Nat
      /\ \A r \in 1 .. Len(sts) : u[r] = IF r = s THEN st ELSE sts[r]
  BY ExceptSeq, LenProperties DEF StreamOK
<1>2. \A r \in 1 .. Len(sts) : Quiet(sts[r], sts[r])
  BY QuietSelf, ElementOfSeq
<1>3. \A r \in 1 .. Len(sts) : Quiet(sts[r], u[r]) /\ StreamOK(u[r], g)
  BY <1>1, <1>2, Zenon DEF AllOK
<1>4. Len(sts) <= Len(u)
  BY <1>1
<1> QED
  BY <1>1, <1>3, <1>4 DEF Grows, AllOK, Stepped

\* A quiet step of streams keeps everything.
LEMMA StreamsStep ==
  ASSUME NEW sts, NEW pgs, NEW stk, NEW res, NEW g, LogOK(sts, pgs, stk, res, g),
         NEW sts2, Grows(sts, sts2), Len(sts2) = Len(sts), \A r \in 1 .. Len(sts) : StreamOK(sts2[r], g)
  PROVE  LogOK(sts2, pgs, stk, res, g)
<1>1. sts \in Seq(StreamRec) /\ sts2 \in Seq(StreamRec)
  BY DEF Grows
<1>2. \A p \in 1 .. Len(pgs) : PageOK(pgs[p], sts2)
  BY PageStays DEF LogOK
<1>3. CountsOK(sts2, pgs, res, g)
  BY Zenon DEF LogOK, CountsOK
<1>4. ASSUME g => Len(pgs) <= 1 PROVE Owned(sts2, pgs, stk)
  <2>1. \A s \in 1 .. Len(sts) : sts[s].cancelled => sts2[s].cancelled
    BY DEF Grows, Quiet
  <2> QED
    BY <1>4, <2>1, Zenon DEF LogOK, Owned
<1> QED
  BY <1>1, <1>2, <1>3, <1>4, Zenon DEF LogOK

\* A step of one stream that delivers nothing.
LEMMA OneStream ==
  ASSUME LogInv, NEW s \in 1 .. Len(streams), NEW st, StreamOK(st, grouped), Quiet(streams[s], st),
         streams' = [streams EXCEPT ![s] = st], UNCHANGED <<pages, stack, resolving, blocked, grouped>>
  PROVE  LogInv'
<1>1. LogOK(streams, pages, stack, resolving, grouped) /\ grouped \in BOOLEAN /\ blocked \in BOOLEAN
  BY Zenon DEF LogInv
<1>2. streams \in Seq(StreamRec) /\ \A r \in 1 .. Len(streams) : StreamOK(streams[r], grouped)
  BY <1>1, Zenon DEF LogOK
<1>3. PICK u : u = [streams EXCEPT ![s] = st]
  OBVIOUS
<1>4. Grows(streams, u) /\ Len(u) = Len(streams) /\ \A r \in 1 .. Len(streams) : StreamOK(u[r], grouped)
  <2>1. AllOK(streams, grouped)
    BY <1>2, Zenon DEF AllOK
  <2>2. Stepped(streams, u, grouped)
    BY <1>2, <1>3, <2>1, QuietStep
  <2> QED
    BY <2>2, Zenon DEF AllOK, Stepped
<1>5. LogOK(u, pages, stack, resolving, grouped)
  BY <1>1, <1>4, StreamsStep
<1> QED
  BY <1>1, <1>3, <1>5, Zenon DEF LogInv

\* What a step of a stream starts from.
LEMMA StreamAt ==
  ASSUME LogInv, NEW s \in DOMAIN streams
  PROVE  /\ s \in 1 .. Len(streams) /\ streams \in Seq(StreamRec) /\ streams[s] \in StreamRec
         /\ StreamOK(streams[s], grouped) /\ grouped \in BOOLEAN
<1>1. streams \in Seq(StreamRec) /\ \A r \in 1 .. Len(streams) : StreamOK(streams[r], grouped)
  BY Zenon DEF LogInv, LogOK
<1>2. s \in 1 .. Len(streams)
  BY <1>1, LenProperties
<1>3. grouped \in BOOLEAN
  BY Zenon DEF LogInv
<1> QED
  BY <1>1, <1>2, <1>3, Zenon DEF StreamOK

\* A container's log is opened.
LEMMA OpenSucceedsKeeps ==
  ASSUME LogInv, NEW s \in DOMAIN streams, OpenSucceeds(s)
  PROVE  LogInv'
<1>1. PICK st : st = streams[s]
  OBVIOUS
<1>2. s \in 1 .. Len(streams) /\ streams \in Seq(StreamRec) /\ st \in StreamRec /\ StreamOK(st, grouped)
  BY <1>1, StreamAt
<1>3. /\ st.opening \in Nat /\ st.reading \in Nat /\ st.read \in Nat /\ st.opening > 0
      /\ st.finisher \in Finishers /\ st.flusher \in {"idle", "send", "done"} /\ st.err \in {"none", "open", "read"}
      /\ st.finisher = "wait" /\ st.read + st.opening <= MaxLines + MaxSources
      /\ (st.finisher # "send" => st.mail["finisher"] = NoBatch) /\ (st.flusher # "send" => st.mail["flusher"] = NoBatch)
  <2>1. /\ st.opening \in Nat /\ st.reading \in Nat /\ st.read \in Nat /\ st.opening > 0
        /\ st.finisher \in Finishers /\ st.flusher \in {"idle", "send", "done"} /\ st.err \in {"none", "open", "read"}
    BY <1>1, <1>2, StreamFields DEF OpenSucceeds
  <2> QED
    BY <1>2, <2>1 DEF StreamOK, ReadersOK, SendersOK
<1>4. PICK o \in Nat, r \in Nat : o = st.opening - 1 /\ r = st.reading + 1
  BY <1>3
<1>5. o + r <= st.opening + st.reading /\ st.read + o <= MaxLines + MaxSources
  BY <1>3, <1>4, LogAssumption
<1>6. PICK t : t = Turned(st, o, r, st.finisher, st.flusher, st.err)
  OBVIOUS
<1>7. StreamOK(t, grouped) /\ Quiet(st, t)
  <2>1. Fits(st, o, r, st.finisher, st.flusher, st.err)
    BY <1>3, <1>5, Zenon DEF Fits
  <2> QED
    BY <1>2, <1>6, <2>1, TurnOK
<1>8. t = [st EXCEPT !.opening = o, !.reading = r]
  BY <1>2, <1>6 DEF Turned, StreamRec
<1>9. streams' = [streams EXCEPT ![s] = t]
  <2>1. DOMAIN streams = 1 .. Len(streams)
    BY <1>2, LenProperties
  <2> QED
    BY <1>1, <1>2, <1>4, <1>8, <2>1 DEF OpenSucceeds, StreamRec
<1> QED
  BY <1>1, <1>2, <1>7, <1>9, OneStream DEF OpenSucceeds

\* One reader less, with whatever it leaves behind as its error: a Session that fails to open
\* its log, or the end of a scan.
LEMMA ReaderLess ==
  ASSUME NEW st, StreamOK(st, grouped), NEW o \in Nat, NEW r \in Nat, o + r <= st.opening + st.reading, o <= st.opening,
         st.opening + st.reading > 0, NEW fi \in {"wait", "stop", "drain"}, o + r > 0 => fi = "wait",
         NEW e \in {"none", "open", "read"}
  PROVE  /\ StreamOK(Turned(st, o, r, fi, st.flusher, e), grouped) /\ Quiet(st, Turned(st, o, r, fi, st.flusher, e))
         /\ Turned(st, o, r, fi, st.flusher, e).finisher = fi
         /\ Turned(st, o, r, fi, st.flusher, e).opening = o /\ Turned(st, o, r, fi, st.flusher, e).reading = r
<1>1. st \in StreamRec /\ ReadersOK(st, grouped) /\ SendersOK(st)
  BY DEF StreamOK
<1>2. /\ st.opening \in Nat /\ st.reading \in Nat /\ st.read \in Nat /\ st.flusher \in {"idle", "send", "done"}
      /\ st.finisher = "wait" /\ st.read + st.opening <= MaxLines + MaxSources /\ MaxLines + MaxSources \in Nat
      /\ st.mail["finisher"] = NoBatch /\ (st.flusher # "send" => st.mail["flusher"] = NoBatch)
  BY <1>1, StreamFields, LogAssumption DEF ReadersOK, SendersOK
<1>3. st.read + o <= MaxLines + MaxSources
  BY <1>2
<1>4. fi \in Finishers /\ (fi # "send" => st.mail["finisher"] = NoBatch) /\ (st.finisher = "done" => fi = "done")
  BY <1>2 DEF Finishers
<1>5. /\ st.flusher \in {"idle", "send", "done"} /\ (st.flusher # "send" => st.mail["flusher"] = NoBatch)
  BY <1>2
<1>6. Fits(st, o, r, fi, st.flusher, e)
  BY <1>3, <1>4, <1>5, Zenon DEF Fits
<1> QED
  BY <1>6, TurnOK

\* The last reader becomes the finisher.
LEMMA ReaderDoneOK ==
  ASSUME NEW st, StreamOK(st, grouped), st.finisher = "wait", st.opening + st.reading = 0
  PROVE  StreamOK(ReaderDone(st), grouped) /\ Quiet(st, ReaderDone(st))
<1>1. st \in StreamRec /\ SendersOK(st) /\ ReadersOK(st, grouped)
  BY DEF StreamOK
<1>2. /\ st.opening \in Nat /\ st.reading \in Nat /\ st.flusher \in {"idle", "send", "done"}
      /\ st.err \in {"none", "open", "read"} /\ st.mail["finisher"] = NoBatch
      /\ (st.flusher # "send" => st.mail["flusher"] = NoBatch) /\ "drain" \in Finishers
      /\ st.read + st.opening <= MaxLines + MaxSources
  BY <1>1, StreamFields DEF SendersOK, Finishers, ReadersOK
<1>3. PICK o \in Nat, r \in Nat : o = st.opening /\ r = st.reading
  BY <1>2
<1>4. ~(o + r > 0) /\ o + r <= st.opening + st.reading
  BY <1>3
<1>5. PICK t : t = Turned(st, o, r, "drain", st.flusher, st.err)
  OBVIOUS
<1>6. StreamOK(t, grouped) /\ Quiet(st, t)
  <2>1. st.read + o <= MaxLines + MaxSources
    BY <1>2, <1>3
  <2>2. Fits(st, o, r, "drain", st.flusher, st.err)
    BY <1>2, <1>4, <2>1 DEF Fits
  <2> QED
    BY <1>5, <2>2, TurnOK
<1>7. ReaderDone(st) = t
  BY <1>1, <1>3, <1>5 DEF ReaderDone, Turned, StreamRec
<1> QED
  BY <1>6, <1>7

\* The log of a container cannot be opened: a Session ends, a Group writes a line.
LEMMA OpenFailsKeeps ==
  ASSUME LogInv, NEW s \in DOMAIN streams, OpenFails(s)
  PROVE  LogInv'
<1>1. PICK st : st = streams[s]
  OBVIOUS
<1>2. /\ s \in 1 .. Len(streams) /\ streams \in Seq(StreamRec) /\ st \in StreamRec /\ StreamOK(st, grouped)
      /\ grouped \in BOOLEAN
  BY <1>1, StreamAt
<1>3. st.opening \in Nat /\ st.reading \in Nat /\ st.read \in Nat /\ st.opening > 0 /\ ReadersOK(st, grouped)
      /\ st.err \in {"none", "open", "read"}
  BY <1>1, <1>2, StreamFields DEF OpenFails, StreamOK
<1>4. PICK o \in Nat : o = st.opening - 1
  BY <1>3
<1>5. /\ o + st.reading <= st.opening + st.reading /\ o <= st.opening /\ st.opening + st.reading > 0 /\ st.reading \in Nat
      /\ (~grouped => o + st.reading = 0)
  <2>1. ~grouped => st.opening + st.reading <= 1
    BY <1>3 DEF ReadersOK
  <2> QED
    BY <1>3, <1>4, <2>1
<1>6. \E t : StreamOK(t, grouped) /\ Quiet(st, t) /\ streams' = [streams EXCEPT ![s] = t]
  <2>1. CASE ~grouped
    <3>1. PICK t : t = Turned(st, o, st.reading, "stop", st.flusher, "open")
      OBVIOUS
    <3>2. StreamOK(t, grouped) /\ Quiet(st, t)
      <4>1. ~(o + st.reading > 0)
        BY <1>5, <2>1
      <4> QED
        BY <1>2, <1>5, <3>1, <4>1, ReaderLess
    <3>3. t = [[st EXCEPT !.opening = o] EXCEPT !.finisher = "stop", !.err = "open"]
      BY <1>2, <3>1 DEF Turned, StreamRec
    <3>4. [st EXCEPT !.opening = o] = [streams[s] EXCEPT !.opening = @ - 1]
      BY <1>1, <1>2, <1>4 DEF StreamRec
    <3>5. streams' = [streams EXCEPT ![s] = t]
      BY <2>1, <3>3, <3>4, Zenon DEF OpenFails
    <3> QED
      BY <3>2, <3>5
  <2>2. CASE grouped
    <3>1. PICK a : a = Turned(st, o, st.reading, "wait", st.flusher, st.err)
      OBVIOUS
    <3>2. /\ StreamOK(a, grouped) /\ Quiet(st, a) /\ a.finisher = "wait" /\ a.opening = o /\ a.reading = st.reading
      BY <1>2, <1>3, <1>5, <3>1, ReaderLess
    <3>3. a = [st EXCEPT !.opening = o] /\ a.read = st.read
      <4>1. st.finisher = "wait"
        BY <1>3, <1>5 DEF ReadersOK
      <4> QED
        BY <1>2, <3>1, <4>1 DEF Turned, StreamRec
    <3>4. a.read + a.opening < MaxLines + MaxSources
      <4>1. st.read + st.opening <= MaxLines + MaxSources /\ MaxLines + MaxSources \in Nat
        BY <1>3, LogAssumption DEF ReadersOK
      <4> QED
        BY <1>3, <1>4, <3>2, <3>3, <4>1
    <3>5. PICK b : b = AddLine(a)
      OBVIOUS
    <3>6. /\ StreamOK(b, grouped) /\ Quiet(a, b) /\ b.opening = a.opening /\ b.reading = a.reading /\ b.finisher = a.finisher
      BY <3>2, <3>4, <3>5, AddLineOK
    <3>7. PICK t : t = ReaderDone(b)
      OBVIOUS
    <3>8. StreamOK(t, grouped) /\ Quiet(b, t)
      <4>1. CASE b.opening + b.reading = 0
        BY <3>2, <3>6, <3>7, <4>1, ReaderDoneOK
      <4>2. CASE b.opening + b.reading # 0
        <5>1. t = b
          BY <3>7, <4>2 DEF ReaderDone
        <5>2. Quiet(b, b)
          BY <3>6, QuietSelf DEF StreamOK
        <5> QED
          BY <3>6, <5>1, <5>2
      <4> QED
        BY <4>1, <4>2
    <3>9. Quiet(st, t)
      <4>1. st \in StreamRec /\ a \in StreamRec /\ b \in StreamRec /\ t \in StreamRec
        BY <1>2, <3>2, <3>6, <3>8 DEF StreamOK
      <4>2. Quiet(st, b)
        BY <3>2, <3>6, <4>1, QuietTwice
      <4> QED
        BY <3>8, <4>1, <4>2, QuietTwice
    <3>10. [st EXCEPT !.opening = o] = [streams[s] EXCEPT !.opening = @ - 1]
      BY <1>1, <1>2, <1>4 DEF StreamRec
    <3>11. streams' = [streams EXCEPT ![s] = t]
      BY <2>2, <3>3, <3>5, <3>7, <3>10, Zenon DEF OpenFails
    <3> QED
      BY <3>8, <3>9, <3>11
  <2> QED
    BY <2>1, <2>2
<1>7. PICK t : StreamOK(t, grouped) /\ Quiet(st, t) /\ streams' = [streams EXCEPT ![s] = t]
  BY <1>6
<1> QED
  BY <1>1, <1>2, <1>7, OneStream DEF OpenFails

\* A line is read, as long as the log has more.
LEMMA ReadLineKeeps ==
  ASSUME LogInv, NEW s \in DOMAIN streams, ReadLine(s)
  PROVE  LogInv'
<1>1. PICK st : st = streams[s]
  OBVIOUS
<1>2. s \in 1 .. Len(streams) /\ st \in StreamRec /\ StreamOK(st, grouped)
  BY <1>1, StreamAt
<1>3. st.read + st.opening < MaxLines + MaxSources
  <2>1. /\ st.opening \in Nat /\ st.reading \in Nat /\ st.read \in Nat /\ st.reading > 0 /\ st.read < MaxLines
        /\ st.opening + st.reading <= MaxSources /\ MaxLines \in Nat /\ MaxSources \in Nat
    BY <1>1, <1>2, StreamFields, LogAssumption DEF ReadLine, StreamOK, ReadersOK
  <2> QED
    BY <2>1
<1>4. PICK t : t = AddLine(st)
  OBVIOUS
<1>5. StreamOK(t, grouped) /\ Quiet(st, t)
  BY <1>2, <1>3, <1>4, AddLineOK
<1>6. streams' = [streams EXCEPT ![s] = t]
  BY <1>1, <1>4, Zenon DEF ReadLine
<1> QED
  BY <1>1, <1>2, <1>5, <1>6, OneStream DEF ReadLine

\* A scan ends.
LEMMA ScanEndsKeeps ==
  ASSUME LogInv, NEW s \in DOMAIN streams, ScanEnds(s)
  PROVE  LogInv'
<1>1. PICK st : st = streams[s]
  OBVIOUS
<1>2. s \in 1 .. Len(streams) /\ st \in StreamRec /\ StreamOK(st, grouped)
  BY <1>1, StreamAt
<1>3. PICK e \in {"none", "read"} :
        streams' = [streams EXCEPT ![s] = ReaderDone([streams[s] EXCEPT !.reading = @ - 1, !.err = e])]
  BY DEF ScanEnds
<1>4. st.opening \in Nat /\ st.reading \in Nat /\ st.reading > 0 /\ ReadersOK(st, grouped)
  BY <1>1, <1>2, StreamFields DEF ScanEnds, StreamOK
<1>5. PICK r \in Nat : r = st.reading - 1
  BY <1>4
<1>6. /\ st.opening + r <= st.opening + st.reading /\ st.opening <= st.opening /\ st.opening + st.reading > 0
      /\ st.finisher = "wait" /\ e \in {"none", "open", "read"}
  <2>1. st.opening + r <= st.opening + st.reading /\ st.opening <= st.opening /\ st.opening + st.reading > 0
    BY <1>4, <1>5
  <2> QED
    BY <1>4, <2>1 DEF ReadersOK
<1>7. PICK a : a = Turned(st, st.opening, r, "wait", st.flusher, e)
  OBVIOUS
<1>8. StreamOK(a, grouped) /\ Quiet(st, a) /\ a.finisher = "wait"
  BY <1>2, <1>4, <1>6, <1>7, ReaderLess
<1>9. a = [st EXCEPT !.reading = r, !.err = e]
  BY <1>2, <1>6, <1>7 DEF Turned, StreamRec
<1>10. PICK t : t = ReaderDone(a)
  OBVIOUS
<1>11. StreamOK(t, grouped) /\ Quiet(a, t)
  <2>1. CASE a.opening + a.reading = 0
    BY <1>8, <1>10, <2>1, ReaderDoneOK
  <2>2. CASE a.opening + a.reading # 0
    <3>1. t = a
      BY <1>10, <2>2 DEF ReaderDone
    <3>2. Quiet(a, a)
      BY <1>8, QuietSelf DEF StreamOK
    <3> QED
      BY <1>8, <3>1, <3>2
  <2> QED
    BY <2>1, <2>2
<1>12. Quiet(st, t)
  <2>1. a \in StreamRec /\ t \in StreamRec
    BY <1>8, <1>11 DEF StreamOK
  <2> QED
    BY <1>2, <1>8, <1>11, <2>1, QuietTwice
<1>13. [streams[s] EXCEPT !.reading = @ - 1, !.err = e] = a
  BY <1>1, <1>2, <1>5, <1>9 DEF StreamRec
<1>14. streams' = [streams EXCEPT ![s] = t]
  BY <1>3, <1>10, <1>13, Zenon
<1> QED
  BY <1>1, <1>2, <1>11, <1>12, <1>14, OneStream DEF ScanEnds

\* The buffer has been handed over, and its new owner goes on to send it, or to stop if
\* there was nothing.
LEMMA HandStep ==
  ASSUME NEW st, StreamOK(st, grouped), NEW w \in {"finisher", "flusher"}, st.mail[w] = NoBatch,
         NEW fi \in Finishers, NEW fl \in {"idle", "send", "done"},
         st.opening + st.reading > 0 => fi = "wait", st.finisher = "done" => fi = "done",
         fi # "send" => Drained(st, w).mail["finisher"] = NoBatch,
         fl # "send" => Drained(st, w).mail["flusher"] = NoBatch
  PROVE  /\ StreamOK([Drained(st, w) EXCEPT !.finisher = fi, !.flusher = fl], grouped)
         /\ Quiet(st, [Drained(st, w) EXCEPT !.finisher = fi, !.flusher = fl])
<1>1. PICK d : d = Drained(st, w)
  OBVIOUS
<1>2. HandedOver(st, d, w)
  BY <1>1, DrainedOK
<1>3. PICK t : t = [d EXCEPT !.finisher = fi, !.flusher = fl]
  OBVIOUS
<1>4. d \in StreamRec /\ Weight(d) = Weight(st) /\ Pending(d) = Pending(st) /\ BufferOK(d)
  BY <1>2, Zenon DEF HandedOver
<1>5. /\ d.id = st.id /\ d.read = st.read /\ d.opening = st.opening /\ d.reading = st.reading
      /\ d.cancelled = st.cancelled
  BY <1>2, Zenon DEF HandedOver
<1>6. /\ t \in StreamRec /\ Alike(d, t) /\ t.opening = st.opening /\ t.reading = st.reading /\ t.finisher = fi
      /\ t.flusher = fl /\ t.cancelled = st.cancelled /\ t.mail = d.mail
  BY <1>3, <1>4, <1>5 DEF StreamRec, Alike
<1>7. Weight(t) = Weight(st) /\ Pending(t) = Pending(st) /\ t.read = st.read /\ t.id = st.id
  BY <1>4, <1>5, <1>6, Zenon DEF Alike, Weight, Pending
<1>8. LinesApart(t) /\ Len(t.buf) <= Cap
  BY <1>4, <1>6, Zenon DEF Alike, LinesApart, BufferOK
<1>9. BufferOK(t)
  BY <1>4, <1>5, <1>7, <1>8, Zenon DEF BufferOK
<1>10. SendersOK(t)
  BY <1>1, <1>6, Zenon DEF SendersOK
<1>11. ReadersOK(t, grouped)
  BY <1>6, <1>7, Zenon DEF ReadersOK, StreamOK
<1>12. StreamOK(t, grouped)
  BY <1>6, <1>9, <1>10, <1>11 DEF StreamOK
<1>13. st.read \in Nat /\ Weight(st) \in Nat
  BY StreamFields DEF StreamOK
<1>14. st.cancelled => t.cancelled
  BY <1>6, Zenon
<1>15. Quiet(st, t)
  BY <1>6, <1>7, <1>13, <1>14 DEF Quiet
<1> QED
  BY <1>1, <1>3, <1>12, <1>15

\* The batch of a goroutine after it has drained.
LEMMA HandedBatch ==
  ASSUME NEW st, StreamOK(st, grouped), NEW w \in {"finisher", "flusher"}, st.mail[w] = NoBatch
  PROVE  /\ Drained(st, w) \in StreamRec /\ Drained(st, w).finisher = st.finisher /\ Drained(st, w).flusher = st.flusher
         /\ \A v \in {"finisher", "flusher"} : v # w => Drained(st, w).mail[v] = st.mail[v]
         /\ NothingToSend(st) => Drained(st, w).mail[w] = NoBatch
<1>1. PICK d : d = Drained(st, w)
  OBVIOUS
<1>2. HandedOver(st, d, w)
  BY <1>1, DrainedOK
<1>3. /\ d \in StreamRec /\ d.finisher = st.finisher /\ d.flusher = st.flusher
      /\ \A v \in {"finisher", "flusher"} : v # w => d.mail[v] = st.mail[v]
      /\ d.mail[w] = [lines |-> st.buf, dropped |-> st.dropped]
  BY <1>2, Zenon DEF HandedOver
<1>4. NothingToSend(st) => d.mail[w] = NoBatch
  BY <1>3, Zenon DEF NothingToSend, NoBatch
<1> QED
  BY <1>1, <1>3, <1>4

\* The finisher's drain: it goes on to send, or to stop the flusher.
LEMMA FinalDrainKeeps ==
  ASSUME LogInv, NEW s \in DOMAIN streams, FinalDrain(s)
  PROVE  LogInv'
<1>1. PICK st : st = streams[s]
  OBVIOUS
<1>2. s \in 1 .. Len(streams) /\ st \in StreamRec /\ StreamOK(st, grouped)
  BY <1>1, StreamAt
<1>3. /\ st.finisher = "drain" /\ st.mail["finisher"] = NoBatch /\ st.flusher \in {"idle", "send", "done"}
      /\ ~(st.opening + st.reading > 0) /\ (st.flusher # "send" => st.mail["flusher"] = NoBatch)
  BY <1>1, <1>2, StreamFields DEF FinalDrain, StreamOK, SendersOK, ReadersOK
<1>4. PICK d : d = Drained(st, "finisher")
  OBVIOUS
<1>5. /\ d \in StreamRec /\ d.flusher = st.flusher /\ (st.flusher # "send" => d.mail["flusher"] = NoBatch)
      /\ (NothingToSend(st) => d.mail["finisher"] = NoBatch)
  BY <1>2, <1>3, <1>4, HandedBatch
<1>6. PICK fi \in Finishers : fi = IF NothingToSend(st) THEN "stop" ELSE "send"
  BY DEF Finishers
<1>7. fi # "send" => d.mail["finisher"] = NoBatch
  BY <1>5, <1>6
<1>8. PICK t : t = [d EXCEPT !.finisher = fi, !.flusher = st.flusher]
  OBVIOUS
<1>9. StreamOK(t, grouped) /\ Quiet(st, t)
  BY <1>2, <1>3, <1>4, <1>5, <1>7, <1>8, HandStep
<1>10. t = [d EXCEPT !.finisher = fi]
  BY <1>5, <1>8 DEF StreamRec
<1>11. streams' = [streams EXCEPT ![s] = t]
  BY <1>1, <1>4, <1>6, <1>10, Zenon DEF FinalDrain
<1> QED
  BY <1>1, <1>2, <1>9, <1>11, OneStream DEF FinalDrain

\* A tick of the flusher, when there is something to send.
LEMMA FlushTickKeeps ==
  ASSUME LogInv, NEW s \in DOMAIN streams, FlushTick(s)
  PROVE  LogInv'
<1>1. PICK st : st = streams[s]
  OBVIOUS
<1>2. s \in 1 .. Len(streams) /\ st \in StreamRec /\ StreamOK(st, grouped)
  BY <1>1, StreamAt
<1>3. /\ st.flusher = "idle" /\ st.mail["flusher"] = NoBatch /\ st.finisher \in Finishers
      /\ (st.opening + st.reading > 0 => st.finisher = "wait") /\ (st.finisher # "send" => st.mail["finisher"] = NoBatch)
  BY <1>1, <1>2, StreamFields DEF FlushTick, StreamOK, SendersOK, ReadersOK
<1>4. PICK d : d = Drained(st, "flusher")
  OBVIOUS
<1>5. d \in StreamRec /\ d.finisher = st.finisher /\ (st.finisher # "send" => d.mail["finisher"] = NoBatch)
  BY <1>2, <1>3, <1>4, HandedBatch
<1>6. PICK t : t = [d EXCEPT !.finisher = st.finisher, !.flusher = "send"]
  OBVIOUS
<1>7. StreamOK(t, grouped) /\ Quiet(st, t)
  BY <1>2, <1>3, <1>4, <1>5, <1>6, HandStep
<1>8. t = [d EXCEPT !.flusher = "send"]
  BY <1>5, <1>6 DEF StreamRec
<1>9. streams' = [streams EXCEPT ![s] = t]
  BY <1>1, <1>4, <1>8, Zenon DEF FlushTick
<1> QED
  BY <1>1, <1>2, <1>7, <1>9, OneStream DEF FlushTick

\* The flusher returns.
LEMMA FlushLoopEndsKeeps ==
  ASSUME LogInv, NEW s \in DOMAIN streams, FlushLoopEnds(s)
  PROVE  LogInv'
<1>1. PICK st : st = streams[s]
  OBVIOUS
<1>2. s \in 1 .. Len(streams) /\ st \in StreamRec /\ StreamOK(st, grouped)
  BY <1>1, StreamAt
<1>3. /\ st.flusher = "idle" /\ st.mail["flusher"] = NoBatch /\ st.finisher \in Finishers
      /\ (st.opening + st.reading > 0 => st.finisher = "wait") /\ (st.finisher # "send" => st.mail["finisher"] = NoBatch)
      /\ st.opening \in Nat /\ st.reading \in Nat /\ st.err \in {"none", "open", "read"}
      /\ st.read + st.opening <= MaxLines + MaxSources
  BY <1>1, <1>2, StreamFields DEF FlushLoopEnds, StreamOK, SendersOK, ReadersOK
<1>4. PICK t : t = Turned(st, st.opening, st.reading, st.finisher, "done", st.err)
  OBVIOUS
<1>5. st.opening + st.reading <= st.opening + st.reading
  BY <1>3
<1>6. StreamOK(t, grouped) /\ Quiet(st, t)
  <2>1. Fits(st, st.opening, st.reading, st.finisher, "done", st.err)
    BY <1>3, <1>5 DEF Fits
  <2> QED
    BY <1>2, <1>4, <2>1, TurnOK
<1>7. t = [st EXCEPT !.flusher = "done"]
  BY <1>2, <1>4 DEF Turned, StreamRec
<1>8. streams' = [streams EXCEPT ![s] = t]
  <2>1. streams' = [streams EXCEPT ![s] = [streams[s] EXCEPT !.flusher = "done"]]
    BY Zenon DEF FlushLoopEnds
  <2> QED
    BY <1>1, <1>7, <2>1, Zenon
<1> QED
  BY <1>1, <1>2, <1>6, <1>8, OneStream DEF FlushLoopEnds

\* The later of two changes stays.
LEMMA SetTwice == \A f, x, a, b : [[f EXCEPT ![x] = a] EXCEPT ![x] = b] = [f EXCEPT ![x] = b]
OBVIOUS

\* The finisher stops the flusher and goes on to tell that the stream has ended.
LEMMA StopFlushingKeeps ==
  ASSUME LogInv, NEW s \in DOMAIN streams, StopFlushing(s)
  PROVE  LogInv'
<1>1. PICK st : st = streams[s]
  OBVIOUS
<1>2. s \in 1 .. Len(streams) /\ st \in StreamRec /\ StreamOK(st, grouped)
  BY <1>1, StreamAt
<1>3. /\ st.finisher = "stop" /\ st.mail["finisher"] = NoBatch /\ st.flusher \in {"idle", "send", "done"}
      /\ ~(st.opening + st.reading > 0) /\ (st.flusher # "send" => st.mail["flusher"] = NoBatch)
      /\ st.opening \in Nat /\ st.reading \in Nat /\ st.err \in {"none", "open", "read"}
      /\ st.read + st.opening <= MaxLines + MaxSources /\ "end" \in Finishers
  BY <1>1, <1>2, StreamFields DEF StopFlushing, StreamOK, SendersOK, ReadersOK, Finishers
<1>4. PICK a : a = Turned(st, st.opening, st.reading, "end", st.flusher, st.err)
  OBVIOUS
<1>5. st.opening + st.reading <= st.opening + st.reading
  BY <1>3
<1>6. StreamOK(a, grouped) /\ Quiet(st, a)
  <2>1. Fits(st, st.opening, st.reading, "end", st.flusher, st.err)
    BY <1>3, <1>5 DEF Fits
  <2> QED
    BY <1>2, <1>4, <2>1, TurnOK
<1>7. a \in StreamRec /\ a.cancelled \in BOOLEAN
  BY <1>6, StreamFields DEF StreamOK
<1>8. PICK f \in BOOLEAN : f = TRUE
  OBVIOUS
<1>9. PICK t : t = Stopped(a, a.cancelled, f)
  OBVIOUS
<1>10. StreamOK(t, grouped) /\ Quiet(a, t)
  BY <1>6, <1>7, <1>9, StopOK
<1>11. Quiet(st, t)
  <2>1. t \in StreamRec
    BY <1>10 DEF StreamOK
  <2> QED
    BY <1>2, <1>6, <1>7, <1>10, <2>1, QuietTwice
<1>12. t = [[st EXCEPT !.flushStop = f] EXCEPT !.finisher = "end"]
  BY <1>2, <1>4, <1>7, <1>9 DEF Turned, Stopped, StreamRec
<1>13. streams' = [streams EXCEPT ![s] = t]
  <2>1. streams' = [[streams EXCEPT ![s].flushStop = f] EXCEPT ![s].finisher = "end"]
    BY <1>8, Zenon DEF StopFlushing
  <2>2. PICK b : b = [st EXCEPT !.flushStop = f]
    OBVIOUS
  <2>3. PICK u : u = [streams EXCEPT ![s] = b]
    OBVIOUS
  <2>4. u[s] = b
    BY <2>3
  <2>5. streams' = [u EXCEPT ![s] = [b EXCEPT !.finisher = "end"]]
    BY <1>1, <2>1, <2>2, <2>3, <2>4, Zenon
  <2>6. streams' = [u EXCEPT ![s] = t]
    BY <1>12, <2>2, <2>5, Zenon
  <2> QED
    BY <2>3, <2>6, SetTwice
<1> QED
  BY <1>1, <1>2, <1>10, <1>11, <1>13, OneStream DEF StopFlushing

-----------------------------------------------------------------------------
(* Steps that reach a page *)

\* A page with the same lines, which follows the same stream or none.
SameLines(pg, pg2) ==
  /\ pg2.gen = pg.gen /\ pg2.lines = pg.lines /\ pg2.scrolled = pg.scrolled /\ pg2.dropped = pg.dropped
  /\ pg2.stream # 0 => pg2.stream = pg.stream
  /\ pg.covered => pg2.covered

\* It is right if it is told the truth about the end of its stream.
LEMMA PageChanged ==
  ASSUME NEW sts, NEW pg, PageOK(pg, sts), NEW pg2 \in PageRec, SameLines(pg, pg2),
         pg2.ended \notin {"no", "resolve"} =>
           \E s \in 1 .. Len(sts) : sts[s].id = pg2.gen /\ sts[s].finisher = "done"
  PROVE  PageOK(pg2, sts)
<1>1. /\ pg2.gen = pg.gen /\ pg2.lines = pg.lines /\ pg2.scrolled = pg.scrolled /\ pg2.dropped = pg.dropped
      /\ (pg2.stream # 0 => pg2.stream = pg.stream) /\ (pg.covered => pg2.covered)
  BY Zenon DEF SameLines
<1>2. Len(pg2.lines) <= MaxShown /\ LinesOK(pg2.lines, pg2.gen, sts)
  BY <1>1, Zenon DEF PageOK
<1>3. pg2.stream # 0 => pg2.stream \in 1 .. Len(sts) /\ sts[pg2.stream].id = pg2.gen
  BY <1>1, Zenon DEF PageOK
<1>4. Unheard(pg2.gen, sts) => Blank(pg2)
  BY <1>1, Zenon DEF PageOK, Blank
<1>5. Lone(pg2, sts) /\ ~pg2.covered => Accounted(pg2, sts)
  <2>1. ASSUME Lone(pg2, sts), ~pg2.covered PROVE Accounted(pg2, sts)
    <3>1. pg2.stream = pg.stream
      BY <1>1, <2>1, Zenon DEF Lone
    <3>2. Lone(pg, sts) /\ ~pg.covered
      BY <1>1, <2>1, <3>1, Zenon DEF Lone
    <3>3. Accounted(pg, sts)
      BY <3>2, Zenon DEF PageOK
    <3> QED
      BY <1>1, <3>1, <3>3, Zenon DEF Accounted
  <2> QED
    BY <2>1
<1> QED
  BY <1>2, <1>3, <1>4, <1>5, Zenon DEF PageOK

\* What a page has on the stack is a page.
LEMMA StackRange ==
  ASSUME NEW stk, NEW pgs \in Seq(PageRec), StackOK(stk, pgs)
  PROVE  /\ stk \in Seq(Nat) /\ Len(stk) \in Nat /\ Len(stk) > 0 /\ Len(pgs) \in Nat
         /\ \A i \in 1 .. Len(stk) : stk[i] \in Nat /\ (stk[i] # 0 => stk[i] \in 1 .. Len(pgs))
<1>1. stk \in Seq(Nat) /\ Len(stk) \in Nat /\ stk # <<>> /\ \A i \in 1 .. Len(stk) : stk[i] \in Nat /\ stk[i] <= Len(pgs)
  BY Elements DEF StackOK
<1>2. Len(pgs) \in Nat
  BY LenProperties
<1>3. Len(stk) > 0
  <2>1. Len(stk) # 0
    BY <1>1, EmptySeq
  <2> QED
    BY <1>1, <2>1
<1>4. ASSUME NEW i \in 1 .. Len(stk), stk[i] # 0 PROVE stk[i] \in 1 .. Len(pgs)
  BY <1>1, <1>2, <1>4
<1> QED
  BY <1>1, <1>2, <1>3, <1>4

\* Streams that go on, and pages that follow the same ones.
SameStreams(sts, sts2, g) ==
  /\ sts2 \in Seq(StreamRec) /\ Len(sts2) = Len(sts)
  /\ \A r \in 1 .. Len(sts) : StreamOK(sts2[r], g) /\ (sts[r].cancelled => sts2[r].cancelled)
SamePages(pgs, pgs2, sts2) ==
  /\ pgs2 \in Seq(PageRec) /\ Len(pgs2) = Len(pgs)
  /\ \A p \in 1 .. Len(pgs) : /\ PageOK(pgs2[p], sts2) /\ pgs2[p].gen = pgs[p].gen
                              /\ pgs2[p].stream = pgs[p].stream /\ pgs2[p].covered = pgs[p].covered

\* Such a step keeps everything.
LEMMA PagesStep ==
  ASSUME NEW sts, NEW pgs, NEW stk, NEW res, NEW g, LogOK(sts, pgs, stk, res, g),
         NEW sts2, SameStreams(sts, sts2, g), NEW pgs2, SamePages(pgs, pgs2, sts2)
  PROVE  LogOK(sts2, pgs2, stk, res, g)
<1>1. /\ StackOK(stk, pgs) /\ pgs \in Seq(PageRec) /\ CountsOK(sts, pgs, res, g)
      /\ ((g => Len(pgs) <= 1) => Owned(sts, pgs, stk))
  BY Zenon DEF LogOK
<1>2. /\ sts2 \in Seq(StreamRec) /\ Len(sts2) = Len(sts) /\ \A r \in 1 .. Len(sts) : StreamOK(sts2[r], g)
      /\ \A r \in 1 .. Len(sts) : sts[r].cancelled => sts2[r].cancelled
  BY Zenon DEF SameStreams
<1>3. /\ pgs2 \in Seq(PageRec) /\ Len(pgs2) = Len(pgs) /\ \A p \in 1 .. Len(pgs) : PageOK(pgs2[p], sts2)
      /\ \A p \in 1 .. Len(pgs) : /\ pgs2[p].gen = pgs[p].gen /\ pgs2[p].stream = pgs[p].stream
                                  /\ pgs2[p].covered = pgs[p].covered
  BY Zenon DEF SamePages
<1>4. StackOK(stk, pgs2)
  BY <1>1, <1>3, StackSame
<1>5. CountsOK(sts2, pgs2, res, g)
  BY <1>1, <1>2, <1>3, Zenon DEF CountsOK
<1>6. ASSUME g => Len(pgs) <= 1 PROVE Owned(sts2, pgs2, stk)
  <2>1. Owned(sts, pgs, stk) /\ \A i \in 1 .. Len(stk) : stk[i] # 0 => stk[i] \in 1 .. Len(pgs)
    BY <1>1, <1>6, StackRange
  <2>2. ASSUME NEW s \in 1 .. Len(sts), ~sts2[s].cancelled
        PROVE  \E i \in 1 .. Len(stk) : stk[i] # 0 /\ pgs2[stk[i]].stream = s
    <3>1. ~sts[s].cancelled
      BY <1>2, <2>2, Zenon
    <3>2. PICK i \in 1 .. Len(stk) : stk[i] # 0 /\ pgs[stk[i]].stream = s
      BY <2>1, <3>1, Zenon DEF Owned
    <3>3. pgs2[stk[i]].stream = pgs[stk[i]].stream
      BY <1>3, <2>1, <3>2, Zenon
    <3> QED
      BY <3>2, <3>3, Zenon
  <2> QED
    BY <1>2, <2>2, Zenon DEF Owned
<1> QED
  BY <1>2, <1>3, <1>4, <1>5, <1>6, Zenon DEF LogOK

\* What a step that reaches a page starts from.
LEMMA PageAt ==
  ASSUME LogInv
  PROVE  /\ pages \in Seq(PageRec) /\ DOMAIN pages = 1 .. Len(pages) /\ Len(pages) \in Nat /\ StackOK(stack, pages)
         /\ \A p \in 1 .. Len(pages) : PageOK(pages[p], streams) /\ pages[p] \in PageRec
         /\ streams \in Seq(StreamRec) /\ Len(streams) \in Nat /\ Len(streams) <= MaxStreams
         /\ \A s \in 1 .. Len(streams) : StreamOK(streams[s], grouped) /\ streams[s] \in StreamRec
         /\ DOMAIN streams = 1 .. Len(streams)
         /\ LogOK(streams, pages, stack, resolving, grouped) /\ grouped \in BOOLEAN /\ blocked \in BOOLEAN
<1>1. /\ pages \in Seq(PageRec) /\ StackOK(stack, pages) /\ streams \in Seq(StreamRec) /\ Len(streams) <= MaxStreams
      /\ \A p \in 1 .. Len(pages) : PageOK(pages[p], streams)
      /\ \A s \in 1 .. Len(streams) : StreamOK(streams[s], grouped)
      /\ LogOK(streams, pages, stack, resolving, grouped) /\ grouped \in BOOLEAN /\ blocked \in BOOLEAN
  BY Zenon DEF LogInv, LogOK, CountsOK
<1>2. DOMAIN pages = 1 .. Len(pages) /\ Len(pages) \in Nat /\ Len(streams) \in Nat /\ DOMAIN streams = 1 .. Len(streams)
  BY <1>1, LenProperties
<1>3. \A p \in 1 .. Len(pages) : pages[p] \in PageRec
  BY <1>1, Zenon DEF PageOK
<1>4. \A s \in 1 .. Len(streams) : streams[s] \in StreamRec
  BY <1>1, Zenon DEF StreamOK
<1> QED
  BY <1>1, <1>2, <1>3, <1>4, Zenon

\* A page that follows a stream and was never covered is on top of the stack.
LEMMA LoneOnTop ==
  ASSUME LogInv, NEW p \in 1 .. Len(pages), pages[p].stream # 0, ~pages[p].covered
  PROVE  OnTop(p)
<1>1. StackOK(stack, pages) /\ Len(stack) \in Nat
  BY PageAt, StackRange
<1>2. PICK i \in 1 .. Len(stack) : stack[i] = p
  BY <1>1, Zenon DEF StackOK
<1>3. p # 0
  BY PageAt
<1>4. ~(i < Len(stack))
  BY <1>1, <1>2, <1>3, Zenon DEF StackOK
<1>5. i = Len(stack)
  BY <1>1, <1>4
<1> QED
  BY <1>2, <1>3, <1>5 DEF OnTop, TopOf

\* The event loop takes a batch, and the page on top shows it if the ids match.
LEMMA DeliverBatchKeeps ==
  ASSUME LogInv, NEW s \in DOMAIN streams, NEW w \in {"flusher", "finisher"}, DeliverBatch(s, w)
  PROVE  LogInv'
<1>1. PICK st : st = streams[s]
  OBVIOUS
<1>2. PICK b : b = st.mail[w]
  OBVIOUS
<1>3. PICK st2 : st2 = AfterSend(st, w)
  OBVIOUS
<1>4. /\ s \in 1 .. Len(streams) /\ streams \in Seq(StreamRec) /\ st \in StreamRec /\ StreamOK(st, grouped)
      /\ st[w] = "send"
  BY <1>1, StreamAt DEF DeliverBatch
<1>5. StreamOK(st2, grouped) /\ Delivered(st, st2, b) /\ st2 \in StreamRec
  <2>1. StreamOK(st2, grouped) /\ Delivered(st, st2, b)
    BY <1>2, <1>3, <1>4, AfterSendOK
  <2> QED
    BY <2>1 DEF StreamOK
<1>6. PICK u : u = [streams EXCEPT ![s] = st2]
  OBVIOUS
<1>7. streams' = u
  <2>1. PICK a : a = [st EXCEPT !.mail = [@ EXCEPT ![w] = NoBatch]]
    OBVIOUS
  <2>2. PICK v : v = [streams EXCEPT ![s] = a]
    OBVIOUS
  <2>3. v[s] = a
    BY <2>2
  <2>4. streams' = [v EXCEPT ![s] = [a EXCEPT ![w] = IF w = "flusher" THEN "idle" ELSE "stop"]]
    <3>1. streams' = [[streams EXCEPT ![s].mail[w] = NoBatch] EXCEPT ![s][w] = IF w = "flusher" THEN "idle" ELSE "stop"]
      BY Zenon DEF DeliverBatch
    <3> QED
      BY <1>1, <2>1, <2>2, <2>3, <3>1, Zenon
  <2>5. streams' = [v EXCEPT ![s] = st2]
    BY <1>3, <2>1, <2>4, Zenon DEF AfterSend
  <2> QED
    BY <1>6, <2>2, <2>5, SetTwice
<1>8. /\ u \in Seq(StreamRec) /\ Len(u) = Len(streams) /\ Len(streams) \in Nat
      /\ \A r \in 1 .. Len(streams) : u[r] = IF r = s THEN st2 ELSE streams[r]
  BY <1>4, <1>5, <1>6, ExceptSeq, LenProperties
<1>9. Delivery(streams, u, s, b)
  BY <1>1, <1>4, <1>5, <1>8 DEF Delivery
<1>10. SameStreams(streams, u, grouped)
  <2>1. \A r \in 1 .. Len(streams) : StreamOK(streams[r], grouped)
    BY PageAt
  <2>2. st.cancelled => st2.cancelled
    BY <1>5 DEF Delivered
  <2>3. \A r \in 1 .. Len(streams) : StreamOK(u[r], grouped) /\ (streams[r].cancelled => u[r].cancelled)
    BY <1>1, <1>5, <1>8, <2>1, <2>2, Zenon
  <2> QED
    BY <1>8, <2>3 DEF SameStreams
<1>11. pages' = [p \in 1 .. Len(pages) |-> IF Takes(p, s) THEN Show(pages[p], s, b) ELSE pages[p]]
  <2>1. DOMAIN pages = 1 .. Len(pages)
    BY PageAt
  <2> QED
    BY <1>1, <1>2, <2>1, Zenon DEF DeliverBatch
<1>12. ASSUME NEW p \in 1 .. Len(pages)
       PROVE  /\ PageOK(pages'[p], u) /\ pages'[p].gen = pages[p].gen
              /\ pages'[p].stream = pages[p].stream /\ pages'[p].covered = pages[p].covered
  <2>1. PageOK(pages[p], streams) /\ Len(streams) <= MaxStreams
    BY PageAt
  <2>2. CASE Takes(p, s)
    <3>1. pages'[p] = Show(pages[p], s, b)
      BY <1>11, <2>2
    <3>2. pages[p].gen = streams[s].id
      BY <2>2 DEF Takes
    <3> QED
      BY <1>9, <2>1, <3>1, <3>2, ShowOK
  <2>3. CASE ~Takes(p, s)
    <3>1. pages'[p] = pages[p]
      BY <1>11, <2>3
    <3>2. ~(Lone(pages[p], streams) /\ ~pages[p].covered /\ pages[p].gen = streams[s].id)
      BY <2>3, LoneOnTop, Zenon DEF Lone, Takes
    <3>3. PageOK(pages[p], u)
      BY <1>9, <2>1, <3>2, Missed
    <3> QED
      BY <3>1, <3>3
  <2> QED
    BY <2>2, <2>3
<1>13. SamePages(pages, pages', u)
  <2>1. pages' \in [1 .. Len(pages) -> PageRec]
    BY <1>11, <1>12 DEF PageOK
  <2>2. pages' \in Seq(PageRec) /\ Len(pages') = Len(pages)
    BY <2>1, PageAt, Listed
  <2> QED
    BY <1>12, <2>2, Zenon DEF SamePages
<1>14. LogOK(u, pages', stack, resolving, grouped)
  BY <1>10, <1>13, PageAt, PagesStep
<1>15. blocked \in BOOLEAN /\ grouped \in BOOLEAN /\ UNCHANGED <<stack, resolving, blocked, grouped>>
  BY PageAt DEF DeliverBatch
<1> QED
  BY <1>7, <1>14, <1>15, Zenon DEF LogInv

\* The event loop takes the end of a stream.
LEMMA DeliverEndedKeeps ==
  ASSUME LogInv, NEW s \in DOMAIN streams, DeliverEnded(s)
  PROVE  LogInv'
<1>1. PICK st : st = streams[s]
  OBVIOUS
<1>2. /\ s \in 1 .. Len(streams) /\ streams \in Seq(StreamRec) /\ st \in StreamRec /\ StreamOK(st, grouped)
  BY <1>1, StreamAt
<1>3. /\ st.finisher = "end" /\ st.mail["finisher"] = NoBatch /\ st.flusher \in {"idle", "send", "done"}
      /\ ~(st.opening + st.reading > 0) /\ (st.flusher # "send" => st.mail["flusher"] = NoBatch)
      /\ st.opening \in Nat /\ st.reading \in Nat /\ st.err \in {"none", "open", "read"}
      /\ st.read + st.opening <= MaxLines + MaxSources /\ "done" \in Finishers
  BY <1>1, <1>2, StreamFields DEF DeliverEnded, StreamOK, SendersOK, ReadersOK, Finishers
<1>4. PICK t : t = Turned(st, st.opening, st.reading, "done", st.flusher, st.err)
  OBVIOUS
<1>5. st.opening + st.reading <= st.opening + st.reading
  BY <1>3
<1>6. StreamOK(t, grouped) /\ Quiet(st, t) /\ t.finisher = "done"
  <2>1. Fits(st, st.opening, st.reading, "done", st.flusher, st.err)
    BY <1>3, <1>5 DEF Fits
  <2> QED
    BY <1>2, <1>4, <2>1, TurnOK
<1>7. t = [st EXCEPT !.finisher = "done"]
  BY <1>2, <1>4 DEF Turned, StreamRec
<1>8. PICK u : u = [streams EXCEPT ![s] = t]
  OBVIOUS
<1>9. streams' = u
  <2>1. streams' = [streams EXCEPT ![s] = [streams[s] EXCEPT !.finisher = "done"]]
    BY Zenon DEF DeliverEnded
  <2> QED
    BY <1>1, <1>7, <1>8, <2>1, Zenon
<1>10. Grows(streams, u) /\ Len(u) = Len(streams) /\ \A r \in 1 .. Len(streams) : StreamOK(u[r], grouped)
  <2>1. AllOK(streams, grouped)
    BY PageAt DEF AllOK
  <2>2. Quiet(streams[s], t)
    BY <1>1, <1>6
  <2>3. Stepped(streams, u, grouped)
    BY <1>2, <1>6, <1>8, <2>1, <2>2, QuietStep
  <2> QED
    BY <2>3, Zenon DEF AllOK, Stepped
<1>11. u[s] = t
  BY <1>8
<1>12. SameStreams(streams, u, grouped)
  BY <1>10 DEF SameStreams, Grows, Quiet
<1>13. pages' = [p \in 1 .. Len(pages) |-> IF Takes(p, s) THEN [pages[p] EXCEPT !.ended = st.err] ELSE pages[p]]
  <2>1. DOMAIN pages = 1 .. Len(pages)
    BY PageAt
  <2> QED
    BY <1>1, <2>1, Zenon DEF DeliverEnded
<1>14. ASSUME NEW p \in 1 .. Len(pages)
       PROVE  /\ PageOK(pages'[p], u) /\ pages'[p].gen = pages[p].gen
              /\ pages'[p].stream = pages[p].stream /\ pages'[p].covered = pages[p].covered
  <2>1. PageOK(pages[p], u) /\ pages[p] \in PageRec
    BY <1>10, PageAt, PageStays
  <2>2. CASE Takes(p, s)
    <3>1. PICK pg : pg = pages[p]
      OBVIOUS
    <3>2. pages'[p] = [pg EXCEPT !.ended = st.err]
      BY <1>13, <2>2, <3>1
    <3>3. /\ pages'[p] \in PageRec /\ pages'[p].gen = pg.gen /\ pages'[p].stream = pg.stream
          /\ pages'[p].covered = pg.covered /\ pages'[p].lines = pg.lines /\ pages'[p].scrolled = pg.scrolled
          /\ pages'[p].dropped = pg.dropped
      BY <1>3, <2>1, <3>1, <3>2 DEF PageRec
    <3>4. SameLines(pg, pages'[p])
      BY <3>3, Zenon DEF SameLines
    <3>5. u[s].id = pages'[p].gen /\ u[s].finisher = "done" /\ s \in 1 .. Len(u)
      <4>1. t.id = st.id
        BY <1>6 DEF Quiet
      <4> QED
        BY <1>1, <1>2, <1>6, <1>10, <1>11, <2>2, <3>1, <3>3, <4>1 DEF Takes
    <3> QED
      BY <2>1, <3>1, <3>3, <3>4, <3>5, PageChanged
  <2>3. CASE ~Takes(p, s)
    <3>1. pages'[p] = pages[p]
      BY <1>13, <2>3
    <3> QED
      BY <2>1, <3>1
  <2> QED
    BY <2>2, <2>3
<1>15. SamePages(pages, pages', u)
  <2>1. pages' \in [1 .. Len(pages) -> PageRec]
    BY <1>13, <1>14 DEF PageOK
  <2>2. pages' \in Seq(PageRec) /\ Len(pages') = Len(pages)
    BY <2>1, PageAt, Listed
  <2> QED
    BY <1>14, <2>2, Zenon DEF SamePages
<1>16. LogOK(u, pages', stack, resolving, grouped)
  BY <1>12, <1>15, PageAt, PagesStep
<1>17. blocked \in BOOLEAN /\ grouped \in BOOLEAN /\ UNCHANGED <<stack, resolving, blocked, grouped>>
  BY PageAt DEF DeliverEnded
<1> QED
  BY <1>9, <1>16, <1>17, Zenon DEF LogInv

-----------------------------------------------------------------------------
(* The user's steps *)

\* An answer to a page that waits for its pods has been taken.
LEMMA AnswerTaken ==
  ASSUME NEW sts, NEW pgs, NEW stk, NEW res, NEW g, LogOK(sts, pgs, stk, res, g), res > 0
  PROVE  LogOK(sts, pgs, stk, res - 1, g)
<1>1. CountsOK(sts, pgs, res, g) /\ sts \in Seq(StreamRec) /\ pgs \in Seq(PageRec)
  BY Zenon DEF LogOK
<1>2. res \in Nat /\ Len(sts) \in Nat /\ Len(pgs) \in Nat
  BY <1>1, LenProperties DEF CountsOK
<1>3. res - 1 \in Nat /\ (res <= Len(pgs) => res - 1 <= Len(pgs)) /\ res # 0
      /\ (res + Len(sts) <= Len(pgs) => res - 1 + Len(sts) <= Len(pgs))
  BY <1>2
<1>4. CountsOK(sts, pgs, res - 1, g)
  BY <1>1, <1>3, Zenon DEF CountsOK
<1> QED
  BY <1>4, Zenon DEF LogOK

\* The answer to a page that waits for its pods is an error.
LEMMA ResolveFailsKeeps ==
  ASSUME LogInv, ResolveFails
  PROVE  LogInv'
<1>1. pages' = [p \in 1 .. Len(pages) |-> IF OnTop(p) THEN [pages[p] EXCEPT !.ended = "resolve"] ELSE pages[p]]
  <2>1. DOMAIN pages = 1 .. Len(pages)
    BY PageAt
  <2> QED
    BY <2>1, Zenon DEF ResolveFails
<1>2. ASSUME NEW p \in 1 .. Len(pages)
      PROVE  /\ PageOK(pages'[p], streams) /\ pages'[p].gen = pages[p].gen
             /\ pages'[p].stream = pages[p].stream /\ pages'[p].covered = pages[p].covered
  <2>1. PageOK(pages[p], streams) /\ pages[p] \in PageRec
    BY PageAt
  <2>2. CASE OnTop(p)
    <3>1. PICK pg : pg = pages[p]
      OBVIOUS
    <3>2. pages'[p] = [pg EXCEPT !.ended = "resolve"]
      BY <1>1, <2>2, <3>1
    <3>3. /\ pages'[p] \in PageRec /\ pages'[p].gen = pg.gen /\ pages'[p].stream = pg.stream
          /\ pages'[p].covered = pg.covered /\ pages'[p].lines = pg.lines /\ pages'[p].scrolled = pg.scrolled
          /\ pages'[p].dropped = pg.dropped /\ pages'[p].ended = "resolve"
      BY <2>1, <3>1, <3>2 DEF PageRec
    <3>4. SameLines(pg, pages'[p])
      BY <3>3, Zenon DEF SameLines
    <3> QED
      BY <2>1, <3>1, <3>3, <3>4, PageChanged
  <2>3. CASE ~OnTop(p)
    <3>1. pages'[p] = pages[p]
      BY <1>1, <2>3
    <3> QED
      BY <2>1, <3>1
  <2> QED
    BY <2>2, <2>3
<1>3. SamePages(pages, pages', streams)
  <2>1. pages' \in [1 .. Len(pages) -> PageRec]
    BY <1>1, <1>2 DEF PageOK
  <2>2. pages' \in Seq(PageRec) /\ Len(pages') = Len(pages)
    BY <2>1, PageAt, Listed
  <2> QED
    BY <1>2, <2>2, Zenon DEF SamePages
<1>4. SameStreams(streams, streams, grouped)
  BY PageAt DEF SameStreams
<1>5. LogOK(streams, pages', stack, resolving, grouped)
  BY <1>3, <1>4, PageAt, PagesStep
<1>6. LogOK(streams, pages', stack, resolving', grouped)
  BY <1>5, AnswerTaken DEF ResolveFails
<1>7. blocked \in BOOLEAN /\ grouped \in BOOLEAN /\ UNCHANGED <<streams, stack, blocked, grouped>>
  BY PageAt DEF ResolveFails
<1> QED
  BY <1>6, <1>7, Zenon DEF LogInv

\* One more stream.
LEMMA StreamAdded ==
  ASSUME NEW g, NEW sts \in Seq(StreamRec), \A r \in 1 .. Len(sts) : StreamOK(sts[r], g), NEW st, StreamOK(st, g)
  PROVE  /\ Grows(sts, Append(sts, st)) /\ Len(Append(sts, st)) = Len(sts) + 1 /\ Append(sts, st)[Len(sts) + 1] = st
         /\ \A r \in 1 .. Len(sts) + 1 : StreamOK(Append(sts, st)[r], g)
         /\ \A r \in 1 .. Len(sts) : Append(sts, st)[r] = sts[r]
         /\ Len(sts) + 1 \in 1 .. Len(Append(sts, st))
<1> PICK u : u = Append(sts, st)
  OBVIOUS
<1>1. /\ u \in Seq(StreamRec) /\ Len(u) = Len(sts) + 1 /\ Len(sts) \in Nat /\ u[Len(sts) + 1] = st
      /\ \A r \in 1 .. Len(sts) : u[r] = sts[r]
  BY AppendProperties, LenProperties DEF StreamOK
<1>2. \A r \in 1 .. Len(sts) : Quiet(sts[r], u[r])
  BY <1>1, QuietSelf, ElementOfSeq
<1>3. \A r \in 1 .. Len(sts) + 1 : r \in 1 .. Len(sts) \/ r = Len(sts) + 1
  BY <1>1
<1>4. \A r \in 1 .. Len(sts) + 1 : StreamOK(u[r], g)
  BY <1>1, <1>3, Zenon
<1>5. Len(sts) <= Len(u) /\ Len(sts) + 1 \in 1 .. Len(u)
  BY <1>1
<1> QED
  BY <1>1, <1>2, <1>4, <1>5 DEF Grows

\* A new page that follows stream k of generation i.
Fresh(i, k) == [NewPage EXCEPT !.gen = i, !.stream = k]

\* It is right if the stream is as new as the page, or if there is none.
LEMMA FreshOK ==
  ASSUME NEW sts, NEW i \in Nat, NEW k \in 0 .. MaxStreams,
         k # 0 => k \in 1 .. Len(sts) /\ sts[k].id = i /\ sts[k].read = 0 /\ Weight(sts[k]) = 0
  PROVE  PageOK(Fresh(i, k), sts) /\ Fresh(i, k).gen = i /\ Fresh(i, k).stream = k
<1>1. PICK e : e = <<>>
  OBVIOUS
<1>2. e \in Seq((1..MaxStreams) \X LineNumbers) /\ Len(e) = 0 /\ Once(e)
  BY <1>1, NoElements
<1>3. PICK c \in BOOLEAN : c = FALSE
  OBVIOUS
<1>4. PICK pg : pg = [gen |-> i, stream |-> k, lines |-> e, scrolled |-> 0, dropped |-> 0, ended |-> "no", covered |-> c]
  OBVIOUS
<1>5. NewPage = [gen |-> 0, stream |-> 0, lines |-> e, scrolled |-> 0, dropped |-> 0, ended |-> "no", covered |-> c]
  BY <1>1, <1>3, Zenon DEF NewPage
<1>6. Fresh(i, k) = pg
  <2>1. PICK n : n = NewPage
    OBVIOUS
  <2>2. n = [gen |-> 0, stream |-> 0, lines |-> e, scrolled |-> 0, dropped |-> 0, ended |-> "no", covered |-> c]
    BY <1>5, <2>1, Zenon
  <2>4. PICK m : m = [gen |-> i, stream |-> 0, lines |-> e, scrolled |-> 0, dropped |-> 0, ended |-> "no", covered |-> c]
    OBVIOUS
  <2>5. [n EXCEPT !.gen = i] = m
    BY <2>2, <2>4
  <2>6. [m EXCEPT !.stream = k] = pg
    BY <1>4, <2>4
  <2>3. [n EXCEPT !.gen = i, !.stream = k] = pg
    BY <2>5, <2>6, Zenon
  <2> QED
    BY <2>1, <2>3, Zenon DEF Fresh
<1>7. /\ pg \in PageRec /\ pg.gen = i /\ pg.stream = k /\ pg.lines = e /\ pg.scrolled = 0 /\ pg.dropped = 0
      /\ pg.ended = "no"
  BY <1>2, <1>4 DEF PageRec
<1>8. LinesOK(pg.lines, pg.gen, sts) /\ Len(pg.lines) <= MaxShown
  BY <1>2, <1>7, LogAssumption DEF LinesOK
<1>9. pg.stream # 0 => pg.stream \in 1 .. Len(sts) /\ sts[pg.stream].id = pg.gen
  BY <1>7
<1>10. Blank(pg)
  BY <1>1, <1>7 DEF Blank
<1>11. pg.stream # 0 => Accounted(pg, sts)
  BY <1>2, <1>7 DEF Accounted
<1>12. PageOK(pg, sts)
  BY <1>7, <1>8, <1>9, <1>10, <1>11 DEF PageOK, Lone
<1> QED
  BY <1>6, <1>7, <1>12

\* The new pages of the code.
LEMMA NewForms ==
  ASSUME NEW i \in Nat, NEW k \in Nat
  PROVE  /\ NewPage = Fresh(0, 0) /\ [NewPage EXCEPT !.stream = k] = Fresh(0, k)
         /\ [NewPage EXCEPT !.gen = i, !.stream = k] = Fresh(i, k)
<1>1. PICK e : e = <<>>
  OBVIOUS
<1>2. PICK c \in BOOLEAN : c = FALSE
  OBVIOUS
<1>3. PICK q : q = [gen |-> 0, stream |-> 0, lines |-> e, scrolled |-> 0, dropped |-> 0, ended |-> "no", covered |-> c]
  OBVIOUS
<1>4. NewPage = q
  BY <1>1, <1>2, <1>3, Zenon DEF NewPage
<1>5. [q EXCEPT !.gen = 0] = q
  BY <1>3
<1>6. [q EXCEPT !.stream = 0] = q
  BY <1>3
<1>7. [q EXCEPT !.gen = 0, !.stream = 0] = q
  BY <1>5, <1>6, Zenon
<1>8. [q EXCEPT !.gen = 0, !.stream = k] = [q EXCEPT !.stream = k]
  BY <1>5, Zenon
<1>9. NewPage = Fresh(0, 0) /\ [NewPage EXCEPT !.stream = k] = Fresh(0, k)
  BY <1>4, <1>7, <1>8, Zenon DEF Fresh
<1> QED
  BY <1>9, Zenon DEF Fresh

\* The new streams of the code.
LEMMA NewStreamForm == \A i, n \in Nat : NewStream(i, n) = Started(i, n, FALSE)
<1> SUFFICES ASSUME NEW i \in Nat, NEW n \in Nat PROVE NewStream(i, n) = Started(i, n, FALSE)
  OBVIOUS
<1>1. PICK e : e = <<>>
  OBVIOUS
<1>2. PICK c \in BOOLEAN : c = FALSE
  OBVIOUS
<1>3. PICK m : m = [w \in {"finisher", "flusher"} |-> NoBatch]
  OBVIOUS
<1>4. PICK s : s = [id |-> i, read |-> 0, buf |-> e, dropped |-> 0, opening |-> n, reading |-> 0, cancelled |-> c,
                    flushStop |-> c, finisher |-> "wait", flusher |-> "idle", err |-> "none", mail |-> m]
  OBVIOUS
<1>5. NewStream(i, n) = s
  BY <1>1, <1>2, <1>3, <1>4, Zenon DEF NewStream
<1>6. [s EXCEPT !.flushStop = c] = s
  BY <1>4
<1> QED
  BY <1>2, <1>5, <1>6, Zenon DEF Started

\* A new page on top of something that is not a page.
LEMMA StackOpened ==
  ASSUME NEW stk, NEW pgs \in Seq(PageRec), StackOK(stk, pgs), stk[Len(stk)] = 0, NEW pg \in PageRec
  PROVE  StackOK(Append(stk, Len(pgs) + 1), Append(pgs, pg))
<1>1. /\ stk \in Seq(Nat) /\ Len(stk) \in Nat /\ Len(stk) > 0 /\ Len(pgs) \in Nat
      /\ \A i \in 1 .. Len(stk) : stk[i] \in Nat /\ (stk[i] # 0 => stk[i] \in 1 .. Len(pgs))
  BY StackRange
<1>2. PICK m \in Nat, k \in Nat : m = Len(pgs) + 1 /\ k = Len(stk) + 1
  BY <1>1
<1>3. PICK t : t = Append(stk, m)
  OBVIOUS
<1>4. PICK q : q = Append(pgs, pg)
  OBVIOUS
<1>5. t \in Seq(Nat) /\ t # <<>> /\ Len(t) = k /\ t[k] = m /\ \A i \in 1 .. Len(stk) : t[i] = stk[i]
  BY <1>1, <1>2, <1>3, AppendProperties
<1>6. q \in Seq(PageRec) /\ Len(q) = m /\ q[m] = pg /\ \A p \in 1 .. Len(pgs) : q[p] = pgs[p]
  BY <1>2, <1>4, AppendProperties
<1>7. \A i \in 1 .. k : (i \in 1 .. Len(stk) /\ i < k) \/ i = k
  BY <1>1, <1>2
<1>8. /\ \A i \in 1 .. k : t[i] <= m
      /\ \A i \in 1 .. Len(stk) : t[i] # m
  <2>1. \A i \in 1 .. Len(stk) : t[i] \in Nat /\ t[i] < m
    <3>1. \A x \in Nat : (x # 0 => x \in 1 .. Len(pgs)) => x < m
      BY <1>1, <1>2
    <3> QED
      BY <1>1, <1>5, <3>1, Zenon
  <2>2. \A x \in Nat : x < m => x <= m /\ x # m
    OBVIOUS
  <2>3. m <= m
    OBVIOUS
  <2> QED
    BY <1>5, <1>7, <2>1, <2>2, <2>3, Zenon
<1>9. \A i, j \in 1 .. k : t[i] # 0 /\ t[i] = t[j] => i = j
  <2>1. \A i, j \in 1 .. Len(stk) : stk[i] # 0 /\ stk[i] = stk[j] => i = j
    BY Zenon DEF StackOK
  <2> SUFFICES ASSUME NEW i \in 1 .. k, NEW j \in 1 .. k, t[i] # 0, t[i] = t[j] PROVE i = j
    OBVIOUS
  <2>2. CASE i = k
    BY <1>5, <1>7, <1>8, <2>2, Zenon
  <2>3. CASE j = k
    BY <1>5, <1>7, <1>8, <2>3, Zenon
  <2>4. CASE i \in 1 .. Len(stk) /\ j \in 1 .. Len(stk)
    BY <1>5, <2>1, <2>4, Zenon
  <2> QED
    BY <1>7, <2>2, <2>3, <2>4, Zenon
<1>10. ASSUME NEW i \in 1 .. k, i < k, t[i] # 0 PROVE q[t[i]].covered
  <2>1. i \in 1 .. Len(stk) /\ i # Len(stk)
    BY <1>1, <1>2, <1>5, <1>7, <1>10
  <2>2. i < Len(stk) /\ stk[i] # 0 /\ stk[i] \in 1 .. Len(pgs) /\ t[i] = stk[i]
    BY <1>1, <1>5, <1>10, <2>1
  <2>3. pgs[stk[i]].covered
    BY <2>1, <2>2, Zenon DEF StackOK
  <2> QED
    BY <1>6, <2>2, <2>3, Zenon
<1>11. ASSUME NEW p \in 1 .. m, q[p].stream # 0 PROVE \E i \in 1 .. k : t[i] = p
  <2>1. k \in 1 .. k /\ \A i \in 1 .. Len(stk) : i \in 1 .. k
    BY <1>1, <1>2
  <2>2. p = m \/ p \in 1 .. Len(pgs)
    BY <1>1, <1>2
  <2>3. CASE p = m
    BY <1>5, <2>1, <2>3, Zenon
  <2>4. CASE p \in 1 .. Len(pgs)
    <3>1. pgs[p].stream # 0
      BY <1>6, <1>11, <2>4
    <3>2. PICK i \in 1 .. Len(stk) : stk[i] = p
      BY <2>4, <3>1, Zenon DEF StackOK
    <3> QED
      BY <1>5, <2>1, <3>2
  <2> QED
    BY <2>2, <2>3, <2>4
<1>12. StackOK(t, q)
  <2>1. \A i \in 1 .. k : i < k /\ t[i] # 0 => q[t[i]].covered
    BY <1>10
  <2>2. \A p \in 1 .. m : q[p].stream # 0 => \E i \in 1 .. k : t[i] = p
    BY <1>11
  <2>3. \A i \in 1 .. k : t[i] <= m
    BY <1>8
  <2>4. Len(t) = k /\ Len(q) = m
    BY <1>5, <1>6
  <2>5. \A i \in 1 .. Len(t) : t[i] <= Len(q)
    BY <2>3, <2>4
  <2>6. \A i, j \in 1 .. Len(t) : t[i] # 0 /\ t[i] = t[j] => i = j
    BY <1>9, <2>4
  <2>7. \A i \in 1 .. Len(t) : i < Len(t) /\ t[i] # 0 => q[t[i]].covered
    BY <2>1, <2>4
  <2>8. \A p \in 1 .. Len(q) : q[p].stream # 0 => \E i \in 1 .. Len(t) : t[i] = p
    BY <2>2, <2>4
  <2> QED
    BY <1>5, <2>5, <2>6, <2>7, <2>8, Zenon DEF StackOK
<1> QED
  BY <1>2, <1>3, <1>4, <1>12

\* Streams with perhaps a new one, k, for a new page of generation i; k is 0 if there is none.
Joins(sts, u, i, k, g) ==
  /\ Grows(sts, u) /\ Len(u) <= MaxStreams /\ k \in 0 .. MaxStreams
  /\ \A r \in 1 .. Len(u) : StreamOK(u[r], g)
  /\ \A r \in 1 .. Len(sts) : u[r] = sts[r]
  /\ \A r \in 1 .. Len(u) : r \in 1 .. Len(sts) \/ r = k
  /\ k # 0 => k \in 1 .. Len(u) /\ Unread(u[k], g, i) /\ Len(u) = Len(sts) + 1 /\ k = Len(sts) + 1
  /\ k = 0 => Len(u) = Len(sts)

\* A stream is started.
LEMMA StreamJoins ==
  ASSUME NEW g \in BOOLEAN, NEW sts \in Seq(StreamRec), \A r \in 1 .. Len(sts) : StreamOK(sts[r], g),
         Len(sts) < MaxStreams, NEW i \in Nat, NEW n \in 0 .. MaxSources, ~g => n <= 1, NEW f \in BOOLEAN
  PROVE  Joins(sts, Append(sts, Started(i, n, f)), i, Len(sts) + 1, g)
<1>1. PICK st : st = Started(i, n, f)
  OBVIOUS
<1>2. PICK u : u = Append(sts, st)
  OBVIOUS
<1>3. Unread(st, g, i) /\ StreamOK(st, g)
  <2>1. Unread(st, g, i)
    BY <1>1, NewStreamOK
  <2> QED
    BY <2>1 DEF Unread
<1>4. /\ Grows(sts, u) /\ Len(u) = Len(sts) + 1 /\ u[Len(sts) + 1] = st
      /\ \A r \in 1 .. Len(sts) + 1 : StreamOK(u[r], g)
      /\ \A r \in 1 .. Len(sts) : u[r] = sts[r]
      /\ Len(sts) + 1 \in 1 .. Len(u)
  BY <1>2, <1>3, StreamAdded
<1>5. Len(sts) \in Nat /\ MaxStreams \in Nat
  BY LenProperties, LogAssumption
<1>6. /\ Len(sts) + 1 \in 0 .. MaxStreams /\ Len(sts) + 1 <= MaxStreams /\ Len(sts) + 1 # 0
      /\ \A r \in 1 .. Len(sts) + 1 : r \in 1 .. Len(sts) \/ r = Len(sts) + 1
  BY <1>5
<1>7. Joins(sts, u, i, Len(sts) + 1, g)
  BY <1>3, <1>4, <1>6, Zenon DEF Joins
<1> QED
  BY <1>1, <1>2, <1>7

\* No stream is started.
LEMMA NothingJoins ==
  ASSUME NEW g, NEW sts \in Seq(StreamRec), \A r \in 1 .. Len(sts) : StreamOK(sts[r], g),
         Len(sts) <= MaxStreams, NEW i
  PROVE  Joins(sts, sts, i, 0, g)
<1>1. Len(sts) \in Nat /\ Len(sts) <= Len(sts) /\ 0 \in 0 .. MaxStreams
  BY LenProperties, LogAssumption
<1>2. \A r \in 1 .. Len(sts) : Quiet(sts[r], sts[r])
  BY QuietSelf, ElementOfSeq
<1>3. Grows(sts, sts)
  BY <1>1, <1>2, Zenon DEF Grows
<1> QED
  BY <1>1, <1>3, Zenon DEF Joins

\* The page of the new stream.
LEMMA PageJoins ==
  ASSUME NEW sts, NEW u, NEW i \in Nat, NEW k, NEW g, Joins(sts, u, i, k, g)
  PROVE  PageOK(Fresh(i, k), u) /\ Fresh(i, k).gen = i /\ Fresh(i, k).stream = k
<1>1. k \in 0 .. MaxStreams /\ (k # 0 => k \in 1 .. Len(u) /\ Unread(u[k], g, i))
  BY Zenon DEF Joins
<1>2. PICK c \in 0 .. MaxStreams : c = k
  BY <1>1
<1>3. c # 0 => c \in 1 .. Len(u) /\ u[c].id = i /\ u[c].read = 0 /\ Weight(u[c]) = 0
  BY <1>1, <1>2, Zenon DEF Unread
<1>4. PageOK(Fresh(i, c), u) /\ Fresh(i, c).gen = i /\ Fresh(i, c).stream = c
  BY <1>3, FreshOK
<1> QED
  BY <1>2, <1>4

\* A page is opened.
LEMMA PageOpened ==
  ASSUME NEW sts, NEW pgs, NEW stk, NEW res, NEW g \in BOOLEAN, LogOK(sts, pgs, stk, res, g), stk[Len(stk)] = 0,
         Len(pgs) < (IF g THEN MaxGroupPages ELSE MaxPages),
         NEW u, NEW k, Joins(sts, u, 0, k, g), g => k = 0, NEW res2 \in Nat, res2 = IF g THEN res + 1 ELSE res
  PROVE  LogOK(u, Append(pgs, Fresh(0, k)), Append(stk, Len(pgs) + 1), res2, g)
<1>1. /\ pgs \in Seq(PageRec) /\ StackOK(stk, pgs) /\ CountsOK(sts, pgs, res, g)
      /\ \A p \in 1 .. Len(pgs) : PageOK(pgs[p], sts)
      /\ ((g => Len(pgs) <= 1) => Owned(sts, pgs, stk))
  BY Zenon DEF LogOK
<1>2. /\ Grows(sts, u) /\ Len(u) <= MaxStreams /\ k \in 0 .. MaxStreams
      /\ \A r \in 1 .. Len(u) : StreamOK(u[r], g)
      /\ \A r \in 1 .. Len(sts) : u[r] = sts[r]
      /\ \A r \in 1 .. Len(u) : r \in 1 .. Len(sts) \/ r = k
      /\ (k # 0 => k \in 1 .. Len(u) /\ Unread(u[k], g, 0))
      /\ (k = 0 => Len(u) = Len(sts))
  BY Zenon DEF Joins
<1>3. PICK pg : pg = Fresh(0, k)
  OBVIOUS
<1>4. PageOK(pg, u) /\ pg.gen = 0 /\ pg.stream = k /\ pg \in PageRec
  <2>1. PageOK(pg, u) /\ pg.gen = 0 /\ pg.stream = k
    BY <1>3, PageJoins
  <2> QED
    BY <2>1 DEF PageOK
<1>5. Len(pgs) \in Nat /\ MaxGroupPages \in Nat /\ MaxPages \in Nat /\ u \in Seq(StreamRec) /\ sts \in Seq(StreamRec)
      /\ Len(sts) \in Nat /\ Len(u) \in Nat
  BY <1>1, <1>2, LenProperties, LogAssumption DEF Grows
<1>6. PICK m \in Nat : m = Len(pgs) + 1
  BY <1>5
<1>7. PICK q : q = Append(pgs, pg)
  OBVIOUS
<1>8. q \in Seq(PageRec) /\ Len(q) = m /\ q[m] = pg /\ \A p \in 1 .. Len(pgs) : q[p] = pgs[p]
  BY <1>1, <1>4, <1>6, <1>7, AppendProperties
<1>9. \A p \in 1 .. m : p \in 1 .. Len(pgs) \/ p = m
  BY <1>5, <1>6
<1>10. PICK t : t = Append(stk, m)
  OBVIOUS
<1>11. StackOK(t, q)
  BY <1>1, <1>4, <1>6, <1>7, <1>10, StackOpened
<1>12. \A p \in 1 .. m : PageOK(q[p], u)
  <2>1. \A p \in 1 .. Len(pgs) : PageOK(pgs[p], u)
    BY <1>1, <1>2, PageStays
  <2> QED
    BY <1>4, <1>8, <1>9, <2>1, Zenon
<1>13. CountsOK(u, q, res2, g)
  <2>1. res \in Nat /\ res <= Len(pgs) /\ (~g => res = 0) /\ (g => res + Len(sts) <= Len(pgs))
    BY <1>1, Zenon DEF CountsOK
  <2>2. m <= (IF g THEN MaxGroupPages ELSE MaxPages)
    BY <1>5, <1>6
  <2>3. res2 <= m /\ (~g => res2 = 0) /\ (g => res2 + Len(u) <= m)
    BY <1>2, <1>5, <1>6, <2>1
  <2>4. g => \A p \in 1 .. m : q[p].gen = 0
    BY <1>1, <1>4, <1>8, <1>9, Zenon DEF CountsOK
  <2> QED
    BY <1>2, <1>8, <2>2, <2>3, <2>4, Zenon DEF CountsOK
<1>14. ASSUME g => m <= 1 PROVE Owned(u, q, t)
  <2>1. g => Len(pgs) <= 1
    BY <1>5, <1>6, <1>14
  <2>2. Owned(sts, pgs, stk)
    BY <1>1, <2>1
  <2>3. /\ \A i \in 1 .. Len(stk) : t[i] = stk[i] /\ i \in 1 .. Len(t) /\ (stk[i] # 0 => stk[i] \in 1 .. Len(pgs))
        /\ Len(stk) + 1 \in 1 .. Len(t) /\ t[Len(stk) + 1] = m
    <3>1. /\ stk \in Seq(Nat) /\ Len(stk) \in Nat /\ \A i \in 1 .. Len(stk) : stk[i] # 0 => stk[i] \in 1 .. Len(pgs)
      BY <1>1, StackRange
    <3>2. Len(t) = Len(stk) + 1 /\ t[Len(stk) + 1] = m /\ \A i \in 1 .. Len(stk) : t[i] = stk[i]
      BY <1>10, <3>1, AppendProperties
    <3>3. Len(stk) + 1 \in 1 .. Len(stk) + 1 /\ \A i \in 1 .. Len(stk) : i \in 1 .. Len(stk) + 1
      BY <3>1
    <3> QED
      BY <3>1, <3>2, <3>3
  <2>4. ASSUME NEW s \in 1 .. Len(u), ~u[s].cancelled
        PROVE  \E i \in 1 .. Len(t) : t[i] # 0 /\ q[t[i]].stream = s
    <3>1. CASE s = k
      <4>1. m # 0
        BY <1>5, <1>6
      <4> QED
        BY <1>4, <1>8, <2>3, <3>1, <4>1
    <3>2. CASE s \in 1 .. Len(sts)
      <4>1. ~sts[s].cancelled
        BY <1>2, <2>4, <3>2, Zenon
      <4>2. PICK i \in 1 .. Len(stk) : stk[i] # 0 /\ pgs[stk[i]].stream = s
        BY <2>2, <3>2, <4>1, Zenon DEF Owned
      <4>3. t[i] = stk[i] /\ i \in 1 .. Len(t) /\ q[stk[i]] = pgs[stk[i]]
        BY <1>8, <2>3, <4>2, Zenon
      <4> QED
        BY <4>2, <4>3, Zenon
    <3> QED
      BY <1>2, <3>1, <3>2
  <2> QED
    BY <2>4, Zenon DEF Owned
<1>15. LogOK(u, q, t, res2, g)
  BY <1>2, <1>5, <1>8, <1>11, <1>12, <1>13, <1>14, Zenon DEF LogOK
<1> QED
  BY <1>3, <1>6, <1>7, <1>10, <1>15

\* A page is opened, with its stream or with a question for the pods of its workload.
LEMMA OpenKeeps ==
  ASSUME LogInv, Open
  PROVE  LogInv'
<1>1. /\ LogOK(streams, pages, stack, resolving, grouped) /\ grouped \in BOOLEAN /\ blocked \in BOOLEAN
      /\ streams \in Seq(StreamRec) /\ Len(streams) \in Nat /\ Len(streams) <= MaxStreams
      /\ \A r \in 1 .. Len(streams) : StreamOK(streams[r], grouped)
  BY PageAt
<1>2. stack[Len(stack)] = 0 /\ Len(pages) < (IF grouped THEN MaxGroupPages ELSE MaxPages)
      /\ stack' = Append(stack, Len(pages) + 1) /\ UNCHANGED <<blocked, grouped>>
  BY Zenon DEF Open, TopOf, PageBound
<1>3. resolving \in Nat
  BY <1>1, Zenon DEF LogOK, CountsOK
<1>4. CASE grouped
  <2>1. pages' = Append(pages, NewPage) /\ resolving' = resolving + 1 /\ streams' = streams
    BY <1>4, Zenon DEF Open
  <2>2. pages' = Append(pages, Fresh(0, 0))
    BY <2>1, NewForms
  <2>3. Joins(streams, streams, 0, 0, grouped)
    BY <1>1, NothingJoins
  <2>4. resolving' \in Nat /\ resolving' = IF grouped THEN resolving + 1 ELSE resolving
    BY <1>3, <1>4, <2>1
  <2>5. LogOK(streams, Append(pages, Fresh(0, 0)), Append(stack, Len(pages) + 1), resolving', grouped)
    BY <1>1, <1>2, <2>3, <2>4, PageOpened, Zenon
  <2> QED
    BY <1>1, <1>2, <2>1, <2>2, <2>5, Zenon DEF LogInv
<1>5. CASE ~grouped
  <2>1. /\ Len(streams) < MaxStreams /\ resolving' = resolving
        /\ pages' = Append(pages, [NewPage EXCEPT !.stream = Len(streams) + 1])
        /\ streams' = Append(streams, NewStream(0, 1))
    BY <1>5, Zenon DEF Open
  <2>2. PICK k \in Nat : k = Len(streams) + 1
    BY <1>1
  <2>3. pages' = Append(pages, Fresh(0, k))
    BY <2>1, <2>2, NewForms
  <2>4. NewStream(0, 1) = Started(0, 1, FALSE) /\ 1 \in 0 .. MaxSources /\ 0 \in Nat /\ 1 <= 1
    <3>1. 1 \in 0 .. MaxSources /\ 0 \in Nat /\ 1 \in Nat /\ 1 <= 1
      BY LogAssumption
    <3> QED
      BY <3>1, NewStreamForm, Zenon
  <2>5. Joins(streams, Append(streams, Started(0, 1, FALSE)), 0, k, grouped)
    BY <1>1, <2>1, <2>2, <2>4, StreamJoins, Zenon
  <2>6. resolving' \in Nat /\ resolving' = IF grouped THEN resolving + 1 ELSE resolving
    BY <1>3, <1>5, <2>1
  <2>7. LogOK(Append(streams, Started(0, 1, FALSE)), Append(pages, Fresh(0, k)), Append(stack, Len(pages) + 1),
              resolving', grouped)
    BY <1>1, <1>2, <1>5, <2>5, <2>6, PageOpened, Zenon
  <2> QED
    BY <1>1, <1>2, <2>1, <2>3, <2>4, <2>7, Zenon DEF LogInv
<1> QED
  BY <1>1, <1>4, <1>5

\* The pages pgs with pg for page p, and the same stack.
TopSet(stk, pgs, p, pg, q) ==
  /\ q \in Seq(PageRec) /\ Len(q) = Len(pgs) /\ q[p] = pg /\ StackOK(stk, q)
  /\ \A r \in 1 .. Len(pgs) : r # p => q[r] = pgs[r]

\* The page on top of the stack may be any page.
LEMMA StackTop ==
  ASSUME NEW stk, NEW pgs, pgs \in Seq(PageRec), StackOK(stk, pgs), NEW p \in 1 .. Len(pgs), stk[Len(stk)] = p,
         NEW pg, pg \in PageRec
  PROVE  TopSet(stk, pgs, p, pg, [pgs EXCEPT ![p] = pg])
<1>1. PICK q : q = [pgs EXCEPT ![p] = pg]
  OBVIOUS
<1>2. q \in Seq(PageRec) /\ Len(q) = Len(pgs) /\ \A r \in 1 .. Len(pgs) : q[r] = IF r = p THEN pg ELSE pgs[r]
  BY <1>1, ExceptSeq
<1>3. /\ Len(stk) \in Nat /\ Len(stk) > 0 /\ Len(pgs) \in Nat
      /\ \A i \in 1 .. Len(stk) : stk[i] # 0 => stk[i] \in 1 .. Len(pgs)
  BY StackRange
<1>4. p # 0 /\ Len(stk) \in 1 .. Len(stk) /\ \A i \in 1 .. Len(stk) : i < Len(stk) => i # Len(stk)
  BY <1>3
<1>5. ASSUME NEW i \in 1 .. Len(stk), i < Len(stk), stk[i] # 0 PROVE q[stk[i]].covered
  <2>1. stk[i] # p
    BY <1>4, <1>5, Zenon DEF StackOK
  <2>2. q[stk[i]] = pgs[stk[i]]
    BY <1>2, <1>3, <1>5, <2>1, Zenon
  <2> QED
    BY <1>5, <2>2, Zenon DEF StackOK
<1>6. ASSUME NEW r \in 1 .. Len(pgs), q[r].stream # 0 PROVE \E i \in 1 .. Len(stk) : stk[i] = r
  <2>1. CASE r = p
    BY <1>4, <2>1
  <2>2. CASE r # p
    BY <1>2, <1>6, <2>2, Zenon DEF StackOK
  <2> QED
    BY <2>1, <2>2
<1>7. StackOK(stk, q)
  <2>1. \A i \in 1 .. Len(stk) : i < Len(stk) /\ stk[i] # 0 => q[stk[i]].covered
    BY <1>5
  <2>2. \A r \in 1 .. Len(pgs) : q[r].stream # 0 => \E i \in 1 .. Len(stk) : stk[i] = r
    BY <1>6
  <2> QED
    BY <1>2, <2>1, <2>2, Zenon DEF StackOK
<1> QED
  BY <1>1, <1>2, <1>7 DEF TopSet

\* Page p becomes pg and starts stream k of u: v are the streams before that, of which the
\* one it followed has been stopped.
Starts(sts, pgs, p, v, u, k, pg, res2, g) ==
  /\ Grows(sts, v) /\ Len(v) = Len(sts) /\ Joins(v, u, pg.gen, k, g)
  /\ PageOK(pg, u) /\ pg.stream = k /\ k # 0 /\ (g => pg.gen = 0)
  /\ res2 \in Nat /\ res2 <= Len(pgs) /\ (~g => res2 = 0) /\ (g => res2 + Len(u) <= Len(pgs))
  /\ (g => Len(pgs) <= 1) => \A s \in 1 .. Len(sts) : ~v[s].cancelled => s # pgs[p].stream

\* The page on top starts a stream.
LEMMA TopStarts ==
  ASSUME NEW sts, NEW pgs, NEW stk, NEW res, NEW g, LogOK(sts, pgs, stk, res, g),
         NEW p \in 1 .. Len(pgs), stk[Len(stk)] = p,
         NEW v, NEW u, NEW k, NEW pg, NEW res2, Starts(sts, pgs, p, v, u, k, pg, res2, g)
  PROVE  LogOK(u, [pgs EXCEPT ![p] = pg], stk, res2, g)
<1>0. /\ Grows(sts, v) /\ Len(v) = Len(sts) /\ Joins(v, u, pg.gen, k, g)
      /\ PageOK(pg, u) /\ pg.stream = k /\ k # 0 /\ (g => pg.gen = 0)
      /\ res2 \in Nat /\ res2 <= Len(pgs) /\ (~g => res2 = 0) /\ (g => res2 + Len(u) <= Len(pgs))
      /\ (g => Len(pgs) <= 1) => \A s \in 1 .. Len(sts) : ~v[s].cancelled => s # pgs[p].stream
  BY Zenon DEF Starts
<1>1. PICK q : q = [pgs EXCEPT ![p] = pg]
  OBVIOUS
<1>2. /\ pgs \in Seq(PageRec) /\ StackOK(stk, pgs) /\ CountsOK(sts, pgs, res, g)
      /\ \A r \in 1 .. Len(pgs) : PageOK(pgs[r], sts)
      /\ ((g => Len(pgs) <= 1) => Owned(sts, pgs, stk))
  BY Zenon DEF LogOK
<1>3. /\ Grows(v, u) /\ Len(u) <= MaxStreams /\ k \in 1 .. Len(u)
      /\ \A r \in 1 .. Len(u) : StreamOK(u[r], g)
      /\ \A r \in 1 .. Len(v) : u[r] = v[r]
      /\ \A r \in 1 .. Len(u) : r \in 1 .. Len(v) \/ r = k
  BY <1>0, Zenon DEF Joins
<1>4. pg \in PageRec /\ u \in Seq(StreamRec)
  BY <1>0, <1>3, Zenon DEF PageOK, Grows
<1>5. /\ q \in Seq(PageRec) /\ Len(q) = Len(pgs) /\ q[p] = pg /\ StackOK(stk, q)
      /\ \A r \in 1 .. Len(pgs) : r # p => q[r] = pgs[r]
  <2>1. pgs \in Seq(PageRec) /\ StackOK(stk, pgs) /\ pg \in PageRec
    BY <1>2, <1>4
  <2>2. TopSet(stk, pgs, p, pg, [pgs EXCEPT ![p] = pg])
    BY <2>1, StackTop, Zenon
  <2> QED
    BY <1>1, <2>2, Zenon DEF TopSet
<1>6. \A r \in 1 .. Len(pgs) : PageOK(q[r], u)
  <2>1. \A r \in 1 .. Len(pgs) : PageOK(pgs[r], v)
    BY <1>0, <1>2, PageStays
  <2>2. \A r \in 1 .. Len(pgs) : PageOK(pgs[r], u)
    BY <1>3, <2>1, PageStays
  <2> QED
    BY <1>0, <1>5, <2>2, Zenon
<1>7. CountsOK(u, q, res2, g)
  <2>1. g => \A r \in 1 .. Len(pgs) : q[r].gen = 0
    BY <1>0, <1>2, <1>5, Zenon DEF CountsOK
  <2>2. Len(pgs) <= (IF g THEN MaxGroupPages ELSE MaxPages)
    BY <1>2, Zenon DEF CountsOK
  <2> QED
    BY <1>0, <1>3, <1>5, <2>1, <2>2, Zenon DEF CountsOK
<1>8. ASSUME g => Len(pgs) <= 1 PROVE Owned(u, q, stk)
  <2>1. Owned(sts, pgs, stk) /\ \A s \in 1 .. Len(sts) : ~v[s].cancelled => s # pgs[p].stream
    BY <1>0, <1>2, <1>8, Zenon
  <2>2. /\ Len(stk) \in 1 .. Len(stk) /\ p # 0 /\ \A j \in 1 .. Len(stk) : stk[j] # 0 => stk[j] \in 1 .. Len(pgs)
    <3>1. /\ Len(stk) \in Nat /\ Len(stk) > 0 /\ Len(pgs) \in Nat
          /\ \A j \in 1 .. Len(stk) : stk[j] # 0 => stk[j] \in 1 .. Len(pgs)
      BY <1>2, StackRange
    <3> QED
      BY <3>1
  <2>3. ASSUME NEW s \in 1 .. Len(u), ~u[s].cancelled
        PROVE  \E j \in 1 .. Len(stk) : stk[j] # 0 /\ q[stk[j]].stream = s
    <3>1. CASE s = k
      BY <1>0, <1>5, <2>2, <3>1, Zenon
    <3>2. CASE s \in 1 .. Len(v)
      <4>1. s \in 1 .. Len(sts) /\ ~v[s].cancelled
        BY <1>0, <1>3, <2>3, <3>2, Zenon
      <4>2. ~sts[s].cancelled
        BY <1>0, <4>1, Zenon DEF Grows, Quiet
      <4>3. PICK j \in 1 .. Len(stk) : stk[j] # 0 /\ pgs[stk[j]].stream = s
        BY <2>1, <4>1, <4>2, Zenon DEF Owned
      <4>4. stk[j] # p
        BY <2>1, <4>1, <4>3, Zenon
      <4>5. q[stk[j]] = pgs[stk[j]]
        BY <1>5, <2>2, <4>3, <4>4, Zenon
      <4> QED
        BY <4>3, <4>5, Zenon
    <3> QED
      BY <1>3, <3>1, <3>2
  <2> QED
    BY <2>3, Zenon DEF Owned
<1>9. LogOK(u, q, stk, res2, g)
  BY <1>3, <1>4, <1>5, <1>6, <1>7, <1>8, Zenon DEF LogOK
<1> QED
  BY <1>1, <1>9

\* What is on top of the stack.
LEMMA TopAt ==
  ASSUME LogInv
  PROVE  /\ stack[Len(stack)] = TopOf /\ TopOf \in Nat /\ (TopOf # 0 => TopOf \in 1 .. Len(pages))
         /\ Len(stack) \in Nat /\ Len(stack) > 0 /\ stack \in Seq(Nat)
<1>1. /\ stack \in Seq(Nat) /\ Len(stack) \in Nat /\ Len(stack) > 0
      /\ \A i \in 1 .. Len(stack) : stack[i] \in Nat /\ (stack[i] # 0 => stack[i] \in 1 .. Len(pages))
  BY PageAt, StackRange
<1>2. Len(stack) \in 1 .. Len(stack)
  BY <1>1
<1> QED
  BY <1>1, <1>2 DEF TopOf

\* A page of a workload that follows stream k.
Follows(q, u, k) == PageOK(q, u) /\ q.gen = 0 /\ q.stream = k

\* It follows one that is new.
LEMMA PageFollows ==
  ASSUME NEW sts, NEW u, NEW k, NEW g, Joins(sts, u, 0, k, g), k # 0,
         NEW pg, PageOK(pg, sts), pg.gen = 0
  PROVE  Follows([pg EXCEPT !.stream = k], u, k)
<1>1. PICK q : q = [pg EXCEPT !.stream = k]
  OBVIOUS
<1>2. /\ Grows(sts, u) /\ k \in 1 .. Len(u) /\ k \in 0 .. MaxStreams /\ Unread(u[k], g, 0) /\ Len(u) = Len(sts) + 1
      /\ \A r \in 1 .. Len(sts) : u[r] = sts[r] /\ k = Len(sts) + 1
  BY DEF Joins
<1>3. PageOK(pg, u) /\ pg \in PageRec
  <2>1. PageOK(pg, u)
    BY <1>2, PageStays
  <2> QED
    BY <2>1 DEF PageOK
<1>4. /\ q \in PageRec /\ q.gen = pg.gen /\ q.lines = pg.lines /\ q.scrolled = pg.scrolled /\ q.dropped = pg.dropped
      /\ q.ended = pg.ended /\ q.covered = pg.covered /\ q.stream = k
  BY <1>1, <1>2, <1>3 DEF PageRec
<1>5. u[k].id = 0 /\ u[k].read = 0 /\ Weight(u[k]) = 0
  BY <1>2, Zenon DEF Unread
<1>6. ASSUME Lone(q, u) PROVE Accounted(q, u)
  <2>1. \A r \in 1 .. Len(sts) : r \in 1 .. Len(u) /\ r # k
    <3>1. Len(sts) \in Nat
      BY <1>2, LenProperties DEF Grows
    <3>2. k = Len(sts) + 1
      BY Zenon DEF Joins
    <3> QED
      BY <1>2, <3>1, <3>2
  <2>2. Unheard(pg.gen, sts)
    BY <1>2, <1>4, <1>6, <2>1, Zenon DEF Lone, Unheard
  <2>3. Blank(pg)
    BY <2>2, Zenon DEF PageOK
  <2>4. Len(q.lines) = 0 /\ q.scrolled = 0 /\ q.dropped = 0
    BY <1>4, <2>3, EmptySeq DEF Blank
  <2> QED
    BY <1>4, <1>5, <2>4 DEF Accounted
<1>7. Len(q.lines) <= MaxShown /\ LinesOK(q.lines, q.gen, u)
  BY <1>3, <1>4, Zenon DEF PageOK
<1>8. q.stream # 0 => q.stream \in 1 .. Len(u) /\ u[q.stream].id = q.gen
  BY <1>2, <1>4, <1>5
<1>9. Unheard(q.gen, u) => Blank(q)
  BY <1>3, <1>4, Zenon DEF PageOK, Blank
<1>10. q.ended \notin {"no", "resolve"} => \E s \in 1 .. Len(u) : u[s].id = q.gen /\ u[s].finisher = "done"
  BY <1>3, <1>4, Zenon DEF PageOK
<1>11. PageOK(q, u)
  BY <1>4, <1>6, <1>7, <1>8, <1>9, <1>10, Zenon DEF PageOK
<1> QED
  BY <1>1, <1>4, <1>11 DEF Follows

\* The answer to a page that waits for its pods is n pods.
LEMMA ResolvedKeeps ==
  ASSUME LogInv, NEW n \in 0 .. MaxSources, Resolved(n)
  PROVE  LogInv'
<1>1. /\ LogOK(streams, pages, stack, resolving, grouped) /\ grouped \in BOOLEAN /\ blocked \in BOOLEAN
      /\ streams \in Seq(StreamRec) /\ Len(streams) \in Nat /\ pages \in Seq(PageRec) /\ Len(pages) \in Nat
      /\ \A r \in 1 .. Len(streams) : StreamOK(streams[r], grouped)
      /\ \A r \in 1 .. Len(pages) : PageOK(pages[r], streams)
  BY PageAt
<1>2. CountsOK(streams, pages, resolving, grouped)
  BY <1>1, Zenon DEF LogOK
<1>3. resolving \in Nat /\ resolving > 0 /\ resolving' = resolving - 1 /\ UNCHANGED <<stack, grouped>>
  BY <1>2, Zenon DEF CountsOK, Resolved
<1>4. CASE TopOf = 0
  <2>1. UNCHANGED <<streams, pages, blocked>>
    BY <1>4, Zenon DEF Resolved
  <2>2. LogOK(streams, pages, stack, resolving', grouped)
    BY <1>1, <1>3, AnswerTaken
  <2> QED
    BY <1>1, <1>3, <2>1, <2>2, Zenon DEF LogInv
<1>5. CASE TopOf # 0
  <2>1. /\ Len(streams) < MaxStreams
        /\ streams' = Append(streams, [NewStream(0, n) EXCEPT !.flushStop = (n = 0)])
        /\ pages' = [pages EXCEPT ![TopOf].stream = Len(streams) + 1] /\ blocked' = (n = 0)
    BY <1>5, Zenon DEF Resolved
  <2>2. PICK f \in BOOLEAN : f <=> (n = 0)
    OBVIOUS
  <2>3. f = (n = 0)
    BY <2>2, Zenon
  <2>4. PICK p \in 1 .. Len(pages) : p = TopOf /\ stack[Len(stack)] = p
    BY <1>5, TopAt
  <2>5. PICK k \in Nat : k = Len(streams) + 1
    BY <1>1
  <2>6. k # 0
    BY <1>1, <2>5
  <2>7. PICK u : u = Append(streams, Started(0, n, f))
    OBVIOUS
  <2>8. streams' = u
    BY <2>1, <2>3, <2>7, Zenon DEF Started
  <2>9. grouped
    <3>1. resolving # 0
      BY <1>3
    <3> QED
      BY <1>2, <3>1, Zenon DEF CountsOK
  <2>10. Joins(streams, u, 0, k, grouped)
    <3>1. 0 \in Nat
      OBVIOUS
    <3> QED
      BY <1>1, <2>1, <2>5, <2>7, <2>9, <3>1, StreamJoins, Zenon
  <2>11. PICK pg : pg = [pages[p] EXCEPT !.stream = k]
    OBVIOUS
  <2>12. PageOK(pg, u) /\ pg.gen = 0 /\ pg.stream = k
    <3>1. pages[p].gen = 0 /\ PageOK(pages[p], streams)
      BY <1>1, <1>2, <2>9, Zenon DEF CountsOK
    <3>2. Follows([pages[p] EXCEPT !.stream = k], u, k)
      BY <2>6, <2>10, <3>1, PageFollows, Zenon
    <3> QED
      BY <2>11, <3>2, Zenon DEF Follows
  <2>13. pages' = [pages EXCEPT ![p] = pg]
    BY <2>1, <2>4, <2>5, <2>11, Zenon
  <2>14. Grows(streams, streams)
    <3>1. \A r \in 1 .. Len(streams) : Quiet(streams[r], streams[r])
      BY <1>1, QuietSelf, ElementOfSeq
    <3>2. Len(streams) <= Len(streams)
      BY <1>1
    <3> QED
      BY <1>1, <3>1, <3>2, Zenon DEF Grows
  <2>15. resolving' \in Nat /\ resolving' <= Len(pages) /\ resolving' + Len(u) <= Len(pages)
         /\ (Len(pages) <= 1 => Len(streams) = 0)
    <3>1. resolving + Len(streams) <= Len(pages)
      BY <1>2, <2>9, Zenon DEF CountsOK
    <3>2. Len(u) = Len(streams) + 1
      BY <2>6, <2>10, Zenon DEF Joins
    <3> QED
      BY <1>1, <1>3, <3>1, <3>2
  <2>16. Len(pages) <= 1 => \A s \in 1 .. Len(streams) : ~streams[s].cancelled => s # pages[p].stream
    <3>1. Len(pages) <= 1 => \A s \in 1 .. Len(streams) : FALSE
      BY <2>15
    <3> QED
      BY <3>1, Zenon
  <2>17. LogOK(u, [pages EXCEPT ![p] = pg], stack, resolving', grouped)
    <3>1. Starts(streams, pages, p, streams, u, k, pg, resolving', grouped)
      BY <2>6, <2>9, <2>10, <2>12, <2>14, <2>15, <2>16, Zenon DEF Starts
    <3> QED
      BY <1>1, <2>4, <3>1, TopStarts, Zenon
  <2>18. blocked' \in BOOLEAN
    BY <2>1, Zenon
  <2> QED
    BY <1>1, <1>3, <2>8, <2>13, <2>17, <2>18, Zenon DEF LogInv
<1> QED
  BY <1>4, <1>5

\* The streams v after stream k has been stopped, if there is one.
StreamStopped(sts, k, v, g) ==
  /\ Grows(sts, v) /\ Len(v) = Len(sts) /\ \A r \in 1 .. Len(sts) : StreamOK(v[r], g)
  /\ \A s \in 1 .. Len(sts) : ~v[s].cancelled => s # k

\* Stop, of the stream that a page follows.
LEMMA StopOne ==
  ASSUME LogInv, NEW k \in 0 .. Len(streams)
  PROVE  StreamStopped(streams, k, [streams EXCEPT ![k] = StopStream(streams[k])], grouped)
<1>1. PICK v : v = [streams EXCEPT ![k] = StopStream(streams[k])]
  OBVIOUS
<1>2. /\ streams \in Seq(StreamRec) /\ Len(streams) \in Nat /\ DOMAIN streams = 1 .. Len(streams) /\ grouped \in BOOLEAN
      /\ \A r \in 1 .. Len(streams) : StreamOK(streams[r], grouped)
  BY PageAt
<1>3. CASE k = 0
  <2>1. v = streams
    <3>1. k \notin DOMAIN streams
      BY <1>2, <1>3
    <3> QED
      BY <1>1, <1>2, <3>1
  <2>2. \A r \in 1 .. Len(streams) : Quiet(streams[r], streams[r])
    BY <1>2, QuietSelf, ElementOfSeq
  <2>3. Len(streams) <= Len(streams)
    BY <1>2
  <2>4. Grows(streams, streams)
    BY <1>2, <2>2, <2>3, Zenon DEF Grows
  <2>5. \A s \in 1 .. Len(streams) : s # k
    BY <1>2, <1>3
  <2> QED
    BY <1>1, <1>2, <2>1, <2>4, <2>5, Zenon DEF StreamStopped
<1>4. CASE k # 0
  <2>1. PICK c \in 1 .. Len(streams) : c = k
    BY <1>2, <1>4
  <2>2. PICK t : t = StopStream(streams[c])
    OBVIOUS
  <2>3. StreamOK(streams[c], grouped)
    BY <1>2
  <2>4. StreamOK(t, grouped) /\ Quiet(streams[c], t) /\ t.cancelled
    BY <1>2, <2>2, <2>3, StopsOK, Zenon
  <2>5. PICK w : w = [streams EXCEPT ![c] = t]
    OBVIOUS
  <2>6. Grows(streams, w) /\ Len(w) = Len(streams) /\ \A r \in 1 .. Len(streams) : StreamOK(w[r], grouped)
    <3>1. AllOK(streams, grouped)
      BY <1>2, Zenon DEF AllOK
    <3>2. Stepped(streams, w, grouped)
      BY <1>2, <2>4, <2>5, <3>1, QuietStep
    <3> QED
      BY <3>2, Zenon DEF AllOK, Stepped
  <2>7. w[c] = t
    BY <1>2, <2>5
  <2>8. \A s \in 1 .. Len(streams) : ~w[s].cancelled => s # c
    BY <2>4, <2>7, Zenon
  <2>9. v = w
    BY <1>1, <2>1, <2>2, <2>5, Zenon
  <2> QED
    BY <1>1, <2>1, <2>6, <2>8, <2>9, Zenon DEF StreamStopped
<1> QED
  BY <1>3, <1>4

\* The page on top is restarted with the next generation of its id.
LEMMA RestartKeeps ==
  ASSUME LogInv, Restart
  PROVE  LogInv'
<1>1. /\ LogOK(streams, pages, stack, resolving, grouped) /\ grouped \in BOOLEAN /\ blocked \in BOOLEAN
      /\ streams \in Seq(StreamRec) /\ Len(streams) \in Nat /\ pages \in Seq(PageRec) /\ Len(pages) \in Nat
      /\ \A r \in 1 .. Len(pages) : PageOK(pages[r], streams) /\ pages[r] \in PageRec
  BY PageAt
<1>2. CountsOK(streams, pages, resolving, grouped)
  BY <1>1, Zenon DEF LogOK
<1>3. ~grouped /\ TopOf # 0 /\ Len(streams) < MaxStreams /\ UNCHANGED <<stack, resolving, blocked, grouped>>
  BY Zenon DEF Restart
<1>4. PICK p \in 1 .. Len(pages) : p = TopOf /\ stack[Len(stack)] = p
  BY <1>3, TopAt
<1>5. PICK i \in Nat : i = pages[p].gen + 1
  BY <1>1, PageFields
<1>6. PICK k \in Nat : k = Len(streams) + 1
  BY <1>1
<1>7. PICK o \in 0 .. Len(streams) : o = pages[p].stream
  BY <1>1 DEF PageOK
<1>8. PICK v : v = [streams EXCEPT ![o] = StopStream(streams[o])]
  OBVIOUS
<1>9. StreamStopped(streams, o, v, grouped)
  BY <1>8, StopOne, Zenon
<1>10. /\ Grows(streams, v) /\ Len(v) = Len(streams) /\ v \in Seq(StreamRec)
       /\ \A r \in 1 .. Len(v) : StreamOK(v[r], grouped)
       /\ \A s \in 1 .. Len(streams) : ~v[s].cancelled => s # pages[p].stream
  BY <1>7, <1>9, Zenon DEF StreamStopped, Grows
<1>11. PICK u : u = Append(v, Started(i, 1, FALSE))
  OBVIOUS
<1>12. streams' = u
  <2>1. 1 \in Nat
    OBVIOUS
  <2>2. NewStream(i, 1) = Started(i, 1, FALSE)
    BY <2>1, NewStreamForm, Zenon
  <2>3. streams' = Append([streams EXCEPT ![pages[TopOf].stream] = StopStream(streams[pages[TopOf].stream])],
                          NewStream(pages[TopOf].gen + 1, 1))
    BY Zenon DEF Restart
  <2> QED
    BY <1>4, <1>5, <1>7, <1>8, <1>11, <2>2, <2>3, Zenon
<1>13. Joins(v, u, i, k, grouped)
  <2>1. 1 \in 0 .. MaxSources /\ 1 <= 1
    BY LogAssumption
  <2> QED
    BY <1>1, <1>3, <1>6, <1>10, <1>11, <2>1, StreamJoins, Zenon
<1>14. PICK pg : pg = Fresh(i, k)
  OBVIOUS
<1>15. PageOK(pg, u) /\ pg.gen = i /\ pg.stream = k
  BY <1>13, <1>14, PageJoins, Zenon
<1>16. pages' = [pages EXCEPT ![p] = pg]
  <2>1. pages' = [pages EXCEPT ![TopOf] = [NewPage EXCEPT !.gen = pages[TopOf].gen + 1, !.stream = Len(streams) + 1]]
    BY Zenon DEF Restart
  <2>2. [NewPage EXCEPT !.gen = i, !.stream = k] = pg
    BY <1>14, NewForms, Zenon
  <2> QED
    BY <1>4, <1>5, <1>6, <2>1, <2>2, Zenon
<1>17. k # 0 /\ resolving \in Nat /\ resolving <= Len(pages) /\ resolving = 0
  <2>1. k # 0
    BY <1>1, <1>6
  <2> QED
    BY <1>2, <1>3, <2>1, Zenon DEF CountsOK
<1>18. Starts(streams, pages, p, v, u, k, pg, resolving, grouped)
  BY <1>3, <1>10, <1>13, <1>15, <1>17, Zenon DEF Starts
<1>19. LogOK(u, [pages EXCEPT ![p] = pg], stack, resolving, grouped)
  BY <1>1, <1>4, <1>18, TopStarts, Zenon
<1> QED
  BY <1>1, <1>3, <1>12, <1>16, <1>19, Zenon DEF LogInv

\* Something that is not a page comes on top of a page that is covered.
LEMMA StackCovered ==
  ASSUME NEW stk, NEW pgs, pgs \in Seq(PageRec), StackOK(stk, pgs), stk[Len(stk)] # 0 => pgs[stk[Len(stk)]].covered
  PROVE  StackOK(Append(stk, 0), pgs)
<1>1. /\ stk \in Seq(Nat) /\ Len(stk) \in Nat /\ Len(stk) > 0 /\ Len(pgs) \in Nat
      /\ \A i \in 1 .. Len(stk) : stk[i] \in Nat /\ stk[i] <= Len(pgs)
  <2>1. /\ stk \in Seq(Nat) /\ Len(stk) \in Nat /\ Len(stk) > 0 /\ Len(pgs) \in Nat
        /\ \A i \in 1 .. Len(stk) : stk[i] \in Nat
    BY StackRange, Zenon
  <2>2. \A i \in 1 .. Len(stk) : stk[i] <= Len(pgs)
    BY Zenon DEF StackOK
  <2> QED
    BY <2>1, <2>2, Zenon
<1>2. PICK k \in Nat : k = Len(stk) + 1
  BY <1>1
<1>3. PICK t : t = Append(stk, 0)
  OBVIOUS
<1>4. t \in Seq(Nat) /\ t # <<>> /\ Len(t) = k /\ t[k] = 0 /\ \A i \in 1 .. Len(stk) : t[i] = stk[i]
  BY <1>1, <1>2, <1>3, AppendProperties
<1>5. \A i \in 1 .. k : (i \in 1 .. Len(stk) /\ i < k /\ (i = Len(stk) \/ i < Len(stk))) \/ i = k
  BY <1>1, <1>2
<1>6. \A i \in 1 .. k : t[i] <= Len(pgs)
  <2>1. 0 <= Len(pgs)
    BY <1>1
  <2> QED
    BY <1>1, <1>4, <1>5, <2>1, Zenon
<1>7. \A i, j \in 1 .. k : t[i] # 0 /\ t[i] = t[j] => i = j
  <2> SUFFICES ASSUME NEW i \in 1 .. k, NEW j \in 1 .. k, t[i] # 0, t[i] = t[j] PROVE i = j
    OBVIOUS
  <2>1. i \in 1 .. Len(stk) /\ j \in 1 .. Len(stk)
    BY <1>4, <1>5, Zenon
  <2>2. stk[i] # 0 /\ stk[i] = stk[j]
    BY <1>4, <2>1, Zenon
  <2>3. \A a, b \in 1 .. Len(stk) : stk[a] # 0 /\ stk[a] = stk[b] => a = b
    BY Zenon DEF StackOK
  <2> QED
    BY <2>1, <2>2, <2>3, Zenon
<1>8. ASSUME NEW i \in 1 .. k, i < k, t[i] # 0 PROVE pgs[t[i]].covered
  <2>1. i \in 1 .. Len(stk) /\ (i = Len(stk) \/ i < Len(stk)) /\ t[i] = stk[i]
    BY <1>4, <1>5, <1>8, Zenon
  <2> QED
    BY <1>8, <2>1, Zenon DEF StackOK
<1>9. ASSUME NEW r \in 1 .. Len(pgs), pgs[r].stream # 0 PROVE \E i \in 1 .. k : t[i] = r
  <2>1. \A i \in 1 .. Len(stk) : i \in 1 .. k
    BY <1>1, <1>2
  <2>2. PICK i \in 1 .. Len(stk) : stk[i] = r
    BY <1>9, Zenon DEF StackOK
  <2> QED
    BY <1>4, <2>1, <2>2, Zenon
<1>10. \A i \in 1 .. k : i < k /\ t[i] # 0 => pgs[t[i]].covered
  BY <1>8
<1>11. \A r \in 1 .. Len(pgs) : pgs[r].stream # 0 => \E i \in 1 .. k : t[i] = r
  BY <1>9
<1>12. StackOK(t, pgs)
  BY <1>4, <1>6, <1>7, <1>10, <1>11, Zenon DEF StackOK
<1> QED
  BY <1>3, <1>12

\* The container picker is opened on a page.
LEMMA PickKeeps ==
  ASSUME LogInv, Pick
  PROVE  LogInv'
<1>1. /\ LogOK(streams, pages, stack, resolving, grouped) /\ grouped \in BOOLEAN /\ blocked \in BOOLEAN
      /\ StackOK(stack, pages) /\ pages \in Seq(PageRec)
      /\ \A r \in 1 .. Len(pages) : PageOK(pages[r], streams) /\ pages[r] \in PageRec
  BY PageAt
<1>2. /\ CountsOK(streams, pages, resolving, grouped) /\ ((grouped => Len(pages) <= 1) => Owned(streams, pages, stack))
      /\ streams \in Seq(StreamRec) /\ \A s \in 1 .. Len(streams) : StreamOK(streams[s], grouped)
  BY <1>1, Zenon DEF LogOK
<1>3. /\ TopOf # 0 /\ UNCHANGED <<streams, resolving, blocked, grouped>> /\ stack' = Append(stack, 0)
      /\ pages' = [pages EXCEPT ![TopOf].covered = TRUE]
  BY Zenon DEF Pick
<1>4. PICK p \in 1 .. Len(pages) : p = TopOf /\ stack[Len(stack)] = p
  BY <1>3, TopAt
<1>5. PICK c \in BOOLEAN : c = TRUE
  OBVIOUS
<1>6. PICK pg : pg = [pages[p] EXCEPT !.covered = c]
  OBVIOUS
<1>7. /\ pg \in PageRec /\ pg.covered = c /\ pg.gen = pages[p].gen /\ pg.stream = pages[p].stream /\ pg.lines = pages[p].lines
      /\ pg.scrolled = pages[p].scrolled /\ pg.dropped = pages[p].dropped /\ pg.ended = pages[p].ended
  BY <1>1, <1>6 DEF PageRec
<1>8. PageOK(pg, streams)
  <2>1. SameLines(pages[p], pg)
    BY <1>5, <1>7, Zenon DEF SameLines
  <2>2. pg.ended \notin {"no", "resolve"} => \E s \in 1 .. Len(streams) : streams[s].id = pg.gen /\ streams[s].finisher = "done"
    BY <1>1, <1>7, Zenon DEF PageOK
  <2> QED
    BY <1>1, <1>7, <2>1, <2>2, PageChanged, Zenon
<1>9. PICK q : q = [pages EXCEPT ![p] = pg]
  OBVIOUS
<1>10. pages' = q
  BY <1>3, <1>4, <1>5, <1>6, <1>9, Zenon
<1>11. TopSet(stack, pages, p, pg, q)
  BY <1>1, <1>4, <1>7, <1>9, StackTop, Zenon
<1>12. /\ q \in Seq(PageRec) /\ Len(q) = Len(pages) /\ q[p] = pg /\ StackOK(stack, q)
       /\ \A r \in 1 .. Len(pages) : r # p => q[r] = pages[r]
  BY <1>11, Zenon DEF TopSet
<1>13. \A r \in 1 .. Len(pages) : /\ PageOK(q[r], streams) /\ q[r].gen = pages[r].gen /\ q[r].stream = pages[r].stream
  BY <1>1, <1>7, <1>8, <1>12, Zenon
<1>14. StackOK(Append(stack, 0), q)
  <2>1. q[stack[Len(stack)]].covered
    BY <1>4, <1>5, <1>7, <1>12, Zenon
  <2> QED
    BY <1>12, <2>1, StackCovered, Zenon
<1>15. CountsOK(streams, q, resolving, grouped)
  BY <1>2, <1>12, <1>13, Zenon DEF CountsOK
<1>16. ASSUME grouped => Len(pages) <= 1 PROVE Owned(streams, q, Append(stack, 0))
  <2>1. PICK t : t = Append(stack, 0)
    OBVIOUS
  <2>2. \A i \in 1 .. Len(stack) : i \in 1 .. Len(t) /\ t[i] = stack[i] /\ (stack[i] # 0 => stack[i] \in 1 .. Len(pages))
    <3>1. stack \in Seq(Nat) /\ Len(stack) \in Nat /\ \A i \in 1 .. Len(stack) : stack[i] # 0 => stack[i] \in 1 .. Len(pages)
      BY <1>1, StackRange, Zenon
    <3>2. Len(t) = Len(stack) + 1 /\ \A i \in 1 .. Len(stack) : t[i] = stack[i]
      BY <2>1, <3>1, AppendProperties
    <3>3. \A i \in 1 .. Len(stack) : i \in 1 .. Len(t)
      BY <3>1, <3>2
    <3> QED
      BY <3>1, <3>2, <3>3, Zenon
  <2>3. ASSUME NEW s \in 1 .. Len(streams), ~streams[s].cancelled
        PROVE  \E i \in 1 .. Len(t) : t[i] # 0 /\ q[t[i]].stream = s
    <3>1. PICK i \in 1 .. Len(stack) : stack[i] # 0 /\ pages[stack[i]].stream = s
      BY <1>2, <1>16, <2>3, Zenon DEF Owned
    <3> QED
      BY <1>13, <2>2, <3>1, Zenon
  <2> QED
    BY <2>1, <2>3, Zenon DEF Owned
<1>17. LogOK(streams, q, Append(stack, 0), resolving, grouped)
  BY <1>2, <1>12, <1>13, <1>14, <1>15, <1>16, Zenon DEF LogOK
<1> QED
  BY <1>1, <1>3, <1>10, <1>17, Zenon DEF LogInv

\* What is below the top of a stack.
LEMMA Below ==
  ASSUME NEW S, NEW stk \in Seq(S), Len(stk) > 1
  PROVE  /\ Front(stk) \in Seq(S) /\ Len(Front(stk)) = Len(stk) - 1
         /\ \A i \in 1 .. Len(stk) - 1 : Front(stk)[i] = stk[i]
<1> PICK f : f = Front(stk)
  OBVIOUS
<1>1. Len(stk) \in Nat /\ \A i \in 1 .. Len(stk) - 1 : stk[i] \in S
  BY LenProperties, ElementOfSeq
<1>2. PICK m \in Nat : m = Len(stk) - 1
  <2>1. PICK l \in Nat : l = Len(stk)
    BY <1>1
  <2>2. l > 1
    BY <2>1
  <2>3. \E m \in Nat : m = l - 1
    BY <2>2
  <2> QED
    BY <2>1, <2>3
<1>3. f = SubSeq(stk, 1, m)
  BY <1>2 DEF Front
<1>4. 1 \in Nat /\ 1 <= m /\ m - 1 + 1 = m /\ \A i \in 1 .. m : stk[i] \in S /\ 1 + i - 1 = i
  BY <1>1, <1>2
<1>5. f \in Seq(S) /\ Len(f) = m - 1 + 1 /\ \A i \in 1 .. m - 1 + 1 : f[i] = stk[1 + i - 1]
  BY <1>2, <1>3, <1>4, SubSeqProperties
<1> QED
  BY <1>2, <1>4, <1>5

\* The page on top leaves the stack when it follows no stream.
LEMMA StackLeft ==
  ASSUME NEW stk, NEW pgs, pgs \in Seq(PageRec), StackOK(stk, pgs), Len(stk) > 1,
         stk[Len(stk)] # 0 => pgs[stk[Len(stk)]].stream = 0
  PROVE  StackOK(Front(stk), pgs)
<1>1. PICK f : f = Front(stk)
  OBVIOUS
<1>2. stk \in Seq(Nat) /\ Len(stk) \in Nat
  BY StackRange, Zenon
<1>3. PICK m \in Nat : m = Len(stk) - 1
  BY <1>2
<1>4. f \in Seq(Nat) /\ Len(f) = m /\ \A i \in 1 .. m : f[i] = stk[i]
  BY <1>1, <1>2, <1>3, Below
<1>5. /\ \A i \in 1 .. m : i \in 1 .. Len(stk) /\ i < Len(stk)
      /\ \A i \in 1 .. Len(stk) : i \in 1 .. m \/ i = Len(stk)
  BY <1>2, <1>3
<1>6. f # <<>>
  <2>1. m # 0
    BY <1>2, <1>3
  <2> QED
    BY <1>4, <2>1, EmptySeq
<1>7. \A i \in 1 .. m : f[i] <= Len(pgs)
  <2>1. \A i \in 1 .. Len(stk) : stk[i] <= Len(pgs)
    BY Zenon DEF StackOK
  <2> QED
    BY <1>4, <1>5, <2>1, Zenon
<1>8. \A i, j \in 1 .. m : f[i] # 0 /\ f[i] = f[j] => i = j
  <2>1. \A i, j \in 1 .. Len(stk) : stk[i] # 0 /\ stk[i] = stk[j] => i = j
    BY Zenon DEF StackOK
  <2> QED
    BY <1>4, <1>5, <2>1, Zenon
<1>9. \A i \in 1 .. m : i < m /\ f[i] # 0 => pgs[f[i]].covered
  <2>1. \A i \in 1 .. Len(stk) : i < Len(stk) /\ stk[i] # 0 => pgs[stk[i]].covered
    BY Zenon DEF StackOK
  <2> QED
    BY <1>4, <1>5, <2>1, Zenon
<1>10. ASSUME NEW r \in 1 .. Len(pgs), pgs[r].stream # 0 PROVE \E i \in 1 .. m : f[i] = r
  <2>1. PICK i \in 1 .. Len(stk) : stk[i] = r
    BY <1>10, Zenon DEF StackOK
  <2>2. r # 0
    OBVIOUS
  <2>3. i # Len(stk)
    BY <1>10, <2>1, <2>2, Zenon
  <2> QED
    BY <1>4, <1>5, <2>1, <2>3, Zenon
<1>11. \A r \in 1 .. Len(pgs) : pgs[r].stream # 0 => \E i \in 1 .. m : f[i] = r
  BY <1>10
<1>12. StackOK(f, pgs)
  BY <1>4, <1>6, <1>7, <1>8, <1>9, <1>11, Zenon DEF StackOK
<1> QED
  BY <1>1, <1>12

\* Pages q and streams v when the page on top has stopped its stream and leaves.
Leaves(sts, pgs, top, v, q, g) ==
  /\ Grows(sts, v) /\ Len(v) = Len(sts) /\ \A r \in 1 .. Len(sts) : StreamOK(v[r], g)
  /\ q \in Seq(PageRec) /\ Len(q) = Len(pgs)
  /\ \A r \in 1 .. Len(pgs) : PageOK(q[r], v) /\ q[r].gen = pgs[r].gen /\ (r # top => q[r] = pgs[r])
  /\ top # 0 => q[top].stream = 0
  /\ \A s \in 1 .. Len(sts) : ~v[s].cancelled /\ top # 0 => s # pgs[top].stream

\* That keeps everything.
LEMMA TopLeaves ==
  ASSUME NEW sts, NEW pgs, NEW stk, NEW res, NEW g, LogOK(sts, pgs, stk, res, g), Len(stk) > 1,
         NEW v, NEW q, Leaves(sts, pgs, stk[Len(stk)], v, q, g), StackOK(stk, q)
  PROVE  LogOK(v, q, Front(stk), res, g)
<1>1. PICK p : p = stk[Len(stk)]
  OBVIOUS
<1>2. /\ Grows(sts, v) /\ Len(v) = Len(sts) /\ \A r \in 1 .. Len(sts) : StreamOK(v[r], g)
      /\ q \in Seq(PageRec) /\ Len(q) = Len(pgs)
      /\ \A r \in 1 .. Len(pgs) : PageOK(q[r], v) /\ q[r].gen = pgs[r].gen /\ (r # p => q[r] = pgs[r])
      /\ (p # 0 => q[p].stream = 0)
      /\ \A s \in 1 .. Len(sts) : ~v[s].cancelled /\ p # 0 => s # pgs[p].stream
  BY <1>1, Zenon DEF Leaves
<1>3. /\ pgs \in Seq(PageRec) /\ StackOK(stk, pgs) /\ CountsOK(sts, pgs, res, g)
      /\ ((g => Len(pgs) <= 1) => Owned(sts, pgs, stk))
  BY Zenon DEF LogOK
<1>4. StackOK(Front(stk), q)
  BY <1>1, <1>2, StackLeft, Zenon
<1>5. CountsOK(v, q, res, g)
  BY <1>2, <1>3, Zenon DEF CountsOK
<1>6. ASSUME g => Len(pgs) <= 1 PROVE Owned(v, q, Front(stk))
  <2>1. PICK f : f = Front(stk)
    OBVIOUS
  <2>2. /\ \A i \in 1 .. Len(stk) : i = Len(stk) \/ (i \in 1 .. Len(f) /\ f[i] = stk[i])
        /\ \A i \in 1 .. Len(stk) : stk[i] # 0 => stk[i] \in 1 .. Len(pgs)
    <3>1. stk \in Seq(Nat) /\ Len(stk) \in Nat /\ \A i \in 1 .. Len(stk) : stk[i] # 0 => stk[i] \in 1 .. Len(pgs)
      BY <1>3, StackRange, Zenon
    <3>2. Len(f) = Len(stk) - 1 /\ \A i \in 1 .. Len(stk) - 1 : f[i] = stk[i]
      BY <2>1, <3>1, Below
    <3>3. \A i \in 1 .. Len(stk) : i = Len(stk) \/ i \in 1 .. Len(stk) - 1
      BY <3>1
    <3> QED
      BY <3>1, <3>2, <3>3, Zenon
  <2>3. ASSUME NEW s \in 1 .. Len(sts), ~v[s].cancelled
        PROVE  \E i \in 1 .. Len(f) : f[i] # 0 /\ q[f[i]].stream = s
    <3>1. ~sts[s].cancelled
      BY <1>2, <2>3, Zenon DEF Grows, Quiet
    <3>2. PICK i \in 1 .. Len(stk) : stk[i] # 0 /\ pgs[stk[i]].stream = s
      BY <1>3, <1>6, <3>1, Zenon DEF Owned
    <3>3. stk[i] # p
      BY <1>2, <2>3, <3>2, Zenon
    <3>4. i \in 1 .. Len(f) /\ f[i] = stk[i] /\ q[stk[i]] = pgs[stk[i]]
      BY <1>1, <1>2, <2>2, <3>2, <3>3, Zenon
    <3> QED
      BY <3>2, <3>4, Zenon
  <2> QED
    BY <1>2, <2>1, <2>3, Zenon DEF Owned
<1>7. v \in Seq(StreamRec)
  BY <1>2, Zenon DEF Grows
<1> QED
  BY <1>2, <1>4, <1>5, <1>6, <1>7, Zenon DEF LogOK

\* A page that follows no stream any more.
LEMMA PageWithout ==
  ASSUME NEW sts, NEW pg, PageOK(pg, sts)
  PROVE  /\ PageOK([pg EXCEPT !.stream = 0], sts) /\ [pg EXCEPT !.stream = 0] \in PageRec
         /\ [pg EXCEPT !.stream = 0].gen = pg.gen /\ [pg EXCEPT !.stream = 0].stream = 0
<1>1. PICK q : q = [pg EXCEPT !.stream = 0]
  OBVIOUS
<1>2. pg \in PageRec
  BY DEF PageOK
<1>3. /\ q \in PageRec /\ q.gen = pg.gen /\ q.lines = pg.lines /\ q.scrolled = pg.scrolled /\ q.dropped = pg.dropped
      /\ q.ended = pg.ended /\ q.covered = pg.covered /\ q.stream = 0
  <2>1. 0 \in 0 .. MaxStreams
    BY LogAssumption DEF LogAssumption
  <2>2. q \in PageRec
    BY <1>1, <1>2, <2>1 DEF PageRec
  <2>3. q.gen = pg.gen /\ q.lines = pg.lines /\ q.scrolled = pg.scrolled
    BY <1>1, <1>2 DEF PageRec
  <2>4. q.dropped = pg.dropped /\ q.ended = pg.ended /\ q.covered = pg.covered /\ q.stream = 0
    BY <1>1, <1>2 DEF PageRec
  <2> QED
    BY <2>2, <2>3, <2>4, Zenon
<1>4. SameLines(pg, q)
  BY <1>3, Zenon DEF SameLines
<1>5. q.ended \notin {"no", "resolve"} => \E s \in 1 .. Len(sts) : sts[s].id = q.gen /\ sts[s].finisher = "done"
  BY <1>3, Zenon DEF PageOK
<1>6. PageOK(q, sts)
  BY <1>3, <1>4, <1>5, PageChanged, Zenon
<1> QED
  BY <1>1, <1>3, <1>6

\* The page on top is left.
LEMMA BackKeeps ==
  ASSUME LogInv, Back
  PROVE  LogInv'
<1>1. /\ LogOK(streams, pages, stack, resolving, grouped) /\ grouped \in BOOLEAN /\ blocked \in BOOLEAN
      /\ StackOK(stack, pages) /\ pages \in Seq(PageRec) /\ streams \in Seq(StreamRec) /\ Len(streams) \in Nat
      /\ \A r \in 1 .. Len(pages) : PageOK(pages[r], streams) /\ pages[r] \in PageRec
      /\ \A s \in 1 .. Len(streams) : StreamOK(streams[s], grouped)
  BY PageAt
<1>2. Len(stack) > 1 /\ stack' = Front(stack) /\ UNCHANGED <<resolving, blocked, grouped>>
  BY Zenon DEF Back
<1>3. \E v, q : /\ streams' = v /\ pages' = q
                /\ Leaves(streams, pages, stack[Len(stack)], v, q, grouped) /\ StackOK(stack, q)
  <2>1. CASE TopOf # 0 /\ pages[TopOf].stream # 0
    <3>1. PICK p \in 1 .. Len(pages) : p = TopOf /\ stack[Len(stack)] = p
      BY <2>1, TopAt
    <3>2. PICK k \in 0 .. Len(streams) : k = pages[p].stream
      BY <1>1, <2>1, <3>1 DEF PageOK
    <3>3. PICK v : v = [streams EXCEPT ![k] = StopStream(streams[k])]
      OBVIOUS
    <3>4. PICK pg : pg = [pages[p] EXCEPT !.stream = 0]
      OBVIOUS
    <3>5. PICK q : q = [pages EXCEPT ![p] = pg]
      OBVIOUS
    <3>6. streams' = v /\ pages' = q
      BY <2>1, <3>1, <3>2, <3>3, <3>4, <3>5, Zenon DEF Back
    <3>7. StreamStopped(streams, k, v, grouped)
      BY <3>3, StopOne, Zenon
    <3>8. /\ Grows(streams, v) /\ Len(v) = Len(streams) /\ \A r \in 1 .. Len(streams) : StreamOK(v[r], grouped)
          /\ \A s \in 1 .. Len(streams) : ~v[s].cancelled => s # pages[p].stream
      BY <3>2, <3>7, Zenon DEF StreamStopped
    <3>9. \A r \in 1 .. Len(pages) : PageOK(pages[r], v)
      BY <1>1, <3>8, PageStays
    <3>10. PageOK(pg, v) /\ pg \in PageRec /\ pg.gen = pages[p].gen /\ pg.stream = 0
      BY <1>1, <3>4, <3>9, PageWithout, Zenon
    <3>11. TopSet(stack, pages, p, pg, q)
      BY <1>1, <3>1, <3>5, <3>10, StackTop, Zenon
    <3>12. /\ q \in Seq(PageRec) /\ Len(q) = Len(pages) /\ q[p] = pg /\ StackOK(stack, q)
           /\ \A r \in 1 .. Len(pages) : r # p => q[r] = pages[r]
      BY <3>11, Zenon DEF TopSet
    <3>13. \A r \in 1 .. Len(pages) : PageOK(q[r], v) /\ q[r].gen = pages[r].gen
      BY <3>9, <3>10, <3>12, Zenon
    <3>14. Leaves(streams, pages, stack[Len(stack)], v, q, grouped)
      BY <3>1, <3>8, <3>10, <3>12, <3>13, Zenon DEF Leaves
    <3> QED
      BY <3>6, <3>12, <3>14, Zenon
  <2>2. CASE ~(TopOf # 0 /\ pages[TopOf].stream # 0)
    <3>1. streams' = streams /\ pages' = pages
      BY <2>2, Zenon DEF Back
    <3>2. \A s \in 1 .. Len(streams) : Quiet(streams[s], streams[s]) /\ s # 0
      BY <1>1, QuietSelf, ElementOfSeq
    <3>3. Len(streams) <= Len(streams)
      BY <1>1
    <3>4. Grows(streams, streams)
      BY <1>1, <3>2, <3>3, Zenon DEF Grows
    <3>5. TopOf # 0 => pages[TopOf].stream = 0
      BY <2>2, Zenon
    <3>6. TopOf = stack[Len(stack)]
      BY DEF TopOf
    <3>7. Leaves(streams, pages, stack[Len(stack)], streams, pages, grouped)
      BY <1>1, <3>2, <3>4, <3>5, <3>6, Zenon DEF Leaves
    <3> QED
      BY <1>1, <3>1, <3>7, Zenon
  <2> QED
    BY <2>1, <2>2
<1>4. LogOK(streams', pages', Front(stack), resolving, grouped)
  BY <1>1, <1>2, <1>3, TopLeaves, Zenon
<1> QED
  BY <1>1, <1>2, <1>4, Zenon DEF LogInv

\* The session is disposed, with every page and every stream.
LEMMA DisposeKeeps ==
  ASSUME LogInv, Dispose
  PROVE  LogInv'
<1>1. /\ LogOK(streams, pages, stack, resolving, grouped) /\ grouped \in BOOLEAN /\ blocked \in BOOLEAN
      /\ pages \in Seq(PageRec) /\ streams \in Seq(StreamRec) /\ Len(streams) \in Nat /\ Len(pages) \in Nat
      /\ DOMAIN streams = 1 .. Len(streams) /\ DOMAIN pages = 1 .. Len(pages)
      /\ \A r \in 1 .. Len(pages) : PageOK(pages[r], streams) /\ pages[r] \in PageRec
      /\ \A s \in 1 .. Len(streams) : StreamOK(streams[s], grouped)
  BY PageAt
<1>2. CountsOK(streams, pages, resolving, grouped)
  BY <1>1, Zenon DEF LogOK
<1>3. stack' = <<0>> /\ UNCHANGED <<resolving, blocked, grouped>>
  BY Zenon DEF Dispose
<1>4. \A s \in 1 .. Len(streams) : streams'[s] = StopStream(streams[s]) \/ streams'[s] = [streams[s] EXCEPT !.cancelled = TRUE]
  BY <1>1, Zenon DEF Dispose
<1>5. \A s \in 1 .. Len(streams) : StreamOK(streams'[s], grouped) /\ Quiet(streams[s], streams'[s]) /\ streams'[s].cancelled
  <2> SUFFICES ASSUME NEW s \in 1 .. Len(streams)
               PROVE  StreamOK(streams'[s], grouped) /\ Quiet(streams[s], streams'[s]) /\ streams'[s].cancelled
    OBVIOUS
  <2>1. StreamOK(streams[s], grouped)
    BY <1>1
  <2>2. /\ StreamOK(StopStream(streams[s]), grouped) /\ Quiet(streams[s], StopStream(streams[s]))
        /\ StopStream(streams[s]).cancelled
        /\ StreamOK([streams[s] EXCEPT !.cancelled = TRUE], grouped)
        /\ Quiet(streams[s], [streams[s] EXCEPT !.cancelled = TRUE]) /\ [streams[s] EXCEPT !.cancelled = TRUE].cancelled
    BY <1>1, <2>1, StopsOK, Zenon
  <2> QED
    BY <1>4, <2>2, Zenon
<1>6. streams' \in Seq(StreamRec) /\ Len(streams') = Len(streams) /\ Grows(streams, streams')
  <2>1. streams' = [s \in 1 .. Len(streams) |-> streams'[s]]
    BY <1>1, Zenon DEF Dispose
  <2>2. \A s \in 1 .. Len(streams) : streams'[s] \in StreamRec
    BY <1>5, Zenon DEF StreamOK
  <2>3. streams' \in [1 .. Len(streams) -> StreamRec]
    BY <2>1, <2>2, Zenon
  <2>4. streams' \in Seq(StreamRec) /\ Len(streams') = Len(streams)
    BY <1>1, <2>3, Listed
  <2>5. Len(streams) <= Len(streams')
    BY <1>1, <2>4
  <2> QED
    BY <1>1, <1>5, <2>4, <2>5, Zenon DEF Grows
<1>7. \A r \in 1 .. Len(pages) : pages'[r] = [pages[r] EXCEPT !.stream = 0]
  BY <1>1, Zenon DEF Dispose
<1>8. \A r \in 1 .. Len(pages) : PageOK(pages[r], streams')
  BY <1>1, <1>6, PageStays
<1>9. \A r \in 1 .. Len(pages) : /\ PageOK(pages'[r], streams') /\ pages'[r] \in PageRec
                                 /\ pages'[r].gen = pages[r].gen /\ pages'[r].stream = 0
  <2> SUFFICES ASSUME NEW r \in 1 .. Len(pages)
               PROVE  /\ PageOK(pages'[r], streams') /\ pages'[r] \in PageRec
                      /\ pages'[r].gen = pages[r].gen /\ pages'[r].stream = 0
    OBVIOUS
  <2>1. PICK pg : pg = pages[r]
    OBVIOUS
  <2>2. PageOK(pg, streams')
    BY <1>8, <2>1, Zenon
  <2>3. /\ PageOK([pg EXCEPT !.stream = 0], streams') /\ [pg EXCEPT !.stream = 0] \in PageRec
        /\ [pg EXCEPT !.stream = 0].gen = pg.gen /\ [pg EXCEPT !.stream = 0].stream = 0
    BY <2>2, PageWithout, Zenon
  <2>4. pages'[r] = [pg EXCEPT !.stream = 0]
    BY <1>7, <2>1, Zenon
  <2> QED
    BY <2>1, <2>3, <2>4, Zenon
<1>10. pages' \in Seq(PageRec) /\ Len(pages') = Len(pages)
  <2>1. pages' = [r \in 1 .. Len(pages) |-> pages'[r]]
    BY <1>1, Zenon DEF Dispose
  <2>2. pages' \in [1 .. Len(pages) -> PageRec]
    BY <1>9, <2>1, Zenon
  <2> QED
    BY <1>1, <2>2, Listed
<1>11. StackOK(<<0>>, pages')
  <2>1. PICK t : t = <<0>>
    OBVIOUS
  <2>2. t \in Seq(Nat) /\ t # <<>> /\ Len(t) = 1 /\ t[1] = 0
    BY <2>1
  <2>3. \A i \in 1 .. 1 : i = 1
    OBVIOUS
  <2>4. \A i \in 1 .. Len(t) : t[i] = 0 /\ t[i] <= Len(pages')
    BY <1>1, <1>10, <2>2, <2>3
  <2>5. \A r \in 1 .. Len(pages') : pages'[r].stream = 0
    BY <1>9, <1>10, Zenon
  <2>6. StackOK(t, pages')
    BY <2>2, <2>4, <2>5, Zenon DEF StackOK
  <2> QED
    BY <2>1, <2>6
<1>12. CountsOK(streams', pages', resolving, grouped)
  BY <1>2, <1>6, <1>9, <1>10, Zenon DEF CountsOK
<1>13. Owned(streams', pages', <<0>>)
  BY <1>5, <1>6, Zenon DEF Owned
<1>14. LogOK(streams', pages', <<0>>, resolving, grouped)
  BY <1>5, <1>6, <1>9, <1>10, <1>11, <1>12, <1>13, Zenon DEF LogOK
<1> QED
  BY <1>1, <1>3, <1>14, Zenon DEF LogInv

-----------------------------------------------------------------------------
(* The theorems *)

\* At the start there is neither a stream nor a log page.
LEMMA LogInit == Init => LogInv
<1> SUFFICES ASSUME Init PROVE LogInv
  OBVIOUS
<1>1. PICK e : e = <<>>
  OBVIOUS
<1>2. PICK t : t = <<0>>
  OBVIOUS
<1>3. /\ streams = e /\ pages = e /\ stack = t /\ resolving = 0
  BY <1>1, <1>2, Zenon DEF Init
<1>4. grouped \in BOOLEAN /\ blocked \in BOOLEAN
  <2>1. Groupings \subseteq BOOLEAN
    BY LogAssumption
  <2>2. grouped \in Groupings /\ blocked = FALSE
    BY Zenon DEF Init
  <2> QED
    BY <2>1, <2>2, Zenon
<1>5. e \in Seq(StreamRec) /\ e \in Seq(PageRec) /\ Len(e) = 0 /\ \A i \in 1 .. Len(e) : FALSE
  <2>1. e \in Seq(StreamRec) /\ e \in Seq(PageRec) /\ Len(e) = 0
    BY <1>1, EmptySeq
  <2> QED
    BY <2>1
<1>6. t \in Seq(Nat) /\ t # <<>> /\ Len(t) = 1 /\ t[1] = 0 /\ \A i \in 1 .. 1 : i = 1
  BY <1>2
<1>7. \A i \in 1 .. Len(t) : t[i] = 0 /\ t[i] <= Len(e)
  BY <1>5, <1>6
<1>8. StackOK(t, e)
  BY <1>5, <1>6, <1>7, Zenon DEF StackOK
<1>9. /\ Len(e) <= MaxStreams /\ 0 \in Nat /\ 0 <= Len(e) /\ 0 + Len(e) <= Len(e)
      /\ Len(e) <= (IF grouped THEN MaxGroupPages ELSE MaxPages)
  <2>1. 0 <= MaxStreams /\ 0 <= MaxGroupPages /\ 0 <= MaxPages /\ 0 + 0 <= 0 /\ 0 <= 0
    BY LogAssumption
  <2> QED
    BY <1>5, <2>1
<1>10. CountsOK(e, e, 0, grouped)
  BY <1>5, <1>9, Zenon DEF CountsOK
<1>11. Owned(e, e, t)
  BY <1>5, Zenon DEF Owned
<1>12. LogOK(e, e, t, 0, grouped)
  BY <1>5, <1>8, <1>10, <1>11, Zenon DEF LogOK
<1> QED
  BY <1>3, <1>4, <1>12, Zenon DEF LogInv

\* No step breaks the invariant.
LEMMA LogStep == LogInv /\ [Next]_vars => LogInv'
<1> SUFFICES ASSUME LogInv, [Next]_vars PROVE LogInv'
  OBVIOUS
<1>1. CASE UNCHANGED vars
  BY <1>1, Zenon DEF LogInv, vars
<1>2. ASSUME NEW s \in DOMAIN streams, StreamStep(s) PROVE LogInv'
  <2>1. CASE OpenSucceeds(s)
    BY <2>1, OpenSucceedsKeeps
  <2>2. CASE OpenFails(s)
    BY <2>2, OpenFailsKeeps
  <2>3. CASE ReadLine(s)
    BY <2>3, ReadLineKeeps
  <2>4. CASE ScanEnds(s)
    BY <2>4, ScanEndsKeeps
  <2>5. CASE FinalDrain(s)
    BY <2>5, FinalDrainKeeps
  <2>6. CASE StopFlushing(s)
    BY <2>6, StopFlushingKeeps
  <2>7. CASE FlushTick(s)
    BY <2>7, FlushTickKeeps
  <2>8. CASE FlushLoopEnds(s)
    BY <2>8, FlushLoopEndsKeeps
  <2>9. CASE DeliverBatch(s, "flusher")
    BY <2>9, DeliverBatchKeeps
  <2>10. CASE DeliverBatch(s, "finisher")
    BY <2>10, DeliverBatchKeeps
  <2>11. CASE DeliverEnded(s)
    BY <2>11, DeliverEndedKeeps
  <2> QED
    BY <1>2, <2>1, <2>2, <2>3, <2>4, <2>5, <2>6, <2>7, <2>8, <2>9, <2>10, <2>11 DEF StreamStep
<1>3. CASE Open
  BY <1>3, OpenKeeps
<1>4. CASE ResolveFails
  BY <1>4, ResolveFailsKeeps
<1>5. ASSUME NEW n \in 0 .. MaxSources, Resolved(n) PROVE LogInv'
  BY <1>5, ResolvedKeeps
<1>6. CASE Restart
  BY <1>6, RestartKeeps
<1>7. CASE Pick
  BY <1>7, PickKeeps
<1>8. CASE Back
  BY <1>8, BackKeeps
<1>9. CASE Dispose
  BY <1>9, DisposeKeeps
<1> QED
  BY <1>1, <1>2, <1>3, <1>4, <1>5, <1>6, <1>7, <1>8, <1>9 DEF Next

\* The fields of everything, the stack and the counters, are in their types.
LEMMA LogTypes == LogInv => TypeOK
<1> SUFFICES ASSUME LogInv PROVE TypeOK
  OBVIOUS
<1>1. /\ pages \in Seq(PageRec) /\ streams \in Seq(StreamRec) /\ Len(pages) \in Nat /\ grouped \in BOOLEAN /\ blocked \in BOOLEAN
      /\ StackOK(stack, pages) /\ LogOK(streams, pages, stack, resolving, grouped)
  BY PageAt
<1>2. Len(pages) <= PageBound /\ resolving \in Nat /\ resolving <= Len(pages)
  BY <1>1, Zenon DEF LogOK, CountsOK, PageBound
<1>3. PageBound \in Nat
  <2>1. MaxPages \in Nat /\ MaxGroupPages \in Nat
    BY LogAssumption
  <2> QED
    BY <2>1, Zenon DEF PageBound
<1>4. resolving \in 0 .. PageBound
  BY <1>1, <1>2, <1>3
<1>5. stack \in Seq(0 .. PageBound)
  <2>1. /\ stack \in Seq(Nat) /\ Len(stack) \in Nat
        /\ \A i \in 1 .. Len(stack) : stack[i] \in Nat /\ (stack[i] # 0 => stack[i] \in 1 .. Len(pages))
    BY <1>1, StackRange
  <2>2. \A x \in Nat : (x # 0 => x \in 1 .. Len(pages)) => x \in 0 .. PageBound
    BY <1>1, <1>2, <1>3
  <2>3. \A i \in 1 .. Len(stack) : stack[i] \in 0 .. PageBound
    BY <2>1, <2>2, Zenon
  <2>4. DOMAIN stack = 1 .. Len(stack) /\ stack = [i \in 1 .. Len(stack) |-> stack[i]]
    BY <2>1, LenProperties
  <2>5. stack \in [1 .. Len(stack) -> 0 .. PageBound]
    BY <2>3, <2>4, Zenon
  <2> QED
    BY <2>1, <2>5, Listed
<1>6. streams \in Seq([id: Nat, read: {0} \cup LineNumbers,
                      buf: Seq(LineNumbers), dropped: {0} \cup LineNumbers,
                      opening: 0..MaxSources, reading: 0..MaxSources, cancelled: BOOLEAN,
                      flushStop: BOOLEAN, err: {"none", "open", "read"},
                      finisher: {"wait", "drain", "send", "stop", "end", "done"},
                      flusher: {"idle", "send", "done"},
                      mail: [{"finisher", "flusher"} -> Batch]])
  BY <1>1, Zenon DEF StreamRec, Finishers
<1>7. pages \in Seq([gen: Nat, stream: 0..MaxStreams, scrolled: Nat, dropped: Nat,
                    lines: Seq((1..MaxStreams) \X LineNumbers), covered: BOOLEAN,
                    ended: {"no", "none", "open", "read", "resolve"}])
  BY <1>1, Zenon DEF PageRec
<1> QED
  BY <1>1, <1>4, <1>5, <1>6, <1>7, Zenon DEF TypeOK

\* A page is alone as a page of the streams.
LEMMA AlonePage ==
  ASSUME LogInv, NEW p \in DOMAIN pages, Alone(p)
  PROVE  /\ p \in 1 .. Len(pages) /\ PageOK(pages[p], streams) /\ pages[p] \in PageRec /\ Lone(pages[p], streams)
         /\ pages[p].stream \in 1 .. Len(streams) /\ streams[pages[p].stream] \in StreamRec
<1>1. /\ DOMAIN pages = 1 .. Len(pages) /\ DOMAIN streams = 1 .. Len(streams)
      /\ \A r \in 1 .. Len(pages) : PageOK(pages[r], streams) /\ pages[r] \in PageRec
      /\ \A s \in 1 .. Len(streams) : streams[s] \in StreamRec
  BY PageAt
<1>2. Lone(pages[p], streams)
  BY <1>1, Zenon DEF Alone, Lone
<1>3. pages[p].stream \in 1 .. Len(streams)
  BY <1>1, <1>2, Zenon DEF Lone, PageOK
<1> QED
  BY <1>1, <1>2, <1>3, Zenon

\* Every line read for a page that was never covered and follows a stream no other stream
\* can be taken for is shown, scrolled off, counted as dropped, in the buffer or in a batch,
\* and the buffer and the page stay within their capacities: whatever the capacities, and
\* however appends, drains, deliveries and stops interleave (buffer.append, drain, flushNow).
THEOREM LinesStayAccounted == Spec => []LinesAccounted
<1>1. LogInv => LinesAccounted
  <2> SUFFICES ASSUME LogInv PROVE LinesAccounted
    OBVIOUS
  <2>1. Bounded
    <3>1. /\ DOMAIN pages = 1 .. Len(pages) /\ DOMAIN streams = 1 .. Len(streams)
          /\ \A r \in 1 .. Len(pages) : PageOK(pages[r], streams)
          /\ \A s \in 1 .. Len(streams) : StreamOK(streams[s], grouped)
      BY PageAt
    <3> QED
      BY <3>1, Zenon DEF Bounded, PageOK, StreamOK, BufferOK
  <2>2. ASSUME NEW p \in DOMAIN pages, Alone(p), ~pages[p].covered
        PROVE  streams[pages[p].stream].read
                 = Len(pages[p].lines) + pages[p].scrolled + pages[p].dropped
                   + Len(streams[pages[p].stream].buf) + streams[pages[p].stream].dropped
                   + InFlight(streams[pages[p].stream].mail["flusher"])
                   + InFlight(streams[pages[p].stream].mail["finisher"])
    <3>1. PICK pg : pg = pages[p]
      OBVIOUS
    <3>2. PICK st : st = streams[pg.stream]
      OBVIOUS
    <3>3. PageOK(pg, streams) /\ pg \in PageRec /\ Lone(pg, streams) /\ st \in StreamRec
      BY <2>2, <3>1, <3>2, AlonePage
    <3>4. Accounted(pg, streams)
      BY <2>2, <3>1, <3>3, Zenon DEF PageOK
    <3>5. PICK a \in Nat, b \in Nat, c \in Nat, d \in Nat, e \in Nat, x \in Nat, y \in Nat :
            /\ a = Len(pg.lines) /\ b = pg.scrolled /\ c = pg.dropped /\ d = Len(st.buf) /\ e = st.dropped
            /\ x = InFlight(st.mail["flusher"]) /\ y = InFlight(st.mail["finisher"])
      BY <3>3, PageFields, StreamFields
    <3>6. st.read = a + b + c + (d + e + x + y)
      BY <3>2, <3>4, <3>5, Zenon DEF Accounted, Weight
    <3>7. a + b + c + (d + e + x + y) = a + b + c + d + e + x + y
      OBVIOUS
    <3> QED
      BY <3>1, <3>2, <3>5, <3>6, <3>7, Zenon
  <2>3. NoSilentLoss
    BY <2>2, Zenon DEF NoSilentLoss
  <2> QED
    BY <2>1, <2>3, LogTypes DEF LinesAccounted
<1> QED
  BY LogInit, LogStep, <1>1, PTL DEF Spec

\* A page that follows a stream no other stream can be taken for shows lines of that stream
\* only, each once, and says that it has ended only when it has; and a stream that was not
\* told to stop has its page on the stack: for any number of restarts, pages and lines (the
\* generation in the id, restart, OnLeave).
THEOREM StreamsStayOwn == Spec => []StreamsBelong
<1>1. LogInv => StreamsBelong
  <2> SUFFICES ASSUME LogInv PROVE StreamsBelong
    OBVIOUS
  <2>1. ASSUME NEW p \in DOMAIN pages, Alone(p)
        PROVE  /\ \A i \in DOMAIN pages[p].lines : pages[p].lines[i][1] = pages[p].stream
               /\ Cardinality(ToSet(pages[p].lines)) = Len(pages[p].lines)
               /\ pages[p].ended \notin {"no", "resolve"} => streams[pages[p].stream].finisher = "done"
    <3>1. PICK pg : pg = pages[p]
      OBVIOUS
    <3>2. PageOK(pg, streams) /\ pg \in PageRec /\ Lone(pg, streams)
      BY <2>1, <3>1, AlonePage
    <3>3. pg.lines \in Seq((1..MaxStreams) \X LineNumbers) /\ DOMAIN pg.lines = 1 .. Len(pg.lines)
      BY <3>2, PageFields, LenProperties
    <3>4. LinesOK(pg.lines, pg.gen, streams) /\ Once(pg.lines)
      BY <3>2, Zenon DEF PageOK, LinesOK
    <3>5. \A i \in 1 .. Len(pg.lines) : pg.lines[i][1] = pg.stream
      BY <3>2, <3>4, Zenon DEF LinesOK, LineOK, Lone
    <3>6. Cardinality(ToSet(pg.lines)) = Len(pg.lines)
      BY <3>3, <3>4, OnceCounts
    <3>7. pg.ended \notin {"no", "resolve"} => streams[pg.stream].finisher = "done"
      BY <3>2, Zenon DEF PageOK, Lone
    <3> QED
      BY <3>1, <3>3, <3>5, <3>6, <3>7, Zenon
  <2>2. OnlyOwnStream
    BY <2>1, Zenon DEF OnlyOwnStream
  <2>3. NoOrphan
    <3>1. /\ DOMAIN streams = 1 .. Len(streams) /\ LogOK(streams, pages, stack, resolving, grouped)
          /\ StackOK(stack, pages)
      BY PageAt
    <3>2. DOMAIN stack = 1 .. Len(stack)
      <4>1. stack \in Seq(Nat)
        BY TopAt
      <4> QED
        BY <4>1, LenProperties
    <3>3. (grouped => Len(pages) <= 1) => Owned(streams, pages, stack)
      BY <3>1, Zenon DEF LogOK
    <3> QED
      BY <3>1, <3>2, <3>3, Zenon DEF NoOrphan, Owned
  <2> QED
    BY <2>2, <2>3 DEF StreamsBelong
<1> QED
  BY LogInit, LogStep, <1>1, PTL DEF Spec
=============================================================================
