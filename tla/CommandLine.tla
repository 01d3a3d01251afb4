----------------------------- MODULE CommandLine -----------------------------
(***************************************************************************)
(* The root model's command line: ":" with its palette (app/palette.go,     *)
(* command.go), "/" with the live filter and its suggestions, and what      *)
(* Enter runs, down to the preview that :apply opens and the pages that     *)
(* discovery's answers open (app.go, view/diffapply.go).  Answers and other *)
(* messages that replace the page arrive while the user is typing.  There   *)
(* is a session throughout.                                                 *)
(***************************************************************************)
EXTENDS FilterTerms, LineDiff, TextView, Discovery

CONSTANTS Catalog,      \* commandCatalog, sorted by name: [name, aliases]
          Verb,         \* word -> verb, for the words parseCommand knows
          CommandKeys,  \* what may be typed after ":"
          FilterKeys,   \* what may be typed after "/"
          StreamLines,  \* the lines that editor may leave: separators, ignored ones, manifests
          YamlLines,    \* the lines of an object, live or proposed
          Streams,      \* what the editor of :apply may be left with
          Discoveries,  \* what discovery may answer
          Expressions,  \* what the word after :explain may stand for
          Needles,      \* what may be searched for in a text page
          Heights,      \* the rows a text page may be given
          WindowSize,   \* rows of the palette's window
          MaxKeys       \* line -> bound on the keys that open it or add to it in a behaviour

ASSUME CatalogOK ==
    /\ Catalog \in Seq([name : Seq(CommandKeys), aliases : SUBSET Seq(CommandKeys)]) /\ Catalog # <<>>
    /\ TableRows \in Seq([ns : Seq(FilterKeys), name : Seq(FilterKeys), cell : Seq(FilterKeys)])
    /\ WindowSize \in Nat \ {0} /\ MaxKeys \in [{"command", "filter"} -> Nat] /\ Heights \subseteq Nat

\* A stream is made of manifests, separators and lines that are ignored, and has a
\* separator between two manifests; what is new has lines, and no live object.
ASSUME StreamsOK ==
    /\ Streams \subseteq Seq(StreamLines)
    /\ \A l \in StreamLines \ ({Separator} \cup Ignored) :
         /\ l = Manifest(l[2])
         /\ l[2] \in [fails : {"none", "parse", "map", "get", "patch"}, isNew : BOOLEAN,
                       live : Seq(YamlLines), proposed : Seq(YamlLines)]
         /\ l[2].isNew => l[2].live = <<>> /\ l[2].proposed # <<>>
    /\ \A data \in Streams : \A i, j \in 1..Len(data) :
         (i < j /\ data[i][1] = "obj" /\ data[j][1] = "obj") => \E k \in i..j : data[k] = Separator

\* Discovery answers lists of resources, whose words are the names they go by; a
\* word typed is a sequence of keys, and so is an expression.
Resources == [name : Seq(STRING), kind : STRING, words : SUBSET (Seq(STRING) \ {<<>>}), sub : BOOLEAN]
ASSUME DiscoveriesOK ==
    /\ Discoveries \subseteq [err : BOOLEAN, lists : Seq([ok : BOOLEAN, group : Seq(STRING), version : STRING,
                                                        resources : Seq(Resources)])]
    /\ Expressions \subseteq Seq(STRING)

VARIABLES
    line,        \* the line this behaviour opens, ":" or "/"
    mode,        \* Model.mode: "none", "command", "filter"; "quit" when the program ended
    buf,         \* inputBuf
    cmdSel,      \* the palette's highlighted row, from 0
    suggest,     \* suggestPrefix and suggest
    suggestSel,  \* the highlighted suggestion, from 0, or -1
    filter,      \* the active page's filter
    keys,        \* keys spent of MaxKeys
    ran,         \* what Enter ran, until a line or a page is opened
    editing,     \* the editor of :apply owns the terminal
    preview,     \* what :apply reports: the stream and the results shown, or nothing
    asked,       \* the lookup that is under way, or nothing
    answer,      \* the answer to it, as long as it is looked at
    text         \* the text page on top, with its rows, or nothing

typedVars == <<line, mode, buf, cmdSel, suggest, suggestSel, filter, keys>>
lineVars == <<typedVars, ran>>
pageVars == <<preview, asked, answer, text>>
vars == <<line, mode, buf, cmdSel, suggest, suggestSel, filter, keys, ran, editing, preview, asked, answer, text>>

NoSuggest == [prefix |-> <<>>, matches |-> <<>>]
NotRun == [word |-> <<>>, verb |-> "none", arg |-> <<>>]
NoPreview == [data |-> <<>>, results |-> <<>>]
NotAsked == [verb |-> "none", arg |-> <<>>]
NoAnswer == [to |-> NotAsked]
NoText == [rows |-> 0]

-----------------------------------------------------------------------------
(* Palette *)

\* matchRank: 1 if the name or an alias begins with the token, 2 if one holds
\* it, 0 otherwise.
MatchRank(c, token) ==
    LET words == {c.name} \cup c.aliases
    IN IF \E w \in words : IsPrefix(token, w) THEN 1
       ELSE IF \E w \in words : Within(token, w) THEN 2 ELSE 0

\* matchCommands: prefix matches first, each group in catalog order.
MatchCommands(token) ==
    LET ranked(r) == Pick(Catalog, {k \in 1..Len(Catalog) : MatchRank(Catalog[k], token) = r})
    IN IF token = <<>> THEN Catalog ELSE ranked(1) \o ranked(2)

\* commandMatches: the catalog filtered by the buffer up to its first space.
CommandMatches(b) == MatchCommands(Split(b, " ")[1])

\* selectedCommand: what Enter runs in place of the buffer; nothing if the
\* buffer holds a space or nothing matches.
SelectedCommand(b, sel) ==
    LET matches == CommandMatches(b)
    IN IF " " \in ToSet(b) \/ sel >= Len(matches) THEN b ELSE matches[sel + 1].name

\* paletteWindow: the rows drawn, [start, end).
PaletteWindow(sel, n) ==
    IF WindowSize >= n THEN <<0, n>>
    ELSE LET start == IF sel >= WindowSize THEN sel - WindowSize + 1 ELSE 0
         IN IF start + WindowSize > n THEN <<n - WindowSize, n>> ELSE <<start, start + WindowSize>>

-----------------------------------------------------------------------------
(* Commands *)

\* ResolveKind: the name of the page that a name or an alias stands for.
Resolve(word) == {Catalog[k].name : k \in {n \in 1..Len(Catalog) : word \in {Catalog[n].name} \cup Catalog[n].aliases}}

\* parseCommand: a verb, and the word it is about.
ParseCommand(typed) ==
    LET f == Fields(typed)
        arg == IF Len(f) > 1 THEN f[2] ELSE <<>>
    IN IF f = <<>> THEN [verb |-> "noop", arg |-> <<>>]
       ELSE IF f[1] \in DOMAIN Verb
       THEN [verb |-> Verb[f[1]], arg |-> IF Verb[f[1]] \in {"ctx", "explain"} THEN arg ELSE <<>>]
       ELSE [verb |-> IF "." \in ToSet(f[1]) THEN "crdopen" ELSE "nav", arg |-> f[1]]

\* explainCommand and openCRD: what they need, or a hint about their usage.
ExplainCommand(expr) == IF expr = <<>> THEN "usage" ELSE "explain"
OpenCRD(token) ==
    LET dot == SelectInSeq(token, LAMBDA c : c = ".")
    IN IF dot = 1 \/ dot = Len(token) THEN "usage" ELSE "open resource"

\* runCommand: what is done, and for what.  A word that is no kind is looked up
\* in discovery (openResource).
RunCommand(typed) ==
    LET c == ParseCommand(typed)
        does(what, for) == [word |-> typed, verb |-> what, arg |-> for]
    IN CASE c.verb = "ctx" -> does(IF c.arg = <<>> THEN "pick context" ELSE "switch context", c.arg)
         [] c.verb = "explain" -> does(ExplainCommand(c.arg), c.arg)
         [] c.verb = "crdopen" -> does(OpenCRD(c.arg), c.arg)
         [] c.verb = "nav" -> IF Resolve(c.arg) # {} THEN does("navigate", CHOOSE k \in Resolve(c.arg) : TRUE)
                              ELSE does("open resource", c.arg)
         [] OTHER -> does(c.verb, c.arg)

-----------------------------------------------------------------------------
(* Keys *)

\* Keys reach the line: the program runs, no editor owns the terminal, and no
\* preview or answer is looked at.  Who asked waits for the answer: that a page
\* arrives in the middle of a line is PageArrives.
CanType == mode # "quit" /\ ~editing /\ preview = NoPreview /\ asked = NotAsked /\ answer = NoAnswer

\* recomputeSuggest, as the buffer becomes b in filter mode.
Suggestions(b) == suggest' = FilterMatches(b) /\ suggestSel' = -1

OpenCommand ==
    /\ CanType /\ mode = "none" /\ line = "command" /\ keys < MaxKeys[line]
    /\ mode' = "command" /\ buf' = <<>> /\ cmdSel' = 0 /\ keys' = keys + 1 /\ ran' = NotRun
    /\ UNCHANGED <<line, suggest, suggestSel, filter, editing, pageVars>>

\* The page keeps its filter until the first key.
OpenFilter ==
    /\ CanType /\ mode = "none" /\ line = "filter" /\ keys < MaxKeys[line]
    /\ mode' = "filter" /\ buf' = <<>> /\ keys' = keys + 1
    /\ Suggestions(<<>>)
    /\ UNCHANGED <<line, cmdSel, filter, ran, editing, pageVars>>

\* esc with no line open clears the page's filter.
ClearFilter ==
    /\ CanType /\ mode = "none" /\ filter # <<>>
    /\ filter' = <<>>
    /\ UNCHANGED <<line, mode, buf, cmdSel, suggest, suggestSel, keys, ran, editing, pageVars>>

\* The buffer becomes b: the highlight goes back to the first row, the filter is
\* applied live and the suggestions are those of the new text.
EditedKeepsSel(b) ==
    /\ buf' = b /\ cmdSel' = cmdSel
    /\ IF mode = "filter" THEN filter' = b /\ Suggestions(b) ELSE UNCHANGED <<filter, suggest, suggestSel>>
Edited(b) ==
    /\ buf' = b /\ cmdSel' = 0
    /\ IF mode = "filter" THEN filter' = b /\ Suggestions(b) ELSE UNCHANGED <<filter, suggest, suggestSel>>

Type(c) ==
    /\ CanType /\ keys < MaxKeys[line]
    /\ c \in (CASE mode = "command" -> CommandKeys [] mode = "filter" -> FilterKeys [] OTHER -> {})
    /\ Edited(Append(buf, c))
    /\ keys' = keys + 1
    /\ UNCHANGED <<line, mode, ran, editing, pageVars>>

\* Backspace on an empty buffer leaves it empty, and re-applies it.
Backspace ==
    /\ CanType /\ mode \in {"command", "filter"}
    /\ Edited(IF buf = <<>> THEN buf ELSE Front(buf))
    /\ UNCHANGED <<line, mode, keys, ran, editing, pageVars>>

PaletteMove(d) ==
    /\ CanType /\ mode = "command"
    /\ IF d = 1 THEN cmdSel < Len(CommandMatches(buf)) - 1 ELSE cmdSel > 0
    /\ cmdSel' = cmdSel + d
    /\ UNCHANGED <<line, mode, buf, suggest, suggestSel, filter, keys, ran, editing, pageVars>>

PaletteTab ==
    /\ CanType /\ mode = "command" /\ cmdSel < Len(CommandMatches(buf))
    /\ buf' = CommandMatches(buf)[cmdSel + 1].name /\ cmdSel' = 0
    /\ UNCHANGED <<line, mode, suggest, suggestSel, filter, keys, ran, editing, pageVars>>

\* selectSuggest: the highlight wraps, the buffer and the filter follow it, and
\* the list stays what it was.
NextSel(d) ==
    LET n == Len(suggest.matches)
    IN CASE suggestSel < 0 /\ d > 0 -> 0
         [] suggestSel < 0 /\ d < 0 -> n - 1
         [] OTHER -> (suggestSel + d + n) % n
SelectSuggest(d) ==
    /\ CanType /\ mode = "filter" /\ Len(suggest.matches) > 0 /\ keys < MaxKeys[line]
    /\ suggestSel' = NextSel(d) /\ keys' = keys + 1
    /\ buf' = suggest.prefix \o suggest.matches[NextSel(d) + 1]
    /\ filter' = suggest.prefix \o suggest.matches[NextSel(d) + 1]
    /\ UNCHANGED <<line, mode, cmdSel, suggest, ran, editing, pageVars>>

\* The line is closed.  What the palette and the suggestions held is set anew
\* when a line is opened again, so it is forgotten here.
Closed == buf' = <<>> /\ cmdSel' = 0 /\ suggest' = NoSuggest /\ suggestSel' = -1

Esc ==
    /\ CanType /\ mode \in {"command", "filter"}
    /\ filter' = IF mode = "filter" THEN <<>> ELSE filter
    /\ mode' = "none" /\ Closed
    /\ UNCHANGED <<line, keys, ran, editing, pageVars>>

\* The lookup a command starts.  What the word after :explain says is chosen
\* from Expressions when the answer comes.
Lookup(r) ==
    CASE r.verb = "open resource" -> [verb |-> r.verb, arg |-> r.arg]
      [] r.verb = "explain" -> [verb |-> r.verb, arg |-> <<>>]
      [] OTHER -> NotAsked

\* Enter keeps the filter, or runs the selected command, or the buffer.
\* navigate builds a new page, whose filter is empty; :apply opens the editor.
Enter ==
    /\ CanType /\ mode \in {"command", "filter"}
    /\ Closed
    /\ IF mode = "filter" THEN mode' = "none" /\ UNCHANGED <<filter, ran, editing, asked>>
       ELSE LET r == RunCommand(SelectedCommand(buf, cmdSel))
            IN /\ ran' = r
               /\ mode' = IF r.verb = "quit" THEN "quit" ELSE "none"
               /\ filter' = IF r.verb = "navigate" THEN <<>> ELSE filter
               /\ editing' = (r.verb = "apply")
               /\ asked' = Lookup(r)
    /\ UNCHANGED <<line, keys, preview, answer, text>>

\* pushPage or navigate, by a message that was under way: the line is closed.
PageArrives ==
    /\ CanType
    /\ mode' = "none" /\ filter' = <<>> /\ Closed
    /\ UNCHANGED <<line, keys, ran, editing, pageVars>>

\* A text page is opened, and drawn: every Update is followed by a View.
Opens(lines) == \E h \in Heights : text' = [rows |-> h, v |-> ViewText(NewTextView(lines), h)]

\* renderDiffResults: a hint, and for each document a header and its difference.
RenderDiffResults(results) ==
    LET body(r) == IF r.err THEN << <<"!">> >> ELSE IF r.diff = <<>> THEN << <<"(">> >> ELSE r.diff
    IN << <<"#">> >> \o Flatten([k \in 1..Len(results) |-> << <<"">>, <<"===">> >> \o body(results[k])]) \o << <<"">> >>

\* The editor ends: its failure is a toast, and so is a stream that would
\* change nothing; anything else opens the preview, a page of its own.
EditorFails ==
    /\ editing /\ editing' = FALSE
    /\ UNCHANGED <<lineVars, pageVars>>

Previews(data) ==
    LET results == Diff(Documents(data))
    IN IF DiffHasContent(results)
       THEN preview' = [data |-> data, results |-> results] /\ Opens(RenderDiffResults(results))
       ELSE preview' = [data |-> data, results |-> <<>>] /\ text' = NoText
EditorReturns ==
    /\ editing /\ editing' = FALSE /\ ran' = NotRun
    /\ \E data \in Streams : Previews(data)
    /\ UNCHANGED <<typedVars, asked, answer>>

\* splitExpr: the kind, and the path without its empty segments.
SplitExpr(expr) ==
    LET parts == Split(expr, ".")
    IN [token |-> parts[1], path |-> Pick(Tail(parts), NotEmpty(Tail(parts)))]

\* Discovery answers openResource, openCRD or explainCommand: an error is a
\* toast, what was found is a new page.
OpenAnswers(d) ==
    LET info == ResolveResource(d, asked.arg)
    IN /\ asked.verb = "open resource" /\ asked' = NotAsked /\ ran' = NotRun
       /\ answer' = [to |-> asked, d |-> d, info |-> info]
       /\ filter' = IF info = <<>> THEN filter ELSE <<>>
       /\ UNCHANGED <<line, mode, buf, cmdSel, suggest, suggestSel, keys, editing, preview, text>>

ShowsPage(pages) ==
    IF pages = {} THEN UNCHANGED <<filter, text>> ELSE filter' = <<>> /\ \E p \in pages : Opens(p)
ExplainAnswers(d, expr) ==
    LET e == SplitExpr(expr)
    IN /\ asked.verb = "explain" /\ asked' = NotAsked /\ ran' = NotRun
       /\ answer' = [to |-> asked, d |-> d, expr |-> expr]
       /\ ShowsPage(Explain(d, e.token, e.path))
       /\ UNCHANGED <<line, mode, buf, cmdSel, suggest, suggestSel, keys, editing, preview>>

\* Keys of the text page, and a terminal that changes its size.
TextStep(v) ==
    /\ text # NoText /\ text' = [text EXCEPT !.v = ViewText(v, text.rows)]
    /\ UNCHANGED <<lineVars, editing, preview, asked, answer>>
TextScroll(d) == text # NoText /\ TextStep(Scroll(text.v, d * text.v.height))
TextLine(d) == text # NoText /\ TextStep(Scroll(text.v, d))
TextEnds == text # NoText /\ (TextStep(GoHome(text.v)) \/ TextStep(GoEnd(text.v)))
TextJump(d) == text # NoText /\ TextStep(JumpMatch(text.v, d))
TextSearch(f) == text # NoText /\ TextStep(SetTextFilter(text.v, f))
Resize(h) ==
    /\ text # NoText /\ text' = [rows |-> h, v |-> ViewText(text.v, h)]
    /\ UNCHANGED <<lineVars, editing, preview, asked, answer>>

\* The page is left, or the toast is gone.
ClosePreview ==
    /\ preview # NoPreview \/ answer # NoAnswer
    /\ preview' = NoPreview /\ answer' = NoAnswer /\ text' = NoText
    /\ UNCHANGED <<lineVars, editing, asked>>

\* The program has ended.
Ended == mode = "quit" /\ UNCHANGED vars

-----------------------------------------------------------------------------
Init ==
    /\ line \in {"command", "filter"}
    /\ mode = "none" /\ buf = <<>> /\ cmdSel = 0
    /\ suggest = NoSuggest /\ suggestSel = -1
    /\ filter = <<>> /\ keys = 0
    /\ ran = NotRun /\ editing = FALSE /\ preview = NoPreview
    /\ asked = NotAsked /\ answer = NoAnswer /\ text = NoText

Next ==
    \/ OpenCommand \/ OpenFilter \/ ClearFilter
    \/ \E c \in CommandKeys \cup FilterKeys : Type(c)
    \/ Backspace \/ Esc \/ Enter \/ PaletteTab
    \/ \E d \in {-1, 1} : PaletteMove(d) \/ SelectSuggest(d)
    \/ PageArrives \/ EditorFails \/ EditorReturns \/ ClosePreview
    \/ \E d \in Discoveries : OpenAnswers(d) \/ \E expr \in Expressions : ExplainAnswers(d, expr)
    \/ \E d \in {-1, 1} : TextScroll(d) \/ TextLine(d) \/ TextJump(d)
    \/ TextEnds \/ (\E f \in Needles : TextSearch(f)) \/ (\E h \in Heights : Resize(h))
    \/ Ended

Spec == Init /\ [][Next]_vars

-----------------------------------------------------------------------------
(* Properties *)

Texts == Seq(CommandKeys \cup FilterKeys)
Matches == CommandMatches(buf)

\* The variables have their types, while a suggestion is highlighted the buffer
\* and the page's filter are that suggestion (selectSuggest), and a text page's
\* window never reaches past its lines.
TypeOK ==
    /\ line \in {"command", "filter"} /\ mode \in {"none", "command", "filter", "quit"}
    /\ buf \in Texts /\ filter \in Texts
    /\ cmdSel \in 0..(Len(Catalog) - 1) /\ keys \in 0..MaxKeys[line] /\ editing \in BOOLEAN
    /\ suggestSel \in -1..(Len(suggest.matches) - 1)
    /\ (mode = "filter" /\ suggestSel >= 0) => filter = suggest.prefix \o suggest.matches[suggestSel + 1]
    /\ text # NoText => text.v.offset \in 0..MaxOffset(text.v)

\* Once anything was typed after "/", the rows on screen are those of the text on
\* the line: typing, deleting and picking suggestions all re-apply the filter.
FilterFollowsLine == (mode = "filter" /\ buf # <<>>) => filter = buf

\* The palette's highlight is one of the commands listed, and the window drawn
\* shows it, however the list has shrunk while the user types (renderPalette).
HighlightShown ==
    mode = "command" =>
        /\ cmdSel = 0 \/ cmdSel < Len(Matches)
        /\ Len(Matches) > 0 => /\ PaletteWindow(cmdSel, Len(Matches))[1] <= cmdSel
                               /\ cmdSel < PaletteWindow(cmdSel, Len(Matches))[2]

LastToken == After(buf, " ")
PlainValue == LET v == ValueOf(Drop(LastToken, "!")) IN v # <<>> /\ ~Begins(v, "~") /\ ~Scoped(v)

\* Typing "|" after a value does not change which rows match, although the next
\* alternative is still empty (the hazard splitAlternatives describes).  A value
\* that repeats its column ("ns:ns:a") is literal text until it has a "|".
BarIsHarmless ==
    (mode = "filter" /\ LastToken # <<>> /\ PlainValue) => FilterRows(Append(buf, "|")) = FilterRows(buf)

\* Terms are AND-ed: whatever is typed after a space only narrows what the
\* terms before it kept, half-typed and ignored terms included.
TermsNarrow == mode = "filter" => FilterRows(buf) \subseteq FilterRows(UpTo(buf, " "))

\* The hint offered for an empty result helps: the term it suggests matches
\* every row that one of the user's terms on that column matched by itself.
HintHelps ==
    LET hint == UnsatisfiableHint(buf)
    IN (mode = "filter" /\ FilterRows(buf) = {} /\ hint # <<>>) =>
         \A t \in ToSet(PlainTerms(buf)) :
             (ScopeOf(t) = ScopeOf(hint) /\ Term(t) # {}) => FilterRows(t) \subseteq FilterRows(hint)

\* The completer and the parser agree: the term a suggestion completes is found
\* in some row of the table, so picking one never leads to text nothing holds.
SuggestionFits ==
    mode = "filter" => \A k \in 1..Len(suggest.matches) :
        \E r \in ToSet(TableRows) :
            \A t \in ParseFilter(After(suggest.prefix, " ") \o suggest.matches[k]) : Found(t, r)

ObjectLines(data) == {k \in 1..Len(data) : data[k][1] = "obj"}
Manifests(data) == LET l == Pick(data, ObjectLines(data)) IN [k \in 1..Len(l) |-> l[k][2]]

\* The preview of :apply has one entry per manifest, in order, and each entry
\* that is no error rebuilds both sides: dropping the "+" lines gives the live
\* object, dropping the "-" lines the proposed one.
PreviewRebuilds ==
    preview.results # <<>> =>
        /\ Len(preview.results) = Len(Manifests(preview.data))
        /\ \A k \in 1..Len(preview.results) :
             LET doc == Manifests(preview.data)[k]
                 diff == preview.results[k].diff
             IN /\ preview.results[k].err <=> doc.fails # "none"
                /\ doc.fails = "none" =>
                     \/ diff = <<>> /\ ~doc.isNew /\ doc.live = doc.proposed
                     \/ Side(diff, "-") = doc.live /\ Side(diff, "+") = doc.proposed

\* "no changes to apply" is said only of a stream that would change nothing and
\* in which nothing failed.
NoChangeIsTrue ==
    (preview # NoPreview /\ preview.results = <<>>) =>
        \A k \in 1..Len(Manifests(preview.data)) :
            LET doc == Manifests(preview.data)[k]
            IN doc.fails = "none" /\ ~doc.isNew /\ doc.live = doc.proposed

\* A search shows what it found: after n, N and every further key of a search,
\* the match they are on is in the window that is drawn.
SearchShows ==
    [][((\E d \in {-1, 1} : TextJump(d)) \/ (text # NoText /\ text.v.filter # "" /\ \E f \in Needles : TextSearch(f)))
         => MatchOnScreen(text'.v)]_vars

Word(l) == LET dot == SelectInSeq(l.arg, LAMBDA c : c = ".") IN IF dot = 0 THEN l.arg ELSE SubSeq(l.arg, 1, dot - 1)
Group(l) == SubSeq(l.arg, Len(Word(l)) + 2, Len(l.arg))

\* What discovery returned is enough: a word is unknown only if no list that was
\* answered holds it, whichever groups failed, and the page that opens is the
\* resource, and the group, the user named.
FoundIfServed ==
    (answer # NoAnswer /\ answer.to.verb = "open resource") =>
        LET named == {x \in ToSet(Served(answer.d.lists)) :
                        x.r.name = Word(answer.to) /\ ("." \in ToSet(answer.to.arg) => x.group = Group(answer.to))}
        IN IF named = {} THEN answer.info = <<>> ELSE answer.info # <<>> /\ ToSet(answer.info) \subseteq named

\* :explain shows the fields a path really leads to, through references, lists
\* and maps, and refuses exactly the paths that lead nowhere.
ExplainFollowsTypes ==
    (answer # NoAnswer /\ answer.to.verb = "explain") =>
        LET e == SplitExpr(answer.expr)
            kind == FindKind(answer.d.lists, e.token)
            own == <<kind[1].group, kind[1].version, kind[1].r.kind>>
            names == IF own \in Schemas \ Unmarked THEN {own} ELSE {n \in Schemas : n[2] = own[2] /\ n[3] = own[3]}
            found == UNION {ToSet(TypeAt(n, e.path)) : n \in names}
            listed == {text.v.lines[k][2] : k \in {m \in 1..Len(text.v.lines) : text.v.lines[m][1] = "field"}}
        IN IF kind = <<>> \/ <<kind[1].group, kind[1].version>> \notin Documented \/ found = {}
           THEN text = NoText
           ELSE text # NoText /\ \E t \in found : listed = FieldsOf(t)

Runs == mode = "command" /\ ran' # ran

\* Enter on a word runs the command highlighted on screen.
RunsTheHighlighted ==
    [][(Runs /\ " " \notin ToSet(buf) /\ Len(Matches) > 0) => ran'.word = Matches[cmdSel + 1].name]_vars

\* What is on screen follows the line, however it came about: the rows are those
\* of the text typed, deleted or completed, and the palette's highlight is one of
\* the commands listed and drawn (SetFilter on every key, renderPalette).
ScreenFollowsLine == TypeOK /\ FilterFollowsLine /\ HighlightShown

\* The filter language can be typed live: a "|" changes nothing until an alternative
\* follows, a further term only narrows, the hint for an empty result matches what
\* each of its terms matched, and every suggestion is found in some row (parseFilter,
\* unsatisfiableHint, filterMatches).
FilterSound == BarIsHarmless /\ TermsNarrow /\ HintHelps /\ SuggestionFits

\* The preview of an apply can be trusted: every manifest has its entry, whose lines
\* rebuild both sides, and "no changes to apply" is said only of streams that change
\* nothing and fail nowhere (apply.Diff, unifiedDiff, diffHasContent).
PreviewTrue == PreviewRebuilds /\ NoChangeIsTrue

\* Look-ups answer from what the cluster serves: a served kind is found although
\* other groups fail, and a field path is followed through every wrapper type.
LookupsTrue == FoundIfServed /\ ExplainFollowsTypes

\* A key acts on what the user sees: Enter runs the command that is highlighted,
\* and after n, N or a further key of a search the match is in the window that is
\* drawn (selectedCommand, jumpMatch).
KeysAct == RunsTheHighlighted /\ SearchShows
=============================================================================
