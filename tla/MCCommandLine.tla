---------------------------- MODULE MCCommandLine ----------------------------
(***************************************************************************)
(* Words are written by their letters.  The catalog keeps how the real      *)
(* names collide: poddisruptionbudgets ("podd", alias pdb) sorts before     *)
(* pods, whose aliases po and pod are prefixes of it.                       *)
(***************************************************************************)
EXTENDS CommandLine

MCMaxKeys == [l \in {"command", "filter"} |-> IF l = "command" THEN 4 ELSE 6]

MCColumnScope == [c \in {"ns:", "st:"} |-> IF c = "ns:" THEN "ns" ELSE "cell"]

MCTableRows == <<[ns |-> <<"a">>, name |-> <<"b">>, cell |-> <<"b">>],
                 [ns |-> <<"b">>, name |-> <<"b", "a">>, cell |-> <<"a", " ", "b">>],
                 [ns |-> <<"b">>, name |-> <<"b", "b">>, cell |-> <<>>]>>

MCCatalog == <<[name |-> <<"p", "o", "d", "d">>, aliases |-> {<<"p", "d">>}],
               [name |-> <<"p", "o", "d", "s">>, aliases |-> {<<"p", "o">>, <<"p", "o", "d">>}],
               [name |-> <<"s", "d">>, aliases |-> {<<"s">>}],
               [name |-> <<"x">>, aliases |-> {}],     \* ctx
               [name |-> <<"y">>, aliases |-> {}],     \* apply
               [name |-> <<"z">>, aliases |-> {}]>>    \* q
MCVerb == [w \in {<<"x">>, <<"y">>, <<"z">>, <<"e">>} |->
             CASE w = <<"x">> -> "ctx" [] w = <<"y">> -> "apply" [] w = <<"z">> -> "quit" [] OTHER -> "explain"]

MCCommandKeys == {"p", "o", "d", "s", "x", "y", "z", "e", ".", " "}
MCFilterKeys == {"a", "b", "ns:", "st:", "!", "~", "|", "(", " "}

MCNeedles == {"", "+", "field", "~"}

\* Two groups serve "p"; "s" is a short name of it, and "p/s" a subresource.
Served1 == [ok |-> TRUE, group |-> <<>>, version |-> "v1", resources |->
             <<[name |-> <<"d">>, kind |-> "D", words |-> {<<"d">>, <<"p">>}, sub |-> TRUE],
               [name |-> <<"p">>, kind |-> "P", words |-> {<<"p">>, <<"s">>}, sub |-> FALSE]>>]
Served2 == [ok |-> TRUE, group |-> <<"d">>, version |-> "v1", resources |->
             <<[name |-> <<"p">>, kind |-> "Q", words |-> {<<"p">>, <<"o">>}, sub |-> FALSE],
               [name |-> <<"e">>, kind |-> "E", words |-> {<<"e">>}, sub |-> FALSE]>>]
NilList == [ok |-> FALSE, group |-> <<>>, version |-> "", resources |-> <<>>]
MCDiscoveries == {[err |-> FALSE, lists |-> <<Served1, Served2>>], [err |-> TRUE, lists |-> <<NilList, Served2>>],
                  [err |-> TRUE, lists |-> <<>>], [err |-> FALSE, lists |-> <<>>]}

\* A pod-like kind: a named spec, whose fields are a list of a named type, a map
\* of a named type, a map of strings and a map of inline objects with a list each.
PSpec == <<<<>>, "v1", "Spec">>
PItem == <<<<>>, "v1", "Item">>
QKind == <<<<"d">>, "v1", "Q">>
MCSchemas == {<<<<>>, "v1", "P">>, PSpec, PItem, QKind}
Inline(name) == <<<<>>, "", name>>
Scalar == Inline("string")
Object(fields) == [k |-> "object", fields |-> fields]
ListOf(t) == [k |-> "array", of |-> t]
MapOf(t) == [k |-> "map", of |-> t]
MCTypes == [t \in MCSchemas \cup {Inline(n) : n \in {"string", "items", "by item", "by string", "by object", "object", "strings"}} |->
    CASE t = QKind -> ListOf(Inline("items"))
      [] t = PSpec -> Object([f \in {<<"a">>, <<"b">>, <<"c">>, <<"d">>} |->
            CASE f = <<"a">> -> Inline("items")
              [] f = <<"b">> -> Inline("by item")
              [] f = <<"c">> -> Inline("by string")
              [] OTHER -> Inline("by object")])
      [] t = PItem -> Object([f \in {<<"a">>, <<"s">>} |-> IF f = <<"a">> THEN Scalar ELSE PSpec])
      [] t[3] = "P" -> Object([f \in {<<"s">>} |-> PSpec])
      [] t[3] = "items" -> ListOf(PItem)
      [] t[3] = "by item" -> MapOf(PItem)
      [] t[3] = "by string" -> MapOf(Scalar)
      [] t[3] = "by object" -> MapOf(Inline("object"))
      [] t[3] = "object" -> Object([f \in {<<"a">>} |-> Inline("strings")])
      [] t[3] = "strings" -> ListOf(Scalar)
      [] OTHER -> [k |-> "string"]]
MCUnmarked == {<<<<"d">>, "v1", "Q">>}
MCDocumented == {<<<<>>, "v1">>, <<<<"d">>, "v1">>}
MCFieldOrder == <<<<"a">>, <<"b">>, <<"c">>, <<"d">>, <<"s">>>>

\* Fields that are there and fields that are not, below every kind of container;
\* two segments with nothing between them are a doubled dot.
Paths == {<<>>, <<"s">>, <<"a">>, <<"", "a">>, <<"s", "">>}
         \cup {<<"s", f>> : f \in {"a", "b", "c", "d", "s"}}
         \cup {<<"s", f, g>> : f \in {"b", "c", "d"}, g \in {"a", "s"}}
         \cup {<<"s", "", "a", "s", "b", "a">>, <<"s", "a", "a", "a">>}
Dotted(path) == FoldLeft(LAMBDA acc, f : acc \o <<".">> \o (IF f = "" THEN <<>> ELSE <<f>>), <<>>, path)
MCExpressions == {<<w>> \o Dotted(p) : w \in {"p", "o"}, p \in Paths} \cup {<<"z">>, <<"e", ".", "a">>, <<".", "a">>}

Lines(n) == UNION {[1..k -> 1..2] : k \in 0..n}
Doc(old, new) == Manifest([fails |-> "none", isNew |-> FALSE, live |-> old, proposed |-> new])
NewDoc(new) == Manifest([fails |-> "none", isNew |-> TRUE, live |-> <<>>, proposed |-> new])
BadDoc(step) == Manifest([fails |-> step, isNew |-> FALSE, live |-> <<>>, proposed |-> <<1>>])
Small == {Doc(<<1>>, <<1>>), Doc(<<1>>, <<2>>), NewDoc(<<1, 2>>)} \cup {BadDoc(s) : s \in {"parse", "map", "get", "patch"}}

MCYamlLines == 1..2
MCStreamLines == {Separator, <<"#">>, <<"">>} \cup Small
                 \cup {Doc(p[1], p[2]) : p \in {q \in Lines(3) \X Lines(3) : Len(q[1]) + Len(q[2]) <= 5}}
MCStreams == {<<Doc(p[1], p[2])>> : p \in {q \in Lines(3) \X Lines(3) : Len(q[1]) + Len(q[2]) <= 5}}
             \cup {<<a, Separator, b>> : a, b \in Small}
             \cup {<<Separator, <<"#">>, a, Separator, <<"">>>> : a \in Small}
             \cup {<<>>, <<<<"#">>, <<"">>>>}
=============================================================================
