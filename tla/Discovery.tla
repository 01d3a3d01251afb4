------------------------------ MODULE Discovery ------------------------------
(***************************************************************************)
(* Words that are no first-class kind: what discovery resolves them to      *)
(* (action/dynbrowse/crds.go), and how :explain walks the OpenAPI document  *)
(* of a kind (action/explain/explain.go).                                   *)
(*                                                                         *)
(* An answer of discovery is [err, lists]; a list is [ok, group, version,   *)
(* resources], ok unless it is nil or its group version does not parse; a   *)
(* resource is [name, kind, words, sub].  A schema node is known by its     *)
(* place in the document, and is a record of the keys it has: ref, allOf,   *)
(* type, items, additional, properties; what is nested in it is a place.    *)
(***************************************************************************)
EXTENDS Sublists, SequencesExt

CONSTANTS Types,        \* type -> [k, fields] or [k, of], see Publish
          Schemas,      \* the types with a schema of their own, named <<group, version, kind>>
          Unmarked,     \* the schemas published without their group-version-kind
          Documented,   \* the <<group, version>> whose OpenAPI document can be fetched
          FieldOrder,   \* the field names, in alphabetical order
          MaxNesting    \* bound: lists and maps directly inside one another

-----------------------------------------------------------------------------
(* Discovery *)

\* The resources of all the usable lists, in their order.
Served(lists) ==
    Flatten([n \in 1..Len(lists) |->
               IF ~lists[n].ok THEN <<>>
               ELSE [k \in 1..Len(lists[n].resources) |->
                       [r |-> lists[n].resources[k], group |-> lists[n].group, version |-> lists[n].version]]])

\* The first resource that fits, as a sequence of at most one.
FindResource(lists, plural, group) ==
    LET all == Served(lists)
    IN FirstOf(all, {k \in 1..Len(all) : all[k].r.name = plural /\ all[k].group = group})
FindResourceAny(lists, plural) ==
    LET all == Served(lists)
    IN FirstOf(all, {k \in 1..Len(all) : all[k].r.name = plural})

\* findKind: plural, singular, kind and short names count, subresources do not.
FindKind(lists, token) ==
    LET all == Served(lists)
    IN FirstOf(all, {k \in 1..Len(all) : ~all[k].r.sub /\ token \in all[k].r.words})

\* A failure of some groups is tolerated as long as anything was answered.
Unusable(d) == d.err /\ d.lists = <<>>

\* ResolvePluralGroup for <plural>.<group>, ResolveResource for a bare plural;
\* <<>> stands for the error that becomes a toast.
ResolveResource(d, token) ==
    LET dot == SelectInSeq(token, LAMBDA c : c = ".")
    IN IF Unusable(d) THEN <<>>
       ELSE IF dot = 0 THEN FindResourceAny(d.lists, token)
       ELSE FindResource(d.lists, SubSeq(token, 1, dot - 1), SubSeq(token, dot + 1, Len(token)))

-----------------------------------------------------------------------------
(* The documents the API server publishes.  A type is a string, an object   *)
(* with fields, an array or a map of something.  One document stands for    *)
(* all: it holds every schema that its types refer to.                      *)

\* Where a type is written out: as a schema, or inside of what holds it.
At(t) == <<"type", t>>

\* A type with a schema of its own is referred to by a $ref; as a field or an
\* item that is wrapped in allOf.
ValuePlace(t) == IF t \in Schemas THEN <<"ref", t>> ELSE At(t)
FieldPlace(t) == IF t \in Schemas THEN <<"allOf", t>> ELSE At(t)
Publish(t) ==
    CASE t.k = "string" -> [type |-> "string"]
      [] t.k = "object" -> [type |-> "object", properties |-> [f \in DOMAIN t.fields |-> FieldPlace(t.fields[f])]]
      [] t.k = "array" -> [type |-> "array", items |-> FieldPlace(t.of)]
      [] t.k = "map" -> [type |-> "object", additional |-> ValuePlace(t.of)]
Node(place) ==
    CASE place[1] = "ref" -> [ref |-> place[2]]
      [] place[1] = "allOf" -> [allOf |-> << <<"ref", place[2]>> >>]
      [] OTHER -> Publish(Types[place[2]])

-----------------------------------------------------------------------------
(* Walking a document *)

Has(node, k) == k \in DOMAIN node
TypeString(node) == IF Has(node, "type") THEN node.type ELSE ""

\* schemaForGVK: the schemas that carry the group-version-kind, else those whose
\* name ends in the kind.  The map's order is random, so any of them.
SchemasForGVK(x) ==
    LET exact == {n \in Schemas \ Unmarked : n = <<x.group, x.version, x.r.kind>>}
    IN IF exact # {} THEN exact ELSE {n \in Schemas : n[2] = x.version /\ n[3] = x.r.kind}

\* resolveRef: one $ref, or the first one inside allOf.
Target(place) == LET name == Node(place).ref IN IF name \in Schemas THEN At(name) ELSE place
ResolveBareRef(place) == IF Has(Node(place), "ref") THEN Target(place) ELSE place
ResolveRef(place) ==
    LET node == Node(place)
        refs == IF Has(node, "allOf") THEN {k \in 1..Len(node.allOf) : Has(Node(node.allOf[k]), "ref")} ELSE {}
    IN IF Has(node, "ref") THEN Target(place)
       ELSE IF refs # {} THEN Target(FirstOf(node.allOf, refs)[1]) ELSE place

\* unwrapContainers: into the items of an array, and into the values of a map
\* if they are a reference or have properties, as long as there are any.
UnwrapOne(place) ==
    LET node == Node(place)
        below(k) == Has(node, "additional") /\ Has(Node(node.additional), k)
    IN IF TypeString(node) = "array"
       THEN IF Has(node, "items") THEN ResolveRef(node.items) ELSE place
       ELSE IF below("ref") THEN ResolveRef(node.additional)
       ELSE IF below("properties") THEN node.additional ELSE place
UnwrapContainers(place) ==
    LET after[n \in 0..MaxNesting] == IF n = 0 THEN place ELSE UnwrapOne(after[n - 1])
    IN after[MaxNesting]

\* navigate: <<node>>, or <<>> for a field that is not there.
Step(place, field) ==
    LET node == Node(UnwrapContainers(place))
    IN IF Has(node, "properties") /\ field \in DOMAIN node.properties
       THEN <<ResolveRef(node.properties[field])>> ELSE <<>>
Navigate(root, path) ==
    LET after[k \in 0..Len(path)] ==
            IF k = 0 THEN <<ResolveRef(root)>>
            ELSE IF after[k - 1] = <<>> THEN <<>> ELSE Step(after[k - 1][1], path[k])
        end == after[Len(path)]
    IN IF end = <<>> THEN <<>> ELSE <<UnwrapContainers(end[1])>>

\* immediateFields and renderSchema: kind, version, field and description, then
\* the fields, sorted; Split leaves an empty line behind the last newline.  The
\* labels that fieldType makes are left out.
ImmediateFields(node) ==
    IF Has(node, "properties") THEN Pick(FieldOrder, {k \in 1..Len(FieldOrder) : FieldOrder[k] \in DOMAIN node.properties})
    ELSE <<>>
RenderSchema(x, place) ==
    LET fields == ImmediateFields(Node(place))
        blank == << <<"">> >>
    IN << <<"KIND", x.r.kind>>, <<"VERSION", x.version>>, <<"">>, <<"FIELD">>, <<"">>,
          <<"DESCRIPTION">>, <<"text">> >>
       \o (IF fields = <<>> THEN <<>> ELSE blank \o << <<"FIELDS">> >>)
       \o [k \in 1..Len(fields) |-> <<"field", fields[k]>>]
       \o blank

\* Explain, for a token and a path: the pages it may show; none is an error.
Explain(d, token, path) ==
    LET kind == FindKind(d.lists, token)
    IN IF Unusable(d) \/ token = <<>> \/ kind = <<>> THEN {}
       ELSE IF <<kind[1].group, kind[1].version>> \notin Documented THEN {}
       ELSE {RenderSchema(kind[1], Navigate(At(n), path)[1]) :
               n \in {m \in SchemasForGVK(kind[1]) : Navigate(At(m), path) # <<>>}}

-----------------------------------------------------------------------------
(* What a path means, by the types alone *)

\* What a list or a map holds, unless it is a map of something without fields.
Inside(t) ==
    IF \/ Types[t].k = "array"
       \/ Types[t].k = "map" /\ (Types[t].of \in Schemas \/ Types[Types[t].of].k = "object")
    THEN Types[t].of ELSE t
Element(t) ==
    LET after[n \in 0..MaxNesting] == IF n = 0 THEN t ELSE Inside(after[n - 1])
    IN after[MaxNesting]

FieldsOf(t) == IF Types[t].k = "object" THEN DOMAIN Types[t].fields ELSE {}
TypeAt(n, path) ==
    LET after[k \in 0..Len(path)] ==
            IF k = 0 THEN <<n>>
            ELSE IF after[k - 1] = <<>> \/ path[k] \notin FieldsOf(Element(after[k - 1][1])) THEN <<>>
            ELSE <<Types[Element(after[k - 1][1])].fields[path[k]]>>
        end == after[Len(path)]
    IN IF end = <<>> THEN <<>> ELSE <<Element(end[1])>>

\* Types are made of types, a schema has a name, every field has its place in
\* the order, and MaxNesting is enough for any nesting.
ASSUME TypesOK ==
    /\ FieldOrder \in Seq(Seq(STRING)) /\ MaxNesting \in Nat /\ Schemas \subseteq DOMAIN Types /\ Unmarked \subseteq Schemas
    /\ \A t \in DOMAIN Types :
         /\ Types[t].k \in {"string", "object", "array", "map"}
         /\ Types[t].k \in {"array", "map"} => Types[t].of \in DOMAIN Types
         /\ Types[t].k = "object" => \A f \in DOMAIN Types[t].fields :
              Types[t].fields[f] \in DOMAIN Types /\ f \in {FieldOrder[k] : k \in 1..Len(FieldOrder)}
         /\ Inside(Element(t)) = Element(t)
===============================================================================
