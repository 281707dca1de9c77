----------------------------- MODULE MCSnapshot -----------------------------
(***************************************************************************)
(* Snapshot on every graph of three types whose fields are one of seven    *)
(* lists, taken from a client that is up; on documents that lack a part;   *)
(* and on one graph from a client, a disk and runs that do as they like.   *)
(***************************************************************************)
EXTENDS Snapshot

Types == {"A", "B", "C"}
None == ""

Plain(type) == [type |-> type, elementType |-> None]
VectorOf(type) == [type |-> "vector", elementType |-> type]

\* No, one, two or three fields; "string" is no described type.
FieldLists ==
  {<<>>, <<Plain("A")>>, <<VectorOf("B")>>, <<Plain("string"), Plain("C")>>,
   <<Plain("A"), VectorOf("B")>>, <<VectorOf("C"), Plain("B")>>,
   <<VectorOf("string"), Plain("A"), VectorOf("C")>>}

Graphs == [Types -> FieldLists]

\* A schema with these properties.  A property is a reference, or an array
\* whose items are one; a reference elsewhere and a property that is called
\* $ref are none of a component.
Index == <<"0", "1", "2">>

KeyPath(i, d) ==
  <<"properties", Index[i]>> \o IF d.elementType = None THEN <<"$ref">> ELSE <<"items", "$ref">>

Leaf(component, name) == [component |-> component, name |-> name]

Properties(descs) ==
  LET Name(i) == IF descs[i].elementType = None THEN descs[i].type ELSE descs[i].elementType
  IN [k \in {KeyPath(i, descs[i]) : i \in DOMAIN descs} |->
        Leaf(TRUE, Name(CHOOSE i \in DOMAIN descs : KeyPath(i, descs[i]) = k))]

Document(descs) ==
  Properties(descs)
    @@ [k \in {<<"$ref">>, <<"properties", "$ref", "type">>} |-> Leaf(k # <<"$ref">>, "C")]

\* The third type is not described by a client that is not wholly up.
Level(t) == IF t = "C" THEN "full" ELSE "low"

Fun(from, inScope, parameterized, arguments, returns) ==
  [from |-> from, inScope |-> inScope, parameterized |-> parameterized,
   arguments |-> arguments, returns |-> returns]

HelpFunctions(arguments) ==
  [f \in {"newArgs", "products", "product", "chat"} |->
     CASE f = "newArgs" -> Fun("tray", TRUE, FALSE, <<VectorOf("string")>>, Plain(None))
       [] f = "products" -> Fun("high", TRUE, FALSE, arguments, VectorOf("A"))
       [] f = "product" -> Fun("full", TRUE, TRUE, <<Plain("string")>>, Plain("A"))
       [] OTHER -> Fun("low", FALSE, FALSE, <<Plain("B")>>, Plain("C"))]

Paths(arguments) ==
  [p \in {"/patch", "/chat"} |->
     [from |-> "low", inScope |-> p = "/patch",
      document |-> Document(IF p = "/patch" THEN arguments ELSE <<Plain("C")>>)]]

Surface(g, arguments, lacks) ==
  [functions |-> HelpFunctions(arguments),
   types |-> [t \in Types |-> [from |-> Level(t), fields |-> g[t]]],
   paths |-> Paths(arguments),
   schemas |-> [t \in Types |-> [from |-> Level(t), document |-> Document(g[t])]],
   lacks |-> lacks]

\* What one function takes, and what the one path in scope refers to.
Arguments == <<Plain("string"), VectorOf("B")>>

Cycle ==
  [t \in Types |-> CASE t = "A" -> <<VectorOf("B"), Plain("C")>>
                     [] t = "B" -> <<Plain("A")>>
                     [] OTHER -> <<Plain("C")>>]

Hand == [of |-> 0, whole |-> TRUE]
Before == [f \in Files |-> Hand]

AnyGraph ==
  [surface : {Surface(g, Arguments, {}) : g \in Graphs}, level : {"full"}, dir : {<<>>},
   moves : {0}, mishaps : {0}]

AnyGap ==
  [surface : {Surface(Cycle, Arguments, {part}) : part \in Parts}, level : {"full"},
   dir : {Before}, moves : {0}, mishaps : {0}]

AnyWeather ==
  [surface : {Surface(Cycle, Arguments, {})}, level : {"none", "tray", "low", "high", "full"},
   dir : {<<>>, Before}, moves : {0, 2}, mishaps : {0, 1}]

SmallCases == AnyGraph \cup AnyGap \cup AnyWeather
=============================================================================
