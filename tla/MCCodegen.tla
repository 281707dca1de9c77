----------------------------- MODULE MCCodegen -----------------------------
(***************************************************************************)
(* Codegen on small inputs: every graph of three types with at most two    *)
(* fields each, under a few overrides, and one input for each way of being *)
(* refused; trees that are absent, whole, foreign or half written.         *)
(***************************************************************************)
EXTENDS Codegen

Product == <<"Registry", "Product">>
Line == <<"Registry", "Line">>
Session == <<"Session", "Product">>
Structs == {Product, Line, Session}

Ref(wrap, of) == [wrap |-> wrap, of |-> of]
Unit == Ref("unit", Plain)
Field(name, type) == [name |-> name, type |-> type]

\* None, one struct, or a struct and a vector.
FieldLists ==
  {<<>>}
  \cup {<<Field("a", Ref("bare", T))>> : T \in Structs}
  \cup {<<Field("a", Ref("bare", T)), Field("b", Ref("vector", U))>> :
          T \in Structs, U \in Structs}

\* The type of the second namespace has one field at most.
Graphs == {g \in [Structs -> FieldLists] : Len(g[Session]) <= 1}

Fun(owner, verb, resource, params, returns) ==
  [rest |-> TRUE, ns |-> owner, verb |-> verb, resource |-> resource, version |-> 1, params |-> params,
   bodyArgs |-> <<>>, returns |-> returns]

Functions(second) ==
  [f \in {"products", "product", "close", "session"} |->
     CASE f = "products" -> Fun("registry", "Get", "products", 0, Ref("vector", Product))
       [] f = "product" -> Fun("registry", "Get", "products/{}", 1, Unit)
       [] f = "close" -> Fun("registry", "Delete", "products/{}", 1, Unit)
       [] OTHER -> Fun("session", "Get", "sessions", 0, second)]

Ep(of, name, doc) ==
  [function |-> of, name |-> name, routeDoc |-> doc, body |-> "", timeout |-> ""]

Registry ==
  [id |-> "registry", prefix |-> <<"Registry">>, module |-> "registry", modelsDoc |-> TRUE,
   timeout |-> "", tests |-> {[endpoint |-> "Lookup", args |-> 1]},
   endpoints |-> <<Ep("products", "Products", "all"), Ep("product", "Lookup", "all"),
                   Ep("close", "Close", "all")>>]

Sessions ==
  [id |-> "session", prefix |-> <<"Session">>, module |-> "session", modelsDoc |-> TRUE,
   timeout |-> "", tests |-> {}, endpoints |-> <<Ep("session", "Session", "all")>>]

Input(graph, overrides, second) ==
  [parses |-> TRUE, types |-> graph, typeOverrides |-> overrides, functions |-> Functions(second),
   namespaces |-> <<Registry, Sessions>>]

\* Every type as it is; Line under another name, and of its first field only;
\* Line under the name of another type.
Override(T, name, fields) == [t \in {T} |-> [rename |-> name, fields |-> fields]]
Renamed == Override(Line, <<"Registry", "Row">>, <<"a">>)
Colliding == Override(Session, Product, <<>>)

Clean(t) == [input |-> t, tree |-> <<>>, mishaps |-> 0]

AnyGraph ==
  {Clean(Input(g, <<>>, Ref("bare", Session))) : g \in Graphs}
  \cup {Clean(Input(g, <<>>, Ref("map", Line))) : g \in {h \in Graphs : h[Session] = <<>>}}
  \cup {Clean(Input(g, Renamed, Ref("bare", Session))) :
          g \in {h \in Graphs : h[Line] # <<>> /\ h[Session] # <<>>}}
  \cup {Clean(Input(g, Colliding, Ref("bare", Session))) :
          g \in {h \in Graphs : h[Session] = <<>>}}

----------------------------------------------------------------------------
\* A cycle of two types, one of which the other namespace returns.
Cycle ==
  [T \in Structs |->
     CASE T = Product -> <<Field("a", Ref("vector", Line))>>
       [] T = Line -> <<Field("a", Ref("bare", Product)), Field("b", Ref("bare", Session))>>
       [] OTHER -> <<Field("a", Ref("bare", Plain))>>]

Good == Input(Cycle, <<>>, Ref("bare", Session))

Instead(r) == [Good EXCEPT !.namespaces = <<r, Sessions>>]

\* Bodies and timeouts of each kind; a namespace that only sends.
Kinds ==
  {[Good EXCEPT !.functions["close"].bodyArgs = <<"mapped">>],
   [Good EXCEPT !.functions["session"].verb = "Post"],
   Instead([Registry EXCEPT !.endpoints[3].body = "none"]),
   Instead([Registry EXCEPT !.endpoints[2].body = "empty-object"]),
   Instead([Registry EXCEPT !.endpoints[3].timeout = "SLOW", !.timeout = "SLOW"])}

\* One input for each refusal of resolve.
Bad ==
  {[Good EXCEPT !.parses = FALSE],
   [Good EXCEPT !.namespaces = <<>>],
   [Good EXCEPT !.functions["close"].rest = FALSE],
   [Good EXCEPT !.functions["close"].ns = "session"],
   [Good EXCEPT !.functions["close"].bodyArgs = <<"mapped", "mapped">>],
   [Good EXCEPT !.functions["close"].version = 2],
   [Good EXCEPT !.functions["session"].returns = Ref("bare", <<"Unknown">>)],
   [Good EXCEPT !.types[Line] = <<Field("a", Ref("map", Session))>>],
   [Good EXCEPT !.types[Line] = <<Field("a", Ref("bare", <<"Unknown">>))>>],
   [Good EXCEPT !.types[Line] = <<Field("a", Unit)>>],
   [Good EXCEPT !.types[Line] = <<Field("a", Ref("vector", <<"">>))>>],
   [Good EXCEPT !.typeOverrides = Override(Line, Line, <<"c">>)],
   Instead([Registry EXCEPT !.endpoints = <<>>]),
   Instead([Registry EXCEPT !.endpoints[3].function = "missing"]),
   Instead([Registry EXCEPT !.endpoints[3].routeDoc = "other"]),
   Instead([Registry EXCEPT !.endpoints[3].timeout = "SLOW"]),
   Instead([Registry EXCEPT !.timeout = "SLOW"]),
   Instead([Registry EXCEPT !.tests = {[endpoint |-> "Lookup", args |-> 2]}]),
   Instead([Registry EXCEPT !.modelsDoc = FALSE]),
   Instead([Registry EXCEPT !.endpoints = Tail(@), !.tests = {}])}

\* A tree of another schema, and one a killed run has left.
Foreign == [f \in {<<"lib.rs">>, <<"namespaces", "patch", "mod.rs">>} |-> "old"]
Half == [f \in {<<"lib.rs">>, <<"models", "flat.rs">>} |-> IF f = <<"lib.rs">> THEN "new" ELSE "torn"]

SmallCases ==
  AnyGraph \cup {Clean(i) : i \in Kinds}
  \cup [input : Bad, tree : {Foreign}, mishaps : {0}]
  \cup [input : {Good}, tree : {<<>>, Foreign, Half}, mishaps : {0, 2}]

----------------------------------------------------------------------------
\* The checked-in tree, of an input of its shape, on a disk that works.
CheckedIn ==
  [f \in {<<"lib.rs">>, <<"models", "flat.rs">>, <<"models", "tolerant.rs">>,
          <<"namespaces", "registry", "mod.rs">>} |-> "old"]

CheckedInCases == [input : {Good}, tree : {CheckedIn}, mishaps : {0}]
=============================================================================
