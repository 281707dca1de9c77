------------------------------ MODULE Emission ------------------------------
(***************************************************************************)
(* `emit' of xtask's code generator, as far as the names in the generated  *)
(* crate go: the files, the modules each of them declares, what it imports *)
(* at its head, and what its items are then written with.  The text around *)
(* the names is left out, and so are the generated tests.                  *)
(*                                                                         *)
(* A resolved namespace is [module, routes, endpoints, timeout, exports].  *)
(***************************************************************************)
EXTENDS ModelResolver

When(condition, names) == IF condition THEN names ELSE {}

\* What a type is written with: the model by its short name, and the container.
Written(e) ==
  When(e.wrap = "map", {<<"HashMap">>}) \cup When(e.output # Plain, {e.output})

Imported(eps) == {e.output : e \in eps} \ {Plain}

Gets(eps) == {e \in eps : e.verb = "Get"}

----------------------------------------------------------------------------
(***************************************************************************)
(* namespaces/<module>/endpoints.rs: a struct and an impl per endpoint.    *)
(***************************************************************************)
EndpointsImports(n) ==
  LET eps == ToSet(n.endpoints) IN
  {<<"Endpoint">>, <<"EndpointMeta">>, <<"Method">>, <<"Route">>, <<"routes">>}
    \cup When(\E e \in eps : e.body # "none", {<<"RequestError">>})
    \cup When(\E e \in eps : e.body = "bare", {<<"json_body">>})
    \cup When(\E e \in eps : e.wrap = "map", {<<"HashMap">>})
    \cup Imported(eps)

Body(e) ==
  When(e.body # "none", {<<"RequestError">>}) \cup When(e.body = "bare", {<<"json_body">>})

Impl(e) ==
  {<<"Endpoint">>, <<"Method">>, <<"Route">>, <<"routes">>} \cup Written(e) \cup Body(e)

EndpointsUses(n) == {<<"EndpointMeta">>} \cup UNION {Impl(e) : e \in ToSet(n.endpoints)}

(***************************************************************************)
(* namespaces/<module>/mod.rs: the timeout, and a handler with a method    *)
(* per endpoint.  Only the methods of Gets write their output; the others  *)
(* answer a Response.                                                      *)
(***************************************************************************)
ModImports(n) ==
  LET eps == ToSet(n.endpoints) IN
  {<<"Client">>}
    \cup When(eps # Gets(eps), {<<"RequestError">>, <<"Response">>})
    \cup When(\E e \in Gets(eps) : e.wrap = "map", {<<"HashMap">>})
    \cup When(n.timeout # "", {<<"Duration">>})
    \cup Imported(Gets(eps))

Method(e) ==
  IF e.verb = "Get" THEN Written(e) ELSE {<<"Response">>, <<"RequestError">>}

ModUses(n) ==
  {<<"Client">>} \cup When(n.timeout # "", {<<"Duration">>})
    \cup UNION {Method(e) : e \in ToSet(n.endpoints)}

----------------------------------------------------------------------------
(***************************************************************************)
(* The files, and the modules they declare.                                *)
(***************************************************************************)
NamespaceFiles(m) ==
  <<<<"namespaces", m, "routes.rs">>, <<"namespaces", m, "endpoints.rs">>,
    <<"namespaces", m, "mod.rs">>>>

\* A namespace has a group only where it returns models.
Grouped(n) == n.exports # {}

GroupFiles(n) == IF Grouped(n) THEN <<<<"models", n.module>>>> ELSE <<>>

FilesOf(ns) ==
  <<<<"lib.rs">>, <<"namespaces", "mod.rs">>>>
    \o FlattenSeq([i \in DOMAIN ns |-> NamespaceFiles(ns[i].module)])
    \o <<<<"models", "mod.rs">>, <<"models", "flat.rs">>>>
    \o FlattenSeq([i \in DOMAIN ns |-> GroupFiles(ns[i])])

LibModules == {<<"namespaces", "mod.rs">>, <<"models", "mod.rs">>}

NamespacesModules(ns) == {<<"namespaces", ns[i].module, "mod.rs">> : i \in DOMAIN ns}

NamespaceModules(n) ==
  {<<"namespaces", n.module, f>> : f \in {"endpoints.rs", "routes.rs"}}

ModelsModules(ns) ==
  {<<"models", "flat.rs">>} \cup {<<"models", n.module>> : n \in {m \in ToSet(ns) : Grouped(m)}}

\* The structs models/flat.rs declares, and those a group takes from it.
FlatNames == {emitted[i].name : i \in DOMAIN emitted}
GroupTakes(n) == {e[1] : e \in n.exports}
=============================================================================
