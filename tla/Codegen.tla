------------------------------ MODULE Codegen ------------------------------
(***************************************************************************)
(* `cargo xtask ritoclient-codegen': the schema and the overrides are      *)
(* resolved, and the generated crate's source tree is wiped and written    *)
(* again.  A run can fail or be killed at any step and be started again.   *)
(***************************************************************************)
EXTENDS Emission

CONSTANT
  Cases   \* what a run may find: [input, tree, mishaps], mishaps being the
          \* number of failures of the disk and kills that will happen

VARIABLES
  pc,        \* where the run is
  at,        \* the namespace and the endpoint being resolved
  ns,        \* what is resolved of that namespace
  resolved,  \* the namespaces resolved before it
  unwritten, \* files still to be written
  tree,      \* crates/ritoclient-api/src: file -> "old", "torn" or "new"
  mishaps    \* failures still to come

walk == <<emitted, stack, shorts>>
places == <<at, ns, resolved>>
disk == <<unwritten, tree, mishaps>>
vars == <<input, walk, pc, places, disk>>

----------------------------------------------------------------------------
(***************************************************************************)
(* What is read: the schema's functions and types, and the overrides.  A   *)
(* function's parts are those of its name, if parse_function can read it.  *)
(***************************************************************************)
FunctionType ==
  [rest : BOOLEAN, ns : STRING, verb : STRING, resource : STRING, version : Nat, params : Nat,
   bodyArgs : Seq(STRING), returns : TypeRef]

EndpointOverride ==
  [function : STRING, name : STRING, routeDoc : STRING, body : STRING, timeout : STRING]

NsOverride ==
  [id : STRING, prefix : Names, module : STRING, modelsDoc : BOOLEAN, timeout : STRING,
   tests : SUBSET [endpoint : STRING, args : Nat], endpoints : Seq(EndpointOverride)]

IsInput(i) ==
  /\ i.parses \in BOOLEAN
  /\ DOMAIN i.types \subseteq Names /\ \A T \in DOMAIN i.types : i.types[T] \in Seq(FieldType)
  /\ \A T \in DOMAIN i.typeOverrides : i.typeOverrides[T] \in OverrideType
  /\ \A f \in DOMAIN i.functions : i.functions[f] \in FunctionType
  /\ i.namespaces \in Seq(NsOverride)

ASSUME CasesAssumption ==
  \A c \in Cases : /\ IsInput(c.input) /\ c.mishaps \in Nat
                   /\ c.tree \in [DOMAIN c.tree -> {"old", "torn", "new"}]

----------------------------------------------------------------------------
NewNamespace == [routes |-> <<>>, endpoints |-> <<>>, refs |-> {}]

Init ==
  /\ \E c \in Cases : input = c.input /\ tree = c.tree /\ mishaps = c.mishaps
  /\ emitted = <<>> /\ stack = <<>> /\ shorts = <<>>
  /\ pc = "load" /\ at = [ns |-> 1, ep |-> 1] /\ ns = NewNamespace /\ resolved = <<>>
  /\ unwritten = <<>>

At(p) == pc = p
Over == pc \in {"ok", "refused", "panicked", "failed", "killed"}

Goes(p) == pc' = p /\ UNCHANGED input

\* An input that will not do: nothing has been touched yet.
Refuse == Goes("refused") /\ UNCHANGED <<walk, places, disk>>

nsov == input.namespaces[at.ns]
epov == nsov.endpoints[at.ep]
function == input.functions[epov.function]

----------------------------------------------------------------------------
(***************************************************************************)
(* resolve.                                                                *)
(***************************************************************************)

\* The namespace after those resolved, or the emission after the last.
NextNamespace(n) ==
  IF n > Len(input.namespaces) THEN "emit"
  ELSE IF input.namespaces[n].endpoints = <<>> THEN "close" ELSE "endpoint"

\* The tree wiped as soon as the run begins.
LoadWiping ==
  /\ At("load")
  /\ Goes(IF input.parses THEN NextNamespace(1) ELSE "refused")
  /\ tree' = <<>>
  /\ UNCHANGED <<walk, places, unwritten, mishaps>>

\* Schema::load, Overrides::load.
Load ==
  /\ At("load")
  /\ IF input.parses THEN Goes(NextNamespace(1)) /\ UNCHANGED <<walk, places, disk>> ELSE Refuse

\* resolve_body: an override settles it; a Get has none; otherwise the one
\* argument left, of a type that can be written, is the body.
BodyResolves(ep, f) ==
  IF ep.body # "" THEN ep.body \in {"empty-object", "empty-string", "none"}
  ELSE f.verb = "Get" \/ f.bodyArgs = <<>> \/ f.bodyArgs = <<"mapped">>

BodyKind(ep, f) ==
  IF ep.body # "" THEN ep.body
  ELSE IF f.verb = "Get" THEN "none"
  ELSE IF f.bodyArgs = <<>> THEN "empty-string" ELSE "bare"

OutputResolves(ref) ==
  IsStruct(ref) => /\ ref.of \in DOMAIN types
                   /\ KeepsKnown(ref.of) \/ IsEmitted(RustName(ref.of))

\* An endpoint up to the type it returns, which is emitted.
Endpoint ==
  /\ At("endpoint")
  /\ IF /\ epov.function \in DOMAIN input.functions
        /\ function.rest /\ function.ns = nsov.id
        /\ BodyResolves(epov, function)
        /\ OutputResolves(function.returns)
       THEN /\ Goes("fields")
            /\ IF IsStruct(function.returns) THEN EmitStruct(function.returns.of, <<>>)
               ELSE UNCHANGED <<emitted, stack>>
            /\ UNCHANGED <<shorts, places, disk>>
       ELSE Refuse

\* The walk, a field at a time.
Fields ==
  /\ At("fields") /\ stack # <<>>
  /\ IF FieldFails THEN Refuse
     ELSE /\ FillSlot \/ NextField
          /\ Goes("fields") /\ UNCHANGED <<shorts, places, disk>>

\* Two endpoints of one version taken for one resource.
SameRouteLoose(r, f) == r.version = f.version

SameRoute(r, f) == r.resource = f.resource /\ r.version = f.version

\* The rest of the endpoint: its output's name, and its route, which the first
\* endpoint on a resource declares and the others adopt.
Output ==
  LET ref == function.returns
      flat == RustName(ref.of)
      short == ShortName(flat, nsov.prefix)
      same == {i \in DOMAIN ns.routes : SameRoute(ns.routes[i], function)}
      route == IF same = {} THEN [const |-> epov.name, resource |-> function.resource,
                                  version |-> function.version, doc |-> epov.routeDoc]
               ELSE ns.routes[CHOOSE i \in same : \A j \in same : i <= j]
  IN
  /\ At("fields") /\ stack = <<>>
  /\ IF route.doc # epov.routeDoc THEN Refuse
     ELSE /\ shorts' = IF IsStruct(ref) THEN Remembered(short, flat) ELSE shorts
          /\ ns' = [routes |-> IF same = {} THEN Append(ns.routes, route) ELSE ns.routes,
                    endpoints |-> Append(ns.endpoints,
                      [name |-> epov.name, const |-> route.const, verb |-> function.verb,
                       body |-> BodyKind(epov, function), timeout |-> epov.timeout,
                       params |-> function.params, wrap |-> ref.wrap,
                       output |-> IF IsStruct(ref) THEN short ELSE Plain]),
                    refs |-> ns.refs \cup IF IsStruct(ref) THEN {short} ELSE {}]
          /\ at' = [at EXCEPT !.ep = @ + 1]
          /\ Goes(IF at.ep = Len(nsov.endpoints) THEN "close" ELSE "endpoint")
          /\ UNCHANGED <<emitted, stack, resolved, disk>>

(***************************************************************************)
(* What a namespace must be once its endpoints are known.                  *)
(***************************************************************************)
OneVersion ==
  /\ ns.routes # <<>>
  /\ \A i, j \in DOMAIN ns.routes : ns.routes[i].version = ns.routes[j].version

TimeoutsAgree ==
  LET used == {ns.endpoints[i].timeout : i \in DOMAIN ns.endpoints} \ {""}
  IN IF nsov.timeout = "" THEN used = {} ELSE used = {nsov.timeout}

\* resolve_tests.
TestsBind ==
  \A t \in nsov.tests :
    LET named == {i \in DOMAIN ns.endpoints : ns.endpoints[i].name = t.endpoint}
    IN named # {} /\ ns.endpoints[CHOOSE i \in named : \A j \in named : i <= j].params = t.args

DocsAgree == nsov.modelsDoc <=> ns.refs # {}

Close ==
  /\ At("close")
  /\ IF OneVersion /\ TimeoutsAgree /\ TestsBind /\ DocsAgree
       THEN /\ resolved' = Append(resolved,
                 [module |-> nsov.module, routes |-> ns.routes, endpoints |-> ns.endpoints,
                  timeout |-> nsov.timeout, exports |-> Exports(ns.refs, nsov.prefix)])
            /\ ns' = NewNamespace
            /\ at' = [ns |-> at.ns + 1, ep |-> 1]
            /\ Goes(NextNamespace(at.ns + 1))
            /\ UNCHANGED <<walk, disk>>
       ELSE Refuse

----------------------------------------------------------------------------
(***************************************************************************)
(* emit, and the tree.                                                     *)
(***************************************************************************)
Files == FilesOf(resolved)

\* emit expects a namespace, and panics without one.
Emit ==
  /\ At("emit")
  /\ IF resolved = <<>> THEN Goes("panicked") /\ UNCHANGED unwritten
     ELSE Goes("wipe") /\ unwritten' = Files
  /\ UNCHANGED <<walk, places, tree, mishaps>>

Without(t, S) == [f \in DOMAIN t \ S |-> t[f]]
With(t, f, c) == [g \in DOMAIN t \cup {f} |-> IF g = f THEN c ELSE t[g]]

\* A mishap leaves the run over, by an error or by a kill.
Mishap == mishaps > 0 /\ mishaps' = mishaps - 1 /\ (Goes("failed") \/ Goes("killed"))

\* A tree written over.
WipeNothing ==
  /\ At("wipe") /\ Goes("write")
  /\ UNCHANGED <<walk, places, disk>>

\* A removal that does not finish leaves any part of the tree.
Wipe ==
  /\ At("wipe")
  /\ \/ Goes("write") /\ tree' = <<>> /\ UNCHANGED mishaps
     \/ Mishap /\ \E S \in SUBSET DOMAIN tree : tree' = Without(tree, S)
  /\ UNCHANGED <<walk, places, unwritten>>

\* A file is created, then filled.
Write ==
  /\ At("write") /\ unwritten # <<>>
  /\ \/ /\ Goes("write") /\ tree' = With(tree, Head(unwritten), "new")
        /\ unwritten' = Tail(unwritten) /\ UNCHANGED mishaps
     \/ /\ Mishap /\ UNCHANGED unwritten
        /\ tree' \in {tree, With(tree, Head(unwritten), "torn")}
  /\ UNCHANGED <<walk, places>>

Format ==
  /\ At("write") /\ unwritten = <<>>
  /\ \/ Goes("ok") /\ UNCHANGED mishaps
     \/ Mishap
  /\ UNCHANGED <<walk, places, unwritten, tree>>

\* Started again after a mishap.  Cargo loads no workspace with a member that
\* has no lib.rs, so it must be there for the tool to run at all.
Again ==
  /\ pc \in {"failed", "killed"} /\ <<"lib.rs">> \in DOMAIN tree
  /\ emitted' = <<>> /\ stack' = <<>> /\ shorts' = <<>>
  /\ Goes("load") /\ at' = [ns |-> 1, ep |-> 1] /\ ns' = NewNamespace /\ resolved' = <<>>
  /\ unwritten' = <<>> /\ UNCHANGED <<tree, mishaps>>

Tool ==
  \/ Load \/ Endpoint \/ Fields \/ Output \/ Close \/ Emit \/ Wipe \/ Write \/ Format

Next == Tool \/ Again

\* A run is a program that runs on.
Spec == Init /\ [][Next]_vars /\ WF_vars(Tool)

----------------------------------------------------------------------------
(***************************************************************************)
(* Properties.                                                             *)
(***************************************************************************)
RouteType == [const : STRING, resource : STRING, version : Nat, doc : STRING]

EndpointType ==
  [name : STRING, const : STRING, verb : STRING, body : {"none", "empty-string", "empty-object",
   "bare"}, timeout : STRING, params : Nat, wrap : Wraps, output : Names]

TypeOK ==
  /\ emitted \in Seq(FlatType)
  /\ stack \in Seq(FrameType)
  /\ shorts \in [DOMAIN shorts -> Names] /\ DOMAIN shorts \subseteq Names
  /\ pc \in {"load", "endpoint", "fields", "close", "emit", "wipe", "write", "ok", "refused",
             "panicked", "failed", "killed"}
  /\ at \in [ns : 1..Len(input.namespaces) + 1, ep : Nat]
  /\ ns.routes \in Seq(RouteType) /\ ns.endpoints \in Seq(EndpointType)
  /\ ns.refs \subseteq DOMAIN shorts
  /\ tree \in [DOMAIN tree -> {"old", "torn", "new"}]
  /\ mishaps \in Nat

\* The struct types the endpoints of namespace n return.
Returned(n) ==
  LET eps == input.namespaces[n].endpoints
      refs == {input.functions[eps[i].function].returns : i \in DOMAIN eps}
  IN {ref.of : ref \in {r \in refs : IsStruct(r)}}

(***************************************************************************)
(* "Walks the schema's type graph, emitting each reachable struct type     *)
(* once" (mod.rs:680), with the slot reserved "before recursing so cycles  *)
(* terminate" (mod.rs:772): no type is begun twice, inside its own         *)
(* emission or later; and once the walk is over every flat type has the    *)
(* fields kept of the type it was made from, and each of those that is a   *)
(* struct names the one flat type made from its own type.  The latter      *)
(* needs the names of the types met to be distinct: a rename onto the name *)
(* of another type that is met is not noticed, and one replaces the other. *)
(***************************************************************************)
Held(T) == {KeptFields(T)[k].of : k \in DOMAIN KeptFields(T)}

Met ==
  (UNION {Returned(n) : n \in DOMAIN input.namespaces})
    \cup (UNION {Held(emitted[i].of) : i \in DOMAIN emitted})

NamesAreDistinct == \A A, B \in Met : RustName(A) = RustName(B) => A = B

Modelled(e) ==
  /\ e.filled
  /\ Len(e.fields) = Len(KeptFields(e.of))
  /\ \A k \in DOMAIN e.fields :
       LET ref == KeptFields(e.of)[k] IN
         IsStruct(ref) => \E i \in DOMAIN emitted :
                             emitted[i].name = e.fields[k].of /\ emitted[i].of = ref.of

EachTypeOnce ==
  /\ \A i, j \in DOMAIN emitted : emitted[i].name = emitted[j].name => i = j
  /\ (At("emit") /\ NamesAreDistinct) => \A i \in DOMAIN emitted : Modelled(emitted[i])

(***************************************************************************)
(* "The whole reachable closure is re-exported - a caller holding a        *)
(* Product needs to name Patchline too" (mod.rs:542): every type a type of *)
(* a namespace's group holds is in the group; and an endpoint's output,    *)
(* followed through its own group, is the flat type of what its function   *)
(* returns, though other namespaces use the short name for something else. *)
(* The latter needs the short names of what is returned in one namespace   *)
(* to be distinct.                                                         *)
(***************************************************************************)
HoldsWhatItNames(exports) ==
  \A e \in exports : \A i \in DOMAIN emitted :
    emitted[i].name = e[1] =>
      \A k \in DOMAIN emitted[i].fields :
        emitted[i].fields[k].of # Plain => \E x \in exports : x[1] = emitted[i].fields[k].of

NamesItsOutputs(n) ==
  LET flats == {RustName(T) : T \in Returned(n)}
      Short(f) == ShortName(f, input.namespaces[n].prefix)
  IN (\A f, g \in flats : Short(f) = Short(g) => f = g)
       => \A f \in flats : <<f, Short(f)>> \in resolved[n].exports

GroupsAreWhole ==
  \A n \in DOMAIN resolved : HoldsWhatItNames(resolved[n].exports) /\ NamesItsOutputs(n)

(***************************************************************************)
(* The crate that is written holds together.  An endpoint names a route    *)
(* that its namespace declares, "rather than naming one that was never     *)
(* emitted" (mod.rs:452), and it is its function's own.  Each file imports *)
(* exactly what its items are written with - the workspace is built with   *)
(* warnings denied (ci.yml:11) - and the models it imports are in its      *)
(* namespace's group, which takes nothing from flat.rs that is not there.  *)
(* And the files are the modules that are declared, no more and no fewer.  *)
(***************************************************************************)
NamesItsRoutes(n) ==
  \A i \in DOMAIN resolved[n].endpoints :
    \E r \in ToSet(resolved[n].routes) :
      /\ r.const = resolved[n].endpoints[i].const
      /\ r.resource = input.functions[input.namespaces[n].endpoints[i].function].resource

ImportsWhatItUses(n) ==
  /\ EndpointsImports(n) = EndpointsUses(n) /\ ModImports(n) = ModUses(n)
  /\ Imported(ToSet(n.endpoints)) \subseteq {e[2] : e \in n.exports}
  /\ GroupTakes(n) \subseteq FlatNames

Declared ==
  LibModules \cup NamespacesModules(resolved) \cup ModelsModules(resolved)
    \cup UNION {NamespaceModules(n) : n \in ToSet(resolved)}

CrateHoldsTogether ==
  /\ \A n \in DOMAIN resolved : NamesItsRoutes(n) /\ ImportsWhatItUses(resolved[n])
  /\ At("wipe") => ToSet(unwritten) = {<<"lib.rs">>} \cup Declared

(***************************************************************************)
(* An input that does not resolve leaves the generated crate as it was:    *)
(* the tree is touched only once every namespace is resolved (run).        *)
(***************************************************************************)
RefusedInputSparesTheTree ==
  [][tree' # tree => Len(resolved) = Len(input.namespaces) /\ resolved # <<>>]_vars

(***************************************************************************)
(* A run that says it succeeded has written the whole tree and nothing     *)
(* else is in it, whatever it found there and whatever runs before it left.*)
(***************************************************************************)
TreeIsWhole == At("ok") => tree = [f \in ToSet(Files) |-> "new"]

(***************************************************************************)
(* Every run ends, on any graph of types: the walk goes through a cycle    *)
(* once, because a struct under emission is one already emitted            *)
(* (mod.rs:759, 772), and a run started again finds fewer mishaps left.    *)
(***************************************************************************)
Ends == <>[]Over

(***************************************************************************)
(* "Hand-written, and beside flat rather than inside it, because that file *)
(* is generator output" (models/tolerant.rs:8), and regenerating "must be *)
(* a no-op" (ci.yml:82): a run that succeeds leaves tolerant.rs, which the *)
(* crate's models read with, where it was.                                 *)
(***************************************************************************)
HandWritten == <<"models", "tolerant.rs">>

HandWrittenSurvives == At("ok") => HandWritten \in DOMAIN tree

=============================================================================
