------------------------------ MODULE Snapshot ------------------------------
(***************************************************************************)
(* `cargo xtask ritoclient-snapshot' (snapshot.rs): a live Riot Client is  *)
(* woken if it idles, its own description of its API is fetched, filtered  *)
(* to the namespaces in scope, probed, and written under schema/.          *)
(*                                                                         *)
(* The client boots, idles and quits as it likes while the tool runs; the  *)
(* disk fails and the tool is killed; and the tool is started again.       *)
(***************************************************************************)
EXTENDS Naturals, FiniteSets, Sequences, SequencesExt

CONSTANTS
  Cases,       \* [surface, level, dir, moves, mishaps]: where a run may begin
  Runs,        \* how often the tool is started
  WakeBudget,  \* seconds a woken client is waited for
  Settle,      \* seconds slept once it has filled out
  QueryTime,   \* seconds a request may take
  Beat         \* seconds from the floor being passed to the last plugin

ASSUME TimesAreNatural ==
  Runs \in Nat \ {0} /\ {WakeBudget, Settle, QueryTime, Beat} \subseteq Nat

\* "Swagger and the last plugins register a beat after /help fills out"
\* (snapshot.rs:129), and the sleep after it is meant to cover that beat.
ASSUME BeatAssumption == Beat < Settle

VARIABLES
  surface,  \* what the client describes once it is wholly up
  level,    \* how much of it is registered
  beat,     \* seconds since the floor was passed
  moves,    \* how often the client may still idle, quit or start
  mishaps,  \* requests, disks and runs that may still fail
  pc,
  run,      \* the number of this run
  left,     \* seconds left of the tool's sleep or request
  waited,   \* seconds since the wake
  woken,    \* whether this run woke the client
  stayed,   \* whether the client has been up since the tool found it so
  help,     \* the level /help was fetched at
  openapi,  \* the level the swagger document was fetched at
  queue,    \* names the closure has still to look at
  closure,  \* names it has kept
  types,    \* the types of help.filtered.json
  schemas,  \* the schemas of openapi.filtered.json
  probes,   \* function -> what its path answered
  dir       \* schema/: file -> its content

client == <<surface, level, beat, moves>>
waiting == <<left, waited, woken, stayed>>
taken == <<help, openapi, queue, closure, types, schemas, probes>>
vars == <<client, mishaps, pc, run, waiting, taken, dir>>

----------------------------------------------------------------------------
(***************************************************************************)
(* The client.  Each thing it describes is there from some level on; the   *)
(* tray-idle client has next to nothing.                                   *)
(*                                                                         *)
(*   surface.functions  name -> [from, inScope, parameterized, arguments,  *)
(*                               returns]                                  *)
(*   surface.types      name -> [from, fields]                             *)
(*   surface.paths      path -> [from, inScope, document]                  *)
(*   surface.schemas    name -> [from, document]                           *)
(*   surface.lacks      which parts are absent or not of their shape       *)
(*                                                                         *)
(* An argument, a field and what a function returns are descriptions,      *)
(* [type, elementType], "" for a name that is not given.  A document is    *)
(* its leaves: a key path -> [component, name], where component says that  *)
(* the leaf is "#/components/schemas/" and then the name.                  *)
(***************************************************************************)
Rank == [none |-> 0, tray |-> 1, low |-> 2, high |-> 3, full |-> 4]
Levels == DOMAIN Rank

\* What the filters will not do without.  Functions that are an object are
\* counted like an array of them, and are then refused.
Parts == {"functions", "types", "events", "paths"}

\* What schema/ holds.
Files == {"help", "openapi", "probes", "overrides", "readme"}

ASSUME CasesAssumption ==
  \A c \in Cases : /\ c.level \in Levels /\ c.moves \in Nat /\ c.mishaps \in Nat
                   /\ DOMAIN c.dir \subseteq Files /\ c.surface.lacks \subseteq Parts

Described(things, l) == {x \in DOMAIN things : Rank[things[x].from] <= Rank[l]}

\* function_count >= FULL_SURFACE_FLOOR: 500 of 1261 functions, 8 when idle.
AboveFloor(l) == Rank[l] >= Rank.high

Init ==
  /\ \E c \in Cases : /\ surface = c.surface /\ level = c.level /\ moves = c.moves
                      /\ mishaps = c.mishaps /\ dir = c.dir
  /\ beat = 0 /\ pc = "start" /\ run = 1
  /\ left = 0 /\ waited = 0 /\ woken = FALSE /\ stayed = FALSE
  /\ help = "none" /\ openapi = "none" /\ queue = {} /\ closure = {}
  /\ types = {} /\ schemas = {} /\ probes = <<>>

At(p) == pc = p
Ready(p) == At(p) /\ left = 0
Over == pc \in {"ok", "error", "killed"}

\* The client gets on with booting.
Registers ==
  /\ level \in {"low", "high"}
  /\ level' = IF level = "low" THEN "high" ELSE "full"
  /\ beat' = 0
  /\ UNCHANGED <<surface, moves, mishaps, pc, run, waiting, taken, dir>>

\* It goes to the tray, quits, or is started.
Leaves ==
  /\ moves > 0 /\ moves' = moves - 1
  /\ \/ level = "full" /\ level' = "tray"
     \/ level # "none" /\ level' = "none"
     \/ level = "none" /\ level' = "low"
  /\ beat' = 0 /\ stayed' = FALSE
  /\ UNCHANGED <<surface, mishaps, pc, run, left, waited, woken, taken, dir>>

\* A second passes in a sleep or a request of the tool.
Tick ==
  /\ left > 0 /\ left' = left - 1
  /\ IF level = "high" THEN beat < Beat /\ beat' = beat + 1 ELSE UNCHANGED beat
  /\ waited' = IF At("look") \/ At("poll") THEN waited + 1 ELSE waited
  /\ UNCHANGED <<surface, level, moves, mishaps, pc, run, woken, stayed, taken, dir>>

----------------------------------------------------------------------------
(***************************************************************************)
(* Waking the client.                                                      *)
(***************************************************************************)
Goes(p) == pc' = p /\ UNCHANGED run

\* A run that ends here has changed no file.
Fails == Goes("error") /\ UNCHANGED <<client, mishaps, waiting, taken, dir>>

\* A request that is not answered, though the client is there.
Unanswered == mishaps > 0 /\ mishaps' = mishaps - 1

\* live_lockfile.
Start ==
  /\ At("start")
  /\ IF level = "none" THEN Fails
     ELSE Goes("count") /\ UNCHANGED <<client, mishaps, waiting, taken, dir>>

\* ensure_awake, its first question.  No answer counts as no functions.
Count ==
  /\ Ready("count")
  /\ \/ /\ Goes(IF AboveFloor(level) THEN "help" ELSE "wake")
        /\ stayed' = AboveFloor(level) /\ UNCHANGED mishaps
     \/ Unanswered /\ Goes("wake") /\ UNCHANGED stayed
  /\ \E d \in 0..QueryTime : left' = d
  /\ UNCHANGED <<client, waited, woken, taken, dir>>

Boots ==
  IF level = "tray" THEN level' = "low" /\ beat' = 0 ELSE UNCHANGED <<level, beat>>

\* The POST of an empty argv boots a client that idles.  Its answer can be
\* lost, or be a refusal; both end the run.
Wake ==
  /\ Ready("wake")
  /\ \/ level = "none" /\ Fails
     \/ /\ level # "none" /\ Boots
        /\ Goes("poll") /\ woken' = TRUE /\ waited' = 0
        /\ UNCHANGED <<surface, moves, mishaps, left, stayed, taken, dir>>
     \/ /\ level # "none" /\ (Boots \/ UNCHANGED <<level, beat>>)
        /\ Unanswered /\ Goes("error")
        /\ UNCHANGED <<surface, moves, waiting, taken, dir>>

\* The deadline is read before each sleep of a second.
PollWhile(inTime) ==
  /\ Ready("poll")
  /\ IF inTime
       THEN /\ Goes("look") /\ left' = 1
            /\ UNCHANGED <<client, mishaps, waited, woken, stayed, taken, dir>>
       ELSE Fails

PollLate == PollWhile(waited <= WakeBudget)

Poll == PollWhile(waited < WakeBudget)

\* Taken as soon as the floor is passed.
LookHasty ==
  /\ Ready("look")
  /\ \/ /\ Goes(IF AboveFloor(level) THEN "help" ELSE "poll")
        /\ stayed' = AboveFloor(level) /\ UNCHANGED mishaps
     \/ Unanswered /\ Goes("poll") /\ UNCHANGED stayed
  /\ \E d \in 0..QueryTime : left' = d
  /\ UNCHANGED <<client, waited, woken, taken, dir>>

Look ==
  /\ Ready("look")
  /\ \/ /\ Goes(IF AboveFloor(level) THEN "help" ELSE "poll")
        /\ stayed' = AboveFloor(level) /\ UNCHANGED mishaps
        /\ \E d \in 0..QueryTime : left' = d + IF AboveFloor(level) THEN Settle ELSE 0
     \/ Unanswered /\ Goes("poll") /\ (\E d \in 0..QueryTime : left' = d) /\ UNCHANGED stayed
  /\ UNCHANGED <<client, waited, woken, taken, dir>>

----------------------------------------------------------------------------
(***************************************************************************)
(* Fetching and filtering.                                                 *)
(***************************************************************************)

InScope(things, l) == {x \in Described(things, l) : things[x].inScope}

\* collect_type_ref: both names a description may hold.
TypeRef(d) == {d.type, d.elementType} \ {""}

\* Of the first description alone.
FirstTypeRefs(descs) == IF descs = <<>> THEN {} ELSE TypeRef(descs[1])

TypeRefs(descs) == UNION {TypeRef(descs[i]) : i \in DOMAIN descs}

\* collect_function_refs: all of the arguments, and what is returned.
FunctionRefs(f) == TypeRefs(f.arguments) \cup TypeRef(f.returns)

\* collect_schema_refs: all of the references, however deep.
IsRef(keys) == keys # <<>> /\ Last(keys) = "$ref"
SchemaRefs(doc) == {doc[k].name : k \in {q \in DOMAIN doc : IsRef(q) /\ doc[q].component}}

\* What the two work lists begin with, and what each name adds to them.
HelpRefs == UNION {FunctionRefs(surface.functions[f]) : f \in InScope(surface.functions, help)}
PathRefs == UNION {SchemaRefs(surface.paths[p].document) : p \in InScope(surface.paths, openapi)}

RefsOfType == [t \in DOMAIN surface.types |-> TypeRefs(surface.types[t].fields)]
RefsOfSchema == [s \in DOMAIN surface.schemas |-> SchemaRefs(surface.schemas[s].document)]

FetchHelp ==
  /\ Ready("help")
  /\ \/ level = "none" /\ Fails
     \/ Unanswered /\ Goes("error") /\ UNCHANGED <<client, waiting, taken, dir>>
     \/ /\ level # "none" /\ Goes("openapi") /\ help' = level
        /\ UNCHANGED <<client, mishaps, waiting, openapi, queue, closure, types, schemas,
                       probes, dir>>

\* A client that has not registered swagger yet answers an error or a part.
FetchOpenapi ==
  /\ Ready("openapi")
  /\ \/ level # "full" /\ Fails
     \/ Unanswered /\ Goes("error") /\ UNCHANGED <<client, waiting, taken, dir>>
     \/ /\ level # "none" /\ Goes("types") /\ openapi' = level
        /\ queue' = HelpRefs
        /\ UNCHANGED <<client, mishaps, waiting, help, closure, types, schemas, probes, dir>>

\* Without a look at what was kept before.
VisitAgain(refs, described) ==
  \E name \in queue :
    IF name \in described
      THEN closure' = closure \cup {name} /\ queue' = (queue \ {name}) \cup refs[name]
      ELSE queue' = queue \ {name} /\ UNCHANGED closure

\* A name is looked at once, and its own references only if it is described.
Visit(refs, described) ==
  \E name \in queue :
    IF name \in described \ closure
      THEN closure' = closure \cup {name} /\ queue' = (queue \ {name}) \cup refs[name]
      ELSE queue' = queue \ {name} /\ UNCHANGED closure

\* filter_help: the loop, then what is kept, and on to filter_openapi.
FilterHelp ==
  /\ At("types")
  /\ IF surface.lacks \cap {"functions", "types", "events"} # {} THEN Fails
     ELSE /\ IF queue # {}
               THEN Visit(RefsOfType, Described(surface.types, help)) /\ Goes("types")
                    /\ UNCHANGED types
               ELSE /\ types' = closure /\ closure' = {} /\ queue' = PathRefs
                    /\ Goes("schemas")
          /\ UNCHANGED <<client, mishaps, waiting, help, openapi, schemas, probes, dir>>

FilterOpenapi ==
  /\ At("schemas")
  /\ IF "paths" \in surface.lacks THEN Fails
     ELSE /\ IF queue # {}
               THEN Visit(RefsOfSchema, Described(surface.schemas, openapi)) /\ Goes("schemas")
                    /\ UNCHANGED schemas
               ELSE /\ schemas' = closure /\ closure' = {} /\ UNCHANGED queue
                    /\ Goes("probe")
          /\ UNCHANGED <<client, mishaps, waiting, help, openapi, types, probes, dir>>

(***************************************************************************)
(* probe_paths: one function after another, whatever the client does.      *)
(***************************************************************************)
Functions == InScope(surface.functions, help)

Unprobed == Functions \ DOMAIN probes

With(f, x, v) == [y \in DOMAIN f \cup {x} |-> IF y = x THEN v ELSE f[y]]

ProbeAnswer(f) ==
  IF surface.functions[f].parameterized THEN "skipped"
  ELSE IF level = "none" THEN "failed"
  ELSE IF f \in Described(surface.functions, level) THEN "present" ELSE "absent"

Probe ==
  /\ At("probe")
  /\ IF Unprobed = {} THEN Goes("mkdir") /\ UNCHANGED <<mishaps, probes>>
     ELSE \E f \in Unprobed :
            /\ Goes("probe")
            /\ \/ probes' = With(probes, f, ProbeAnswer(f)) /\ UNCHANGED mishaps
               \/ /\ Unanswered /\ ~surface.functions[f].parameterized
                  /\ probes' = With(probes, f, "failed")
  /\ UNCHANGED <<client, waiting, help, openapi, queue, closure, types, schemas, dir>>

----------------------------------------------------------------------------
(***************************************************************************)
(* Writing.  A file is created and then filled; the disk may refuse, and   *)
(* the tool be killed, at any file.                                        *)
(***************************************************************************)
Torn == [of |-> run, whole |-> FALSE]
Whole == [of |-> run, whole |-> TRUE]

Mishap == mishaps > 0 /\ mishaps' = mishaps - 1 /\ (Goes("error") \/ Goes("killed"))

WriteThen(file, next) ==
  /\ \/ Goes(next) /\ dir' = With(dir, file, Whole) /\ UNCHANGED mishaps
     \/ Mishap /\ dir' \in {dir, With(dir, file, Torn)}
  /\ UNCHANGED <<client, waiting, taken>>

MakeDir ==
  /\ At("mkdir")
  /\ \/ Goes("help.json") /\ UNCHANGED mishaps
     \/ Mishap
  /\ UNCHANGED <<client, waiting, taken, dir>>

WriteHelp == At("help.json") /\ WriteThen("help", "openapi.json")
WriteOpenapi == At("openapi.json") /\ WriteThen("openapi", "probes.json")
WriteProbes == At("probes.json") /\ WriteThen("probes", "overrides.toml")

\* The skeleton written every time.
WriteOverridesAlways == At("overrides.toml") /\ WriteThen("overrides", "SNAPSHOT.md")

WriteOverrides ==
  /\ At("overrides.toml")
  /\ IF "overrides" \in DOMAIN dir
       THEN Goes("SNAPSHOT.md") /\ UNCHANGED <<client, mishaps, waiting, taken, dir>>
       ELSE WriteThen("overrides", "SNAPSHOT.md")

\* An old SNAPSHOT.md kept.
WriteReadmeOnce ==
  /\ At("SNAPSHOT.md")
  /\ IF "readme" \in DOMAIN dir
       THEN Goes("ok") /\ UNCHANGED <<client, mishaps, waiting, taken, dir>>
       ELSE WriteThen("readme", "ok")

WriteReadme == At("SNAPSHOT.md") /\ WriteThen("readme", "ok")

\* The tool is started again.
Again ==
  /\ Over /\ run < Runs
  /\ run' = run + 1 /\ pc' = "start"
  /\ left' = 0 /\ waited' = 0 /\ woken' = FALSE /\ stayed' = FALSE
  /\ help' = "none" /\ openapi' = "none" /\ queue' = {} /\ closure' = {}
  /\ types' = {} /\ schemas' = {} /\ probes' = <<>>
  /\ UNCHANGED <<client, mishaps, dir>>

Tool ==
  \/ Start \/ Count \/ Wake \/ Poll \/ Look
  \/ FetchHelp \/ FetchOpenapi \/ FilterHelp \/ FilterOpenapi \/ Probe
  \/ MakeDir \/ WriteHelp \/ WriteOpenapi \/ WriteProbes \/ WriteOverrides \/ WriteReadme

Next == Tool \/ Again \/ Tick \/ Registers \/ Leaves

\* The tool runs on, time passes, and a client that is nearly up gets there.
Spec ==
  /\ Init /\ [][Next]_vars
  /\ WF_vars(Tool) /\ WF_vars(Tick) /\ WF_vars(Registers /\ level = "high")

----------------------------------------------------------------------------
(***************************************************************************)
(* Properties.                                                             *)
(***************************************************************************)
TypeOK ==
  /\ level \in Levels /\ help \in Levels /\ openapi \in Levels
  /\ beat \in 0..Beat /\ moves \in Nat /\ mishaps \in Nat
  /\ pc \in {"start", "count", "wake", "poll", "look", "help", "openapi", "types", "schemas",
             "probe", "mkdir", "help.json", "openapi.json", "probes.json", "overrides.toml",
             "SNAPSHOT.md", "ok", "error", "killed"}
  /\ run \in 1..Runs
  /\ left \in 0..QueryTime + Settle /\ waited \in 0..WakeBudget + QueryTime
  /\ woken \in BOOLEAN /\ stayed \in BOOLEAN
  /\ types \subseteq DOMAIN surface.types /\ schemas \subseteq DOMAIN surface.schemas
  /\ DOMAIN probes \subseteq DOMAIN surface.functions
  /\ DOMAIN dir \subseteq Files

(***************************************************************************)
(* Who mentions whom, said without the loops that collect it.              *)
(***************************************************************************)
Mentions(d, n) == n # "" /\ (d.type = n \/ d.elementType = n)

FunctionMentions(f, n) ==
  Mentions(f.returns, n) \/ \E i \in DOMAIN f.arguments : Mentions(f.arguments[i], n)

TypeMentions(t, n) == \E i \in DOMAIN t.fields : Mentions(t.fields[i], n)

DocumentMentions(doc, n) ==
  \E k \in DOMAIN doc : IsRef(k) /\ doc[k].component /\ doc[k].name = n

DescribedTypes == Described(surface.types, help)
DescribedSchemas == Described(surface.schemas, openapi)

\* The described types that a function in scope mentions, and which mention which.
TypeRoots ==
  {t \in DescribedTypes : \E f \in InScope(surface.functions, help) :
                            FunctionMentions(surface.functions[f], t)}
TypeEdges ==
  {e \in DescribedTypes \X DescribedTypes : TypeMentions(surface.types[e[1]], e[2])}

SchemaRoots ==
  {s \in DescribedSchemas : \E p \in InScope(surface.paths, openapi) :
                              DocumentMentions(surface.paths[p].document, s)}
SchemaEdges ==
  {e \in DescribedSchemas \X DescribedSchemas :
     DocumentMentions(surface.schemas[e[1]].document, e[2])}

\* The least set that has the roots and what its own members mention.
IsClosureOf(kept, described, roots, edges) ==
  LET HasAll(S) == roots \subseteq S /\ \A e \in edges : e[1] \in S => e[2] \in S
  IN /\ kept \subseteq described /\ HasAll(kept)
     /\ \A S \in SUBSET described : HasAll(S) => kept \subseteq S

(***************************************************************************)
(* "Keep the in-scope functions, the transitive closure of the types they  *)
(* reference" (snapshot.rs:181), and the same of the schemas: on any graph *)
(* of types, what is written has every type that can be reached through    *)
(* the arguments, the returns and the fields, or through the references of *)
(* a path and of a schema, and no other.                                   *)
(***************************************************************************)
ClosureIsExact ==
  At("mkdir") => /\ IsClosureOf(types, DescribedTypes, TypeRoots, TypeEdges)
                 /\ IsClosureOf(schemas, DescribedSchemas, SchemaRoots, SchemaEdges)

(***************************************************************************)
(* What was fetched is worth writing.  As long as the client has not left  *)
(* since it was found awake, /help is a booted client's; and if this run   *)
(* woke it, a wholly booted one's, "rather than ... a half-booted surface" *)
(* (snapshot.rs:130).                                                      *)
(***************************************************************************)
SurfaceIsWorthTaking ==
  (At("openapi") /\ stayed) => AboveFloor(help) /\ (woken => help = "full")

(***************************************************************************)
(* The directory is only ever changed by a run that has fetched, filtered  *)
(* and probed everything: a client that goes away before costs nothing.    *)
(* And a hand-authored overrides.toml is "never overwritten by the         *)
(* snapshot" (snapshot.rs:497), failed and killed runs included.           *)
(***************************************************************************)
DirectoryIsRespected ==
  [][dir' # dir =>
       /\ help # "none" /\ openapi # "none" /\ queue = {} /\ Unprobed = {}
       /\ "overrides" \in DOMAIN dir => dir'["overrides"] = dir["overrides"]]_vars

(***************************************************************************)
(* A run that says it succeeded leaves one snapshot: every generated file  *)
(* is whole and of this run, whatever earlier runs left half done.         *)
(***************************************************************************)
OneSnapshot ==
  At("ok") => \A f \in Files \ {"overrides"} : f \in DOMAIN dir /\ dir[f] = Whole

(***************************************************************************)
(* Every run ends, though the client never boots, idles again at once, or  *)
(* describes types that go in circles.                                     *)
(***************************************************************************)
Ends == <>[]Over

=============================================================================
