--------------------------- MODULE SnapshotProofs ---------------------------
(***************************************************************************)
(* Proofs about Snapshot: for any surface a client may describe, any graph *)
(* of types in it, and any times that keep the assumptions.                *)
(***************************************************************************)
EXTENDS Snapshot, TLAPS

Writing == {"help.json", "openapi.json", "probes.json", "overrides.toml", "SNAPSHOT.md"}

Before(p) == p \in {"start", "count", "wake", "poll", "look", "help", "openapi"}

\* The wait for a woken client is cut off, give or take a request.
InTime ==
  /\ At("look") => waited + left <= WakeBudget
  /\ At("poll") => waited + left <= WakeBudget + QueryTime

\* What a run that has not fetched yet holds.
Fresh ==
  /\ Before(pc) => queue = {} /\ closure = {} /\ types = {} /\ schemas = {} /\ probes = <<>>
  /\ pc \in {"start", "count", "wake"} => ~woken
  /\ pc \in {"start", "count", "wake", "poll", "look"} => ~stayed

(***************************************************************************)
(* A client that stayed is above the floor, and one that was woken is kept *)
(* waiting for longer than its last plugins take.                          *)
(***************************************************************************)
Awake ==
  /\ stayed => AboveFloor(level)
  /\ (At("help") /\ stayed /\ woken) =>
       level = "full" \/ left + beat >= Settle
  /\ SurfaceIsWorthTaking

\* The names that what is kept refers to.
Meets(refs, kept) == UNION {refs[x] : x \in kept}

\* The closure on its way: what it has is needed, and what it lacks is queued.
Grown(kept, asked, refs, described, roots) ==
  /\ kept \subseteq described
  /\ asked \subseteq roots \cup Meets(refs, kept)
  /\ (roots \cup Meets(refs, kept)) \cap described \subseteq kept \cup asked
  /\ \A S \in SUBSET described :
       (roots \cup Meets(refs, S)) \cap described \subseteq S => kept \subseteq S

TypesClosed == IsClosureOf(types, DescribedTypes, TypeRoots, TypeEdges)
SchemasClosed == IsClosureOf(schemas, DescribedSchemas, SchemaRoots, SchemaEdges)

Closing ==
  /\ At("types") => Grown(closure, queue, RefsOfType, DescribedTypes, HelpRefs)
  /\ pc \in {"schemas", "probe", "mkdir"} => TypesClosed
  /\ At("schemas") => Grown(closure, queue, RefsOfSchema, DescribedSchemas, PathRefs)
  /\ pc \in {"probe", "mkdir"} => SchemasClosed

\* What a run that writes has behind it.
Fetched ==
  /\ pc \in {"types", "schemas", "probe", "mkdir"} \cup Writing =>
       help # "none" /\ openapi # "none"
  /\ At("openapi") => help # "none"
  /\ pc \in {"probe", "mkdir"} \cup Writing => queue = {}
  /\ pc \in {"mkdir"} \cup Writing => Unprobed = {}

\* The files a run has written when it is at p.
WrittenAt(p) ==
  CASE p = "openapi.json" -> {"help"}
    [] p = "probes.json" -> {"help", "openapi"}
    [] p \in {"overrides.toml", "SNAPSHOT.md"} -> {"help", "openapi", "probes"}
    [] p = "ok" -> {"help", "openapi", "probes", "readme"}
    [] OTHER -> {}

\* TypeOK in two halves.
Scalars ==
  /\ level \in Levels /\ help \in Levels /\ openapi \in Levels
  /\ beat \in 0..Beat /\ moves \in Nat /\ mishaps \in Nat
  /\ pc \in {"start", "count", "wake", "poll", "look", "help", "openapi", "types", "schemas",
             "probe", "mkdir", "help.json", "openapi.json", "probes.json", "overrides.toml",
             "SNAPSHOT.md", "ok", "error", "killed"}
  /\ run \in 1..Runs
  /\ left \in 0..QueryTime + Settle /\ waited \in 0..WakeBudget + QueryTime
  /\ woken \in BOOLEAN /\ stayed \in BOOLEAN

Sets ==
  /\ types \subseteq DOMAIN surface.types /\ schemas \subseteq DOMAIN surface.schemas
  /\ DOMAIN probes \subseteq DOMAIN surface.functions
  /\ DOMAIN dir \subseteq Files

Written == \A f \in WrittenAt(pc) : f \in DOMAIN dir /\ dir[f] = Whole

(***************************************************************************)
(* The levels by name, and which of them are above the floor.              *)
(***************************************************************************)
LEMMA LevelNames == Levels = {"none", "tray", "low", "high", "full"}
BY DEF Levels, Rank

\* Of the levels, high and full are above the floor.
LEMMA FloorNames ==
  ASSUME NEW l \in Levels
  PROVE  AboveFloor(l) <=> l \in {"high", "full"}
BY LevelNames DEF AboveFloor, Rank

\* AboveFloor is a truth value of anything.
LEMMA FloorIsBoolean ==
  ASSUME NEW l
  PROVE  AboveFloor(l) \in BOOLEAN
BY DEF AboveFloor

(***************************************************************************)
(* The times by themselves; a wait that covers the beat is at least one.   *)
(***************************************************************************)
LEMMA Times ==
  /\ Runs \in Nat /\ Runs >= 1 /\ WakeBudget \in Nat /\ QueryTime \in Nat
  /\ Beat \in Nat /\ Settle \in Nat /\ Settle > Beat /\ Settle >= 1
BY TimesAreNatural, BeatAssumption

(***************************************************************************)
(* The first state, whatever case it takes.                                *)
(***************************************************************************)
LEMMA InitTyped ==
  ASSUME Init
  PROVE  Scalars /\ InTime /\ Sets
<1>1. PICK c \in Cases : /\ surface = c.surface /\ level = c.level /\ moves = c.moves
                         /\ mishaps = c.mishaps /\ dir = c.dir
  BY DEF Init
<1>2. /\ level \in Levels /\ moves \in Nat /\ mishaps \in Nat /\ DOMAIN dir \subseteq Files
  BY <1>1, CasesAssumption
<1>3. /\ beat = 0 /\ pc = "start" /\ run = 1 /\ left = 0 /\ waited = 0
      /\ woken = FALSE /\ stayed = FALSE /\ help = "none" /\ openapi = "none"
      /\ types = {} /\ schemas = {} /\ probes = <<>>
  BY DEF Init
<1>4. DOMAIN probes = {}
  BY <1>3
<1>5. QED
  <2>1. 0 \in 0..Beat /\ 1 \in 1..Runs /\ 0 \in 0..QueryTime + Settle
        /\ 0 \in 0..WakeBudget + QueryTime
    BY Times
  <2>2. Scalars
    BY <1>2, <1>3, <2>1, LevelNames DEF Scalars
  <2>3. Sets
    BY <1>2, <1>3, <1>4 DEF Sets
  <2>4. QED
    BY <1>3, <2>2, <2>3 DEF InTime, At

(***************************************************************************)
(* The levels, the counters and the clocks keep their types, and the wait  *)
(* its deadline, whoever moves.                                            *)
(***************************************************************************)
LEMMA ScalarsStep ==
  ASSUME Scalars, InTime, [Next]_vars
  PROVE  Scalars' /\ InTime'
<1>1. CASE Start
  BY <1>1, LevelNames, Times DEF Start, Goes, Fails, At, client, waiting, taken, Scalars, InTime
<1>2. CASE Count
  <2>1. PICK d \in 0..QueryTime : left' = d
    BY <1>2 DEF Count
  <2>2. pc' \in {"help", "wake"} /\ mishaps' \in Nat
    BY <1>2 DEF Count, Goes, Unanswered, Scalars
  <2>3. UNCHANGED <<level, beat, moves, run, waited, woken, help, openapi>>
    BY <1>2 DEF Count, Goes, client, taken
  <2>4. stayed' \in BOOLEAN
    <3>1. AboveFloor(level) \in BOOLEAN
      BY FloorIsBoolean
    <3>2. stayed' = AboveFloor(level) \/ stayed' = stayed
      BY <1>2 DEF Count
    <3>3. QED
      BY <3>1, <3>2 DEF Scalars
  <2>5. left' \in 0..QueryTime + Settle
    BY <2>1, Times
  <2>6. QED
    BY <2>2, <2>3, <2>4, <2>5 DEF Scalars, InTime, At
<1>3. CASE Wake
  <2>1. level' \in {level, "low"} /\ beat' \in {beat, 0} /\ mishaps' \in Nat
    BY <1>3 DEF Wake, Fails, Boots, Unanswered, client, Scalars
  <2>2. /\ left' = left /\ left = 0 /\ waited' \in {waited, 0} /\ woken' \in {woken, TRUE}
        /\ UNCHANGED <<moves, run, stayed, help, openapi>>
    BY <1>3 DEF Wake, Ready, Goes, Fails, client, waiting, taken
  <2>3. pc' \in {"error", "poll"} /\ (pc' = "poll" => waited' = 0)
    BY <1>3 DEF Wake, Goes, Fails
  <2>4. level' \in Levels
    BY <2>1, LevelNames DEF Scalars
  <2>5. beat' \in 0..Beat /\ waited' \in 0..WakeBudget + QueryTime
    BY <2>1, <2>2, Times DEF Scalars
  <2>6. woken' \in BOOLEAN
    BY <2>2 DEF Scalars
  <2>7. InTime'
    BY <2>2, <2>3, Times DEF InTime, At
  <2>8. QED
    BY <2>1, <2>2, <2>3, <2>4, <2>5, <2>6, <2>7 DEF Scalars
<1>4. CASE Poll
  BY <1>4, LevelNames, Times DEF Poll, PollWhile, Ready, Goes, Fails, At, client, waiting, taken, Scalars, InTime
<1>5. CASE Look
  <2>1. PICK d \in 0..QueryTime : left' = d \/ (left' = d + Settle /\ pc' = "help")
    <3>1. CASE /\ Goes(IF AboveFloor(level) THEN "help" ELSE "poll")
               /\ \E d \in 0..QueryTime : left' = d + IF AboveFloor(level) THEN Settle ELSE 0
      <4>1. PICK d \in 0..QueryTime : left' = d + IF AboveFloor(level) THEN Settle ELSE 0
        BY <3>1
      <4>2. IF AboveFloor(level) THEN pc' = "help" /\ left' = d + Settle
                                 ELSE left' = d + 0
        BY <3>1, <4>1 DEF Goes
      <4>3. left' = d \/ (left' = d + Settle /\ pc' = "help")
        BY <4>2, Times
      <4>4. QED
        BY <4>3
    <3>2. CASE \E d \in 0..QueryTime : left' = d
      BY <3>2
    <3>3. QED
      BY <1>5, <3>1, <3>2 DEF Look
  <2>2. pc = "look" /\ left = 0 /\ pc' \in {"help", "poll"} /\ mishaps' \in Nat
    BY <1>5 DEF Look, Ready, At, Goes, Unanswered, Scalars
  <2>3. UNCHANGED <<level, beat, moves, run, waited, woken, help, openapi>>
    BY <1>5 DEF Look, Goes, client, taken
  <2>4. stayed' \in BOOLEAN
    <3>1. AboveFloor(level) \in BOOLEAN
      BY FloorIsBoolean
    <3>2. stayed' = AboveFloor(level) \/ stayed' = stayed
      BY <1>5 DEF Look
    <3>3. QED
      BY <3>1, <3>2 DEF Scalars
  <2>5. left' \in 0..QueryTime + Settle
    BY <2>1, Times
  <2>6. InTime'
    BY <2>1, <2>2, <2>3, Times DEF InTime, At, Scalars
  <2>7. QED
    BY <2>2, <2>3, <2>4, <2>5, <2>6 DEF Scalars
<1>6. CASE FetchHelp
  BY <1>6, LevelNames, Times DEF FetchHelp, Ready, Goes, Fails, Unanswered, At, client, waiting, taken, Scalars, InTime
<1>7. CASE FetchOpenapi
  BY <1>7, LevelNames, Times DEF FetchOpenapi, Ready, Goes, Fails, Unanswered, At, client, waiting, taken, Scalars, InTime
<1>8. CASE FilterHelp
  BY <1>8, LevelNames, Times DEF FilterHelp, Fails, Goes, At, client, waiting, taken, Scalars, InTime
<1>9. CASE FilterOpenapi
  BY <1>9, LevelNames, Times DEF FilterOpenapi, Fails, Goes, At, client, waiting, taken, Scalars, InTime
<1>10. CASE Probe
  BY <1>10, LevelNames, Times DEF Probe, Goes, Unanswered, At, client, waiting, taken, Scalars, InTime
<1>11. CASE MakeDir
  BY <1>11, LevelNames, Times DEF MakeDir, Goes, Mishap, At, client, waiting, taken, Scalars, InTime
<1>12. CASE WriteHelp
  BY <1>12, LevelNames, Times DEF WriteHelp, WriteThen, Goes, Mishap, At, client, waiting, taken, Scalars, InTime
<1>13. CASE WriteOpenapi
  BY <1>13, LevelNames, Times DEF WriteOpenapi, WriteThen, Goes, Mishap, At, client, waiting, taken, Scalars, InTime
<1>14. CASE WriteProbes
  BY <1>14, LevelNames, Times DEF WriteProbes, WriteThen, Goes, Mishap, At, client, waiting, taken, Scalars, InTime
<1>15. CASE WriteOverrides
  BY <1>15, LevelNames, Times DEF WriteOverrides, WriteThen, Goes, Mishap, At, client, waiting, taken, Scalars, InTime
<1>16. CASE WriteReadme
  BY <1>16, LevelNames, Times DEF WriteReadme, WriteThen, Goes, Mishap, At, client, waiting, taken, Scalars, InTime
<1>17. CASE Again
  <2>1. run' \in 1..Runs
    BY <1>17, Times DEF Again, Scalars
  <2>2. /\ pc' = "start" /\ left' = 0 /\ waited' = 0 /\ woken' = FALSE /\ stayed' = FALSE
        /\ help' = "none" /\ openapi' = "none" /\ UNCHANGED <<level, beat, moves, mishaps>>
    BY <1>17 DEF Again, client
  <2>3. left' \in 0..QueryTime + Settle /\ waited' \in 0..WakeBudget + QueryTime
    BY <2>2, Times
  <2>4. QED
    BY <2>1, <2>2, <2>3, LevelNames DEF Scalars, InTime, At
<1>18. CASE Tick
  BY <1>18, LevelNames, Times DEF Tick, At, client, waiting, taken, Scalars, InTime
<1>19. CASE Registers
  BY <1>19, LevelNames, Times DEF Registers, At, client, waiting, taken, Scalars, InTime
<1>20. CASE Leaves
  <2>1. /\ level' \in {"tray", "none", "low"} /\ moves' \in Nat /\ beat' = 0 /\ stayed' = FALSE
        /\ UNCHANGED <<mishaps, pc, run, left, waited, woken, help, openapi>>
    BY <1>20 DEF Leaves, taken, Scalars
  <2>2. beat' \in 0..Beat /\ level' \in Levels
    BY <2>1, Times, LevelNames
  <2>3. QED
    BY <2>1, <2>2 DEF Scalars, InTime, At
<1>21. CASE UNCHANGED vars
  BY <1>21 DEF vars, client, waiting, taken, Scalars, InTime, At
<1>22. QED
  BY <1>1, <1>2, <1>3, <1>4, <1>5, <1>6, <1>7, <1>8, <1>9, <1>10, <1>11, <1>12, <1>13, <1>14, <1>15, <1>16, <1>17, <1>18, <1>19, <1>20, <1>21 DEF Next, Tool

(***************************************************************************)
(* What a run holds before it has fetched, step by step.                   *)
(***************************************************************************)
LEMMA FreshStep ==
  ASSUME Fresh, [Next]_vars
  PROVE  Fresh'
<1>1. CASE Start
  BY <1>1 DEF Start, Goes, Fails, At, client, waiting, taken, Fresh, Before
<1>2. CASE Count
  BY <1>2 DEF Count, Ready, Goes, Unanswered, At, client, waiting, taken, Fresh, Before
<1>3. CASE Wake
  BY <1>3 DEF Wake, Ready, Goes, Fails, Boots, Unanswered, At, client, waiting, taken, Fresh, Before
<1>4. CASE Poll
  BY <1>4 DEF Poll, PollWhile, Ready, Goes, Fails, At, client, waiting, taken, Fresh, Before
<1>5. CASE Look
  BY <1>5 DEF Look, Ready, Goes, Unanswered, At, client, waiting, taken, Fresh, Before
<1>6. CASE FetchHelp
  BY <1>6 DEF FetchHelp, Ready, Goes, Fails, Unanswered, At, client, waiting, taken, Fresh, Before
<1>7. CASE FetchOpenapi
  BY <1>7 DEF FetchOpenapi, Ready, Goes, Fails, Unanswered, At, client, waiting, taken, Fresh, Before
<1>8. CASE FilterHelp
  BY <1>8 DEF FilterHelp, Fails, Goes, At, client, waiting, taken, Fresh, Before
<1>9. CASE FilterOpenapi
  BY <1>9 DEF FilterOpenapi, Fails, Goes, At, client, waiting, taken, Fresh, Before
<1>10. CASE Probe
  BY <1>10 DEF Probe, Goes, Unanswered, At, client, waiting, taken, Fresh, Before
<1>11. CASE MakeDir
  BY <1>11 DEF MakeDir, Goes, Mishap, At, client, waiting, taken, Fresh, Before
<1>12. CASE WriteHelp
  BY <1>12 DEF WriteHelp, WriteThen, Goes, Mishap, At, client, waiting, taken, Fresh, Before
<1>13. CASE WriteOpenapi
  BY <1>13 DEF WriteOpenapi, WriteThen, Goes, Mishap, At, client, waiting, taken, Fresh, Before
<1>14. CASE WriteProbes
  BY <1>14 DEF WriteProbes, WriteThen, Goes, Mishap, At, client, waiting, taken, Fresh, Before
<1>15. CASE WriteOverrides
  BY <1>15 DEF WriteOverrides, WriteThen, Goes, Mishap, At, client, waiting, taken, Fresh, Before
<1>16. CASE WriteReadme
  BY <1>16 DEF WriteReadme, WriteThen, Goes, Mishap, At, client, waiting, taken, Fresh, Before
<1>17. CASE Again
  BY <1>17 DEF Again, At, client, waiting, taken, Fresh, Before
<1>18. CASE Tick
  BY <1>18 DEF Tick, At, client, waiting, taken, Fresh, Before
<1>19. CASE Registers
  BY <1>19 DEF Registers, At, client, waiting, taken, Fresh, Before
<1>20. CASE Leaves
  BY <1>20 DEF Leaves, At, client, waiting, taken, Fresh, Before
<1>21. CASE UNCHANGED vars
  BY <1>21 DEF vars, At, client, waiting, taken, Fresh, Before
<1>22. QED
  BY <1>1, <1>2, <1>3, <1>4, <1>5, <1>6, <1>7, <1>8, <1>9, <1>10, <1>11, <1>12, <1>13, <1>14, <1>15, <1>16, <1>17, <1>18, <1>19, <1>20, <1>21 DEF Next, Tool

(***************************************************************************)
(* The client and the wait for it, step by step.                           *)
(***************************************************************************)
LEMMA AwakeStep ==
  ASSUME Scalars, Fresh, Awake, [Next]_vars
  PROVE  Awake'
<1>1. CASE Start
  BY <1>1, LevelNames, FloorNames, Times DEF Start, Goes, Fails, At, client, waiting, taken, Fresh, Before, Scalars, Awake, SurfaceIsWorthTaking
<1>2. CASE Count
  BY <1>2, LevelNames, FloorNames, Times DEF Count, Ready, Goes, Unanswered, At, client, waiting, taken, Fresh, Before, Scalars, Awake, SurfaceIsWorthTaking
<1>3. CASE Wake
  BY <1>3, LevelNames, FloorNames, Times DEF Wake, Ready, Goes, Fails, Boots, Unanswered, At, client, waiting, taken, Fresh, Before, Scalars, Awake, SurfaceIsWorthTaking
<1>4. CASE Poll
  BY <1>4, LevelNames, FloorNames, Times DEF Poll, PollWhile, Ready, Goes, Fails, At, client, waiting, taken, Fresh, Before, Scalars, Awake, SurfaceIsWorthTaking
<1>5. CASE Look
  BY <1>5, LevelNames, FloorNames, Times DEF Look, Ready, Goes, Unanswered, At, client, waiting, taken, Fresh, Before, Scalars, Awake, SurfaceIsWorthTaking
<1>6. CASE FetchHelp
  BY <1>6, LevelNames, FloorNames, Times DEF FetchHelp, Ready, Goes, Fails, Unanswered, At, client, waiting, taken, Fresh, Before, Scalars, Awake, SurfaceIsWorthTaking
<1>7. CASE FetchOpenapi
  BY <1>7, LevelNames, FloorNames, Times DEF FetchOpenapi, Ready, Goes, Fails, Unanswered, At, client, waiting, taken, Fresh, Before, Scalars, Awake, SurfaceIsWorthTaking
<1>8. CASE FilterHelp
  BY <1>8, LevelNames, FloorNames, Times DEF FilterHelp, Fails, Goes, At, client, waiting, taken, Fresh, Before, Scalars, Awake, SurfaceIsWorthTaking
<1>9. CASE FilterOpenapi
  BY <1>9, LevelNames, FloorNames, Times DEF FilterOpenapi, Fails, Goes, At, client, waiting, taken, Fresh, Before, Scalars, Awake, SurfaceIsWorthTaking
<1>10. CASE Probe
  BY <1>10, LevelNames, FloorNames, Times DEF Probe, Goes, Unanswered, At, client, waiting, taken, Fresh, Before, Scalars, Awake, SurfaceIsWorthTaking
<1>11. CASE MakeDir
  BY <1>11, LevelNames, FloorNames, Times DEF MakeDir, Goes, Mishap, At, client, waiting, taken, Fresh, Before, Scalars, Awake, SurfaceIsWorthTaking
<1>12. CASE WriteHelp
  BY <1>12, LevelNames, FloorNames, Times DEF WriteHelp, WriteThen, Goes, Mishap, At, client, waiting, taken, Fresh, Before, Scalars, Awake, SurfaceIsWorthTaking
<1>13. CASE WriteOpenapi
  BY <1>13, LevelNames, FloorNames, Times DEF WriteOpenapi, WriteThen, Goes, Mishap, At, client, waiting, taken, Fresh, Before, Scalars, Awake, SurfaceIsWorthTaking
<1>14. CASE WriteProbes
  BY <1>14, LevelNames, FloorNames, Times DEF WriteProbes, WriteThen, Goes, Mishap, At, client, waiting, taken, Fresh, Before, Scalars, Awake, SurfaceIsWorthTaking
<1>15. CASE WriteOverrides
  BY <1>15, LevelNames, FloorNames, Times DEF WriteOverrides, WriteThen, Goes, Mishap, At, client, waiting, taken, Fresh, Before, Scalars, Awake, SurfaceIsWorthTaking
<1>16. CASE WriteReadme
  BY <1>16, LevelNames, FloorNames, Times DEF WriteReadme, WriteThen, Goes, Mishap, At, client, waiting, taken, Fresh, Before, Scalars, Awake, SurfaceIsWorthTaking
<1>17. CASE Again
  BY <1>17, LevelNames, FloorNames, Times DEF Again, At, client, waiting, taken, Fresh, Before, Scalars, Awake, SurfaceIsWorthTaking
<1>18. CASE Tick
  <2>1. UNCHANGED <<level, pc, stayed, woken, help>>
    BY <1>18 DEF Tick, taken
  <2>2. (At("help") /\ stayed /\ woken)' => (level = "full" \/ left + beat >= Settle)'
    <3>1. SUFFICES ASSUME At("help"), stayed, woken, level # "full"
                   PROVE  left' + beat' >= Settle
      BY <2>1 DEF At
    <3>2. level = "high"
      BY <3>1, FloorNames DEF Awake, Scalars
    <3>3. left' = left - 1 /\ beat' = beat + 1
      BY <1>18, <3>2 DEF Tick
    <3>4. left + beat >= Settle /\ left \in Nat /\ beat \in Nat
      BY <3>1, Times DEF Awake, Scalars
    <3>5. QED
      BY <3>3, <3>4, Times
  <2>3. QED
    BY <2>1, <2>2 DEF Awake, SurfaceIsWorthTaking, At
<1>19. CASE Registers
  BY <1>19, LevelNames, FloorNames, Times DEF Registers, At, client, waiting, taken, Fresh, Before, Scalars, Awake, SurfaceIsWorthTaking
<1>20. CASE Leaves
  BY <1>20, LevelNames, FloorNames, Times DEF Leaves, At, client, waiting, taken, Fresh, Before, Scalars, Awake, SurfaceIsWorthTaking
<1>21. CASE UNCHANGED vars
  BY <1>21 DEF vars, At, client, waiting, taken, Fresh, Before, Scalars, Awake, SurfaceIsWorthTaking
<1>22. QED
  BY <1>1, <1>2, <1>3, <1>4, <1>5, <1>6, <1>7, <1>8, <1>9, <1>10, <1>11, <1>12, <1>13, <1>14, <1>15, <1>16, <1>17, <1>18, <1>19, <1>20, <1>21 DEF Next, Tool

(***************************************************************************)
(* What has been fetched stays fetched until the run is over.              *)
(***************************************************************************)
LEMMA FetchedStep ==
  ASSUME Fetched, [Next]_vars
  PROVE  Fetched'
<1>1. CASE Start
  BY <1>1 DEF Start, Goes, Fails, At, client, waiting, taken, Fetched, Writing, Unprobed, Functions, InScope, Described
<1>2. CASE Count
  BY <1>2 DEF Count, Ready, Goes, Unanswered, At, client, waiting, taken, Fetched, Writing, Unprobed, Functions, InScope, Described
<1>3. CASE Wake
  BY <1>3 DEF Wake, Ready, Goes, Fails, Boots, Unanswered, At, client, waiting, taken, Fetched, Writing, Unprobed, Functions, InScope, Described
<1>4. CASE Poll
  BY <1>4 DEF Poll, PollWhile, Ready, Goes, Fails, At, client, waiting, taken, Fetched, Writing, Unprobed, Functions, InScope, Described
<1>5. CASE Look
  BY <1>5 DEF Look, Ready, Goes, Unanswered, At, client, waiting, taken, Fetched, Writing, Unprobed, Functions, InScope, Described
<1>6. CASE FetchHelp
  BY <1>6 DEF FetchHelp, Ready, Goes, Fails, Unanswered, At, client, waiting, taken, Fetched, Writing, Unprobed, Functions, InScope, Described
<1>7. CASE FetchOpenapi
  BY <1>7 DEF FetchOpenapi, Ready, Goes, Fails, Unanswered, At, client, waiting, taken, Fetched, Writing, Unprobed, Functions, InScope, Described
<1>8. CASE FilterHelp
  BY <1>8 DEF FilterHelp, Fails, Goes, At, client, waiting, taken, Fetched, Writing, Unprobed, Functions, InScope, Described
<1>9. CASE FilterOpenapi
  BY <1>9 DEF FilterOpenapi, Fails, Goes, At, client, waiting, taken, Fetched, Writing, Unprobed, Functions, InScope, Described
<1>10. CASE Probe
  BY <1>10 DEF Probe, Goes, Unanswered, At, client, waiting, taken, Fetched, Writing, Unprobed, Functions, InScope, Described
<1>11. CASE MakeDir
  BY <1>11 DEF MakeDir, Goes, Mishap, At, client, waiting, taken, Fetched, Writing, Unprobed, Functions, InScope, Described
<1>12. CASE WriteHelp
  BY <1>12 DEF WriteHelp, WriteThen, Goes, Mishap, At, client, waiting, taken, Fetched, Writing, Unprobed, Functions, InScope, Described
<1>13. CASE WriteOpenapi
  BY <1>13 DEF WriteOpenapi, WriteThen, Goes, Mishap, At, client, waiting, taken, Fetched, Writing, Unprobed, Functions, InScope, Described
<1>14. CASE WriteProbes
  BY <1>14 DEF WriteProbes, WriteThen, Goes, Mishap, At, client, waiting, taken, Fetched, Writing, Unprobed, Functions, InScope, Described
<1>15. CASE WriteOverrides
  BY <1>15 DEF WriteOverrides, WriteThen, Goes, Mishap, At, client, waiting, taken, Fetched, Writing, Unprobed, Functions, InScope, Described
<1>16. CASE WriteReadme
  BY <1>16 DEF WriteReadme, WriteThen, Goes, Mishap, At, client, waiting, taken, Fetched, Writing, Unprobed, Functions, InScope, Described
<1>17. CASE Again
  BY <1>17 DEF Again, At, client, waiting, taken, Fetched, Writing, Unprobed, Functions, InScope, Described
<1>18. CASE Tick
  BY <1>18 DEF Tick, At, client, waiting, taken, Fetched, Writing, Unprobed, Functions, InScope, Described
<1>19. CASE Registers
  BY <1>19 DEF Registers, At, client, waiting, taken, Fetched, Writing, Unprobed, Functions, InScope, Described
<1>20. CASE Leaves
  BY <1>20 DEF Leaves, At, client, waiting, taken, Fetched, Writing, Unprobed, Functions, InScope, Described
<1>21. CASE UNCHANGED vars
  BY <1>21 DEF vars, At, client, waiting, taken, Fetched, Writing, Unprobed, Functions, InScope, Described
<1>22. QED
  BY <1>1, <1>2, <1>3, <1>4, <1>5, <1>6, <1>7, <1>8, <1>9, <1>10, <1>11, <1>12, <1>13, <1>14, <1>15, <1>16, <1>17, <1>18, <1>19, <1>20, <1>21 DEF Next, Tool

(***************************************************************************)
(* What has been written stays written until the run is over.              *)
(***************************************************************************)
LEMMA WrittenStep ==
  ASSUME Written, [Next]_vars
  PROVE  Written'
<1>1. CASE Start
  BY <1>1 DEF Start, Goes, Fails, At, client, waiting, taken, Written, WrittenAt, With, Whole, Torn
<1>2. CASE Count
  BY <1>2 DEF Count, Ready, Goes, Unanswered, At, client, waiting, taken, Written, WrittenAt, With, Whole, Torn
<1>3. CASE Wake
  BY <1>3 DEF Wake, Ready, Goes, Fails, Boots, Unanswered, At, client, waiting, taken, Written, WrittenAt, With, Whole, Torn
<1>4. CASE Poll
  BY <1>4 DEF Poll, PollWhile, Ready, Goes, Fails, At, client, waiting, taken, Written, WrittenAt, With, Whole, Torn
<1>5. CASE Look
  BY <1>5 DEF Look, Ready, Goes, Unanswered, At, client, waiting, taken, Written, WrittenAt, With, Whole, Torn
<1>6. CASE FetchHelp
  BY <1>6 DEF FetchHelp, Ready, Goes, Fails, Unanswered, At, client, waiting, taken, Written, WrittenAt, With, Whole, Torn
<1>7. CASE FetchOpenapi
  BY <1>7 DEF FetchOpenapi, Ready, Goes, Fails, Unanswered, At, client, waiting, taken, Written, WrittenAt, With, Whole, Torn
<1>8. CASE FilterHelp
  BY <1>8 DEF FilterHelp, Fails, Goes, At, client, waiting, taken, Written, WrittenAt, With, Whole, Torn
<1>9. CASE FilterOpenapi
  BY <1>9 DEF FilterOpenapi, Fails, Goes, At, client, waiting, taken, Written, WrittenAt, With, Whole, Torn
<1>10. CASE Probe
  BY <1>10 DEF Probe, Goes, Unanswered, At, client, waiting, taken, Written, WrittenAt, With, Whole, Torn
<1>11. CASE MakeDir
  BY <1>11 DEF MakeDir, Goes, Mishap, At, client, waiting, taken, Written, WrittenAt, With, Whole, Torn
<1>12. CASE WriteHelp
  BY <1>12 DEF WriteHelp, WriteThen, Goes, Mishap, At, client, waiting, taken, Written, WrittenAt, With, Whole, Torn
<1>13. CASE WriteOpenapi
  BY <1>13 DEF WriteOpenapi, WriteThen, Goes, Mishap, At, client, waiting, taken, Written, WrittenAt, With, Whole, Torn
<1>14. CASE WriteProbes
  BY <1>14 DEF WriteProbes, WriteThen, Goes, Mishap, At, client, waiting, taken, Written, WrittenAt, With, Whole, Torn
<1>15. CASE WriteOverrides
  BY <1>15 DEF WriteOverrides, WriteThen, Goes, Mishap, At, client, waiting, taken, Written, WrittenAt, With, Whole, Torn
<1>16. CASE WriteReadme
  BY <1>16 DEF WriteReadme, WriteThen, Goes, Mishap, At, client, waiting, taken, Written, WrittenAt, With, Whole, Torn
<1>17. CASE Again
  BY <1>17 DEF Again, At, client, waiting, taken, Written, WrittenAt, With, Whole, Torn
<1>18. CASE Tick
  BY <1>18 DEF Tick, At, client, waiting, taken, Written, WrittenAt, With, Whole, Torn
<1>19. CASE Registers
  BY <1>19 DEF Registers, At, client, waiting, taken, Written, WrittenAt, With, Whole, Torn
<1>20. CASE Leaves
  BY <1>20 DEF Leaves, At, client, waiting, taken, Written, WrittenAt, With, Whole, Torn
<1>21. CASE UNCHANGED vars
  BY <1>21 DEF vars, At, client, waiting, taken, Written, WrittenAt, With, Whole, Torn
<1>22. QED
  BY <1>1, <1>2, <1>3, <1>4, <1>5, <1>6, <1>7, <1>8, <1>9, <1>10, <1>11, <1>12, <1>13, <1>14, <1>15, <1>16, <1>17, <1>18, <1>19, <1>20, <1>21 DEF Next, Tool

(***************************************************************************)
(* What is described is there to be described.                             *)
(***************************************************************************)
LEMMA DescribedIsThere ==
  ASSUME NEW things, NEW l
  PROVE  Described(things, l) \subseteq DOMAIN things
BY DEF Described

(***************************************************************************)
(* The search starts from the roots with nothing kept.                     *)
(***************************************************************************)
LEMMA SearchStarts ==
  ASSUME NEW refs, NEW described, NEW roots
  PROVE  Grown({}, roots, refs, described, roots)
<1>1. Meets(refs, {}) = {}
  BY DEF Meets
<1>2. QED
  BY <1>1 DEF Grown

(***************************************************************************)
(* A name that is described and new is kept, and its references are asked  *)
(* for: it is in every set that is closed.                                 *)
(***************************************************************************)
LEMMA SearchKeeps ==
  ASSUME NEW refs, NEW described, NEW roots, NEW kept, NEW asked,
         NEW name \in asked \cap described,
         Grown(kept, asked, refs, described, roots)
  PROVE  Grown(kept \cup {name}, (asked \ {name}) \cup refs[name], refs, described, roots)
<1>1. Meets(refs, kept \cup {name}) = Meets(refs, kept) \cup refs[name]
  BY DEF Meets
<1>2. ASSUME NEW S \in SUBSET described, (roots \cup Meets(refs, S)) \cap described \subseteq S
      PROVE  kept \cup {name} \subseteq S
  <2>1. kept \subseteq S
    BY <1>2 DEF Grown
  <2>2. Meets(refs, kept) \subseteq Meets(refs, S)
    BY <2>1 DEF Meets
  <2>3. name \in roots \cup Meets(refs, S)
    BY <2>2 DEF Grown
  <2>4. QED
    BY <1>2, <2>1, <2>3
<1>3. kept \cup {name} \subseteq described
  BY DEF Grown
<1>4. (asked \ {name}) \cup refs[name] \subseteq roots \cup Meets(refs, kept \cup {name})
  BY <1>1 DEF Grown
<1>5. (roots \cup Meets(refs, kept \cup {name})) \cap described
        \subseteq (kept \cup {name}) \cup (asked \ {name}) \cup refs[name]
  BY <1>1 DEF Grown
<1>6. QED
  BY <1>2, <1>3, <1>4, <1>5 DEF Grown

(***************************************************************************)
(* A name that is not described, or is kept already, is dropped.           *)
(***************************************************************************)
LEMMA SearchDrops ==
  ASSUME NEW refs, NEW described, NEW roots, NEW kept, NEW asked,
         NEW name \in asked, name \notin described \ kept,
         Grown(kept, asked, refs, described, roots)
  PROVE  Grown(kept, asked \ {name}, refs, described, roots)
BY DEF Grown

(***************************************************************************)
(* With nothing left to ask for, what is kept is the closure of the roots  *)
(* that are described, over the pairs of which one refers to the other.    *)
(***************************************************************************)
LEMMA SearchEnds ==
  ASSUME NEW refs, NEW described, NEW roots, NEW kept,
         Grown(kept, {}, refs, described, roots)
  PROVE  IsClosureOf(kept, described, roots \cap described,
                     {e \in described \X described : e[2] \in refs[e[1]]})
<1> DEFINE edges == {e \in described \X described : e[2] \in refs[e[1]]}
           HasAll(S) == roots \cap described \subseteq S /\ \A e \in edges : e[1] \in S => e[2] \in S
<1>1. kept \subseteq described
  BY DEF Grown
<1>2. ASSUME NEW e \in edges, e[1] \in kept
      PROVE  e[2] \in kept
  <2>1. e[2] \in Meets(refs, kept) /\ e[2] \in described
    BY <1>2 DEF Meets
  <2>2. QED
    BY <2>1 DEF Grown
<1>3. roots \cap described \subseteq kept
  BY DEF Grown
<1>4. ASSUME NEW S \in SUBSET described, HasAll(S)
      PROVE  kept \subseteq S
  <2>1. ASSUME NEW n \in Meets(refs, S) \cap described
        PROVE  n \in S
    <3>1. PICK x \in S : n \in refs[x]
      BY <2>1 DEF Meets
    <3>2. <<x, n>> \in edges
      BY <2>1, <3>1, <1>4
    <3>3. QED
      BY <1>4, <3>1, <3>2
  <2>2. (roots \cup Meets(refs, S)) \cap described \subseteq S
    BY <1>4, <2>1
  <2>3. QED
    BY <2>2 DEF Grown
<1>5. HasAll(kept)
  BY <1>2, <1>3
<1>6. QED
  BY <1>1, <1>4, <1>5 DEF IsClosureOf

(***************************************************************************)
(* collect_type_ref collects what a description mentions, and the loops    *)
(* over descriptions what any of them does.                                *)
(***************************************************************************)
LEMMA TypeRefsAreMentions ==
  /\ \A d, n : n \in TypeRef(d) <=> Mentions(d, n)
  /\ \A descs, n : n \in TypeRefs(descs) <=> \E i \in DOMAIN descs : Mentions(descs[i], n)
<1>1. ASSUME NEW d, NEW n
      PROVE  n \in TypeRef(d) <=> Mentions(d, n)
  BY DEF TypeRef, Mentions
<1>2. ASSUME NEW descs, NEW n
      PROVE  n \in TypeRefs(descs) <=> \E i \in DOMAIN descs : n \in TypeRef(descs[i])
  BY DEF TypeRefs
<1>3. QED
  BY <1>1, <1>2

(***************************************************************************)
(* collect_schema_refs collects what a document mentions.                  *)
(***************************************************************************)
LEMMA SchemaRefsAreMentions ==
  ASSUME NEW doc, NEW n
  PROVE  n \in SchemaRefs(doc) <=> DocumentMentions(doc, n)
BY DEF SchemaRefs, DocumentMentions

(***************************************************************************)
(* The roots and edges of the types, as the loops of filter_help see them. *)
(***************************************************************************)
LEMMA TypeGraph ==
  /\ TypeRoots = HelpRefs \cap DescribedTypes
  /\ TypeEdges = {e \in DescribedTypes \X DescribedTypes : e[2] \in RefsOfType[e[1]]}
<1>1. ASSUME NEW f, NEW n
      PROVE  n \in FunctionRefs(f) <=> FunctionMentions(f, n)
  BY TypeRefsAreMentions DEF FunctionRefs, FunctionMentions
<1>2. ASSUME NEW n
      PROVE  n \in HelpRefs <=> \E f \in InScope(surface.functions, help) :
                                  FunctionMentions(surface.functions[f], n)
  BY <1>1 DEF HelpRefs
<1>3. TypeRoots = HelpRefs \cap DescribedTypes
  BY <1>2 DEF TypeRoots
<1>4. ASSUME NEW e \in DescribedTypes \X DescribedTypes
      PROVE  e[2] \in RefsOfType[e[1]] <=> TypeMentions(surface.types[e[1]], e[2])
  <2>1. e[1] \in DOMAIN surface.types
    BY DescribedIsThere DEF DescribedTypes
  <2>2. RefsOfType[e[1]] = TypeRefs(surface.types[e[1]].fields)
    BY <2>1 DEF RefsOfType
  <2>3. QED
    BY <2>2, TypeRefsAreMentions DEF TypeMentions
<1>5. QED
  BY <1>3, <1>4 DEF TypeEdges

(***************************************************************************)
(* The same of the schemas and the loops of filter_openapi.                *)
(***************************************************************************)
LEMMA SchemaGraph ==
  /\ SchemaRoots = PathRefs \cap DescribedSchemas
  /\ SchemaEdges = {e \in DescribedSchemas \X DescribedSchemas : e[2] \in RefsOfSchema[e[1]]}
<1>1. ASSUME NEW n
      PROVE  n \in PathRefs <=> \E p \in InScope(surface.paths, openapi) :
                                  DocumentMentions(surface.paths[p].document, n)
  BY SchemaRefsAreMentions DEF PathRefs
<1>2. SchemaRoots = PathRefs \cap DescribedSchemas
  BY <1>1 DEF SchemaRoots
<1>3. ASSUME NEW e \in DescribedSchemas \X DescribedSchemas
      PROVE  e[2] \in RefsOfSchema[e[1]] <=> DocumentMentions(surface.schemas[e[1]].document, e[2])
  <2>1. e[1] \in DOMAIN surface.schemas
    BY DescribedIsThere DEF DescribedSchemas
  <2>2. RefsOfSchema[e[1]] = SchemaRefs(surface.schemas[e[1]].document)
    BY <2>1 DEF RefsOfSchema
  <2>3. QED
    BY <2>2, SchemaRefsAreMentions
<1>4. QED
  BY <1>2, <1>3 DEF SchemaEdges

(***************************************************************************)
(* One turn of either loop.                                                *)
(***************************************************************************)
LEMMA VisitGrows ==
  ASSUME NEW refs, NEW described, NEW roots,
         Grown(closure, queue, refs, described, roots), Visit(refs, described)
  PROVE  Grown(closure', queue', refs, described, roots)
<1>1. PICK name \in queue :
        IF name \in described \ closure
          THEN closure' = closure \cup {name} /\ queue' = (queue \ {name}) \cup refs[name]
          ELSE queue' = queue \ {name} /\ UNCHANGED closure
  BY DEF Visit
<1>2. CASE name \in described \ closure
  BY <1>1, <1>2, SearchKeeps
<1>3. CASE name \notin described \ closure
  BY <1>1, <1>3, SearchDrops
<1>4. QED
  BY <1>2, <1>3

(***************************************************************************)
(* What is mentioned changes with what was fetched, and with nothing else. *)
(***************************************************************************)
LEMMA GraphsStay ==
  ASSUME UNCHANGED <<surface, help>>
  PROVE  UNCHANGED <<DescribedTypes, TypeRoots, TypeEdges, RefsOfType, HelpRefs>>
BY DEF DescribedTypes, TypeRoots, TypeEdges, RefsOfType, HelpRefs

\* The same of the schemas.
LEMMA SchemaGraphsStay ==
  ASSUME UNCHANGED <<surface, openapi>>
  PROVE  UNCHANGED <<DescribedSchemas, SchemaRoots, SchemaEdges, RefsOfSchema, PathRefs>>
BY DEF DescribedSchemas, SchemaRoots, SchemaEdges, RefsOfSchema, PathRefs

(***************************************************************************)
(* A step of the client or of the clock disturbs no search.                *)
(***************************************************************************)
LEMMA ClosingStays ==
  ASSUME Closing, UNCHANGED <<surface, pc, help, openapi, queue, closure, types, schemas>>
  PROVE  Closing'
BY GraphsStay, SchemaGraphsStay DEF Closing, TypesClosed, SchemasClosed, At

(***************************************************************************)
(* Both searches, and what they left behind, step by step.                 *)
(***************************************************************************)
LEMMA ClosingStep ==
  ASSUME Fresh, Closing, [Next]_vars
  PROVE  Closing'
<1>1. CASE Start
  BY <1>1 DEF Start, Goes, Fails, At, Closing
<1>2. CASE Count
  BY <1>2 DEF Count, Ready, Goes, Unanswered, At, Closing
<1>3. CASE Wake
  BY <1>3 DEF Wake, Ready, Goes, Fails, Boots, Unanswered, At, Closing
<1>4. CASE Poll
  BY <1>4 DEF Poll, PollWhile, Ready, Goes, Fails, At, Closing
<1>5. CASE Look
  BY <1>5 DEF Look, Ready, Goes, Unanswered, At, Closing
<1>6. CASE FetchHelp
  BY <1>6 DEF FetchHelp, Ready, Goes, Fails, At, Closing
<1>7. CASE FetchOpenapi
  <2>1. CASE pc' = "types"
    <3>1. queue' = HelpRefs /\ UNCHANGED <<surface, help>> /\ closure' = {}
      BY <1>7, <2>1 DEF FetchOpenapi, Ready, Goes, Fails, At, Fresh, Before, client
    <3>2. Grown(closure', queue', RefsOfType, DescribedTypes, HelpRefs)
      BY <3>1, SearchStarts
    <3>3. QED
      BY <2>1, <3>1, <3>2, GraphsStay DEF Closing, At
  <2>2. CASE pc' = "error"
    BY <2>2 DEF Closing, At
  <2>3. QED
    BY <1>7, <2>1, <2>2 DEF FetchOpenapi, Goes, Fails
<1>8. CASE FilterHelp
  <2>1. CASE pc' = "error"
    BY <2>1 DEF Closing, At
  <2>2. CASE pc' # "error"
    <3>1. UNCHANGED <<surface, help, openapi>> /\ pc = "types"
      BY <1>8, <2>2 DEF FilterHelp, Fails, Goes, At, client
    <3>2. Grown(closure, queue, RefsOfType, DescribedTypes, HelpRefs)
      BY <3>1 DEF Closing, At
    <3>3. CASE queue # {}
      <4>1. pc' = "types" /\ Visit(RefsOfType, DescribedTypes)
        BY <1>8, <2>2, <3>3 DEF FilterHelp, Fails, Goes, DescribedTypes
      <4>2. Grown(closure', queue', RefsOfType, DescribedTypes, HelpRefs)
        BY <3>2, <4>1, VisitGrows
      <4>3. QED
        BY <3>1, <4>1, <4>2, GraphsStay DEF Closing, At
    <3>4. CASE queue = {}
      <4>1. pc' = "schemas" /\ types' = closure /\ closure' = {} /\ queue' = PathRefs
        BY <1>8, <2>2, <3>4 DEF FilterHelp, Fails, Goes
      <4>2. IsClosureOf(closure, DescribedTypes, TypeRoots, TypeEdges)
        BY <3>2, <3>4, SearchEnds, TypeGraph
      <4>3. TypesClosed'
        BY <3>1, <4>1, <4>2, GraphsStay DEF TypesClosed
      <4>4. Grown(closure', queue', RefsOfSchema, DescribedSchemas, PathRefs)
        BY <4>1, SearchStarts
      <4>5. QED
        BY <3>1, <4>1, <4>3, <4>4, SchemaGraphsStay DEF Closing, At
    <3>5. QED
      BY <3>3, <3>4
  <2>3. QED
    BY <2>1, <2>2
<1>9. CASE FilterOpenapi
  <2>1. CASE pc' = "error"
    BY <2>1 DEF Closing, At
  <2>2. CASE pc' # "error"
    <3>1. UNCHANGED <<surface, help, openapi, types>> /\ pc = "schemas"
      BY <1>9, <2>2 DEF FilterOpenapi, Fails, Goes, At, client
    <3>2. Grown(closure, queue, RefsOfSchema, DescribedSchemas, PathRefs)
      BY <3>1 DEF Closing, At
    <3>3. TypesClosed'
      BY <3>1, GraphsStay DEF Closing, TypesClosed
    <3>4. CASE queue # {}
      <4>1. pc' = "schemas" /\ Visit(RefsOfSchema, DescribedSchemas)
        BY <1>9, <2>2, <3>4 DEF FilterOpenapi, Fails, Goes, DescribedSchemas
      <4>2. Grown(closure', queue', RefsOfSchema, DescribedSchemas, PathRefs)
        BY <3>2, <4>1, VisitGrows
      <4>3. QED
        BY <3>1, <3>3, <4>1, <4>2, SchemaGraphsStay DEF Closing, At
    <3>5. CASE queue = {}
      <4>1. pc' = "probe" /\ schemas' = closure
        BY <1>9, <2>2, <3>5 DEF FilterOpenapi, Fails, Goes
      <4>2. IsClosureOf(closure, DescribedSchemas, SchemaRoots, SchemaEdges)
        BY <3>2, <3>5, SearchEnds, SchemaGraph
      <4>3. SchemasClosed'
        BY <3>1, <4>1, <4>2, SchemaGraphsStay DEF SchemasClosed
      <4>4. QED
        BY <3>3, <4>1, <4>3 DEF Closing, At
    <3>6. QED
      BY <3>4, <3>5
  <2>3. QED
    BY <2>1, <2>2
<1>10. CASE Probe
  <2>1. /\ UNCHANGED <<surface, help, openapi, types, schemas>>
        /\ pc = "probe" /\ pc' \in {"probe", "mkdir"}
    BY <1>10 DEF Probe, Goes, At, client
  <2>2. TypesClosed' /\ SchemasClosed'
    BY <2>1, GraphsStay, SchemaGraphsStay DEF Closing, TypesClosed, SchemasClosed
  <2>3. QED
    BY <2>1, <2>2 DEF Closing, At
<1>11. CASE MakeDir
  BY <1>11 DEF MakeDir, Goes, Mishap, At, Closing
<1>12. CASE WriteHelp
  BY <1>12 DEF WriteHelp, WriteThen, Goes, Mishap, At, Closing
<1>13. CASE WriteOpenapi
  BY <1>13 DEF WriteOpenapi, WriteThen, Goes, Mishap, At, Closing
<1>14. CASE WriteProbes
  BY <1>14 DEF WriteProbes, WriteThen, Goes, Mishap, At, Closing
<1>15. CASE WriteOverrides
  BY <1>15 DEF WriteOverrides, WriteThen, Goes, Mishap, At, Closing
<1>16. CASE WriteReadme
  BY <1>16 DEF WriteReadme, WriteThen, Goes, Mishap, At, Closing
<1>17. CASE Again
  BY <1>17 DEF Again, At, Closing
<1>18. CASE Tick
  BY <1>18, ClosingStays DEF Tick, taken
<1>19. CASE Registers
  BY <1>19, ClosingStays DEF Registers, taken
<1>20. CASE Leaves
  BY <1>20, ClosingStays DEF Leaves, taken
<1>21. CASE UNCHANGED vars
  BY <1>21, ClosingStays DEF vars, client, taken
<1>22. QED
  BY <1>1, <1>2, <1>3, <1>4, <1>5, <1>6, <1>7, <1>8, <1>9, <1>10, <1>11, <1>12, <1>13, <1>14, <1>15, <1>16, <1>17, <1>18, <1>19, <1>20, <1>21 DEF Next, Tool

(***************************************************************************)
(* What is kept is described, and what is probed is a function of it.      *)
(***************************************************************************)
LEMMA SetsStep ==
  ASSUME Sets, Closing, [Next]_vars
  PROVE  Sets'
<1>1. CASE Start
  <2>1. UNCHANGED <<surface, types, schemas, probes, dir>>
    BY <1>1 DEF Start, Goes, Fails, client, taken
  <2>2. QED
    BY <2>1 DEF Sets
<1>2. CASE Count
  <2>1. UNCHANGED <<surface, types, schemas, probes, dir>>
    BY <1>2 DEF Count, Goes, Fails, client, taken
  <2>2. QED
    BY <2>1 DEF Sets
<1>3. CASE Wake
  <2>1. UNCHANGED <<surface, types, schemas, probes, dir>>
    BY <1>3 DEF Wake, Goes, Fails, client, taken
  <2>2. QED
    BY <2>1 DEF Sets
<1>4. CASE Poll
  <2>1. UNCHANGED <<surface, types, schemas, probes, dir>>
    BY <1>4 DEF Poll, Goes, Fails, PollWhile, client, taken
  <2>2. QED
    BY <2>1 DEF Sets
<1>5. CASE Look
  <2>1. UNCHANGED <<surface, types, schemas, probes, dir>>
    BY <1>5 DEF Look, Goes, Fails, client, taken
  <2>2. QED
    BY <2>1 DEF Sets
<1>6. CASE FetchHelp
  <2>1. UNCHANGED <<surface, types, schemas, probes, dir>>
    BY <1>6 DEF FetchHelp, Goes, Fails, client, taken
  <2>2. QED
    BY <2>1 DEF Sets
<1>7. CASE FetchOpenapi
  <2>1. UNCHANGED <<surface, types, schemas, probes, dir>>
    BY <1>7 DEF FetchOpenapi, Goes, Fails, client, taken
  <2>2. QED
    BY <2>1 DEF Sets
<1>8. CASE FilterHelp
  <2>1. UNCHANGED <<surface, schemas, probes, dir>> /\ types' \in {types, closure}
    BY <1>8 DEF FilterHelp, Fails, client, taken
  <2>2. closure \subseteq DOMAIN surface.types
    BY <1>8, DescribedIsThere DEF FilterHelp, Closing, Grown, DescribedTypes
  <2>3. QED
    BY <2>1, <2>2 DEF Sets
<1>9. CASE FilterOpenapi
  <2>1. UNCHANGED <<surface, types, probes, dir>> /\ schemas' \in {schemas, closure}
    BY <1>9 DEF FilterOpenapi, Fails, client, taken
  <2>2. closure \subseteq DOMAIN surface.schemas
    BY <1>9, DescribedIsThere DEF FilterOpenapi, Closing, Grown, DescribedSchemas
  <2>3. QED
    BY <2>1, <2>2 DEF Sets
<1>10. CASE Probe
  <2>1. UNCHANGED <<surface, types, schemas, dir>>
    BY <1>10 DEF Probe, client
  <2>2. CASE UNCHANGED probes
    BY <2>1, <2>2 DEF Sets
  <2>3. CASE \E f \in Unprobed : DOMAIN probes' = DOMAIN probes \cup {f}
    BY <2>1, <2>3, DescribedIsThere DEF Sets, Unprobed, Functions, InScope
  <2>4. QED
    BY <1>10, <2>2, <2>3 DEF Probe, With
<1>11. CASE MakeDir
  <2>1. UNCHANGED <<surface, types, schemas, probes, dir>>
    BY <1>11 DEF MakeDir, Goes, Fails, client, taken
  <2>2. QED
    BY <2>1 DEF Sets
<1>12. CASE WriteHelp
  <2>1. UNCHANGED <<surface, types, schemas, probes>>
    BY <1>12 DEF WriteHelp, WriteThen, client, taken
  <2>2. DOMAIN dir' \subseteq DOMAIN dir \cup {"help"}
    BY <1>12 DEF WriteHelp, WriteThen, With
  <2>3. QED
    BY <2>1, <2>2 DEF Sets, Files
<1>13. CASE WriteOpenapi
  <2>1. UNCHANGED <<surface, types, schemas, probes>>
    BY <1>13 DEF WriteOpenapi, WriteThen, client, taken
  <2>2. DOMAIN dir' \subseteq DOMAIN dir \cup {"openapi"}
    BY <1>13 DEF WriteOpenapi, WriteThen, With
  <2>3. QED
    BY <2>1, <2>2 DEF Sets, Files
<1>14. CASE WriteProbes
  <2>1. UNCHANGED <<surface, types, schemas, probes>>
    BY <1>14 DEF WriteProbes, WriteThen, client, taken
  <2>2. DOMAIN dir' \subseteq DOMAIN dir \cup {"probes"}
    BY <1>14 DEF WriteProbes, WriteThen, With
  <2>3. QED
    BY <2>1, <2>2 DEF Sets, Files
<1>15. CASE WriteOverrides
  <2>1. UNCHANGED <<surface, types, schemas, probes>>
    BY <1>15 DEF WriteOverrides, WriteThen, client, taken
  <2>2. DOMAIN dir' \subseteq DOMAIN dir \cup {"overrides"}
    BY <1>15 DEF WriteOverrides, WriteThen, With
  <2>3. QED
    BY <2>1, <2>2 DEF Sets, Files
<1>16. CASE WriteReadme
  <2>1. UNCHANGED <<surface, types, schemas, probes>>
    BY <1>16 DEF WriteReadme, WriteThen, client, taken
  <2>2. DOMAIN dir' \subseteq DOMAIN dir \cup {"readme"}
    BY <1>16 DEF WriteReadme, WriteThen, With
  <2>3. QED
    BY <2>1, <2>2 DEF Sets, Files
<1>17. CASE Again
  <2>1. /\ UNCHANGED <<surface, dir>> /\ types' = {} /\ schemas' = {} /\ probes' = <<>>
    BY <1>17 DEF Again, client
  <2>2. DOMAIN probes' = {}
    BY <2>1
  <2>3. QED
    BY <2>1, <2>2 DEF Sets
<1>18. CASE Tick
  BY <1>18 DEF Tick, taken, Sets
<1>19. CASE Registers
  BY <1>19 DEF Registers, taken, Sets
<1>20. CASE Leaves
  BY <1>20 DEF Leaves, taken, Sets
<1>21. CASE UNCHANGED vars
  BY <1>21 DEF vars, client, taken, Sets
<1>22. QED
  BY <1>1, <1>2, <1>3, <1>4, <1>5, <1>6, <1>7, <1>8, <1>9, <1>10, <1>11, <1>12, <1>13, <1>14, <1>15, <1>16, <1>17, <1>18, <1>19, <1>20, <1>21 DEF Next, Tool

(***************************************************************************)
(* What every state of a run keeps.                                        *)
(***************************************************************************)
SnapshotInv ==
  Scalars /\ InTime /\ Sets /\ Fresh /\ Awake /\ Closing /\ Fetched /\ Written

(***************************************************************************)
(* It holds at first, and every step keeps it.                             *)
(***************************************************************************)
LEMMA SnapshotInvariant == Spec => []SnapshotInv
<1>1. ASSUME Init
      PROVE  SnapshotInv
  <2>1. Scalars /\ InTime /\ Sets
    BY <1>1, InitTyped
  <2>2. pc = "start" /\ ~woken /\ ~stayed
    BY <1>1 DEF Init
  <2>3. Fresh
    BY <1>1, <2>2 DEF Init, Fresh
  <2>4. Awake /\ Closing /\ Fetched /\ Written
    BY <2>2 DEF Awake, SurfaceIsWorthTaking, Closing, Fetched, Writing, Written, WrittenAt, At
  <2>5. QED
    BY <2>1, <2>3, <2>4 DEF SnapshotInv
<1>2. ASSUME SnapshotInv, [Next]_vars
      PROVE  SnapshotInv'
  <2>1. Scalars' /\ InTime'
    BY <1>2, ScalarsStep DEF SnapshotInv
  <2>2. Sets'
    BY <1>2, SetsStep DEF SnapshotInv
  <2>3. Fresh' /\ Closing'
    BY <1>2, FreshStep, ClosingStep DEF SnapshotInv
  <2>4. Awake'
    BY <1>2, AwakeStep DEF SnapshotInv
  <2>5. Fetched' /\ Written'
    BY <1>2, FetchedStep, WrittenStep DEF SnapshotInv
  <2>6. QED
    BY <2>1, <2>2, <2>3, <2>4, <2>5 DEF SnapshotInv
<1>3. QED
  BY <1>1, <1>2, PTL DEF Spec

(***************************************************************************)
(* Type correctness: the clocks stay within their waits, and only what     *)
(* is described is kept, whatever the client and the disk do.              *)
(***************************************************************************)
THEOREM SnapshotTypeCorrect == Spec => []TypeOK
<1>1. SnapshotInv => TypeOK
  BY DEF SnapshotInv, Scalars, Sets, TypeOK
<1>2. QED
  BY <1>1, SnapshotInvariant, PTL

(***************************************************************************)
(* The work lists of filter_help and filter_openapi (snapshot.rs:184-349)  *)
(* keep exactly what can be reached, on any graph: from all arguments and  *)
(* returns of any number of functions through any number of fields, and    *)
(* through references at any depth of the paths and schemas.               *)
(***************************************************************************)
THEOREM ClosuresAreExact == Spec => []ClosureIsExact
<1>1. SnapshotInv => ClosureIsExact
  BY DEF SnapshotInv, Closing, TypesClosed, SchemasClosed, ClosureIsExact, At
<1>2. QED
  BY <1>1, SnapshotInvariant, PTL

(***************************************************************************)
(* A client that stayed was booted when /help was fetched, and wholly so   *)
(* if this run woke it: the sleep of Settle outlasts the beat.             *)
(***************************************************************************)
THEOREM SurfacesAreWorthTaking == Spec => []SurfaceIsWorthTaking
<1>1. SnapshotInv => SurfaceIsWorthTaking
  BY DEF SnapshotInv, Awake
<1>2. QED
  BY <1>1, SnapshotInvariant, PTL

(***************************************************************************)
(* A run that ends well leaves every generated file whole and its own,     *)
(* whatever runs before it left half written.                              *)
(***************************************************************************)
THEOREM SnapshotsAreOne == Spec => []OneSnapshot
<1>1. SnapshotInv => OneSnapshot
  BY DEF SnapshotInv, Written, WrittenAt, OneSnapshot, Files, At
<1>2. QED
  BY <1>1, SnapshotInvariant, PTL

(***************************************************************************)
(* schema/ changes only once everything is fetched, filtered and probed,   *)
(* and an overrides.toml that is there is never touched.                   *)
(***************************************************************************)
THEOREM DirectoriesAreRespected == Spec => DirectoryIsRespected
<1> DEFINE Respects ==
      dir' # dir =>
        /\ help # "none" /\ openapi # "none" /\ queue = {} /\ Unprobed = {}
        /\ "overrides" \in DOMAIN dir => dir'["overrides"] = dir["overrides"]
<1>1. ASSUME NEW file \in {"help", "openapi", "probes", "readme"}, NEW next,
             WriteThen(file, next), "overrides" \in DOMAIN dir
      PROVE  dir'["overrides"] = dir["overrides"]
  BY <1>1 DEF WriteThen, With
<1>2. ASSUME pc \in Writing, Fetched
      PROVE  help # "none" /\ openapi # "none" /\ queue = {} /\ Unprobed = {}
  BY <1>2 DEF Fetched
<1>3. ASSUME SnapshotInv, [Next]_vars
      PROVE  [Respects]_vars
  <2>1. CASE WriteHelp \/ WriteOpenapi \/ WriteProbes \/ WriteReadme
    BY <1>1, <1>2, <1>3, <2>1
       DEF WriteHelp, WriteOpenapi, WriteProbes, WriteReadme, Writing, SnapshotInv, At
  <2>2. CASE WriteOverrides
    BY <1>2, <1>3, <2>2 DEF WriteOverrides, Writing, SnapshotInv, At
  <2>3. CASE Start \/ Count \/ Wake \/ Poll \/ Look \/ FetchHelp \/ FetchOpenapi
    BY <2>3 DEF Start, Count, Wake, Poll, PollWhile, Look, FetchHelp, FetchOpenapi, Fails
  <2>4. CASE FilterHelp \/ FilterOpenapi \/ Probe \/ MakeDir \/ Again
    BY <2>4 DEF FilterHelp, FilterOpenapi, Fails, Probe, MakeDir, Again
  <2>5. CASE Tick \/ Registers \/ Leaves
    BY <2>5 DEF Tick, Registers, Leaves
  <2>6. CASE UNCHANGED vars
    BY <2>6 DEF vars
  <2>7. QED
    BY <1>3, <2>1, <2>2, <2>3, <2>4, <2>5, <2>6 DEF Next, Tool
<1>4. QED
  BY <1>3, SnapshotInvariant, PTL DEF Spec, DirectoryIsRespected

=============================================================================
