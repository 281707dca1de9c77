------------------------------ MODULE Installs ------------------------------
(***************************************************************************)
(* Which RiotClientServices.exe a launch starts (installs.rs): the         *)
(* document that Riot's clients keep is read once, the clients it names    *)
(* for an install are put in order, and the first that is on disk is it.   *)
(*                                                                         *)
(* The clients rewrite the document and replace themselves meanwhile.      *)
(*                                                                         *)
(* A path is a sequence of names and separators, as it was typed.          *)
(***************************************************************************)
EXTENDS Integers, FiniteSets, Sequences, SequencesExt

CONSTANTS
  Exes,        \* the clients' executables
  None,
  LowerCase,   \* each part of a path -> its lower case
  Sources,     \* where a product root may come from: see Root
  Documents,   \* [associated : path -> exe, rcDefault, rcLive]: RiotClientInstalls
  Moves        \* how often a client may do something

ASSUME ConstantsAssumption == None \notin Exes /\ Moves \in Nat

VARIABLES
  root,   \* Launcher.product_root, or None
  doc,    \* what the file holds, or None: it is missing or malformed
  next,   \* the document a client is about to write, or None
  disk,   \* the executables that are there
  moves,
  pc,
  queue,  \* candidates still to be looked at
  exe,    \* the answer
  read,   \* the document that was read
  gone    \* executables that were not there at some time since

machine == <<doc, next, disk, moves>>
call == <<pc, queue, exe, read, gone>>
vars == <<root, machine, call>>

----------------------------------------------------------------------------
(***************************************************************************)
(* Spellings.                                                              *)
(***************************************************************************)
Separators == {"/", "\\"}

NormalizeKey(path) ==
  LET key == [i \in DOMAIN path |-> IF path[i] = "\\" THEN "/" ELSE LowerCase[path[i]]]
  IN IF Last(key) = "/" THEN key ELSE Append(key, "/")

\* The text "game/" is cut off only where a separator precedes it.
InstallsKey(path) ==
  LET key == NormalizeKey(path)
      n == Len(key)
  IN IF n > 2 /\ SubSeq(key, n - 1, n) = <<"game", "/">> /\ key[n - 2] = "/"
     THEN SubSeq(key, 1, n - 2) ELSE key

(***************************************************************************)
(* A root is typed by the user, or what the registry says of a patchline   *)
(* (models_ext.rs): its install root, or the directory of a secondary.     *)
(***************************************************************************)
InstallRoot(patchline) ==
  IF patchline.installFullPath = <<>> THEN None ELSE patchline.installFullPath

Join(base, relative) ==
  (IF Last(base) \in Separators THEN base ELSE Append(base, "\\")) \o relative

SecondaryDir(patchline, id) ==
  LET found == SelectSeq(patchline.secondaries, LAMBDA s : s.id = id)
  IN IF InstallRoot(patchline) = None \/ found = <<>> THEN None
     ELSE IF found[1].relativePath = <<>> THEN None
     ELSE Join(InstallRoot(patchline), found[1].relativePath)

Root(s) ==
  CASE s.from = "typed" -> s.path
    [] s.from = "root" -> InstallRoot(s.patchline)
    [] s.from = "secondary" -> SecondaryDir(s.patchline, s.id)
    [] s.from = "unset" -> None

(***************************************************************************)
(* What is given: absolute paths, their names kept apart by one separator  *)
(* of either kind, which may also end them; and documents of such paths.   *)
(* Lower case spells no name as a separator.                               *)
(***************************************************************************)
IsPath(path) ==
  /\ path \in Seq(DOMAIN LowerCase) /\ path # <<>>
  /\ \A i \in DOMAIN path : path[i] \in Separators <=> i % 2 = 0

IsDocument(d) ==
  /\ d \in [associated : [DOMAIN d.associated -> Exes],
            rcDefault : Exes \cup {None}, rcLive : Exes \cup {None}]
  /\ IsFiniteSet(DOMAIN d.associated) /\ \A k \in DOMAIN d.associated : IsPath(k)

ASSUME SpellingAssumption ==
  /\ LowerCase["/"] = "/"
  /\ \A part \in DOMAIN LowerCase : part \notin Separators => LowerCase[part] # "/"

ASSUME SourcesAssumption == \A s \in Sources : Root(s) = None \/ IsPath(Root(s))
ASSUME DocumentsAssumption == None \notin Documents /\ \A d \in Documents : IsDocument(d)

----------------------------------------------------------------------------
Init ==
  /\ \E s \in Sources : root = Root(s)
  /\ doc \in Documents \cup {None} /\ next = None
  /\ disk \in SUBSET Exes /\ moves = Moves
  /\ pc = "load" /\ queue = <<>> /\ exe = None /\ read = None /\ gone = {}

At(p) == pc = p

(***************************************************************************)
(* The clients.  One that starts writes itself into the document, which    *)
(* cannot be read until it has; one that updates, or is uninstalled, is    *)
(* away until it is back.                                                  *)
(***************************************************************************)
Moving == moves > 0 /\ moves' = moves - 1 /\ UNCHANGED <<root, pc, queue, exe, read>>

StartClient(c) ==
  /\ Moving /\ c \in disk /\ next = None /\ doc # None
  /\ \E live \in {doc.rcLive, c} : next' = [doc EXCEPT !.rcDefault = c, !.rcLive = live]
  /\ doc' = None
  /\ UNCHANGED <<disk, gone>>

EndWrite ==
  /\ next # None /\ doc' = next /\ next' = None
  /\ UNCHANGED <<root, disk, moves, call>>

RemoveClient(c) ==
  /\ Moving /\ c \in disk
  /\ disk' = disk \ {c} /\ gone' = gone \cup {c}
  /\ UNCHANGED <<doc, next>>

PutClient(c) ==
  /\ Moving /\ c \in Exes \ disk
  /\ disk' = disk \cup {c}
  /\ UNCHANGED <<doc, next, gone>>

Machine ==
  \/ \E c \in Exes : StartClient(c) \/ RemoveClient(c) \/ PutClient(c)
  \/ EndWrite

(***************************************************************************)
(* resolve_riot_client.                                                    *)
(***************************************************************************)
Given(e) == IF e = None THEN <<>> ELSE <<e>>

\* The keys of a hash map come in any order.
Associated(d) ==
  IF root = None THEN {<<>>}
  ELSE LET keys == {k \in DOMAIN d.associated : NormalizeKey(k) = InstallsKey(root)}
       IN {[i \in DOMAIN ks |-> d.associated[ks[i]]] : ks \in SetToSeqs(keys)}

\* Whichever client was started last first.
CandidatesDefaultFirst(d) == {Given(d.rcDefault) \o as \o Given(d.rcLive) : as \in Associated(d)}

Candidates(d) == {as \o Given(d.rcDefault) \o Given(d.rcLive) : as \in Associated(d)}

Load ==
  /\ At("load")
  /\ read' = doc /\ gone' = Exes \ disk
  /\ IF doc = None THEN pc' = "notFound" /\ UNCHANGED queue
     ELSE pc' = "test" /\ queue' \in Candidates(doc)
  /\ UNCHANGED <<root, machine, exe>>

\* Only the first is looked at.
TestOne ==
  /\ At("test")
  /\ IF queue # <<>> /\ Head(queue) \in disk THEN pc' = "found" /\ exe' = Head(queue)
     ELSE pc' = "notFound" /\ UNCHANGED exe
  /\ queue' = <<>>
  /\ UNCHANGED <<root, machine, read, gone>>

Test ==
  /\ At("test")
  /\ IF queue = <<>> THEN pc' = "notFound" /\ UNCHANGED <<queue, exe>>
     ELSE IF Head(queue) \in disk
     THEN pc' = "found" /\ exe' = Head(queue) /\ queue' = <<>>
     ELSE queue' = Tail(queue) /\ UNCHANGED <<pc, exe>>
  /\ UNCHANGED <<root, machine, read, gone>>

Next == Load \/ Test \/ Machine

Spec == Init /\ [][Next]_vars

----------------------------------------------------------------------------
(***************************************************************************)
(* Properties.                                                             *)
(***************************************************************************)
\* The directory a spelling names.
Directory(path) == [i \in 1..(Len(path) + 1) \div 2 |-> LowerCase[path[2 * i - 1]]]

\* The clients of the installs whose root stands in a relation to ours.
ClientsOf(IsOurs(_, _)) ==
  IF root = None \/ read = None THEN {}
  ELSE {read.associated[k] : k \in {l \in DOMAIN read.associated :
                                      IsOurs(Directory(l), Directory(root))}}

IsItself(install, ours) == install = ours

\* "Users may have configured either the install root or the Game
\* subdirectory ... but Riot only ever keys on the root" (installs.rs:122).
IsItselfOrParent(install, ours) ==
  \/ install = ours
  \/ Last(ours) = "game" /\ install = Front(ours)

Owners == ClientsOf(IsItselfOrParent)

(***************************************************************************)
(* "Only associated_client says which one owns this game directory"        *)
(* (installs.rs:63), and "neither slash style, trailing slash nor casing   *)
(* may decide whether we find the association" (installs.rs:288): if one   *)
(* client owns the install and stayed on disk throughout the call, a       *)
(* launch starts that one, whoever was started last and whatever else is   *)
(* updated or removed meanwhile.  No install is in a directory that is     *)
(* itself called Game.                                                     *)
(***************************************************************************)
NoneIsCalledGame ==
  read # None => \A k \in DOMAIN read.associated : Last(Directory(k)) # "game"

OwnerWins ==
  (At("found") /\ NoneIsCalledGame) =>
    \A owner \in Owners \ gone : Owners = {owner} => exe = owner

(***************************************************************************)
(* "A missing one means `try the next candidate', never an error"          *)
(* (installs.rs:12): a launch is refused only if every client the document *)
(* names for it was away at some time of the call, and only a client that  *)
(* it names is started: "guessing wrong points a launch at a client that   *)
(* does not own the install" (installs.rs:151).                            *)
(***************************************************************************)
Named == IF read = None THEN {} ELSE (Owners \cup {read.rcDefault, read.rcLive}) \ {None}

NotFoundMeansGone ==
  /\ (At("notFound") /\ NoneIsCalledGame) => Named \subseteq gone
  /\ At("found") => exe \in Named

(***************************************************************************)
(* "An install that genuinely lives in a directory called `Game' must      *)
(* still match itself" (installs.rs:322).                                  *)
(***************************************************************************)
GameMatchesItself ==
  At("found") =>
    LET own == ClientsOf(IsItself) IN \A owner \in own \ gone : own = {owner} => exe = owner

=============================================================================
