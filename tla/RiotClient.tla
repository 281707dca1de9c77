----------------------------- MODULE RiotClient -----------------------------
(***************************************************************************)
(* The machine a launch runs on, as far as this code can see it: the Riot  *)
(* Client process with its lockfile and local API, and the game process.   *)
(* None of it is code of the repository; it is what the code reads through *)
(* the lockfile, the process table and the replies to its requests.        *)
(***************************************************************************)
EXTENDS LocalApi

CONSTANTS
  Pids,     \* process ids a Riot Client may run under; they are recycled
  NoPid,    \* no process, or no readable lockfile
  Outside   \* what else may happen on the machine: a subset of Happenings

Happenings == {
  "open",   \* the player opens the Riot Client
  "quit",   \* the Riot Client exits or crashes
  "tray",   \* the Riot Client goes to idle in the tray
  "play",   \* the player presses Play in the client, or another tool does
  "run",    \* the game is started past the client, which does not know of it
  "exit",   \* the game exits
  "hidden", \* a launch in flight stops being reported before the game is up
  "blind",  \* a process snapshot fails: nothing is seen to run
  "odd" }   \* the launcher plugin answers with something unreadable

ASSUME OutsideAssumption == Outside \subseteq Happenings
ASSUME NoPidAssumption == NoPid \notin Pids

VARIABLES
  rc,       \* the Riot Client
  game      \* does the game process run?

(***************************************************************************)
(* The client is off, booting (the launcher plugin is registered but does  *)
(* not serve), idle in the tray (no launcher plugin), or serving.  "lock"  *)
(* is the pid the lockfile names: the file outlives a crash, and a booting *)
(* client has not written it yet.  "launching" says whether an accepted    *)
(* launch is in flight, and whether the API reports it.                    *)
(***************************************************************************)
ClientType ==
  [state : {"off", "booting", "tray", "serving"},
   pid : Pids \cup {NoPid},
   lock : Pids \cup {NoPid},
   launching : {"no", "reported", "hidden"},
   session : BOOLEAN]

On(happening) == happening \in Outside

(***************************************************************************)
(* What the code reads.                                                    *)
(***************************************************************************)

\* The lockfile names the running client.
Locked == rc.state # "off" /\ rc.lock = rc.pid

\* lockfile.rs live_lockfile: the pid of a live client, or NoPid.  A failed
\* process snapshot sees no client.
LiveLockfile == (IF Locked THEN {rc.pid} ELSE {NoPid})
                  \cup (IF On("blind") THEN {NoPid} ELSE {})

\* processes.rs pid_of and is_running, of the game.
GameScan == {game} \cup (IF On("blind") THEN {FALSE} ELSE {})

\* Replies of a client that is up but does not serve the launcher plugin.
UnservedReplies ==
  {NoReply} \cup
  (CASE rc.state = "booting" -> {Answer("404", "rpcError"), Answer("5xx", "other")}
     [] rc.state = "tray" -> {Answer("404", "notFound")}
     [] OTHER -> {})

\* GET is-launch-request-pending.
PendingReplies ==
  IF ~Locked THEN {NoReply}
  ELSE IF rc.state # "serving" THEN UnservedReplies
  ELSE {NoReply, Answer("5xx", "other"),
        Answer("2xx", IF rc.launching = "reported" THEN "true" ELSE "false")}
       \cup (IF On("odd") THEN {Answer("2xx", "other"), Answer("4xx", "other")} ELSE {})

\* POST the launch: a reply, and whether the client took the launch.  A reply
\* can be lost after the launch was taken; a timeout cancels nothing.
LaunchReplies ==
  IF ~Locked THEN {[taken |-> FALSE, reply |-> NoReply]}
  ELSE IF rc.state # "serving"
  THEN [taken : {FALSE}, reply : UnservedReplies]
  ELSE [taken : {TRUE}, reply : {NoReply, Answer("2xx", "other")}]
       \cup [taken : {FALSE},
             reply : {NoReply, Answer("5xx", "other"), Answer("4xx", "riotError"),
                      Answer("404", "rpcError"), Answer("404", "riotError")}
                     \cup (IF On("odd") THEN {Answer("4xx", "other")} ELSE {})]

\* POST new-args: the replies to a wake that was, or was not, delivered.
WakeReplies(delivered) ==
  IF delivered THEN {NoReply, Answer("204", "other")} ELSE UnservedReplies

\* The client's record of an open session on the target can be read.
SessionReadable == Locked /\ rc.state = "serving" /\ rc.session

----------------------------------------------------------------------------
(***************************************************************************)
(* What the machine does by itself.                                        *)
(***************************************************************************)
Boot(p) == [rc EXCEPT !.state = "booting", !.pid = p, !.launching = "no",
                      !.session = FALSE]

PlayerOpensClient ==
  /\ On("open") /\ rc.state = "off"
  /\ \E p \in Pids : rc' = Boot(p)
  /\ UNCHANGED game

WritesLockfile ==
  /\ rc.state = "booting" /\ rc.lock # rc.pid
  /\ rc' = [rc EXCEPT !.lock = rc.pid]
  /\ UNCHANGED game

StartsServing ==
  /\ rc.state = "booting" /\ Locked
  /\ rc' = [rc EXCEPT !.state = "serving"]
  /\ UNCHANGED game

GoesToTray ==
  /\ On("tray") /\ rc.state = "serving" /\ rc.launching = "no"
  /\ rc' = [rc EXCEPT !.state = "tray"]
  /\ UNCHANGED game

\* The lockfile stays behind, or goes with the client.
ClientExits ==
  /\ On("quit") /\ rc.state # "off"
  /\ \E l \in {rc.lock, NoPid} :
       rc' = [rc EXCEPT !.state = "off", !.pid = NoPid, !.lock = l,
                        !.launching = "no", !.session = FALSE]
  /\ UNCHANGED game

PlayerPlays ==
  /\ On("play") /\ rc.state = "serving" /\ rc.launching = "no" /\ ~game
  /\ rc' = [rc EXCEPT !.launching = "reported"]
  /\ UNCHANGED game

\* The client gives the launch up, at a login or a patch the player cancels.
DropsLaunch ==
  /\ rc.launching # "no"
  /\ rc' = [rc EXCEPT !.launching = "no"]
  /\ UNCHANGED game

StopsReporting ==
  /\ On("hidden") /\ rc.launching = "reported"
  /\ rc' = [rc EXCEPT !.launching = "hidden"]
  /\ UNCHANGED game

GameStarts ==
  /\ rc.launching # "no" /\ ~game
  /\ game' = TRUE
  /\ rc' = [rc EXCEPT !.launching = "no", !.session = TRUE]

GameRunsUnknown ==
  /\ On("run") /\ ~game
  /\ game' = TRUE
  /\ UNCHANGED rc

GameExits ==
  /\ On("exit") /\ game
  /\ game' = FALSE
  /\ rc' = [rc EXCEPT !.session = FALSE]

Machine ==
  \/ PlayerOpensClient \/ WritesLockfile \/ StartsServing \/ GoesToTray
  \/ ClientExits \/ PlayerPlays \/ DropsLaunch \/ StopsReporting
  \/ GameStarts \/ GameRunsUnknown \/ GameExits

\* A client in any state but launching, and a game only where one may be.
MachineInit ==
  /\ rc \in [state : {"off", "booting", "tray", "serving"},
             pid : Pids \cup {NoPid}, lock : Pids \cup {NoPid},
             launching : {"no"}, session : {FALSE}]
  /\ rc.pid = NoPid <=> rc.state = "off"
  /\ rc.state \in {"tray", "serving"} => rc.lock = rc.pid
  /\ rc.state = "booting" => On("open")
  /\ game = FALSE

=============================================================================
