----------------------------- MODULE WindowHider -----------------------------
(***************************************************************************)
(* hide_for_play_session (crates/ritoclient/src/session.rs): a thread that *)
(* waits for the game, hides the Riot Client's window, waits for the game  *)
(* to exit, and hides the window again for a while, because the client     *)
(* shows it as the game exits.  The thread sleeps and its requests take    *)
(* time; what it does besides takes none.                                  *)
(***************************************************************************)
EXTENDS Integers

CONSTANTS
  GameWait,        \* GAME_WAIT_TIMEOUT
  PollInterval,    \* POLL_INTERVAL
  SessionPoll,     \* SESSION_POLL_INTERVAL
  RehideWindow,    \* REHIDE_WINDOW
  HideTime,        \* longest a hide request takes (QUERY_TIMEOUT)
  UnhideWithin,    \* longest the client takes to show its window after the game
  Outside          \* what else may happen: a subset of Happenings

Happenings == {
  "again",   \* the game starts a second time
  "show",    \* the player opens the client from the tray
  "fail",    \* a hide request fails
  "blind" }  \* a process snapshot fails: nothing is seen to run

ASSUME TimeAssumption ==
  /\ GameWait \in Nat /\ HideTime \in Nat /\ UnhideWithin \in Nat
  /\ PollInterval \in Nat \ {0} /\ SessionPoll \in Nat \ {0}
  /\ RehideWindow \in Nat \ {0}

\* REHIDE_WINDOW "has to outlast the teardown of the game's process tree", and
\* by a request: a hide under way as the window ends is the last one.
ASSUME UnhideAssumption == UnhideWithin + HideTime < RehideWindow

ASSUME OutsideAssumption == Outside \subseteq Happenings

VARIABLES
  game,      \* [up, starts, sinceExit: ticks since it last exited]
  window,    \* [shown, due: will the client show it on its own?]
  hider,     \* what the hiding thread holds
  hides,     \* history: hide requests sent since the watch was stopped
  marred     \* history: a failed hide or scan, the window shown by the player, or
             \* a second game

vars == <<game, window, hider, hides, marred>>

Never == -1

\* Ticks since an exit are counted no further than the properties ask.
Horizon == SessionPoll + HideTime + RehideWindow + PollInterval + 1

NewHider == [pc |-> "build", stopped |-> FALSE, sleep |-> 0, left |-> 0]

HiderType ==
  [pc : {"build", "wait", "look", "first", "playing", "rehide", "again", "done"},
   stopped : BOOLEAN,      \* SessionWatch.stopped
   sleep : Nat,            \* ticks this sleep or request still takes
   left : Nat]             \* ticks to the deadline

Init ==
  /\ game \in [up : BOOLEAN, starts : {0}, sinceExit : {Never}]
  /\ window = [shown |-> TRUE, due |-> FALSE]
  /\ hider = NewHider
  /\ hides = 0
  /\ marred = FALSE

On(happening) == happening \in Outside

----------------------------------------------------------------------------
(***************************************************************************)
(* The machine: the game, the client's window, the player, and time.       *)
(***************************************************************************)
GameStarts ==
  /\ ~game.up /\ (game.sinceExit = Never \/ On("again")) /\ game.starts < 1
  /\ game' = [game EXCEPT !.up = TRUE, !.starts = IF game.sinceExit = Never THEN 0 ELSE 1]
  /\ marred' = (marred \/ game.sinceExit # Never)
  /\ UNCHANGED window

\* The client sets out to show its window as the game exits.
GameExits ==
  /\ game.up
  /\ game' = [game EXCEPT !.up = FALSE, !.sinceExit = 0]
  /\ window' = [window EXCEPT !.due = TRUE]
  /\ UNCHANGED marred

ClientShows ==
  /\ window.due
  /\ window' = [shown |-> TRUE, due |-> FALSE]
  /\ UNCHANGED <<game, marred>>

PlayerShows ==
  /\ On("show") /\ ~window.shown
  /\ window' = [window EXCEPT !.shown = TRUE]
  /\ marred' = TRUE
  /\ UNCHANGED game

Machine == GameStarts \/ GameExits \/ ClientShows \/ PlayerShows

\* processes.rs is_running.
GameScan == {game.up} \cup (IF On("blind") THEN {FALSE} ELSE {})

\* A deadline that is counted on past itself.
TickOn ==
  /\ hider.sleep > 0
  /\ ~(window.due /\ game.sinceExit >= UnhideWithin)
  /\ hider' = [hider EXCEPT !.sleep = @ - 1, !.left = @ - 1]
  /\ game' = [game EXCEPT !.sinceExit = IF @ = Never \/ @ >= Horizon THEN @ ELSE @ + 1]
  /\ UNCHANGED <<window, hides, marred>>

\* Time passes only while the thread sleeps or waits for a reply, and not past
\* the moment by which the client has shown its window.
Tick ==
  /\ hider.sleep > 0
  /\ ~(window.due /\ game.sinceExit >= UnhideWithin)
  /\ hider' = [hider EXCEPT !.sleep = @ - 1, !.left = IF @ = 0 THEN 0 ELSE @ - 1]
  /\ game' = [game EXCEPT !.sinceExit = IF @ = Never \/ @ >= Horizon THEN @ ELSE @ + 1]
  /\ UNCHANGED <<window, hides, marred>>

----------------------------------------------------------------------------
(***************************************************************************)
(* The thread.                                                             *)
(***************************************************************************)
At(pc) == hider.pc = pc /\ hider.sleep = 0

Still == UNCHANGED <<game, window, hides, marred>>

Goes(pc) == hider' = [hider EXCEPT !.pc = pc] /\ Still

Sleeps(pc, ticks) == hider' = [hider EXCEPT !.pc = pc, !.sleep = ticks] /\ Still

\* hide_now: best effort, and it takes the time it takes.
Hides(pc) ==
  /\ \E d \in 0..HideTime : hider' = [hider EXCEPT !.pc = pc, !.sleep = d]
  /\ hides' = IF hider.stopped THEN hides + 1 ELSE hides
  /\ \/ window' = [window EXCEPT !.shown = FALSE] /\ UNCHANGED marred
     \/ On("fail") /\ UNCHANGED window /\ marred' = TRUE
  /\ UNCHANGED game

\* Without a client the window is left alone; the watch is not told.
Build ==
  /\ At("build")
  /\ \/ Goes("done")
     \/ hider' = [hider EXCEPT !.pc = "wait", !.left = GameWait] /\ Still

\* wait_for_game: sleep first, up to the deadline; a game that does not turn up
\* leaves the watch as it is.
Wait ==
  /\ At("wait")
  /\ IF hider.left > 0 THEN Sleeps("look", PollInterval) ELSE Goes("done")

Look ==
  /\ At("look")
  /\ IF hider.stopped THEN Goes("done")
     ELSE \E up \in GameScan : Goes(IF up THEN "first" ELSE "wait")

First == At("first") /\ Hides("playing")

\* A wait for the game alone.
PlayingDeaf ==
  /\ At("playing")
  /\ IF game.up THEN Sleeps("playing", SessionPoll)
     ELSE hider' = [hider EXCEPT !.pc = "rehide", !.left = RehideWindow] /\ Still

\* While the game is seen to run: sleep.  Then the window in which the hide is
\* asserted again.
Playing ==
  /\ At("playing")
  /\ \E up \in GameScan :
       IF up /\ ~hider.stopped THEN Sleeps("playing", SessionPoll)
       ELSE /\ hider' = [hider EXCEPT !.pc = "rehide", !.left = RehideWindow]
            /\ marred' = (marred \/ up # game.up)
            /\ UNCHANGED <<game, window, hides>>

\* The end of the thread by way of its last line.
Closes == hider' = [hider EXCEPT !.pc = "done", !.stopped = TRUE] /\ Still

RehideForever ==
  /\ At("rehide")
  /\ IF ~hider.stopped THEN Sleeps("again", PollInterval) ELSE Closes

Rehide ==
  /\ At("rehide")
  /\ IF hider.left > 0 /\ ~hider.stopped THEN Sleeps("again", PollInterval) ELSE Closes

\* One hide when the game is gone, and none after.
AgainOnce ==
  /\ At("again")
  /\ hider' = [hider EXCEPT !.pc = "rehide", !.left = 0]
  /\ hides' = IF hider.stopped THEN hides + 1 ELSE hides
  /\ window' = [window EXCEPT !.shown = FALSE]
  /\ UNCHANGED <<game, marred>>

Again == At("again") /\ Hides("rehide")

\* SessionWatch::stop.
Stop ==
  /\ ~hider.stopped
  /\ hider' = [hider EXCEPT !.stopped = TRUE]
  /\ Still

Thread ==
  Build \/ Wait \/ Look \/ First \/ Playing \/ Rehide \/ Again

Next ==
  \/ Thread
  \/ Tick
  \/ Stop
  \/ Machine /\ UNCHANGED <<hider, hides>>

\* The thread is scheduled, its sleeps and requests end, and a client that set
\* out to show its window does.
Fairness == WF_vars(Thread) /\ WF_vars(Tick) /\ WF_vars(ClientShows /\ UNCHANGED <<hider, hides>>)

Spec == Init /\ [][Next]_vars /\ Fairness

----------------------------------------------------------------------------
(***************************************************************************)
(* Properties.                                                             *)
(***************************************************************************)
TypeOK ==
  /\ game \in [up : BOOLEAN, starts : 0..1, sinceExit : Nat \cup {Never}]
  /\ window \in [shown : BOOLEAN, due : BOOLEAN]
  /\ hider \in HiderType
  /\ hides \in Nat /\ marred \in BOOLEAN

(***************************************************************************)
(* The window is hidden only while it is the hider's to hide: not before   *)
(* the game was up, when the player may be at the login; not later than    *)
(* the re-hide window after the game exited, when only the player can have *)
(* shown it; and once more at most after stop, wherever in the thread the  *)
(* stop falls ("a window re-hidden once more", session.rs:63-67).          *)
(***************************************************************************)
Asked == hider.pc \in {"first", "again"} /\ hider'.pc \in {"playing", "rehide"}

HidesOnlyAroundTheGame ==
  [][Asked => /\ \/ game.up
                 \/ game.sinceExit \in 0..(SessionPoll + HideTime + RehideWindow + PollInterval)
              /\ hides' <= 1]_vars

(***************************************************************************)
(* The window the client shows as the game exits does not stay: a thread   *)
(* that was left to finish leaves it hidden, wherever in the teardown the  *)
(* show lands, unless a hide failed or the player has a hand in it.        *)
(***************************************************************************)
WindowStaysHidden ==
  [][(At("rehide") /\ hider'.pc = "done" /\ ~hider.stopped /\ ~marred) => ~window.shown /\ ~window.due]_vars

(***************************************************************************)
(* The thread ends, with the game or with its caller.                      *)
(***************************************************************************)
HiderEnds == (<>[](~game.up) \/ <>hider.stopped) => <>(hider.pc = "done")

=============================================================================
