--------------------------- MODULE SessionWatcher ---------------------------
(***************************************************************************)
(* watch_session (crates/ritoclient/src/session.rs): a thread that polls   *)
(* the client's record of one session and the process table, a tracker     *)
(* that turns each poll into events, and the SessionWatch that calls the   *)
(* thread off.  The record, the game and the caller may move between any   *)
(* two steps of a poll; how long a poll or a sleep takes is left open.     *)
(***************************************************************************)
EXTENDS Naturals

CONSTANTS
  Phases,    \* SessionPhase, as the client spells it
  NoPhase,   \* Option::None of a phase
  Blind      \* can a process snapshot fail, and see nothing running?

ASSUME NoPhaseAssumption == NoPhase \notin Phases
ASSUME BlindAssumption == Blind \in BOOLEAN

\* What exit_reason can hold: live, absent, an ending this crate knows, and
\* one it does not.
Reasons == {"StillRunning", "", "Exit", "Crashed"}

VARIABLES
  record,    \* the client's record of the session
  game,      \* does the game process run?
  watch,     \* what the watching thread and its tracker hold
  event,     \* the last event the observer was given
  heard,     \* what the observer knows from its events
  late,      \* history: how often each kind was told since the watch was stopped
  wasDown    \* history: was there a moment without the game?

machine == <<record, game, wasDown>>
told == <<event, heard, late>>
vars == <<machine, watch, told>>

\* A record is not there until the client has opened the session, goes with
\* the client, and may be there again when the client recovers the session.
RecordType == [kept : BOOLEAN, phase : Phases, reason : Reasons]

\* One lookup: nothing, or a session.
NoSession == [found |-> FALSE, phase |-> NoPhase, reason |-> ""]
Found(r) == [found |-> TRUE, phase |-> r.phase, reason |-> r.reason]

LookupType == [found : BOOLEAN, phase : Phases \cup {NoPhase}, reason : Reasons]

WatchType ==
  [pc : {"top", "lookup", "scan", "lost", "phase", "game", "ended", "over", "done"},
   stopped : BOOLEAN,                          \* SessionWatch.stopped
   client : BOOLEAN,                           \* was a client built?
   phase : Phases \cup {NoPhase},              \* SessionTracker.phase
   running : {"unknown", "up", "down"},        \* SessionTracker.game_running
   session : LookupType,                       \* this poll's answer
   alive : BOOLEAN,                            \* this poll's game_alive
   opening : BOOLEAN]                          \* this poll's opening

EventKinds == {"Opened", "PhaseChanged", "GameRunning", "Ended", "Lost"}

NewWatch(client) ==
  [pc |-> "top", stopped |-> FALSE, client |-> client, phase |-> NoPhase,
   running |-> "unknown", session |-> NoSession, alive |-> FALSE, opening |-> FALSE]

Init ==
  /\ record \in [kept : BOOLEAN, phase : Phases, reason : {"StillRunning"}]
  /\ game \in BOOLEAN
  /\ \E client \in BOOLEAN : watch = NewWatch(client)
  /\ event = [kind |-> "none", from |-> NoPhase, phase |-> NoPhase, running |-> FALSE]
  /\ heard = [opened |-> FALSE, phase |-> NoPhase, running |-> FALSE, over |-> FALSE]
  /\ late = [kind \in EventKinds |-> 0]
  /\ wasDown = ~game

----------------------------------------------------------------------------
(***************************************************************************)
(* The machine.                                                            *)
(***************************************************************************)
Live == record.kept /\ record.reason \in {"StillRunning", ""}

SessionOpens ==
  /\ ~record.kept
  /\ record' = [record EXCEPT !.kept = TRUE]
  /\ UNCHANGED <<game, wasDown>>

PhaseMoves ==
  /\ Live
  /\ \E p \in Phases \ {record.phase} : record' = [record EXCEPT !.phase = p]
  /\ UNCHANGED <<game, wasDown>>

\* A record that is over does not move again.
ReasonGiven ==
  /\ Live
  /\ \E r \in Reasons \ {record.reason} : record' = [record EXCEPT !.reason = r]
  /\ UNCHANGED <<game, wasDown>>

ClientGone ==
  /\ record.kept
  /\ record' = [record EXCEPT !.kept = FALSE]
  /\ UNCHANGED <<game, wasDown>>

GameMoves ==
  /\ game' = ~game
  /\ wasDown' = (wasDown \/ game)
  /\ UNCHANGED record

Machine == SessionOpens \/ PhaseMoves \/ ReasonGiven \/ ClientGone \/ GameMoves

\* product_session external_session: a session, or None for a record that is
\* not there, and for any failure to ask.
Lookups == {NoSession} \cup (IF record.kept THEN {Found(record)} ELSE {})

\* processes.rs is_running.
GameScan == {game} \cup (IF Blind THEN {FALSE} ELSE {})

----------------------------------------------------------------------------
(***************************************************************************)
(* The observer's calls.                                                   *)
(***************************************************************************)
Moves(w) == watch' = w

Says(kind, from, phase, running, picture) ==
  /\ event' = [kind |-> kind, from |-> from, phase |-> phase, running |-> running]
  /\ heard' = picture
  /\ late' = IF watch.stopped THEN [late EXCEPT ![kind] = @ + 1] ELSE late

Silent == UNCHANGED told

(***************************************************************************)
(* models_ext.rs has_ended: a negative test.                               *)
(***************************************************************************)
\* The endings listed instead.
HasEndedListed(session) == session.reason = "Exit"

HasEnded(session) == session.reason \notin {"StillRunning", ""}

----------------------------------------------------------------------------
(***************************************************************************)
(* The thread.                                                             *)
(***************************************************************************)

\* A loop that forgets to look at the flag.
TopDeaf ==
  /\ watch.pc = "top"
  /\ Moves([watch EXCEPT !.pc = "lookup"])
  /\ Silent /\ UNCHANGED machine

\* while !stopped.
Top ==
  /\ watch.pc = "top"
  /\ Moves([watch EXCEPT !.pc = IF watch.stopped THEN "over" ELSE "lookup"])
  /\ Silent /\ UNCHANGED machine

\* The lookup, retries and all; without a client there is nothing to ask.
Lookup ==
  /\ watch.pc = "lookup"
  /\ \E s \in IF watch.client THEN Lookups ELSE {NoSession} :
       Moves([watch EXCEPT !.pc = "scan", !.session = s])
  /\ Silent /\ UNCHANGED machine

\* A missing session taken for an ending, whatever the game does.
ScanHasty ==
  /\ watch.pc = "scan"
  /\ \E alive \in GameScan :
       Moves([watch EXCEPT !.alive = alive,
                           !.pc = IF watch.session.found THEN "phase" ELSE "lost"])
  /\ Silent /\ UNCHANGED machine

\* The game is looked for; an unanswered lookup with the game alive is no
\* news, and nothing of it is kept.
Scan ==
  /\ watch.pc = "scan"
  /\ \E alive \in GameScan :
       Moves([watch EXCEPT !.alive = alive,
                           !.pc = IF watch.session.found THEN "phase"
                                  ELSE IF alive THEN "top" ELSE "lost"])
  /\ Silent /\ UNCHANGED machine

TellLost ==
  /\ watch.pc = "lost"
  /\ Says("Lost", NoPhase, NoPhase, FALSE, [heard EXCEPT !.over = TRUE])
  /\ Moves([watch EXCEPT !.pc = "over"])
  /\ UNCHANGED machine

\* The phase replaced, and what that is told as.
TellPhase ==
  /\ watch.pc = "phase"
  /\ LET now == watch.session.phase
         opening == watch.phase = NoPhase
     IN /\ Moves([watch EXCEPT !.pc = "game", !.phase = now, !.opening = opening])
        /\ IF opening
           THEN Says("Opened", NoPhase, now, watch.alive,
                     [heard EXCEPT !.opened = TRUE, !.phase = now, !.running = watch.alive])
           ELSE IF now # watch.phase
           THEN Says("PhaseChanged", watch.phase, now, FALSE, [heard EXCEPT !.phase = now])
           ELSE Silent
  /\ UNCHANGED machine

\* The reading Opened carried, told a second time.
TellGameTwice ==
  /\ watch.pc = "game"
  /\ LET now == IF watch.alive THEN "up" ELSE "down"
     IN /\ Moves([watch EXCEPT !.pc = "ended", !.running = now])
        /\ IF now # watch.running
           THEN Says("GameRunning", NoPhase, NoPhase, watch.alive,
                     [heard EXCEPT !.running = watch.alive])
           ELSE Silent
  /\ UNCHANGED machine

\* The game's state replaced, and told unless Opened carried it.
TellGame ==
  /\ watch.pc = "game"
  /\ LET now == IF watch.alive THEN "up" ELSE "down"
     IN /\ Moves([watch EXCEPT !.pc = "ended", !.running = now])
        /\ IF ~watch.opening /\ now # watch.running
           THEN Says("GameRunning", NoPhase, NoPhase, watch.alive,
                     [heard EXCEPT !.running = watch.alive])
           ELSE Silent
  /\ UNCHANGED machine

\* The last thing a poll tells; a poll that ends nothing is followed by a sleep.
TellEnded ==
  /\ watch.pc = "ended"
  /\ \/ /\ HasEnded(watch.session)
        /\ Says("Ended", NoPhase, NoPhase, FALSE, [heard EXCEPT !.over = TRUE])
        /\ Moves([watch EXCEPT !.pc = "over"])
     \/ /\ ~HasEnded(watch.session)
        /\ Silent
        /\ Moves([watch EXCEPT !.pc = "top"])
  /\ UNCHANGED machine

\* A thread that leaves without a word.
OverUnsaid ==
  /\ watch.pc = "over"
  /\ Moves([watch EXCEPT !.pc = "done"])
  /\ Silent /\ UNCHANGED machine

\* Over, however it got there: the watch says so.
Over ==
  /\ watch.pc = "over"
  /\ Moves([watch EXCEPT !.pc = "done", !.stopped = TRUE])
  /\ Silent /\ UNCHANGED machine

\* SessionWatch::stop, by any clone.
Stop ==
  /\ ~watch.stopped
  /\ Moves([watch EXCEPT !.stopped = TRUE])
  /\ Silent /\ UNCHANGED machine

Thread ==
  \/ Top \/ Lookup \/ Scan \/ TellLost \/ TellPhase \/ TellGame \/ TellEnded \/ Over

Next ==
  \/ Thread
  \/ Stop
  \/ Machine /\ UNCHANGED <<watch, told>>

\* The thread is scheduled and its requests time out; nobody else promises anything.
Spec == Init /\ [][Next]_vars /\ WF_vars(Thread)

----------------------------------------------------------------------------
(***************************************************************************)
(* Properties.                                                             *)
(***************************************************************************)
HeardType == [opened : BOOLEAN, phase : Phases \cup {NoPhase}, running : BOOLEAN, over : BOOLEAN]

(***************************************************************************)
(* The types; and a thread that is through has said so in the flag, which  *)
(* is all that is_watching reads (watch_session).                          *)
(***************************************************************************)
TypeOK ==
  /\ record \in RecordType
  /\ game \in BOOLEAN
  /\ watch \in WatchType
  /\ watch.pc = "done" => watch.stopped
  /\ heard \in HeardType
  /\ late \in [EventKinds -> Nat]
  /\ wasDown \in BOOLEAN

(***************************************************************************)
(* The observer's events are those SessionEvents allows: every change is   *)
(* told once, against what was told before, and nothing after the end.     *)
(***************************************************************************)
Events == INSTANCE SessionEvents

KeepsEvents == Events!Spec

(***************************************************************************)
(* After stop, what is told is one poll's worth (SessionWatch::stop): no   *)
(* kind of event twice, a loss alone, and beside an opening neither a      *)
(* change of phase nor the game.                                           *)
(***************************************************************************)
StopIsNearlySilent ==
  /\ \A kind \in EventKinds : late[kind] <= 1
  /\ late["Lost"] = 1 => \A kind \in EventKinds \ {"Lost"} : late[kind] = 0
  /\ late["Opened"] = 1 => late["PhaseChanged"] = 0 /\ late["GameRunning"] = 0

(***************************************************************************)
(* What the same comment says next, and the code does not do: "or one more *)
(* event on a session observer".  A poll's worth is up to three, a change  *)
(* of phase, one of the game and an ending.                                *)
(***************************************************************************)
StopTellsOneMore ==
  \A kind, other \in EventKinds :
    late[kind] > 0 /\ late[other] > 0 => kind = other /\ late[kind] = 1

(***************************************************************************)
(* A client that goes away while the game keeps running is not an ending:  *)
(* no session is reported lost under a game that never stopped             *)
(* (SessionTracker::step).                                                 *)
(***************************************************************************)
LostMeansTheGameStopped == event.kind = "Lost" => wasDown

(***************************************************************************)
(* A watch comes to an end once it is called off, or once the game is down *)
(* for good and the record gone or closed for good, whatever ending the    *)
(* client names (watch_session).                                           *)
(***************************************************************************)
OverForGood == ~game /\ (~record.kept \/ record.reason \in {"Exit", "Crashed"})

WatchEnds == (<>[]OverForGood \/ <>watch.stopped) => <>(watch.pc = "done")

=============================================================================
