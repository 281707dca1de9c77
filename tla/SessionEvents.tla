---------------------------- MODULE SessionEvents ----------------------------
(***************************************************************************)
(* What the observer of a watched session is promised (session.rs          *)
(* SessionEvent): events it can keep a picture of the session from.  What  *)
(* an event says has changed is always a change to that picture, and       *)
(* nothing follows the terminal one.  How the watcher finds out is no part *)
(* of this.                                                                *)
(***************************************************************************)
CONSTANTS Phases, NoPhase

VARIABLES
  event,   \* the last event: its kind, and what it says
  heard    \* the picture: opened, the phase, whether the game runs, whether it is over

vars == <<event, heard>>

\* from is used by PhaseChanged alone.
Event(kind, from, phase, running) ==
  [kind |-> kind, from |-> from, phase |-> phase, running |-> running]

NoEvent == Event("none", NoPhase, NoPhase, FALSE)

Init ==
  /\ event = NoEvent
  /\ heard = [opened |-> FALSE, phase |-> NoPhase, running |-> FALSE, over |-> FALSE]

Opened(phase, running) ==
  /\ ~heard.opened /\ ~heard.over
  /\ event' = Event("Opened", NoPhase, phase, running)
  /\ heard' = [heard EXCEPT !.opened = TRUE, !.phase = phase, !.running = running]

PhaseChanged(to) ==
  /\ heard.opened /\ ~heard.over /\ to # heard.phase
  /\ event' = Event("PhaseChanged", heard.phase, to, FALSE)
  /\ heard' = [heard EXCEPT !.phase = to]

GameRunning ==
  /\ heard.opened /\ ~heard.over
  /\ event' = Event("GameRunning", NoPhase, NoPhase, ~heard.running)
  /\ heard' = [heard EXCEPT !.running = ~@]

\* A session ends only after it opened; it can be lost without.
Ended ==
  /\ heard.opened /\ ~heard.over
  /\ event' = Event("Ended", NoPhase, NoPhase, FALSE)
  /\ heard' = [heard EXCEPT !.over = TRUE]

Lost ==
  /\ ~heard.over
  /\ event' = Event("Lost", NoPhase, NoPhase, FALSE)
  /\ heard' = [heard EXCEPT !.over = TRUE]

Next ==
  \/ \E phase \in Phases, running \in BOOLEAN : Opened(phase, running)
  \/ \E to \in Phases : PhaseChanged(to)
  \/ GameRunning
  \/ Ended
  \/ Lost

Spec == Init /\ [][Next]_vars

=============================================================================
