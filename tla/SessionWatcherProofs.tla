------------------------ MODULE SessionWatcherProofs ------------------------
(***************************************************************************)
(* Proofs about SessionWatcher, for any set of phases: that it implements  *)
(* SessionEvents, how much is told after a stop, and what a loss means.    *)
(***************************************************************************)
EXTENDS SessionWatcher, TLAPS

(***************************************************************************)
(* What the observer is told next is of the type of what it knows.         *)
(***************************************************************************)
LEMMA HeardTypes ==
  ASSUME heard \in HeardType, NEW p \in Phases \cup {NoPhase}, NEW up \in BOOLEAN
  PROVE  /\ [heard EXCEPT !.over = TRUE] \in HeardType
         /\ [heard EXCEPT !.running = up] \in HeardType
         /\ [heard EXCEPT !.phase = p] \in HeardType
         /\ [heard EXCEPT !.opened = TRUE, !.phase = p, !.running = up] \in HeardType
  BY DEF HeardType

(***************************************************************************)
(* Telling counts one more of its kind, or nothing.                        *)
(***************************************************************************)
LEMMA LateType ==
  ASSUME late \in [EventKinds -> Nat], NEW kind \in EventKinds,
         NEW from, NEW phase, NEW running, NEW picture,
         Says(kind, from, phase, running, picture) \/ Silent
  PROVE  late' \in [EventKinds -> Nat]
  BY DEF Says, Silent, told

(***************************************************************************)
(* Every variable keeps its type, for any set of phases.  The parts that   *)
(* a poll replaces one by one stay those of one watch.                     *)
(***************************************************************************)
THEOREM WatchTypeCorrect == Spec => []TypeOK
<1>1. Init => TypeOK
  <2>1. NoSession \in LookupType
    BY DEF NoSession, LookupType, Reasons
  <2>2. ASSUME NEW client \in BOOLEAN PROVE NewWatch(client) \in WatchType
    BY <2>1 DEF NewWatch, WatchType
  <2>3. Init => record \in RecordType
    BY DEF Init, RecordType, Reasons
  <2>4. Init => heard \in HeardType
    BY DEF Init, HeardType
  <2>5. Init => watch.pc = "top"
    BY DEF Init, NewWatch
  <2>6. Init => late \in [EventKinds -> Nat]
    BY DEF Init
  <2>7. QED
    BY <2>2, <2>3, <2>4, <2>5, <2>6 DEF Init, TypeOK
<1>2. TypeOK /\ [Next]_vars => TypeOK'
  <2> SUFFICES ASSUME TypeOK, [Next]_vars PROVE TypeOK'
    OBVIOUS
  <2>1. CASE UNCHANGED vars
    BY <2>1 DEF TypeOK, vars, machine, told
  <2>2. CASE Machine /\ UNCHANGED <<watch, told>>
    BY <2>2 DEF TypeOK, Machine, SessionOpens, PhaseMoves, ReasonGiven, ClientGone,
                GameMoves, RecordType, Reasons, told
  <2>3. CASE Top \/ Over \/ Stop
    BY <2>3 DEF TypeOK, Top, Over, Stop, Moves, Silent, machine, told, WatchType
  <2>4. CASE Lookup
    <3>1. NoSession \in LookupType
      BY DEF NoSession, LookupType, Reasons
    <3>2. Found(record) \in LookupType
      BY DEF TypeOK, Found, RecordType, LookupType
    <3>3. Lookups \cup {NoSession} \subseteq LookupType
      BY <3>1, <3>2 DEF Lookups
    <3>4. PICK s \in Lookups \cup {NoSession} :
            watch' = [watch EXCEPT !.pc = "scan", !.session = s]
      BY <2>4 DEF Lookup, Moves
    <3>5. watch' \in WatchType /\ watch'.pc = "scan"
      BY <3>3, <3>4 DEF TypeOK, WatchType
    <3>6. QED
      BY <2>4, <3>5 DEF TypeOK, Lookup, Silent, machine, told
  <2>5. CASE Scan
    <3>1. GameScan \subseteq BOOLEAN
      BY DEF TypeOK, GameScan
    <3>2. PICK alive \in GameScan, pc \in {"phase", "top", "lost"} :
            watch' = [watch EXCEPT !.alive = alive, !.pc = pc]
      BY <2>5 DEF Scan, Moves
    <3>3. watch' \in WatchType /\ watch'.pc # "done"
      BY <3>1, <3>2 DEF TypeOK, WatchType
    <3>4. QED
      BY <2>5, <3>3 DEF TypeOK, Scan, Silent, machine, told
  <2>6. CASE TellLost
    <3>1. watch' \in WatchType /\ watch'.pc # "done"
      BY <2>6 DEF TypeOK, TellLost, Moves, WatchType
    <3>2. heard' \in HeardType /\ late' \in [EventKinds -> Nat]
      BY <2>6, HeardTypes, LateType DEF TypeOK, TellLost, Says, EventKinds
    <3>3. QED
      BY <2>6, <3>1, <3>2 DEF TypeOK, TellLost, machine
  <2>7. CASE TellPhase
    <3> DEFINE now == watch.session.phase
               opening == watch.phase = NoPhase
    <3>1. now \in Phases \cup {NoPhase} /\ watch.alive \in BOOLEAN
      BY DEF TypeOK, WatchType, LookupType
    <3>2. watch' \in WatchType /\ watch'.pc = "game"
      <4>1. watch' = [watch EXCEPT !.pc = "game", !.phase = now, !.opening = opening]
        BY <2>7 DEF TellPhase, Moves
      <4>2. opening \in BOOLEAN
        OBVIOUS
      <4> HIDE DEF now, opening
      <4>3. QED
        BY <3>1, <4>1, <4>2 DEF TypeOK, WatchType
    <3>3. \/ Silent
          \/ Says("Opened", NoPhase, now, watch.alive,
                  [heard EXCEPT !.opened = TRUE, !.phase = now, !.running = watch.alive])
          \/ Says("PhaseChanged", watch.phase, now, FALSE, [heard EXCEPT !.phase = now])
      BY <2>7 DEF TellPhase
    <3> HIDE DEF now, opening
    <3>4. heard' \in HeardType
      BY <3>1, <3>3, HeardTypes DEF TypeOK, Says, Silent, told
    <3>5. late' \in [EventKinds -> Nat]
      BY <3>3, LateType DEF TypeOK, EventKinds
    <3>6. QED
      BY <2>7, <3>2, <3>4, <3>5 DEF TypeOK, TellPhase, machine
  <2>8. CASE TellGame
    <3>1. watch' \in WatchType /\ watch'.pc # "done"
      BY <2>8 DEF TypeOK, TellGame, Moves, WatchType
    <3>2. watch.alive \in BOOLEAN
      BY DEF TypeOK, WatchType
    <3>3. \/ Silent
          \/ Says("GameRunning", NoPhase, NoPhase, watch.alive,
                  [heard EXCEPT !.running = watch.alive])
      BY <2>8 DEF TellGame
    <3>4. late' \in [EventKinds -> Nat]
      BY <3>3, LateType DEF TypeOK, EventKinds
    <3>5. heard' \in HeardType
      BY <3>2, <3>3, HeardTypes DEF TypeOK, Says, Silent, told
    <3>6. QED
      BY <2>8, <3>1, <3>4, <3>5 DEF TypeOK, TellGame, machine
  <2>9. CASE TellEnded
    <3>1. watch' \in WatchType /\ watch'.pc # "done"
      BY <2>9 DEF TypeOK, TellEnded, Moves, WatchType
    <3>2. Silent \/ Says("Ended", NoPhase, NoPhase, FALSE, [heard EXCEPT !.over = TRUE])
      BY <2>9 DEF TellEnded
    <3>3. late' \in [EventKinds -> Nat]
      BY <3>2, LateType DEF TypeOK, EventKinds
    <3>4. heard' \in HeardType
      BY <3>2, HeardTypes DEF TypeOK, Says, Silent, told
    <3>5. QED
      BY <2>9, <3>1, <3>3, <3>4 DEF TypeOK, TellEnded, machine
  <2>10. QED
    BY <2>1, <2>2, <2>3, <2>4, <2>5, <2>6, <2>7, <2>8, <2>9 DEF Next, Thread
<1>3. QED
  BY <1>1, <1>2, PTL DEF Spec

----------------------------------------------------------------------------
(***************************************************************************)
(* Silence after a stop.  StopIsNearlySilent is not inductive: it says     *)
(* nothing of a poll under way.  What a poll has not yet come to, it has   *)
(* not told since the stop; and a poll that begins after the stop tells    *)
(* nothing, because Top looks first.                                       *)
(***************************************************************************)
Quiet(kinds) == \A kind \in kinds : late[kind] = 0

Silenced ==
  /\ ~watch.stopped => Quiet(EventKinds)
  /\ watch.pc \in {"lookup", "scan", "lost", "phase"} => Quiet(EventKinds)
  /\ watch.pc = "game" => Quiet({"GameRunning", "Ended", "Lost"})
  /\ watch.pc = "game" /\ ~watch.opening => late["Opened"] = 0
  /\ watch.pc \in {"ended", "top"} => Quiet({"Ended", "Lost"})
  /\ StopIsNearlySilent

(***************************************************************************)
(* Whatever the machine and the caller do, one poll's worth at most is     *)
(* told after the watch was stopped (SessionWatch::stop).                  *)
(***************************************************************************)
THEOREM StopSilences == Spec => []StopIsNearlySilent
<1>1. Init => Silenced
  BY DEF Init, Silenced, NewWatch, Quiet, EventKinds, StopIsNearlySilent
<1>2. TypeOK /\ Silenced /\ [Next]_vars => Silenced'
  <2> SUFFICES ASSUME TypeOK, Silenced, [Next]_vars PROVE Silenced'
    OBVIOUS
  <2> USE DEF TypeOK, WatchType, Silenced, Quiet, EventKinds, StopIsNearlySilent
  <2>1. CASE UNCHANGED <<watch, told>>
    BY <2>1 DEF told
  <2>2. CASE Top
    BY <2>2 DEF Top, Moves, Silent, told
  <2>3. CASE Lookup
    BY <2>3 DEF Lookup, Moves, Silent, told
  <2>4. CASE Scan
    BY <2>4 DEF Scan, Moves, Silent, told
  <2>5. CASE TellLost
    BY <2>5 DEF TellLost, Says, Moves
  <2>6. CASE TellPhase
    BY <2>6 DEF TellPhase, Says, Moves, Silent, told
  <2>7. CASE TellGame
    BY <2>7 DEF TellGame, Says, Moves, Silent, told
  <2>8. CASE TellEnded
    BY <2>8 DEF TellEnded, Says, Moves, Silent, told
  <2>9. CASE Over
    BY <2>9 DEF Over, Moves, Silent, told
  <2>10. CASE Stop
    BY <2>10 DEF Stop, Moves, Silent, told
  <2>11. QED
    BY <2>1, <2>2, <2>3, <2>4, <2>5, <2>6, <2>7, <2>8, <2>9, <2>10 DEF Next, Thread, vars
<1>3. Silenced => StopIsNearlySilent
  BY DEF Silenced
<1>4. QED
  BY <1>1, <1>2, <1>3, WatchTypeCorrect, PTL DEF Spec

----------------------------------------------------------------------------
(***************************************************************************)
(* A loss.  What the scan saw was so when it looked, and wasDown remembers *)
(* it, whatever the game has done since.                                   *)
(***************************************************************************)
Grounded ==
  /\ ~game => wasDown
  /\ watch.pc = "lost" => wasDown
  /\ event.kind = "Lost" => wasDown

(***************************************************************************)
(* Where process snapshots do not fail, no session is reported lost under  *)
(* a game that never stopped (SessionTracker::step).                       *)
(***************************************************************************)
THEOREM LostIsGrounded ==
  ASSUME ~Blind
  PROVE  Spec => []LostMeansTheGameStopped
<1>1. Init => Grounded
  <2> SUFFICES ASSUME Init PROVE Grounded
    OBVIOUS
  <2>1. watch.pc = "top" /\ event.kind = "none" /\ wasDown = ~game
    BY DEF Init, NewWatch
  <2>2. QED
    BY <2>1 DEF Grounded
<1>2. TypeOK /\ Grounded /\ [Next]_vars => Grounded'
  <2> SUFFICES ASSUME TypeOK, Grounded, [Next]_vars PROVE Grounded'
    OBVIOUS
  <2> USE DEF TypeOK, WatchType, Grounded
  <2>1. CASE UNCHANGED vars
    BY <2>1 DEF vars, machine, told
  <2>2. CASE Machine /\ UNCHANGED <<watch, told>>
    BY <2>2 DEF Machine, SessionOpens, PhaseMoves, ReasonGiven, ClientGone, GameMoves, told
  <2>3. CASE Scan
    <3>1. PICK alive \in {game} :
            watch' = [watch EXCEPT !.alive = alive,
                                   !.pc = IF watch.session.found THEN "phase"
                                          ELSE IF alive THEN "top" ELSE "lost"]
      BY <2>3 DEF Scan, GameScan, Moves
    <3>2. QED
      BY <2>3, <3>1 DEF Scan, Silent, machine, told
  <2>4. CASE TellLost
    BY <2>4 DEF TellLost, Says, Moves, machine
  <2>5. CASE Top \/ Lookup \/ Over \/ Stop
    BY <2>5 DEF Top, Lookup, Over, Stop, Moves, Silent, machine, told
  <2>6. CASE TellPhase \/ TellGame \/ TellEnded
    <3>1. event'.kind # "Lost" \/ event' = event
      BY <2>6 DEF TellPhase, TellGame, TellEnded, Says, Silent, told
    <3>2. watch'.pc \in {"game", "ended", "over", "top"}
      BY <2>6 DEF TellPhase, TellGame, TellEnded, Moves
    <3>3. QED
      BY <2>6, <3>1, <3>2 DEF TellPhase, TellGame, TellEnded, machine
  <2>7. QED
    BY <2>1, <2>2, <2>3, <2>4, <2>5, <2>6 DEF Next, Thread
<1>3. Grounded => LostMeansTheGameStopped
  BY DEF Grounded, LostMeansTheGameStopped
<1>4. QED
  BY <1>1, <1>2, <1>3, WatchTypeCorrect, PTL DEF Spec

----------------------------------------------------------------------------
(***************************************************************************)
(* The tracker and the observer agree.  A poll past its lookup is about a  *)
(* session that was found, in a phase; the observer has heard what the     *)
(* tracker holds, the game's state as of Opened until the tracker catches  *)
(* up with it; and nothing is over before the thread leaves its loop.      *)
(***************************************************************************)
Pictured ==
  /\ watch.pc \in {"phase", "game", "ended"} => watch.session.found
  /\ watch.session.found => watch.session.phase \in Phases
  /\ heard.phase = watch.phase
  /\ heard.opened = (watch.phase # NoPhase)
  /\ watch.pc \in {"game", "ended"} => heard.opened
  /\ heard.over => watch.pc \in {"over", "done"}
  /\ IF watch.pc = "game" /\ watch.opening
     THEN heard.running = watch.alive
     ELSE heard.opened =>
            watch.running # "unknown" /\ heard.running = (watch.running = "up")

(***************************************************************************)
(* Pictured is kept by every step, told or silent.                         *)
(***************************************************************************)
LEMMA PictureIsKept == Spec => []Pictured
<1>1. Init => Pictured
  <2> SUFFICES ASSUME Init PROVE Pictured
    OBVIOUS
  <2>1. PICK client \in BOOLEAN : watch = NewWatch(client)
    BY DEF Init
  <2>2. watch.pc = "top" /\ watch.session = NoSession /\ watch.phase = NoPhase
    BY <2>1 DEF NewWatch
  <2>3. heard.phase = NoPhase /\ heard.opened = FALSE /\ ~heard.over
    BY DEF Init
  <2>4. watch.session.found = FALSE
    <3>1. NoSession.found = FALSE
      BY DEF NoSession
    <3>2. QED
      BY <2>2, <3>1
  <2>5. heard.opened = (watch.phase # NoPhase)
    BY <2>2, <2>3
  <2>6. QED
    BY <2>2, <2>3, <2>4, <2>5 DEF Pictured
<1>2. TypeOK /\ Pictured /\ [Next]_vars => Pictured'
  <2> SUFFICES ASSUME TypeOK, Pictured, [Next]_vars PROVE Pictured'
    OBVIOUS
  <2> USE NoPhaseAssumption DEF TypeOK, WatchType, HeardType, Pictured
  <2>1. CASE UNCHANGED <<watch, told>>
    BY <2>1 DEF told
  <2>2. CASE Top \/ Over \/ Stop
    <3>1. UNCHANGED heard
      BY <2>2 DEF Top, Over, Stop, Silent, told
    <3>2. CASE Top
      BY <3>1, <3>2 DEF Top, Moves
    <3>3. CASE Over
      BY <3>1, <3>3 DEF Over, Moves
    <3>4. CASE Stop
      BY <3>1, <3>4 DEF Stop, Moves
    <3>5. QED
      BY <2>2, <3>2, <3>3, <3>4
  <2>3. CASE Lookup
    <3>1. \A s \in Lookups \cup {NoSession} : s.found => s.phase \in Phases
      <4>1. Found(record).phase \in Phases /\ ~NoSession.found
        BY DEF Found, NoSession, RecordType
      <4>2. QED
        BY <4>1 DEF Lookups
    <3>2. QED
      BY <2>3, <3>1 DEF Lookup, Moves, Silent, told
  <2>4. CASE Scan
    BY <2>4 DEF Scan, Moves, Silent, told
  <2>5. CASE TellLost
    BY <2>5 DEF TellLost, Says, Moves
  <2>6. CASE TellPhase
    <3> DEFINE now == watch.session.phase
               opening == watch.phase = NoPhase
    <3>1. /\ watch.pc = "phase" /\ watch.session.found /\ now \in Phases
          /\ watch' = [watch EXCEPT !.pc = "game", !.phase = now, !.opening = opening]
      BY <2>6 DEF TellPhase, Moves
    <3>2. CASE opening
      <4>1. heard' = [heard EXCEPT !.opened = TRUE, !.phase = now, !.running = watch.alive]
        BY <2>6, <3>2 DEF TellPhase, Says
      <4>2. QED
        BY <3>1, <3>2, <4>1
    <3>3. CASE ~opening
      <4>1. heard' = [heard EXCEPT !.phase = now]
        BY <2>6, <3>3 DEF TellPhase, Says, Silent, told
      <4>2. QED
        BY <3>1, <3>3, <4>1
    <3>4. QED
      BY <3>2, <3>3
  <2>7. CASE TellGame
    BY <2>7 DEF TellGame, Says, Moves, Silent, told
  <2>8. CASE TellEnded
    BY <2>8 DEF TellEnded, Says, Moves, Silent, told
  <2>9. QED
    BY <2>1, <2>2, <2>3, <2>4, <2>5, <2>6, <2>7, <2>8 DEF Next, Thread, vars
<1>3. QED
  BY <1>1, <1>2, WatchTypeCorrect, PTL DEF Spec

(***************************************************************************)
(* SessionWatcher implements SessionEvents: whatever the machine and the   *)
(* caller do, each event is a change to what was told before, told once,   *)
(* and nothing follows the terminal one (SessionTracker::step).            *)
(***************************************************************************)
THEOREM EventsAreKept == Spec => KeepsEvents
<1>1. Init => Events!Init
  BY DEF Init, Events!Init, Events!NoEvent, Events!Event
<1>2. TypeOK /\ Pictured /\ [Next]_vars => [Events!Next]_(Events!vars)
  <2> SUFFICES ASSUME TypeOK, Pictured, [Next]_vars
               PROVE  Events!Next \/ UNCHANGED Events!vars
    BY Zenon
  <2>1. CASE UNCHANGED told
    BY <2>1 DEF told, Events!vars
  <2>2. CASE TellLost
    <3>1. ~heard.over
      BY <2>2 DEF TellLost, Pictured
    <3>2. Events!Lost
      BY <2>2, <3>1 DEF TellLost, Says, Events!Lost, Events!Event
    <3>3. QED
      BY <3>2 DEF Events!Next
  <2>3. CASE TellPhase
    <3> DEFINE now == watch.session.phase
    <3>1. now \in Phases /\ ~heard.over /\ heard.phase = watch.phase
          /\ heard.opened = (watch.phase # NoPhase) /\ watch.alive \in BOOLEAN
      BY <2>3 DEF TellPhase, Pictured, TypeOK, WatchType, HeardType
    <3>2. CASE watch.phase = NoPhase
      <4>1. Events!Opened(now, watch.alive)
        BY <2>3, <3>1, <3>2 DEF TellPhase, Says, Events!Opened, Events!Event
      <4>2. QED
        BY <3>1, <4>1 DEF Events!Next
    <3>3. CASE watch.phase # NoPhase /\ now # watch.phase
      <4>1. Events!PhaseChanged(now)
        BY <2>3, <3>1, <3>3 DEF TellPhase, Says, Events!PhaseChanged, Events!Event
      <4>2. QED
        BY <3>1, <4>1 DEF Events!Next
    <3>4. CASE watch.phase # NoPhase /\ now = watch.phase
      BY <2>3, <3>4 DEF TellPhase, Silent, told, Events!vars
    <3>5. QED
      BY <3>2, <3>3, <3>4
  <2>4. CASE TellGame
    <3> DEFINE now == IF watch.alive THEN "up" ELSE "down"
    <3>1. CASE ~watch.opening /\ now # watch.running
      <4>1. heard.opened /\ ~heard.over /\ watch.alive = ~heard.running
        BY <2>4, <3>1 DEF TellGame, Pictured, TypeOK, WatchType, HeardType
      <4>2. Events!GameRunning
        BY <2>4, <3>1, <4>1 DEF TellGame, Says, Events!GameRunning, Events!Event
      <4>3. QED
        BY <4>2 DEF Events!Next
    <3>2. CASE watch.opening \/ now = watch.running
      BY <2>4, <3>2 DEF TellGame, Silent, told, Events!vars
    <3>3. QED
      BY <3>1, <3>2
  <2>5. CASE TellEnded
    <3>1. heard.opened /\ ~heard.over
      BY <2>5 DEF TellEnded, Pictured
    <3>2. CASE HasEnded(watch.session)
      <4>1. Events!Ended
        BY <2>5, <3>1, <3>2 DEF TellEnded, Says, Events!Ended, Events!Event
      <4>2. QED
        BY <4>1 DEF Events!Next
    <3>3. CASE ~HasEnded(watch.session)
      BY <2>5, <3>3 DEF TellEnded, Silent, told, Events!vars
    <3>4. QED
      BY <3>2, <3>3
  <2>6. CASE Top \/ Lookup \/ Scan \/ Over \/ Stop
    BY <2>1, <2>6 DEF Top, Lookup, Scan, Over, Stop, Silent
  <2>7. QED
    BY <2>1, <2>2, <2>3, <2>4, <2>5, <2>6 DEF Next, Thread, vars
<1>3. QED
  BY <1>1, <1>2, WatchTypeCorrect, PictureIsKept, PTL DEF Spec, KeepsEvents, Events!Spec

=============================================================================
