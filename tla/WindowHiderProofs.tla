------------------------- MODULE WindowHiderProofs -------------------------
(***************************************************************************)
(* Proofs about WindowHider, for any of its times that keep the two        *)
(* assumptions, and whatever happens outside.                              *)
(***************************************************************************)
EXTENDS WindowHider, TLAPS

GameType == [up : BOOLEAN, starts : 0..1, sinceExit : Nat \cup {Never}]

WindowType == [shown : BOOLEAN, due : BOOLEAN]

(***************************************************************************)
(* A tick takes one from each clock and adds one to the time since the     *)
(* exit, where there was one.                                              *)
(***************************************************************************)
LEMMA TickMoves ==
  ASSUME TypeOK, Tick
  PROVE  /\ UNCHANGED <<window, hides, marred>>
         /\ game' \in GameType /\ game'.up = game.up
         /\ game'.sinceExit = IF game.sinceExit = Never \/ game.sinceExit >= Horizon
                              THEN game.sinceExit ELSE game.sinceExit + 1
         /\ hider' \in HiderType
         /\ hider'.pc = hider.pc /\ hider'.stopped = hider.stopped
         /\ hider.sleep > 0 /\ hider'.sleep = hider.sleep - 1
         /\ hider'.left = IF hider.left = 0 THEN 0 ELSE hider.left - 1
         /\ ~(window.due /\ game.sinceExit >= UnhideWithin)
<1>1. hider \in HiderType /\ game \in GameType
  BY DEF TypeOK, GameType
<1>2. Horizon \in Nat
  BY TimeAssumption DEF Horizon
<1> DEFINE since == IF game.sinceExit = Never \/ game.sinceExit >= Horizon
                    THEN game.sinceExit ELSE game.sinceExit + 1
           left == IF hider.left = 0 THEN 0 ELSE hider.left - 1
           sleep == hider.sleep - 1
<1>3. since \in Nat \cup {Never}
  BY <1>1, <1>2 DEF GameType, Never
<1>4. left \in Nat /\ sleep \in Nat /\ hider.sleep > 0
  BY <1>1 DEF Tick, HiderType
<1>5. game' = [game EXCEPT !.sinceExit = since]
  BY DEF Tick
<1>6. hider' = [hider EXCEPT !.sleep = sleep, !.left = left]
  BY DEF Tick
<1>7. UNCHANGED <<window, hides, marred>> /\ ~(window.due /\ game.sinceExit >= UnhideWithin)
  BY DEF Tick
<1> HIDE DEF since, left, sleep
<1>8. game' \in GameType /\ game'.up = game.up /\ game'.sinceExit = since
  BY <1>1, <1>3, <1>5 DEF GameType
<1>9. /\ hider' \in HiderType /\ hider'.pc = hider.pc /\ hider'.stopped = hider.stopped
      /\ hider'.sleep = sleep /\ hider'.left = left
  BY <1>1, <1>4, <1>6 DEF HiderType
<1>10. QED
  BY <1>4, <1>7, <1>8, <1>9 DEF since, left, sleep

(***************************************************************************)
(* What a hide request does to the thread and its count.                   *)
(***************************************************************************)
LEMMA HidesMoves ==
  ASSUME TypeOK, NEW pc \in {"playing", "rehide"}, Hides(pc)
  PROVE  /\ UNCHANGED game
         /\ hider' \in HiderType
         /\ hider'.pc = pc /\ hider'.stopped = hider.stopped /\ hider'.left = hider.left
         /\ hider'.sleep \in 0..HideTime
         /\ hides' = IF hider.stopped THEN hides + 1 ELSE hides
         /\ window' \in WindowType /\ window'.due = window.due /\ marred' \in BOOLEAN
         /\ (~marred' => ~marred /\ ~window'.shown)
<1>1. PICK d \in 0..HideTime : hider' = [hider EXCEPT !.pc = pc, !.sleep = d]
  BY DEF Hides
<1>2. hider \in HiderType /\ d \in Nat
  BY TimeAssumption DEF TypeOK
<1>3. /\ hider' \in HiderType /\ hider'.pc = pc /\ hider'.stopped = hider.stopped
      /\ hider'.left = hider.left /\ hider'.sleep = d
  BY <1>1, <1>2 DEF HiderType
<1>4. /\ window' \in WindowType /\ window'.due = window.due /\ marred' \in BOOLEAN
      /\ (~marred' => ~marred /\ ~window'.shown)
  <2>1. CASE window' = [window EXCEPT !.shown = FALSE] /\ UNCHANGED marred
    BY <2>1 DEF TypeOK, WindowType
  <2>2. CASE UNCHANGED window /\ marred' = TRUE
    BY <2>2 DEF TypeOK, WindowType
  <2>3. QED
    BY <2>1, <2>2 DEF Hides
<1>5. QED
  BY <1>3, <1>4 DEF Hides

(***************************************************************************)
(* The steps of the thread that ask for nothing: which state goes where.   *)
(* Playing is told apart by what the scan saw.                             *)
(***************************************************************************)
LEMMA QuietMoves ==
  ASSUME TypeOK, Build \/ Wait \/ Look \/ Playing \/ Rehide
  PROVE  /\ UNCHANGED <<game, window, hides>>
         /\ hider' \in HiderType /\ marred' \in BOOLEAN /\ (marred => marred')
         /\ hider.sleep = 0
         /\ hider'.stopped = hider.stopped \/ (hider'.pc = "done" /\ hider'.stopped)
         /\ \/ hider'.pc = "done"
            \/ /\ hider.pc \in {"build", "look"} /\ hider'.pc = "wait"
            \/ /\ hider.pc = "wait" /\ hider'.pc = "look"
            \/ /\ hider.pc = "look" /\ hider'.pc = "first" /\ game.up /\ hider'.sleep = 0
            \/ /\ hider.pc = "playing" /\ hider'.pc = "playing" /\ game.up
               /\ hider'.sleep = SessionPoll /\ ~hider.stopped
            \/ /\ hider.pc = "playing" /\ hider'.pc = "rehide"
               /\ hider'.sleep = 0 /\ hider'.left = RehideWindow
               /\ hider.stopped \/ marred' \/ ~game.up
            \/ /\ hider.pc = "rehide" /\ hider'.pc = "again" /\ ~hider.stopped
               /\ hider'.sleep = PollInterval /\ hider'.left = hider.left /\ hider.left > 0
<1>1. hider \in HiderType /\ game \in GameType
  BY DEF TypeOK, GameType
<1>2. GameWait \in Nat /\ PollInterval \in Nat /\ SessionPoll \in Nat /\ RehideWindow \in Nat
  BY TimeAssumption
<1>3. GameScan \subseteq {game.up, FALSE}
  BY DEF GameScan
<1>4. CASE Build
  <2>1. hider' = [hider EXCEPT !.pc = "done"] \/ hider' = [hider EXCEPT !.pc = "wait", !.left = GameWait]
    BY <1>4 DEF Build, Goes
  <2>2. QED
    BY <1>1, <1>2, <1>4, <2>1 DEF Build, At, Goes, Still, HiderType, TypeOK
<1>5. CASE Wait
  <2>1. hider' = [hider EXCEPT !.pc = "look", !.sleep = PollInterval] \/ hider' = [hider EXCEPT !.pc = "done"]
    BY <1>5 DEF Wait, Goes, Sleeps
  <2>2. QED
    BY <1>1, <1>2, <1>5, <2>1 DEF Wait, At, Goes, Sleeps, Still, HiderType, TypeOK
<1>6. CASE Look
  <2>1. \/ hider' = [hider EXCEPT !.pc = "done"]
        \/ hider' = [hider EXCEPT !.pc = "wait"]
        \/ hider' = [hider EXCEPT !.pc = "first"] /\ game.up
    BY <1>3, <1>6 DEF Look, Goes
  <2>2. UNCHANGED <<game, window, hides, marred>>
    BY <1>6 DEF Look, Goes, Still
  <2>3. hider.pc = "look" /\ hider.sleep = 0
    BY <1>6 DEF Look, At
  <2>4. QED
    BY <1>1, <2>1, <2>2, <2>3 DEF HiderType, TypeOK
<1>7. CASE Playing
  <2>1. PICK up \in GameScan :
          IF up /\ ~hider.stopped THEN Sleeps("playing", SessionPoll)
          ELSE /\ hider' = [hider EXCEPT !.pc = "rehide", !.left = RehideWindow]
               /\ marred' = (marred \/ up # game.up)
               /\ UNCHANGED <<game, window, hides>>
    BY <1>7 DEF Playing
  <2>2. hider.pc = "playing" /\ hider.sleep = 0
    BY <1>7 DEF Playing, At
  <2>3. CASE up /\ ~hider.stopped
    <3>1. hider' = [hider EXCEPT !.pc = "playing", !.sleep = SessionPoll] /\ game.up
          /\ UNCHANGED <<game, window, hides, marred>>
      BY <1>3, <2>1, <2>3 DEF Sleeps, Still
    <3>2. QED
      BY <1>1, <1>2, <2>2, <2>3, <3>1 DEF HiderType, TypeOK
  <2>4. CASE ~(up /\ ~hider.stopped)
    <3>1. hider' = [hider EXCEPT !.pc = "rehide", !.left = RehideWindow]
          /\ marred' = (marred \/ up # game.up) /\ UNCHANGED <<game, window, hides>>
      BY <2>1, <2>4
    <3>2. hider' \in HiderType /\ hider'.pc = "rehide" /\ hider'.stopped = hider.stopped
          /\ hider'.sleep = 0 /\ hider'.left = RehideWindow
      BY <1>1, <1>2, <2>2, <3>1 DEF HiderType
    <3>3. hider.stopped \/ marred' \/ ~game.up
      BY <2>4, <3>1
    <3>4. marred' \in BOOLEAN /\ (marred => marred')
      BY <3>1 DEF TypeOK
    <3>5. QED
      BY <2>2, <3>1, <3>2, <3>3, <3>4
  <2>5. QED
    BY <2>3, <2>4
<1>8. CASE Rehide
  <2>1. hider.pc = "rehide" /\ hider.sleep = 0
    BY <1>8 DEF Rehide, At
  <2>2. \/ /\ hider.left > 0 /\ ~hider.stopped
           /\ hider' = [hider EXCEPT !.pc = "again", !.sleep = PollInterval]
        \/ hider' = [hider EXCEPT !.pc = "done", !.stopped = TRUE]
    BY <1>8 DEF Rehide, Sleeps, Closes
  <2>3. UNCHANGED <<game, window, hides, marred>>
    BY <1>8 DEF Rehide, Sleeps, Closes, Still
  <2>4. QED
    BY <1>1, <1>2, <2>1, <2>2, <2>3 DEF HiderType, TypeOK
<1>9. QED
  BY <1>4, <1>5, <1>6, <1>7, <1>8

(***************************************************************************)
(* What the machine does to the game and the window.                       *)
(***************************************************************************)
LEMMA MachineMoves ==
  ASSUME TypeOK, Machine
  PROVE  /\ game' \in GameType /\ window' \in WindowType /\ marred' \in BOOLEAN
         /\ marred => marred'
         /\ \/ game'.up /\ game'.sinceExit = game.sinceExit /\ window' = window
               /\ (game.sinceExit = Never \/ marred')
            \/ ~game'.up /\ game'.sinceExit = 0 /\ game.up /\ window'.shown = window.shown
               /\ window'.due
            \/ game' = game /\ window.due /\ ~window'.due
            \/ game' = game /\ window'.due = window.due /\ marred'
<1>1. game \in GameType /\ window \in WindowType /\ marred \in BOOLEAN
  BY DEF TypeOK, GameType, WindowType
<1>2. CASE GameStarts
  <2> DEFINE starts == IF game.sinceExit = Never THEN 0 ELSE 1
  <2>1. starts \in 0..1 /\ game' = [game EXCEPT !.up = TRUE, !.starts = starts]
    BY <1>2 DEF GameStarts
  <2> HIDE DEF starts
  <2>2. marred' = (marred \/ game.sinceExit # Never) /\ UNCHANGED window
    BY <1>2 DEF GameStarts
  <2>3. game' \in GameType /\ game'.up /\ game'.sinceExit = game.sinceExit
    BY <1>1, <2>1 DEF GameType
  <2>4. QED
    BY <1>1, <2>2, <2>3
<1>3. CASE GameExits
  BY <1>1, <1>3 DEF GameExits, GameType, WindowType
<1>4. CASE ClientShows
  BY <1>1, <1>4 DEF ClientShows, WindowType
<1>5. CASE PlayerShows
  BY <1>1, <1>5 DEF PlayerShows, WindowType
<1>6. QED
  BY <1>2, <1>3, <1>4, <1>5 DEF Machine

(***************************************************************************)
(* Every variable keeps its type, for any times.                           *)
(***************************************************************************)
THEOREM HiderTypeCorrect == Spec => []TypeOK
<1>1. Init => TypeOK
  <2>1. NewHider \in HiderType
    BY DEF NewHider, HiderType
  <2>2. Init => game \in GameType /\ window \in WindowType
    BY DEF Init, GameType, WindowType
  <2>3. Init => hider \in HiderType /\ hides = 0 /\ marred = FALSE
    BY <2>1, Zenon DEF Init
  <2>4. 0 \in Nat /\ FALSE \in BOOLEAN
    OBVIOUS
  <2>5. QED
    BY <2>2, <2>3, <2>4, Zenon DEF TypeOK, GameType, WindowType
<1>2. TypeOK /\ [Next]_vars => TypeOK'
  <2> SUFFICES ASSUME TypeOK, [Next]_vars PROVE TypeOK'
    OBVIOUS
  <2>1. CASE UNCHANGED vars
    BY <2>1 DEF TypeOK, vars
  <2>2. CASE Build \/ Wait \/ Look \/ Playing \/ Rehide
    BY <2>2, QuietMoves DEF TypeOK
  <2>3. CASE First \/ Again
    <3>1. PICK pc \in {"playing", "rehide"} : Hides(pc)
      BY <2>3 DEF First, Again
    <3>2. hides' \in Nat
      BY <3>1, HidesMoves DEF TypeOK
    <3>3. QED
      BY <3>1, <3>2, HidesMoves DEF TypeOK, WindowType
  <2>4. CASE Tick
    BY <2>4, TickMoves DEF TypeOK, GameType
  <2>5. CASE Stop
    BY <2>5 DEF Stop, Still, TypeOK, HiderType
  <2>6. CASE Machine /\ UNCHANGED <<hider, hides>>
    BY <2>6, MachineMoves DEF TypeOK, GameType, WindowType
  <2>7. QED
    BY <2>1, <2>2, <2>3, <2>4, <2>5, <2>6 DEF Next, Thread
<1>3. QED
  BY <1>1, <1>2, PTL DEF Spec

----------------------------------------------------------------------------
(***************************************************************************)
(* Around the game.  The thread asks for a hide in two places; how long    *)
(* ago the game exited there follows from the clocks that ran since: the   *)
(* sleep in which the exit fell, the re-hide window, and the last sleep    *)
(* begun within it.  Silence is the count of the hides after a stop: every *)
(* place that asks is left for one that looks at the flag.                 *)
(***************************************************************************)
Silence ==
  /\ ~hider.stopped => hides = 0
  /\ hider.pc \in {"build", "wait", "look", "first", "again"} => hides = 0
  /\ hides <= 1

\* The game is up, or went so many ticks ago at most.
GoneWithin(slack, bound) ==
  game.up \/ (game.sinceExit # Never /\ game.sinceExit + slack <= bound)

Around ==
  /\ hider.pc = "first" => hider.sleep = 0 /\ GoneWithin(0, 0)
  /\ hider.pc = "playing" => hider.sleep <= SessionPoll + HideTime
                             /\ GoneWithin(hider.sleep, SessionPoll + HideTime)
  /\ hider.pc \in {"rehide", "again"} =>
       /\ hider.left <= RehideWindow
       /\ game.up \/ game.sinceExit # Never
       /\ hider.left > 0 => GoneWithin(hider.left, SessionPoll + HideTime + RehideWindow)
  /\ hider.pc = "again" =>
       /\ hider.sleep <= PollInterval
       /\ GoneWithin(hider.sleep, SessionPoll + HideTime + RehideWindow + PollInterval)

(***************************************************************************)
(* Left hidden.  A game seen to be gone, by a watch nobody stopped and     *)
(* with nothing marred, has been gone for as long as the re-hide window    *)
(* has run; and a window shown, or about to be, after the last hide, is    *)
(* one that the client showed within the time it takes.                    *)
(***************************************************************************)
DueInTime == window.due => game.sinceExit # Never /\ game.sinceExit <= UnhideWithin

LeftHidden ==
  (~hider.stopped /\ ~marred) =>
    /\ hider.pc \in {"rehide", "again"} =>
         /\ ~game.up /\ game.sinceExit # Never
         /\ game.sinceExit + hider.left >= RehideWindow
    /\ hider.pc = "rehide" =>
         \/ hider.left = RehideWindow /\ hider.sleep = 0
         \/ (window.shown \/ window.due) => game.sinceExit + hider.sleep <= UnhideWithin + HideTime

HiderInv == Silence /\ Around /\ DueInTime /\ LeftHidden

(***************************************************************************)
(* The fields' types, for the arithmetic below.                            *)
(***************************************************************************)
LEMMA Clocks ==
  ASSUME TypeOK
  PROVE  /\ hider.sleep \in Nat /\ hider.left \in Nat /\ hides \in Nat
         /\ game.sinceExit \in Nat \cup {Never} /\ game.up \in BOOLEAN
         /\ window.shown \in BOOLEAN /\ window.due \in BOOLEAN
         /\ hider.stopped \in BOOLEAN /\ marred \in BOOLEAN
         /\ GameWait \in Nat /\ HideTime \in Nat /\ UnhideWithin \in Nat
         /\ PollInterval \in Nat /\ PollInterval > 0 /\ SessionPoll \in Nat /\ SessionPoll > 0
         /\ RehideWindow \in Nat /\ RehideWindow > 0
         /\ Horizon = SessionPoll + HideTime + RehideWindow + PollInterval + 1
  BY TimeAssumption DEF TypeOK, HiderType, Horizon

(***************************************************************************)
(* Time passing keeps every sum of a clock and the time since the exit.    *)
(***************************************************************************)
LEMMA TickKeeps == ASSUME TypeOK, HiderInv, Tick PROVE HiderInv'
<1> DEFINE since == game.sinceExit
           since2 == game'.sinceExit
<1>1. /\ UNCHANGED <<window, hides, marred>> /\ game'.up = game.up
      /\ since2 = IF since = Never \/ since >= Horizon THEN since ELSE since + 1
      /\ hider'.pc = hider.pc /\ hider'.stopped = hider.stopped
      /\ hider.sleep > 0 /\ hider'.sleep = hider.sleep - 1
      /\ hider'.left = IF hider.left = 0 THEN 0 ELSE hider.left - 1
      /\ ~(window.due /\ since >= UnhideWithin)
  BY TickMoves
<1>2. Never = -1
  BY DEF Never
<1>3. ASSUME NEW slack \in Nat, NEW bound \in Nat, slack > 0, bound < Horizon, GoneWithin(slack, bound)
      PROVE  game'.up \/ (since2 # Never /\ since2 + (slack - 1) <= bound)
  BY <1>1, <1>2, <1>3, Clocks DEF GoneWithin
<1>4. Silence'
  BY <1>1 DEF HiderInv, Silence
<1>5. Around'
  <2>1. hider.pc # "first"
    BY <1>1, Clocks DEF HiderInv, Around
  <2>2. ASSUME hider.pc = "playing"
        PROVE  hider'.sleep <= SessionPoll + HideTime /\ GoneWithin(hider.sleep, SessionPoll + HideTime)'
    <3>1. hider.sleep <= SessionPoll + HideTime /\ GoneWithin(hider.sleep, SessionPoll + HideTime)
      BY <2>2 DEF HiderInv, Around
    <3>2. SessionPoll + HideTime \in Nat /\ SessionPoll + HideTime < Horizon
      BY Clocks
    <3>3. game'.up \/ (since2 # Never /\ since2 + (hider.sleep - 1) <= SessionPoll + HideTime)
      BY <1>1, <1>3, <3>1, <3>2, Clocks
    <3>4. QED
      BY <1>1, <3>1, <3>3, Clocks DEF GoneWithin
  <2>3. ASSUME hider.pc \in {"rehide", "again"}
        PROVE  /\ hider'.left <= RehideWindow
               /\ game'.up \/ since2 # Never
               /\ hider'.left > 0 =>
                    GoneWithin(hider.left, SessionPoll + HideTime + RehideWindow)'
    <3>1. /\ hider.left <= RehideWindow
          /\ game.up \/ since # Never
          /\ hider.left > 0 => GoneWithin(hider.left, SessionPoll + HideTime + RehideWindow)
      BY <2>3 DEF HiderInv, Around
    <3>2. SessionPoll + HideTime + RehideWindow \in Nat /\ SessionPoll + HideTime + RehideWindow < Horizon
      BY Clocks
    <3>3. hider.left > 0 => game'.up \/ (since2 # Never
            /\ since2 + (hider.left - 1) <= SessionPoll + HideTime + RehideWindow)
      BY <1>3, <3>1, <3>2, Clocks
    <3>4. game'.up \/ since2 # Never
      BY <1>1, <1>2, <3>1, Clocks
    <3>5. hider'.left <= RehideWindow /\ (hider'.left > 0 => hider.left > 0 /\ hider'.left = hider.left - 1)
      <4>1. hider.left \in Nat /\ RehideWindow \in Nat /\ hider.left <= RehideWindow
        BY <3>1, Clocks
      <4>2. hider'.left = IF hider.left = 0 THEN 0 ELSE hider.left - 1
        BY <1>1
      <4>3. QED
        BY <4>1, <4>2
    <3>6. QED
      BY <3>3, <3>4, <3>5 DEF GoneWithin
  <2>4. ASSUME hider.pc = "again"
        PROVE  /\ hider'.sleep <= PollInterval
               /\ GoneWithin(hider.sleep, SessionPoll + HideTime + RehideWindow + PollInterval)'
    <3> DEFINE bound == SessionPoll + HideTime + RehideWindow + PollInterval
    <3>1. hider.sleep <= PollInterval /\ GoneWithin(hider.sleep, bound)
      BY <2>4 DEF HiderInv, Around
    <3>2. bound \in Nat /\ bound < Horizon
      BY Clocks
    <3>3. game'.up \/ (since2 # Never /\ since2 + (hider.sleep - 1) <= bound)
      BY <1>1, <1>3, <3>1, <3>2, Clocks
    <3>4. QED
      BY <1>1, <3>1, <3>3, Clocks DEF GoneWithin
  <2>5. QED
    BY <1>1, <2>1, <2>2, <2>3, <2>4 DEF Around
<1>6. DueInTime'
  BY <1>1, <1>2, Clocks DEF HiderInv, DueInTime
<1>7. LeftHidden'
  <2> SUFFICES ASSUME ~hider.stopped, ~marred
               PROVE  /\ hider.pc \in {"rehide", "again"} =>
                           ~game.up /\ since2 # Never /\ since2 + hider'.left >= RehideWindow
                      /\ hider.pc = "rehide" => ((window.shown \/ window.due) =>
                             since2 + hider'.sleep <= UnhideWithin + HideTime)
    BY <1>1 DEF LeftHidden
  <2>1. ASSUME hider.pc \in {"rehide", "again"}
        PROVE  ~game.up /\ since2 # Never /\ since2 + hider'.left >= RehideWindow
    <3>1. ~game.up /\ since # Never /\ since + hider.left >= RehideWindow
      BY <2>1 DEF HiderInv, LeftHidden
    <3>2. QED
      BY <1>1, <1>2, <3>1, Clocks
  <2>2. ASSUME hider.pc = "rehide", window.shown \/ window.due
        PROVE  since2 + hider'.sleep <= UnhideWithin + HideTime
    <3>1. since + hider.sleep <= UnhideWithin + HideTime /\ since # Never
      BY <1>1, <2>2, Clocks DEF HiderInv, LeftHidden
    <3>2. QED
      BY <1>1, <1>2, <3>1, Clocks
  <2>3. QED
    BY <2>1, <2>2
<1>8. QED
  BY <1>4, <1>5, <1>6, <1>7 DEF HiderInv

(***************************************************************************)
(* A step that asks for nothing begins a sleep at most.                    *)
(***************************************************************************)
LEMMA QuietKeeps ==
  ASSUME TypeOK, HiderInv, Build \/ Wait \/ Look \/ Playing \/ Rehide
  PROVE  HiderInv'
<1>1. Never = -1
  BY DEF Never
<1>2. UNCHANGED <<game, window, hides>> /\ (marred => marred') /\ hider.sleep = 0
  BY QuietMoves
<1>3. DueInTime'
  BY <1>2 DEF HiderInv, DueInTime
<1>4. CASE hider'.pc = "done"
  <2>1. Silence'
    BY <1>2, <1>4, QuietMoves DEF HiderInv, Silence
  <2>2. Around' /\ LeftHidden'
    BY <1>4 DEF Around, LeftHidden
  <2>3. QED
    BY <1>3, <2>1, <2>2 DEF HiderInv
<1>5. ASSUME hider'.pc # "done" PROVE hider'.stopped = hider.stopped
  BY <1>5, QuietMoves
<1>6. CASE hider'.pc \in {"wait", "look"} /\ hider.pc \in {"build", "wait", "look"}
  BY <1>2, <1>3, <1>5, <1>6, Clocks DEF HiderInv, Silence, Around, LeftHidden
<1>7. CASE hider.pc = "look" /\ hider'.pc = "first" /\ game.up /\ hider'.sleep = 0
  BY <1>2, <1>3, <1>5, <1>7, Clocks DEF HiderInv, Silence, Around, GoneWithin, LeftHidden
<1>8. CASE /\ hider.pc = "playing" /\ hider'.pc = "playing" /\ game.up
           /\ hider'.sleep = SessionPoll /\ ~hider.stopped
  BY <1>2, <1>3, <1>5, <1>8, Clocks DEF HiderInv, Silence, Around, GoneWithin, LeftHidden
<1>9. CASE /\ hider.pc = "playing" /\ hider'.pc = "rehide"
           /\ hider'.sleep = 0 /\ hider'.left = RehideWindow
           /\ hider.stopped \/ marred' \/ ~game.up
  <2>1. GoneWithin(0, SessionPoll + HideTime)
    BY <1>2, <1>9, Clocks DEF HiderInv, Around, GoneWithin
  <2>2. Silence'
    BY <1>2, <1>5, <1>9 DEF HiderInv, Silence
  <2>3. Around'
    BY <1>1, <1>2, <1>9, <2>1, Clocks DEF Around, GoneWithin
  <2>4. LeftHidden'
    BY <1>1, <1>2, <1>5, <1>9, <2>1, Clocks DEF LeftHidden, GoneWithin
  <2>5. QED
    BY <1>3, <2>2, <2>3, <2>4 DEF HiderInv
<1>10. CASE /\ hider.pc = "rehide" /\ hider'.pc = "again" /\ ~hider.stopped
            /\ hider'.sleep = PollInterval /\ hider'.left = hider.left /\ hider.left > 0
  <2>1. /\ hider.left <= RehideWindow
        /\ GoneWithin(hider.left, SessionPoll + HideTime + RehideWindow)
    BY <1>10 DEF HiderInv, Around
  <2>2. Silence'
    BY <1>2, <1>5, <1>10 DEF HiderInv, Silence
  <2>3. Around'
    BY <1>1, <1>2, <1>10, <2>1, Clocks DEF Around, GoneWithin
  <2>4. LeftHidden'
    BY <1>2, <1>5, <1>10 DEF HiderInv, LeftHidden
  <2>5. QED
    BY <1>3, <2>2, <2>3, <2>4 DEF HiderInv
<1>11. QED
  BY <1>4, <1>6, <1>7, <1>8, <1>9, <1>10, QuietMoves

(***************************************************************************)
(* A hide is asked of a window the thread may hide, and once the window is *)
(* hidden only the client can show it again in time.                       *)
(***************************************************************************)
LEMMA HidesKeeps == ASSUME TypeOK, HiderInv, First \/ Again PROVE HiderInv'
<1>1. Never = -1
  BY DEF Never
<1>2. PICK pc \in {"playing", "rehide"} :
        /\ Hides(pc) /\ hider.sleep = 0
        /\ \/ hider.pc = "first" /\ pc = "playing"
           \/ hider.pc = "again" /\ pc = "rehide"
  <2>1. CASE First
    <3>1. Hides("playing") /\ hider.sleep = 0 /\ hider.pc = "first"
      BY <2>1 DEF First, At
    <3>2. QED
      BY <3>1
  <2>2. CASE Again
    <3>1. Hides("rehide") /\ hider.sleep = 0 /\ hider.pc = "again"
      BY <2>2 DEF Again, At
    <3>2. QED
      BY <3>1
  <2>3. QED
    BY <2>1, <2>2
<1>3. /\ UNCHANGED game
      /\ hider'.pc = pc /\ hider'.stopped = hider.stopped /\ hider'.left = hider.left
      /\ hider'.sleep \in 0..HideTime
      /\ hides' = IF hider.stopped THEN hides + 1 ELSE hides
      /\ window'.due = window.due /\ (~marred' => ~marred /\ ~window'.shown)
  BY <1>2, HidesMoves
<1>4. Silence'
  BY <1>2, <1>3, Clocks DEF HiderInv, Silence
<1>5. DueInTime'
  BY <1>3 DEF HiderInv, DueInTime
<1>6. CASE hider.pc = "first" /\ pc = "playing"
  <2>1. GoneWithin(0, 0)
    BY <1>6 DEF HiderInv, Around
  <2>2. Around'
    BY <1>1, <1>3, <1>6, <2>1, Clocks DEF Around, GoneWithin
  <2>3. LeftHidden'
    BY <1>3, <1>6 DEF LeftHidden
  <2>4. QED
    BY <1>4, <1>5, <2>2, <2>3 DEF HiderInv
<1>7. CASE hider.pc = "again" /\ pc = "rehide"
  <2>1. /\ hider.left <= RehideWindow
        /\ game.up \/ game.sinceExit # Never
        /\ hider.left > 0 => GoneWithin(hider.left, SessionPoll + HideTime + RehideWindow)
    BY <1>7 DEF HiderInv, Around
  <2>2. Around'
    BY <1>3, <1>7, <2>1 DEF Around, GoneWithin
  <2>3. LeftHidden'
    <3> SUFFICES ASSUME ~hider.stopped, ~marred'
                 PROVE  /\ ~game.up /\ game.sinceExit # Never
                        /\ game.sinceExit + hider.left >= RehideWindow
                        /\ (window'.shown \/ window'.due) =>
                             game.sinceExit + hider'.sleep <= UnhideWithin + HideTime
      BY <1>3, <1>7 DEF LeftHidden
    <3>1. ~marred /\ ~window'.shown
      BY <1>3
    <3>2. /\ ~game.up /\ game.sinceExit # Never
          /\ game.sinceExit + hider.left >= RehideWindow
      BY <1>7, <3>1 DEF HiderInv, LeftHidden
    <3>3. window.due => game.sinceExit <= UnhideWithin
      BY DEF HiderInv, DueInTime
    <3>4. QED
      BY <1>1, <1>3, <3>1, <3>2, <3>3, Clocks
  <2>4. QED
    BY <1>4, <1>5, <2>2, <2>3 DEF HiderInv
<1>8. QED
  BY <1>2, <1>6, <1>7

(***************************************************************************)
(* The machine may move at any time: an exit starts the count anew, and a  *)
(* second game or the player's hand is noted.                              *)
(***************************************************************************)
LEMMA MachineKeeps ==
  ASSUME TypeOK, HiderInv, Machine, UNCHANGED <<hider, hides>>
  PROVE  HiderInv'
<1>1. Never = -1
  BY DEF Never
<1>2. Silence'
  BY DEF HiderInv, Silence
<1>3. marred => marred'
  BY MachineMoves
<1>4. CASE game'.up /\ game'.sinceExit = game.sinceExit /\ window' = window
           /\ (game.sinceExit = Never \/ marred')
  <2>1. Around'
    BY <1>4 DEF HiderInv, Around, GoneWithin
  <2>2. DueInTime'
    BY <1>4 DEF HiderInv, DueInTime
  <2>3. LeftHidden'
    BY <1>1, <1>3, <1>4, Clocks DEF HiderInv, LeftHidden
  <2>4. QED
    BY <1>2, <2>1, <2>2, <2>3 DEF HiderInv
<1>5. CASE ~game'.up /\ game'.sinceExit = 0 /\ game.up /\ window'.shown = window.shown /\ window'.due
  <2>1. Around'
    BY <1>1, <1>5, Clocks DEF HiderInv, Around, GoneWithin
  <2>2. DueInTime'
    BY <1>1, <1>5, Clocks DEF DueInTime
  <2>3. LeftHidden'
    BY <1>3, <1>5 DEF HiderInv, LeftHidden
  <2>4. QED
    BY <1>2, <2>1, <2>2, <2>3 DEF HiderInv
<1>6. CASE game' = game /\ window.due /\ ~window'.due
  <2>1. Around'
    BY <1>6 DEF HiderInv, Around, GoneWithin
  <2>2. DueInTime' /\ LeftHidden'
    BY <1>3, <1>6 DEF HiderInv, DueInTime, LeftHidden
  <2>3. QED
    BY <1>2, <2>1, <2>2 DEF HiderInv
<1>7. CASE game' = game /\ window'.due = window.due /\ marred'
  <2>1. Around'
    BY <1>7 DEF HiderInv, Around, GoneWithin
  <2>2. DueInTime' /\ LeftHidden'
    BY <1>7 DEF HiderInv, DueInTime, LeftHidden
  <2>3. QED
    BY <1>2, <2>1, <2>2 DEF HiderInv
<1>8. QED
  BY <1>4, <1>5, <1>6, <1>7, MachineMoves

(***************************************************************************)
(* A stop changes nothing but what the next look at the flag sees.         *)
(***************************************************************************)
LEMMA StopKeeps == ASSUME TypeOK, HiderInv, Stop PROVE HiderInv'
<1>1. /\ hider'.pc = hider.pc /\ hider'.sleep = hider.sleep /\ hider'.left = hider.left
      /\ hider'.stopped /\ ~hider.stopped /\ UNCHANGED <<game, window, hides, marred>>
  BY DEF Stop, Still, TypeOK, HiderType
<1>2. Silence' /\ DueInTime' /\ LeftHidden'
  BY <1>1 DEF HiderInv, Silence, DueInTime, LeftHidden
<1>3. Around'
  BY <1>1 DEF HiderInv, Around, GoneWithin
<1>4. QED
  BY <1>2, <1>3 DEF HiderInv

(***************************************************************************)
(* The invariant holds, for any times and whatever happens outside.        *)
(***************************************************************************)
LEMMA HiderInvHolds == Spec => []HiderInv
<1>1. Init => HiderInv
  <2> SUFFICES ASSUME Init PROVE HiderInv
    OBVIOUS
  <2>1. hider.pc = "build" /\ ~hider.stopped /\ hides = 0 /\ ~window.due
    BY DEF Init, NewHider
  <2>2. QED
    BY <2>1 DEF HiderInv, Silence, Around, DueInTime, LeftHidden
<1>2. TypeOK /\ HiderInv /\ [Next]_vars => HiderInv'
  <2> SUFFICES ASSUME TypeOK, HiderInv, [Next]_vars PROVE HiderInv'
    OBVIOUS
  <2>1. CASE UNCHANGED vars
    BY <2>1 DEF vars, HiderInv, Silence, Around, GoneWithin, DueInTime, LeftHidden
  <2>2. QED
    BY <2>1, TickKeeps, QuietKeeps, HidesKeeps, MachineKeeps, StopKeeps DEF Next, Thread
<1>3. QED
  BY <1>1, <1>2, HiderTypeCorrect, PTL DEF Spec

(***************************************************************************)
(* Only two steps ask for a hide.                                          *)
(***************************************************************************)
LEMMA AskedMeansHides ==
  ASSUME TypeOK, [Next]_vars, Asked
  PROVE  First \/ Again
<1>1. hider.pc \in {"first", "again"} /\ hider'.pc \in {"playing", "rehide"}
  BY DEF Asked
<1>2. ~(UNCHANGED vars) /\ ~(Machine /\ UNCHANGED <<hider, hides>>)
  BY <1>1 DEF vars
<1>3. ~Tick
  BY <1>1, TickMoves
<1>4. ~Stop
  BY <1>1 DEF Stop, TypeOK, HiderType
<1>5. ~(Build \/ Wait \/ Look \/ Playing \/ Rehide)
  BY <1>1, QuietMoves
<1>6. QED
  BY <1>2, <1>3, <1>4, <1>5 DEF Next, Thread

(***************************************************************************)
(* The window is hidden only while the game is up or, at the latest, a     *)
(* poll, a request, the re-hide window and a sleep after it exited; and    *)
(* once at most after a stop (hide_for_play_session).                      *)
(***************************************************************************)
THEOREM HidesAroundTheGame == Spec => HidesOnlyAroundTheGame
<1> DEFINE bound == SessionPoll + HideTime + RehideWindow + PollInterval
           Meant == Asked => (game.up \/ game.sinceExit \in 0..bound) /\ hides' <= 1
<1>1. TypeOK /\ HiderInv /\ HiderInv' /\ [Next]_vars => Meant
  <2> SUFFICES ASSUME TypeOK, HiderInv, HiderInv', [Next]_vars, Asked
               PROVE  (game.up \/ game.sinceExit \in 0..bound) /\ hides' <= 1
    OBVIOUS
  <2>1. hider.sleep = 0 /\ hider.pc \in {"first", "again"}
    BY AskedMeansHides DEF First, Again, At
  <2>2. GoneWithin(0, 0) \/ GoneWithin(0, bound)
    BY <2>1 DEF HiderInv, Around
  <2>3. game.up \/ game.sinceExit \in 0..bound
    BY <2>2, Clocks DEF GoneWithin, Never
  <2>4. hides' <= 1
    BY DEF HiderInv, Silence
  <2>5. QED
    BY <2>3, <2>4
<1>2. QED
  BY <1>1, HiderTypeCorrect, HiderInvHolds, PTL DEF Spec, HidesOnlyAroundTheGame

(***************************************************************************)
(* A thread left to finish leaves the window hidden, unless a hide or a    *)
(* scan failed, the player showed it, or the game came back                *)
(* (REHIDE_WINDOW).                                                        *)
(***************************************************************************)
THEOREM WindowIsLeftHidden == Spec => WindowStaysHidden
<1> DEFINE Meant == (At("rehide") /\ hider'.pc = "done" /\ ~hider.stopped /\ ~marred)
                      => ~window.shown /\ ~window.due
<1>1. TypeOK /\ HiderInv /\ [Next]_vars => Meant
  <2> SUFFICES ASSUME TypeOK, HiderInv, [Next]_vars,
                      hider.pc = "rehide", hider.sleep = 0, hider'.pc = "done",
                      ~hider.stopped, ~marred
               PROVE  ~window.shown /\ ~window.due
    BY DEF At
  <2>1. Rehide
    <3>1. ~(UNCHANGED vars) /\ ~(Machine /\ UNCHANGED <<hider, hides>>)
      BY DEF vars
    <3>2. ~Tick /\ ~First /\ ~Again
      BY DEF Tick, First, Again, At
    <3>3. ~Stop
      BY DEF Stop, TypeOK, HiderType
    <3>4. ~Build /\ ~Wait /\ ~Look /\ ~Playing
      BY DEF Build, Wait, Look, Playing, At
    <3>5. QED
      BY <3>1, <3>2, <3>3, <3>4 DEF Next, Thread
  <2>2. hider.left = 0
    <3>1. ~(hider.left > 0)
      BY <2>1 DEF Rehide, Sleeps, TypeOK, HiderType
    <3>2. QED
      BY <3>1, Clocks
  <2>3. game.sinceExit # Never /\ game.sinceExit >= RehideWindow
    BY <2>2, Clocks DEF HiderInv, LeftHidden
  <2>4. (window.shown \/ window.due) => game.sinceExit <= UnhideWithin + HideTime
    BY <2>2, Clocks DEF HiderInv, LeftHidden
  <2>5. QED
    BY <2>3, <2>4, UnhideAssumption, Clocks
<1>2. QED
  BY <1>1, HiderTypeCorrect, HiderInvHolds, PTL DEF Spec, WindowStaysHidden

=============================================================================
