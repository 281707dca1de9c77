\* One watch of one session, against any life of the session, the client and the game.
CONSTANTS
  Phases = {pending, gameplay}
  NoPhase = NoPhase
  Blind = FALSE
SPECIFICATION Spec
INVARIANTS TypeOK StopIsNearlySilent LostMeansTheGameStopped
PROPERTIES KeepsEvents WatchEnds
CHECK_DEADLOCK FALSE
