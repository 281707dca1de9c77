------------------------------- MODULE Launch -------------------------------
(***************************************************************************)
(* Launcher::launch_with_stop (crates/ritoclient/src/launch.rs): any       *)
(* number of calls, each on a thread of its own with a stop flag of its    *)
(* own, against one machine.  A step of a call is one thing it does to, or *)
(* reads from, the machine; the machine, and every other call, may move    *)
(* between two steps.                                                      *)
(*                                                                         *)
(* A call has a clock of its own, `elapsed', that runs from the start of   *)
(* its wait: a request takes up to its timeout of it.                      *)
(***************************************************************************)
EXTENDS RiotClient, Integers

CONSTANTS
  Calls,           \* the calls of launch_with_stop
  BootTimeout,     \* launch.rs: how long the wait may run
  PollInterval,    \* launch.rs: the sleep between two passes
  RefusalGrace,    \* launch.rs: how long a refusal is not believed
  WakeCooldown,    \* launch.rs: the least time between two wakes
  ProbeTime,       \* longest a readiness probe takes (QUERY_TIMEOUT)
  PostTime,        \* longest a launch POST takes (LAUNCH_TIMEOUT)
  WakeTime,        \* longest a wake attempt takes (WAKE_TIMEOUT + RETRY_DELAY)
  WakeAttempts     \* launch.rs ATTEMPTS

ASSUME TimeAssumption ==
  /\ BootTimeout \in Nat /\ RefusalGrace \in Nat /\ WakeCooldown \in Nat
  /\ ProbeTime \in Nat /\ PostTime \in Nat /\ WakeTime \in Nat
  /\ PollInterval \in Nat \ {0}
  /\ WakeAttempts \in Nat \ {0}

VARIABLES
  call,     \* what each call holds
  queued    \* history: the client took a launch with another still in flight

vars == <<rc, game, call, queued>>

Never == -1     \* Option::None of an Instant

Routes == {"ExistingClient", "ColdStart", "AlreadyRunning", "Adopted"}

Stages == {"Resolving", "ColdStart", "HandingOff", "WakingClient",
           "WaitingForClient", "AlreadyRunning", "Launched", "Stopped", "Error"}

Errors == {"NotFound", "SpawnFailed", "Refused", "Unreachable", "Stopped"}

Times == Nat \cup {Never}

CallType ==
  [pc : {"start", "known", "adopt", "resolve", "handoff", "spawn",
         "pass", "probe", "pid", "post", "wake", "deadline", "done"},
   stop : BOOLEAN,                    \* StopFlag
   route : Routes \cup {"none"},
   pid : Pids \cup {NoPid},           \* riot_client_pid
   now : Pids \cup {NoPid},           \* pid: the client's just before the POST
   elapsed : Nat,                     \* started.elapsed()
   refusedSince : Times,              \* refused_since
   lastWake : Times,                  \* last_wake
   attempt : 0..WakeAttempts,         \* of wake
   stage : Stages \cup {"none"},      \* the last stage the observer was told
   result : Errors \cup {"none", "ok"},
   asked : BOOLEAN,                   \* history: the client took a launch from this call
   late : Nat]                        \* history: acts on the machine begun after the stop

NewCall ==
  [pc |-> "start", stop |-> FALSE, route |-> "none", pid |-> NoPid, now |-> NoPid,
   elapsed |-> 0, refusedSince |-> Never, lastWake |-> Never, attempt |-> 0,
   stage |-> "none", result |-> "none", asked |-> FALSE, late |-> 0]

Init ==
  /\ MachineInit
  /\ call = [c \in Calls |-> NewCall]
  /\ queued = FALSE

At(c, pc) == call[c].pc = pc

----------------------------------------------------------------------------
(***************************************************************************)
(* The end of a call: launch_with_stop reports one terminal stage for the  *)
(* result and returns it.                                                  *)
(***************************************************************************)

\* Every Ok reported as a launch.
TerminalStageAllLaunched(result, route) ==
  CASE result = "ok" -> "Launched"
    [] result = "Stopped" -> "Stopped"
    [] OTHER -> "Error"

TerminalStage(result, route) ==
  CASE result = "ok" -> IF route \in {"AlreadyRunning", "Adopted"} THEN "AlreadyRunning"
                        ELSE "Launched"
    [] result = "Stopped" -> "Stopped"
    [] OTHER -> "Error"

\* The call me, returning.
Ended(me, result, route, pid) ==
  [me EXCEPT !.pc = "done", !.result = result, !.route = route, !.pid = pid,
             !.stage = TerminalStage(result, route)]

Failed(me, error) == Ended(me, error, me.route, me.pid)

Becomes(c, me) == call' = [call EXCEPT ![c] = me]

\* One more act on the machine, counted if the caller had stopped the call.
Acting(me) == [me EXCEPT !.late = IF me.stop THEN @ + 1 ELSE @]

----------------------------------------------------------------------------
(***************************************************************************)
(* launch_inner.                                                           *)
(***************************************************************************)

\* A flag stopped before the call ends it; otherwise look for the game.
Start(c) ==
  /\ At(c, "start")
  /\ \/ call[c].stop /\ Becomes(c, Failed(call[c], "Stopped"))
     \/ /\ ~call[c].stop
        /\ \E up \in GameScan :
             Becomes(c, [call[c] EXCEPT !.pc = IF up THEN "known" ELSE "resolve",
                                        !.stage = "Resolving"])
  /\ UNCHANGED <<rc, game, queued>>

\* already_running: the client's pid, and its session if it will name one.
Known(c) ==
  /\ At(c, "known")
  /\ \E p \in LiveLockfile :
       \/ SessionReadable /\ Becomes(c, Ended(call[c], "ok", "AlreadyRunning", p))
       \/ Becomes(c, [call[c] EXCEPT !.pc = "adopt", !.pid = p])
  /\ UNCHANGED <<rc, game, queued>>

\* already_running, adopt: hand over the game's pid if the client takes it.  The
\* answer can be lost after the client did.
Adopt(c) ==
  /\ At(c, "adopt")
  /\ \E taken \in {FALSE, Locked /\ rc.state = "serving" /\ game} :
       /\ rc' = IF taken THEN [rc EXCEPT !.session = TRUE] ELSE rc
       /\ \E route \in {"AlreadyRunning"} \cup (IF taken THEN {"Adopted"} ELSE {}) :
            Becomes(c, Ended(Acting(call[c]), "ok", route, call[c].pid))
  /\ UNCHANGED <<game, queued>>

\* resolve_riot_client, then the lockfile decides the route.
Resolve(c) ==
  /\ At(c, "resolve")
  /\ \/ Becomes(c, Failed(call[c], "NotFound"))
     \/ \E p \in LiveLockfile :
          Becomes(c, IF p = NoPid
                     THEN [call[c] EXCEPT !.pc = "spawn", !.stage = "ColdStart"]
                     ELSE [call[c] EXCEPT !.pc = "handoff", !.pid = p])
  /\ UNCHANGED <<rc, game, queued>>

\* hand_off, up to the wait.
HandOff(c) ==
  /\ At(c, "handoff")
  /\ \/ Becomes(c, Failed(call[c], "Unreachable"))
     \/ Becomes(c, [call[c] EXCEPT !.pc = "pass", !.stage = "HandingOff",
                                   !.route = "ExistingClient"])
  /\ UNCHANGED <<rc, game, queued>>

\* What comes of a client started as p: over a running one, it hands over to
\* that one or replaces it.
Spawned(p) == IF rc.state = "off" THEN {Boot(p)} ELSE {rc, Boot(p)}

\* cold_start, up to the wait.
ColdStart(c) ==
  /\ At(c, "spawn")
  /\ \/ Becomes(c, Failed(Acting(call[c]), "SpawnFailed")) /\ UNCHANGED rc
     \/ \E p \in Pids \ {rc.pid} :
          /\ rc' \in Spawned(p)
          /\ \/ Becomes(c, Failed(Acting(call[c]), "Unreachable"))
             \/ Becomes(c, [Acting(call[c]) EXCEPT !.pc = "pass", !.pid = p,
                                                   !.route = "ColdStart"])
  /\ UNCHANGED <<game, queued>>

----------------------------------------------------------------------------
(***************************************************************************)
(* wait_for_launcher.  A pass checks the stop flag and the game, probes,   *)
(* acts on the answer, and ends at the deadline check and the sleep.       *)
(***************************************************************************)

\* A call whose clock has run on by d.
Later(me, d) == [me EXCEPT !.elapsed = @ + d]

\* A game that came up while the call waited is the end of it, once its session
\* has been asked for.
Pass(c) ==
  /\ At(c, "pass")
  /\ \/ call[c].stop /\ Becomes(c, Failed(call[c], "Stopped"))
     \/ /\ ~call[c].stop
        /\ \E up \in GameScan, d \in 0..ProbeTime :
             Becomes(c, IF up THEN Ended(Later(call[c], d), "ok", call[c].route, call[c].pid)
                        ELSE [call[c] EXCEPT !.pc = "probe"])
  /\ UNCHANGED <<rc, game, queued>>

MayWake(me) ==
  \/ me.lastWake = Never
  \/ me.elapsed - me.lastWake >= WakeCooldown

AfterProbe(me, ready) ==
  CASE ready = "Serving" -> [me EXCEPT !.pc = "pid"]
    [] ready = "Idle" /\ MayWake(me) ->
         [me EXCEPT !.pc = "wake", !.attempt = 1, !.lastWake = me.elapsed,
                    !.stage = "WakingClient"]
    [] OTHER -> [me EXCEPT !.pc = "deadline"]

\* The readiness probe, and the choice it makes of the rest of the pass.
Probe(c) ==
  /\ At(c, "probe")
  /\ \E r \in PendingReplies, d \in 0..ProbeTime :
       Becomes(c, AfterProbe(Later(call[c], d), ReadinessOf(r)))
  /\ UNCHANGED <<rc, game, queued>>

\* A refusal that restarts the budget it is waiting out.
AfterRefusalResettingClock(me) == [me EXCEPT !.pc = "deadline", !.elapsed = 0]

\* A refusal is believed once refusals have been coming for the grace.
AfterRefusal(me) ==
  LET since == IF me.refusedSince = Never THEN me.elapsed ELSE me.refusedSince
      noted == [me EXCEPT !.refusedSince = since]
  IN IF me.elapsed - since >= RefusalGrace THEN Failed(noted, "Refused")
     ELSE [noted EXCEPT !.pc = "deadline"]

\* The client's pid now, for the outcome; the one the call came in with if none is
\* to be read.
ReadPid(c) ==
  /\ At(c, "pid")
  /\ \E p \in LiveLockfile :
       Becomes(c, [call[c] EXCEPT !.pc = "post", !.now = IF p = NoPid THEN call[c].pid ELSE p])
  /\ UNCHANGED <<rc, game, queued>>

AfterPost(me, what) ==
  CASE what = "Launched" -> Ended(me, "ok", me.route, me.now)
    [] what = "Refused" -> AfterRefusal(me)
    [] what = "Unreachable" -> Failed(me, "Unreachable")
    [] OTHER -> [me EXCEPT !.pc = "deadline"]

\* The call with its POST sent, and perhaps taken.
Sent(me, taken) == [me EXCEPT !.asked = @ \/ taken]

\* The launch POST.
Post(c) ==
  /\ At(c, "post")
  /\ \E x \in LaunchReplies, d \in 0..PostTime :
       /\ Becomes(c, AfterPost(Sent(Later(Acting(call[c]), d), x.taken), AttemptOf(x.reply)))
       /\ rc' = IF x.taken THEN [rc EXCEPT !.launching = "reported"] ELSE rc
       /\ queued' = (queued \/ (x.taken /\ rc.launching # "no"))
  /\ UNCHANGED game

\* An attempt more than there are.
AfterWakeOnceMore(me, reply) ==
  IF reply.status = "204" \/ me.attempt > WakeAttempts
  THEN [me EXCEPT !.pc = "deadline"]
  ELSE [me EXCEPT !.attempt = @ + 1]

\* wake: only a 204 is a wake; anything else is tried again.
AfterWake(me, reply) ==
  IF reply.status = "204" \/ me.attempt >= WakeAttempts
  THEN [me EXCEPT !.pc = "deadline"]
  ELSE [me EXCEPT !.attempt = @ + 1]

\* One attempt of wake.  A tray-idle client it reaches starts booting, whether
\* or not its reply survives the listener's restart.
Wake(c) ==
  /\ At(c, "wake")
  /\ \E delivered \in {FALSE, Locked}, d \in 0..WakeTime :
       \E r \in WakeReplies(delivered) :
         /\ Becomes(c, AfterWake(Later(Acting(call[c]), d), r))
         /\ rc' = IF delivered /\ rc.state = "tray" THEN [rc EXCEPT !.state = "booting"]
                  ELSE rc
  /\ UNCHANGED <<game, queued>>

\* The loop closed behind the checks at its top.
DeadlineToProbe(c) ==
  /\ At(c, "deadline")
  /\ Becomes(c, IF call[c].elapsed >= BootTimeout THEN Failed(call[c], "Unreachable")
                ELSE [call[c] EXCEPT !.pc = "probe", !.stage = "WaitingForClient",
                                     !.now = NoPid, !.elapsed = @ + PollInterval])
  /\ UNCHANGED <<rc, game, queued>>

\* The deadline read before the pass's own requests are counted: it allows for
\* one more pass than it should.
DeadlineLate(c) ==
  /\ At(c, "deadline")
  /\ Becomes(c, IF call[c].elapsed >= BootTimeout + PollInterval + ProbeTime
                THEN Failed(call[c], "Unreachable")
                ELSE [call[c] EXCEPT !.pc = "pass", !.stage = "WaitingForClient",
                                     !.now = NoPid, !.elapsed = @ + PollInterval])
  /\ UNCHANGED <<rc, game, queued>>

Deadline(c) ==
  /\ At(c, "deadline")
  /\ Becomes(c, IF call[c].elapsed >= BootTimeout THEN Failed(call[c], "Unreachable")
                ELSE [call[c] EXCEPT !.pc = "pass", !.stage = "WaitingForClient",
                                     !.now = NoPid, !.elapsed = @ + PollInterval])
  /\ UNCHANGED <<rc, game, queued>>

----------------------------------------------------------------------------
\* StopFlag::stop, from the thread that owns the Cancel button.
Stop(c) ==
  /\ ~call[c].stop /\ ~At(c, "done")
  /\ Becomes(c, [call[c] EXCEPT !.stop = TRUE])
  /\ UNCHANGED <<rc, game, queued>>

Step(c) ==
  \/ Start(c) \/ Known(c) \/ Adopt(c) \/ Resolve(c) \/ HandOff(c) \/ ColdStart(c)
  \/ Pass(c) \/ Probe(c) \/ ReadPid(c) \/ Post(c) \/ Wake(c) \/ Deadline(c)

Next ==
  \/ \E c \in Calls : Step(c) \/ Stop(c)
  \/ Machine /\ UNCHANGED <<call, queued>>

\* A launching thread is scheduled, and every request it makes has a timeout.
\* Nothing is promised of the machine or of the player.
Fairness == \A c \in Calls : WF_vars(Step(c))

Spec == Init /\ [][Next]_vars /\ Fairness

----------------------------------------------------------------------------
(***************************************************************************)
(* Properties.                                                             *)
(***************************************************************************)

TypeOK ==
  /\ rc \in ClientType
  /\ game \in BOOLEAN
  /\ call \in [Calls -> CallType]
  /\ queued \in BOOLEAN

(***************************************************************************)
(* "Asking again would queue a second one; the POST is not idempotent"     *)
(* (wait_for_launcher): a client that is working on a launch is never made *)
(* to take another, whichever replies are lost and however often it        *)
(* restarts.                                                               *)
(***************************************************************************)
NoQueuedLaunch == ~queued

(***************************************************************************)
(* A call returns Refused only when nothing is on its way: not when a POST *)
(* of its own that timed out was taken after all and is still in flight.   *)
(***************************************************************************)
RefusedMeansNothingInFlight ==
  [][\A c \in Calls :
       (call[c].result = "none" /\ call'[c].result = "Refused")
         => rc.launching = "no"]_vars

(***************************************************************************)
(* However long the call's requests take, its wait outlives BOOT_TIMEOUT   *)
(* by less than one pass: a sleep, a probe, and a POST or a whole wake.    *)
(***************************************************************************)
BoundedWait ==
  \A c \in Calls :
    \/ call[c].elapsed < BootTimeout + PollInterval + ProbeTime + PostTime
    \/ call[c].elapsed < BootTimeout + PollInterval + ProbeTime + WakeAttempts * WakeTime

(***************************************************************************)
(* After its stop flag is set a call acts on the machine once more at the  *)
(* most, with the spawn, the adoption or the launch POST it was coming to; *)
(* unless it is in a wake, which knows nothing of the flag and goes on to  *)
(* its last attempt.  Then all it does late are attempts of that wake.     *)
(***************************************************************************)
StopLag ==
  \A c \in Calls :
    \/ call[c].late <= 1
    \/ call[c].lastWake # Never /\ call[c].late <= call[c].attempt

(***************************************************************************)
(* "A stop can lag by one in-flight request" (launch_with_stop, and        *)
(* StopFlag::stop alike): one act begun after the stop, whatever it is.    *)
(* The code breaks it in a wake: Wake is retried without a look at the     *)
(* flag.                                                                   *)
(***************************************************************************)
StopLagsByOneRequest == \A c \in Calls : call[c].late <= 1

(***************************************************************************)
(* "The client accepted the request" (progress.rs, Launched): a call that  *)
(* ends so has had a launch of its own taken by the client.  The code      *)
(* breaks it where the game came up while the call waited: Pass.           *)
(***************************************************************************)
LaunchedMeansAccepted == \A c \in Calls : call[c].stage = "Launched" => call[c].asked

(***************************************************************************)
(* The observer's and the caller's view of the calls is one that           *)
(* LaunchContract allows: stages in order, one terminal stage, last, that  *)
(* agrees with the result, and no Launched without a launch of the call's  *)
(* own taken by the client or the game up by itself.                       *)
(***************************************************************************)
Contract ==
  INSTANCE LaunchContract WITH
    stage <- [c \in Calls |-> call[c].stage],
    result <- [c \in Calls |-> call[c].result],
    asked <- [c \in Calls |-> call[c].asked]

KeepsContract == Contract!Spec

(***************************************************************************)
(* Every call returns, whatever the machine does (launch.rs BOOT_TIMEOUT). *)
(***************************************************************************)
Returns == \A c \in Calls : <>(call[c].result # "none")

=============================================================================
