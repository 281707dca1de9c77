--------------------------- MODULE LaunchContract ---------------------------
(***************************************************************************)
(* What a call of launch_with_stop promises the thread that made it and    *)
(* the observer it was given (progress.rs LaunchStage, launch.rs           *)
(* launch_with_stop): the stages arrive in an order a progress bar can be  *)
(* driven by, exactly one terminal stage arrives, last, and it says what   *)
(* the call returned.  Nothing here of how a launch is done.               *)
(*                                                                         *)
(* The contract is the code's, and weaker than what progress.rs says of    *)
(* Launched, "the client accepted the request": a call that is waiting     *)
(* when the game comes up says Launched too, whoever asked for it.         *)
(***************************************************************************)
CONSTANT Calls

VARIABLES
  stage,   \* the last stage each observer was told, or "none"
  result,  \* what each call returned: "none" before it does, "ok", or an error
  asked,   \* input: has the client taken a launch from the call?
  game     \* input: does the game run?

vars == <<stage, result>>

\* The stages of the wait for a client that can take the launch.
Waiting == {"ColdStart", "HandingOff", "WakingClient", "WaitingForClient"}

Init ==
  /\ stage = [c \in Calls |-> "none"]
  /\ result = [c \in Calls |-> "none"]

Report(c, s) ==
  /\ result[c] = "none"
  /\ stage' = [stage EXCEPT ![c] = s]
  /\ UNCHANGED result

Begin(c) == stage[c] = "none" /\ Report(c, "Resolving")

TakeRoute(c) ==
  /\ stage[c] = "Resolving"
  /\ \E s \in {"ColdStart", "HandingOff"} : Report(c, s)

Wait(c) ==
  /\ stage[c] \in Waiting
  /\ \E s \in {"WakingClient", "WaitingForClient"} : Report(c, s)

Finish(c, s, r) ==
  /\ result[c] = "none"
  /\ stage' = [stage EXCEPT ![c] = s]
  /\ result' = [result EXCEPT ![c] = r]

\* Only a call that went to wait for a client says Launched, with its launch taken
\* or the game up; only one that found the game at the start says AlreadyRunning.
Succeed(c) ==
  \/ stage[c] = "Resolving" /\ Finish(c, "AlreadyRunning", "ok")
  \/ stage[c] \in Waiting /\ (asked'[c] \/ game) /\ Finish(c, "Launched", "ok")

\* A stop is not a failure, and is seen before anything is done or in the wait.
Cancel(c) == stage[c] \in Waiting \cup {"none"} /\ Finish(c, "Stopped", "Stopped")

GiveUp(c) ==
  \/ stage[c] = "Resolving" /\ \E e \in {"NotFound", "Unreachable"} : Finish(c, "Error", e)
  \/ stage[c] = "ColdStart" /\ Finish(c, "Error", "SpawnFailed")
  \/ stage[c] \in Waiting /\ \E e \in {"Refused", "Unreachable"} : Finish(c, "Error", e)

Next ==
  \E c \in Calls : Begin(c) \/ TakeRoute(c) \/ Wait(c) \/ Succeed(c) \/ Cancel(c) \/ GiveUp(c)

Spec == Init /\ [][Next]_vars

=============================================================================
