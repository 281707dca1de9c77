------------------------------ MODULE LocalApi ------------------------------
(***************************************************************************)
(* What this code reads out of one exchange with the Riot Client's local   *)
(* REST API.  A reply is a status class and the kind of body that came     *)
(* with it; the two facts every caller here branches on.                   *)
(***************************************************************************)

(***************************************************************************)
(* A reply.  "4xx" is any other status that is neither a success nor a     *)
(* server's error.  "none" is a request that got no status at all: no      *)
(* client to ask (RequestError::NoClient) or a transport failure, which    *)
(* the callers modelled here never tell apart.                             *)
(***************************************************************************)
Statuses == {"none", "2xx", "204", "404", "4xx", "5xx"}

\* "rpcError", "notFound" and "riotError" are the client's error payload with
\* the errorCode RPC_ERROR, RESOURCE_NOT_FOUND, or any other; "true", "false"
\* a JSON boolean; "other" anything that does not parse as what was expected.
Bodies == {"true", "false", "rpcError", "notFound", "riotError", "other"}

Reply == [status : Statuses, body : Bodies]

Answer(status, body) == [status |-> status, body |-> body]

NoReply == Answer("none", "other")

\* types.rs RiotError: the payload parses as the client's error shape.
IsRiotError(r) == r.body \in {"rpcError", "notFound", "riotError"}

\* client.rs Presence::from: only a 404 can deny that the route is served.
Presence(r) ==
  IF r.status # "404" THEN "Serving"
  ELSE IF r.body = "rpcError" THEN "Registered" ELSE "Absent"

----------------------------------------------------------------------------
\* A reading that takes every body of a serving plugin for "nothing pending".
ReadinessIgnoringPending(r) ==
  CASE r.status = "none" -> "NotYet"
    [] Presence(r) = "Absent" -> "Idle"
    [] Presence(r) = "Registered" -> "NotYet"
    [] r.status = "5xx" -> "NotYet"
    [] OTHER -> "Serving"

(***************************************************************************)
(* launch.rs readiness and readiness_of: what the probe                    *)
(* GET is-launch-request-pending says.  "Serving" is Serving with          *)
(* launch_pending = false, "Pending" is Serving with launch_pending =      *)
(* true.  Only a body that parses as `true` is "Pending": an unreadable    *)
(* body, and a 4xx that is not a 404, read as nothing pending.             *)
(***************************************************************************)
ReadinessOf(r) ==
  CASE r.status = "none" -> "NotYet"
    [] Presence(r) = "Absent" -> "Idle"
    [] Presence(r) = "Registered" -> "NotYet"
    [] r.status = "5xx" -> "NotYet"
    [] OTHER -> IF r.body = "true" THEN "Pending" ELSE "Serving"

\* launch.rs refusal: a status this code gave up on, named if Riot named it.
Refusal(r) == IF IsRiotError(r) THEN "Refused" ELSE "Unreachable"

(***************************************************************************)
(* launch.rs attempt_launch: what the launch POST came to.                 *)
(***************************************************************************)
AttemptOf(r) ==
  CASE r.status \in {"2xx", "204"} -> "Launched"
    [] r.status \in {"none", "5xx"} -> "NoAnswer"
    [] Presence(r) = "Registered" -> "NoAnswer"
    [] OTHER -> Refusal(r)

=============================================================================
