------------------------------ MODULE Request ------------------------------
(***************************************************************************)
(* One request of ritoclient-core: RequestBuilder::send and the retry loop *)
(* it runs (client.rs, retry.rs), and what its finishers make of the       *)
(* answer (endpoint.rs).  The client it is sent to moves by itself: waking *)
(* it restarts its listener on a new port under the same pid.              *)
(***************************************************************************)
EXTENDS Integers

CONSTANTS
  Ports,        \* ports the client may listen on
  NoPort,       \* no listener, or no lockfile that names a live client
  Policies,     \* the retry policies a request may be sent under
  Timeout,      \* longest an attempt takes
  DurationMax   \* Duration::MAX: from_secs_f64 panics above it

None == -1      \* Option::None of a count or of a duration

\* What an attempt can come to; the last three are answers.
Outcomes == {"NoClient", "Transport", "2xx", "4xx", "5xx"}
Answers == {"2xx", "4xx", "5xx"}

(***************************************************************************)
(* retry.rs RetryPolicy.  retryIf is the predicate: the outcomes worth     *)
(* another attempt.  factor is Backoff::Exponential's multiplier, 1 for a  *)
(* fixed delay.                                                            *)
(***************************************************************************)
PolicyType ==
  [maxAttempts : (Nat \ {0}) \cup {None}, deadline : Nat \cup {None},
   initial : Nat, factor : Nat, cap : Nat, retryIf : SUBSET Outcomes]

Transient == {"Transport", "5xx"}

\* RetryPolicy::none, the default; attempts(n); deadline(d).
NoRetry ==
  [maxAttempts |-> 1, deadline |-> None, initial |-> 0, factor |-> 1, cap |-> 0,
   retryIf |-> {}]

AtMost(n, initial, cap) ==
  [maxAttempts |-> IF n = 0 THEN 1 ELSE n, deadline |-> None, initial |-> initial,
   factor |-> 2, cap |-> cap, retryIf |-> Transient]

Until(d, initial, cap) ==
  [maxAttempts |-> None, deadline |-> d, initial |-> initial, factor |-> 2, cap |-> cap,
   retryIf |-> Transient]

\* "A policy with neither retries as long as its predicate says to, which is a
\* loop": no policy here is without a bound.
ASSUME PolicyAssumption ==
  \A p \in Policies : p \in PolicyType /\ (p.maxAttempts # None \/ p.deadline # None)
ASSUME TimeAssumption == Timeout \in Nat /\ DurationMax \in Nat
ASSUME NoPortAssumption == NoPort \notin Ports

VARIABLES
  client,     \* the Riot Client
  req,        \* the request
  handled,    \* history: how often the client carried the request out
  disturbed   \* history: was the listener away, moved or mute since the last
              \* attempt read the lockfile?

vars == <<client, req, handled, disturbed>>

ClientType ==
  [alive : BOOLEAN, port : Ports \cup {NoPort}, lock : Ports \cup {NoPort}]

Finishers == {"send", "json", "ok", "ignore"}

RequestType ==
  [pc : {"begin", "attempt", "sent", "decide", "done", "panicked"},
   policy : Policies, finisher : Finishers, encodes : BOOLEAN,
   attempt : Nat \ {0}, elapsed : Nat, port : Ports \cup {NoPort},
   outcome : Outcomes \cup {"none", "Encode"}, parses : BOOLEAN,
   result : {"none", "answer", "value", "failure"}]

Init ==
  /\ client \in [alive : {TRUE}, port : Ports, lock : Ports] \cup
               [alive : {FALSE}, port : {NoPort}, lock : {NoPort}]
  /\ client.lock = client.port
  /\ req \in [pc : {"begin"}, policy : Policies, finisher : Finishers,
              encodes : BOOLEAN, attempt : {1}, elapsed : {0}, port : {NoPort},
              outcome : {"none"}, parses : {FALSE}, result : {"none"}]
  /\ handled = 0
  /\ disturbed = FALSE

At(pc) == req.pc = pc

Over == req.pc \in {"done", "panicked"}

----------------------------------------------------------------------------
(***************************************************************************)
(* The client.                                                             *)
(***************************************************************************)
StopsListening ==
  /\ client.port # NoPort
  /\ client' = [client EXCEPT !.port = NoPort]
  /\ disturbed' = TRUE

Listens ==
  /\ client.alive /\ client.port = NoPort
  /\ \E p \in Ports : client' = [client EXCEPT !.port = p]
  /\ UNCHANGED disturbed

WritesLockfile ==
  /\ client.port # NoPort /\ client.lock # client.port
  /\ client' = [client EXCEPT !.lock = client.port]
  /\ UNCHANGED disturbed

\* A lockfile left behind names a dead pid, which reads as none at all.
Exits ==
  /\ client.alive
  /\ client' = [alive |-> FALSE, port |-> NoPort, lock |-> NoPort]
  /\ disturbed' = TRUE

Starts ==
  /\ ~client.alive
  /\ client' = [client EXCEPT !.alive = TRUE]
  /\ UNCHANGED disturbed

Machine ==
  /\ ~Over
  /\ StopsListening \/ Listens \/ WritesLockfile \/ Exits \/ Starts
  /\ UNCHANGED <<req, handled>>

----------------------------------------------------------------------------
(***************************************************************************)
(* What the caller is given.                                               *)
(***************************************************************************)

\* A finisher that does not look at the status.
ResultUnchecked(finisher, outcome, parses) ==
  CASE outcome \notin Answers -> "failure"
    [] finisher = "send" -> "answer"
    [] finisher \in {"json", "ok"} /\ ~parses -> "failure"
    [] OTHER -> "value"

\* A status is data to send, and a failure to every other finisher; a body is
\* read only of a success, and never by ignore.
Result(finisher, outcome, parses) ==
  CASE outcome \notin Answers -> "failure"
    [] finisher = "send" -> "answer"
    [] outcome # "2xx" -> "failure"
    [] finisher \in {"json", "ok"} /\ ~parses -> "failure"
    [] OTHER -> "value"

Returned(r) == [r EXCEPT !.pc = "done", !.result = Result(r.finisher, r.outcome, r.parses)]

----------------------------------------------------------------------------
(***************************************************************************)
(* The loop.                                                               *)
(***************************************************************************)

\* A body that would not serialize surfaces here, before anything is sent.
Begin ==
  /\ At("begin")
  /\ req' = IF req.encodes THEN [req EXCEPT !.pc = "attempt"]
            ELSE Returned([req EXCEPT !.outcome = "Encode"])
  /\ UNCHANGED <<client, handled, disturbed>>

\* The port of the first attempt, kept.
ReadLockfileOnce ==
  /\ At("attempt")
  /\ req' = IF req.port # NoPort THEN [req EXCEPT !.pc = "sent"]
            ELSE IF client.lock = NoPort THEN [req EXCEPT !.pc = "decide", !.outcome = "NoClient"]
            ELSE [req EXCEPT !.pc = "sent", !.port = client.lock]
  /\ disturbed' = (client.port = NoPort \/ client.lock # client.port)
  /\ UNCHANGED <<client, handled>>

\* A missing lockfile waited for.
ReadLockfileWaiting ==
  /\ At("attempt") /\ client.lock # NoPort
  /\ req' = [req EXCEPT !.pc = "sent", !.port = client.lock]
  /\ disturbed' = (client.port = NoPort \/ client.lock # client.port)
  /\ UNCHANGED <<client, handled>>

\* The lockfile is read for every attempt.
ReadLockfile ==
  /\ At("attempt")
  /\ req' = IF client.lock = NoPort THEN [req EXCEPT !.pc = "decide", !.outcome = "NoClient"]
            ELSE [req EXCEPT !.pc = "sent", !.port = client.lock]
  /\ disturbed' = (client.port = NoPort \/ client.lock # client.port)
  /\ UNCHANGED <<client, handled>>

\* The exchange: nothing listens on that port, or the client answers, or it is
\* mute.  A client may carry a request out and be mute about it.
Exchange ==
  /\ At("sent")
  /\ \E d \in 0..Timeout, parses \in BOOLEAN,
        o \in IF client.port = req.port THEN Answers \cup {"Transport"} ELSE {"Transport"} :
       /\ req' = [req EXCEPT !.pc = "decide", !.outcome = o, !.elapsed = @ + d,
                             !.parses = parses /\ o = "2xx"]
       /\ disturbed' = (disturbed \/ (client.port = req.port /\ o = "Transport"))
       /\ handled' \in IF client.port # req.port THEN {handled}
                       ELSE IF o = "2xx" THEN {handled + 1}
                       ELSE IF o = "Transport" THEN {handled, handled + 1}
                       ELSE {handled}
  /\ UNCHANGED client

\* retry.rs delay_after: the delay is capped after it is made a Duration.
Growth(p) == LET delay[n \in Nat] == IF n = 0 THEN p.initial ELSE p.factor * delay[n - 1]
             IN  delay

Scaled(p, attempt) == Growth(p)[attempt - 1]

Overflows(p, attempt) == p.factor # 1 /\ Scaled(p, attempt) > DurationMax

Delay(p, attempt) ==
  IF p.factor # 1 /\ Scaled(p, attempt) > p.cap THEN p.cap ELSE Scaled(p, attempt)

(***************************************************************************)
(* retry.rs next_delay: is another attempt to be made?                     *)
(***************************************************************************)
\* The first attempt not counted.
SpentLate(p, attempt) == p.maxAttempts # None /\ attempt > p.maxAttempts

Spent(p, attempt) == p.maxAttempts # None /\ attempt >= p.maxAttempts

\* A deadline that does not count the delay.
OvershootsBare(p, delay, elapsed) == p.deadline # None /\ elapsed >= p.deadline

Overshoots(p, delay, elapsed) == p.deadline # None /\ elapsed + delay >= p.deadline

GivesUp ==
  \/ req.outcome \notin req.policy.retryIf
  \/ Spent(req.policy, req.attempt)
  \/ /\ ~Overflows(req.policy, req.attempt)
     /\ Overshoots(req.policy, Delay(req.policy, req.attempt), req.elapsed)

\* The judgement over one attempt, and the sleep before the next.
Decide ==
  /\ At("decide")
  /\ \/ GivesUp /\ req' = Returned(req)
     \/ /\ ~GivesUp /\ Overflows(req.policy, req.attempt)
        /\ req' = [req EXCEPT !.pc = "panicked"]
     \/ /\ ~GivesUp /\ ~Overflows(req.policy, req.attempt)
        /\ req' = [req EXCEPT !.pc = "attempt", !.attempt = @ + 1,
                              !.elapsed = @ + Delay(req.policy, req.attempt)]
  /\ UNCHANGED <<client, handled, disturbed>>

Thread == Begin \/ ReadLockfile \/ Exchange \/ Decide

Next == Thread \/ Machine

\* The calling thread is scheduled, and every attempt has a timeout.
Spec == Init /\ [][Next]_vars /\ WF_vars(Thread)

----------------------------------------------------------------------------
(***************************************************************************)
(* Properties.                                                             *)
(***************************************************************************)
\* No attempt is begun beyond those the policy allows.
WithinAttempts ==
  req.policy.maxAttempts # None => req.attempt <= req.policy.maxAttempts

(***************************************************************************)
(* The types, and the number of the attempt (retry.rs next_delay).         *)
(***************************************************************************)
TypeOK ==
  /\ client \in ClientType
  /\ req \in RequestType
  /\ WithinAttempts
  /\ handled \in Nat
  /\ disturbed \in BOOLEAN

(***************************************************************************)
(* "Retrying is what turns that into a hiccup instead of a failure"        *)
(* (retry.rs:9-13): a request ends in a transport failure only if the      *)
(* listener was away, moved or mute during its last attempt; one that has  *)
(* settled on its new port before that is reached there.                   *)
(***************************************************************************)
RestartIsRiddenOut == (At("done") /\ req.outcome = "Transport") => disturbed

(***************************************************************************)
(* Neither budget of a policy is overdrawn.  A request is carried out at   *)
(* most as often as its policy allows attempts, whatever answers are lost: *)
(* once under the default, which is why the launch POST, "not idempotent", *)
(* is left on it (retry.rs none).  A retry never starts past the caller's  *)
(* deadline, so a request outlives it by less than one attempt (retry.rs   *)
(* next_delay).                                                            *)
(***************************************************************************)
CarriedOutAsAllowed ==
  req.policy.maxAttempts # None => handled <= req.policy.maxAttempts

DeadlineIsKept ==
  req.policy.deadline # None =>
    \/ req.elapsed < req.policy.deadline + Timeout
    \/ req.attempt = 1 /\ req.elapsed <= Timeout

BudgetIsKept == CarriedOutAsAllowed /\ DeadlineIsKept

(***************************************************************************)
(* A finisher that decodes or ignores says success only of a request that  *)
(* the client carried out, whatever came of earlier attempts.              *)
(***************************************************************************)
SuccessIsHandled == req.result = "value" => handled > 0 /\ req.outcome = "2xx"

(***************************************************************************)
(* Every request comes back, with a client that never stays put.           *)
(***************************************************************************)
Ends == <>At("done")

(***************************************************************************)
(* "Retry until deadline elapses" (retry.rs:123): with a transient failure *)
(* in hand, the loop of a deadline policy ends only when the longest delay *)
(* no longer fits.                                                         *)
(***************************************************************************)
RetriesUntilTheDeadline ==
  (Over /\ req.policy.maxAttempts = None /\ req.outcome \in req.policy.retryIf)
    => req.elapsed + req.policy.cap >= req.policy.deadline

=============================================================================
