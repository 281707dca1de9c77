--------------------------- MODULE RequestProofs ---------------------------
(***************************************************************************)
(* Proofs about Request, for any set of ports, any policies and any times. *)
(***************************************************************************)
EXTENDS Request, WellFoundedInduction, TLAPS

(***************************************************************************)
(* Induction over the naturals, as the existence of a least one: the form  *)
(* in which a claim about a recursive function can be proved here.         *)
(***************************************************************************)
LEMMA LeastNatural ==
  ASSUME NEW T, T \subseteq Nat, T # {}
  PROVE  \E n \in T : \A m \in T : n <= m
<1> DEFINE R == OpToRel(<, Nat)
<1>1. IsWellFoundedOn(R, Nat)
  BY NatLessThanWellFounded
<1>2. \A m, n \in Nat : m < n => <<m, n>> \in R
  BY DEF OpToRel
<1> HIDE DEF R
<1>3. PICK n \in T : \A m \in T : ~(<<m, n>> \in R)
  BY <1>1, WFMin
<1>4. ASSUME NEW m \in T, ~(n <= m) PROVE FALSE
  <2>1. m \in Nat /\ n \in Nat /\ m < n
    BY <1>4
  <2>2. QED
    BY <1>2, <1>3, <2>1
<1>5. QED
  BY <1>4

(***************************************************************************)
(* The delays of a policy, attempt by attempt: the function that Growth    *)
(* is defined by recursion to be exists, and its values are naturals       *)
(* (Backoff::delay_after).                                                 *)
(***************************************************************************)
LEMMA GrowthType ==
  ASSUME NEW p, p.initial \in Nat, p.factor \in Nat
  PROVE  Growth(p) \in [Nat -> Nat]
<1> DEFINE Step(g, n) == IF n = 0 THEN p.initial ELSE p.factor * g[n - 1]
           Partial(g, m) == g \in [0..m -> Nat] /\ \A n \in 0..m : g[n] = Step(g, n)
<1>1. \A m \in Nat : \E g : Partial(g, m)
  <2> DEFINE T == {m \in Nat : ~\E g : Partial(g, m)}
  <2> SUFFICES ASSUME T # {} PROVE FALSE
    OBVIOUS
  <2>1. PICK m \in T : \A k \in T : m <= k
    <3>1. T \subseteq Nat
      OBVIOUS
    <3> HIDE DEF T
    <3>2. QED
      BY <3>1, LeastNatural
  <2>2. CASE m = 0
    <3>1. Partial([n \in 0..0 |-> p.initial], 0)
      OBVIOUS
    <3>2. QED
      BY <2>2, <3>1
  <2>3. CASE m # 0
    <3>1. m \in Nat /\ m - 1 \in Nat /\ ~(m <= m - 1)
      BY <2>1, <2>3
    <3>2. PICK g : Partial(g, m - 1)
      <4> HIDE DEF Partial
      <4>1. m - 1 \notin T
        BY <2>1, <3>1
      <4>2. QED
        BY <3>1, <4>1
    <3> DEFINE h == [n \in 0..m |-> IF n = m THEN p.factor * g[m - 1] ELSE g[n]]
    <3>3. g[m - 1] \in Nat
      BY <3>1, <3>2
    <3>4. p.factor * g[m - 1] \in Nat
      BY <3>3
    <3>5. h \in [0..m -> Nat]
      BY <3>1, <3>2, <3>4
    <3>6. ASSUME NEW n \in 0..m PROVE h[n] = Step(h, n)
      <4>1. CASE n = m
        BY <2>3, <3>1, <4>1
      <4>2. CASE n # m
        <5>1. n \in 0..(m - 1) /\ h[n] = g[n] /\ (n # 0 => h[n - 1] = g[n - 1])
          BY <3>1, <4>2
        <5>2. g[n] = Step(g, n)
          BY <3>2, <5>1
        <5>3. QED
          BY <5>1, <5>2
      <4>3. QED
        BY <4>1, <4>2
    <3>7. Partial(h, m)
      BY <3>5, <3>6
    <3>8. QED
      BY <2>1, <3>7
  <2>4. QED
    BY <2>2, <2>3
<1>2. ASSUME NEW m \in Nat, NEW k \in Nat, NEW g, NEW h, Partial(g, m), Partial(h, k),
             NEW n \in Nat, n <= m, n <= k
      PROVE  g[n] = h[n]
  <2> DEFINE T == {i \in Nat : i <= m /\ i <= k /\ g[i] # h[i]}
  <2>1. T = {}
    <3> SUFFICES ASSUME T # {} PROVE FALSE
      OBVIOUS
    <3>1. PICK i \in T : \A j \in T : i <= j
      <4>1. T \subseteq Nat
        OBVIOUS
      <4> HIDE DEF T
      <4>2. QED
        BY <4>1, LeastNatural
    <3>2. i \in 0..m /\ i \in 0..k /\ g[i] # h[i]
      BY <3>1
    <3>3. g[i] = Step(g, i) /\ h[i] = Step(h, i)
      BY <1>2, <3>2
    <3>4. i # 0
      BY <3>2, <3>3
    <3>5. i - 1 \in Nat /\ i - 1 <= m /\ i - 1 <= k /\ i - 1 \notin T
      BY <3>1, <3>2, <3>4
    <3>6. g[i - 1] = h[i - 1]
      BY <3>5
    <3>7. QED
      BY <3>2, <3>3, <3>4, <3>6
  <2>2. QED
    BY <1>2, <2>1
<1> DEFINE part(m) == CHOOSE g : Partial(g, m)
           f == [n \in Nat |-> part(n)[n]]
<1>3. \A m \in Nat : Partial(part(m), m)
  BY <1>1
<1>4. ASSUME NEW n \in Nat PROVE f[n] = Step(f, n) /\ f[n] \in Nat
  <2>1. Partial(part(n), n)
    BY <1>3
  <2> HIDE DEF part
  <2>2. f[n] = part(n)[n] /\ n \in 0..n
    OBVIOUS
  <2>3. f[n] = Step(part(n), n) /\ f[n] \in Nat
    BY <2>1, <2>2
  <2>4. CASE n = 0
    BY <2>3, <2>4
  <2>5. CASE n # 0
    <3>1. n - 1 \in Nat
      BY <2>5
    <3>2. Partial(part(n - 1), n - 1)
      BY <1>3, <3>1
    <3> HIDE DEF Partial, f
    <3>3. part(n - 1)[n - 1] = part(n)[n - 1]
      BY <1>2, <2>1, <3>1, <3>2
    <3>4. f[n - 1] = part(n - 1)[n - 1]
      BY <3>1 DEF f
    <3>5. QED
      BY <2>3, <2>5, <3>3, <3>4
  <2>6. QED
    BY <2>4, <2>5
<1>5. f = [n \in Nat |-> Step(f, n)]
  <2>1. \A n \in Nat : part(n)[n] = Step(f, n)
    <3> HIDE DEF part, Step
    <3>1. \A n \in Nat : f[n] = part(n)[n]
      OBVIOUS
    <3> HIDE DEF f
    <3>2. QED
      BY <1>4, <3>1
  <2> DEFINE step(n) == Step(f, n)
  <2>2. \A n \in Nat : part(n)[n] = step(n)
    BY <2>1
  <2>3. f = [n \in Nat |-> step(n)]
    <3> HIDE DEF part, step
    <3>1. QED
      BY <2>2
  <2>4. QED
    BY <2>3
<1>6. Growth(p) = CHOOSE g : g = [n \in Nat |-> Step(g, n)]
  BY DEF Growth
<1>7. Growth(p) = [n \in Nat |-> Step(Growth(p), n)]
  <2> HIDE DEF f, Step
  <2>1. QED
    BY <1>5, <1>6
<1>8. \A n \in Nat : Growth(p)[n] \in Nat
  <2> DEFINE G == Growth(p)
             T == {n \in Nat : G[n] \notin Nat}
  <2> SUFFICES ASSUME T # {} PROVE FALSE
    OBVIOUS
  <2> HIDE DEF G
  <2>1. PICK n \in T : \A k \in T : n <= k
    <3>1. T \subseteq Nat
      OBVIOUS
    <3> HIDE DEF T
    <3>2. QED
      BY <3>1, LeastNatural
  <2>2. G[n] = Step(G, n)
    BY <1>7 DEF G
  <2>3. n # 0 /\ n - 1 \in Nat
    BY <2>1, <2>2
  <2>4. n - 1 \notin T
    BY <2>1, <2>3
  <2>5. G[n - 1] \in Nat
    BY <2>3, <2>4
  <2>6. p.factor * G[n - 1] \in Nat
    BY <2>5
  <2>7. QED
    BY <2>1, <2>2, <2>3, <2>6
<1>9. QED
  <2> DEFINE G == Growth(p)
  <2>1. G = [n \in Nat |-> G[n]]
    <3> HIDE DEF Step
    <3>1. QED BY <1>7
  <2> HIDE DEF G
  <2>2. QED
    BY <1>8, <2>1 DEF G

(***************************************************************************)
(* The delay before the next attempt is a duration, under any policy.      *)
(***************************************************************************)
LEMMA DelayType ==
  ASSUME NEW p \in Policies, NEW attempt \in Nat \ {0}
  PROVE  Delay(p, attempt) \in Nat
<1>1. p.initial \in Nat /\ p.factor \in Nat /\ p.cap \in Nat
  BY PolicyAssumption DEF PolicyType
<1>2. Scaled(p, attempt) \in Nat
  BY <1>1, GrowthType DEF Scaled
<1>3. QED
  BY <1>1, <1>2 DEF Delay

(***************************************************************************)
(* What the caller is given is one of three things.                        *)
(***************************************************************************)
LEMMA ReturnedType ==
  ASSUME NEW r \in RequestType
  PROVE  Returned(r) \in RequestType
<1>1. Result(r.finisher, r.outcome, r.parses) \in {"answer", "value", "failure"}
  BY DEF Result
<1>2. QED
  BY <1>1 DEF Returned, RequestType

(***************************************************************************)
(* No step begins an attempt that the policy does not allow: only the      *)
(* judgement counts one up, and it looks first (RetryState::next_delay).   *)
(***************************************************************************)
LEMMA AttemptsAreCounted ==
  ASSUME req \in RequestType, WithinAttempts, [Next]_vars
  PROVE  WithinAttempts'
<1>1. /\ req.policy.maxAttempts \in (Nat \ {0}) \cup {None} /\ req.attempt \in Nat \ {0}
  BY PolicyAssumption DEF RequestType, PolicyType
<1>2. CASE UNCHANGED req \/ Machine
  BY <1>2 DEF Machine, WithinAttempts
<1>3. CASE Begin \/ ReadLockfile \/ Exchange
  <2>1. req'.policy = req.policy /\ req'.attempt = req.attempt
    BY <1>3 DEF Begin, ReadLockfile, Exchange, Returned, RequestType
  <2>2. QED
    BY <2>1 DEF WithinAttempts
<1>4. CASE Decide
  <2>1. CASE req' = Returned(req) \/ req' = [req EXCEPT !.pc = "panicked"]
    BY <2>1 DEF Returned, RequestType, WithinAttempts
  <2>2. CASE ~GivesUp /\ req' = [req EXCEPT !.pc = "attempt", !.attempt = @ + 1,
                                 !.elapsed = @ + Delay(req.policy, req.attempt)]
    <3>1. req'.policy = req.policy /\ req'.attempt = req.attempt + 1
      BY <2>2 DEF RequestType
    <3>2. ~Spent(req.policy, req.attempt)
      BY <2>2 DEF GivesUp
    <3>3. QED
      BY <1>1, <3>1, <3>2 DEF Spent, WithinAttempts
  <2>3. QED
    BY <1>4, <2>1, <2>2 DEF Decide
<1>5. QED
  BY <1>2, <1>3, <1>4 DEF Next, Thread, vars

(***************************************************************************)
(* Every variable keeps its type, for any ports, policies and times.       *)
(***************************************************************************)
THEOREM RequestTypeCorrect == Spec => []TypeOK
<1>1. Init => TypeOK
  <2> SUFFICES ASSUME Init PROVE TypeOK
    OBVIOUS
  <2>1. client \in ClientType
    BY DEF Init, ClientType
  <2>2. req \in RequestType
    <3>1. {"begin"} \subseteq {"begin", "attempt", "sent", "decide", "done", "panicked"}
      OBVIOUS
    <3>2. {1} \subseteq Nat \ {0} /\ {0} \subseteq Nat /\ {NoPort} \subseteq Ports \cup {NoPort}
      OBVIOUS
    <3>3. {"none"} \subseteq Outcomes \cup {"none", "Encode"} /\ {FALSE} \subseteq BOOLEAN
          /\ {"none"} \subseteq {"none", "answer", "value", "failure"}
      OBVIOUS
    <3>4. QED
      BY <3>1, <3>2, <3>3, Zenon DEF Init, RequestType
  <2>3. WithinAttempts
    <3>1. req.policy \in Policies /\ req.attempt = 1
      BY DEF Init
    <3>2. QED
      BY <3>1, PolicyAssumption DEF PolicyType, WithinAttempts
  <2>4. QED
    BY <2>1, <2>2, <2>3 DEF Init, TypeOK
<1>2. TypeOK /\ [Next]_vars => TypeOK'
  <2> SUFFICES ASSUME TypeOK, [Next]_vars PROVE TypeOK'
    OBVIOUS
  <2>0. WithinAttempts'
    BY AttemptsAreCounted DEF TypeOK
  <2>1. CASE UNCHANGED vars
    BY <2>0, <2>1 DEF TypeOK, vars
  <2>2. CASE Machine
    <3>1. client' \in ClientType
      <4>1. CASE StopsListening
        BY <4>1 DEF TypeOK, StopsListening, ClientType
      <4>2. CASE Listens
        BY <4>2 DEF TypeOK, Listens, ClientType
      <4>3. CASE WritesLockfile
        BY <4>3 DEF TypeOK, WritesLockfile, ClientType
      <4>4. CASE Exits
        BY <4>4 DEF Exits, ClientType
      <4>5. CASE Starts
        BY <4>5 DEF TypeOK, Starts, ClientType
      <4>6. QED
        BY <2>2, <4>1, <4>2, <4>3, <4>4, <4>5 DEF Machine
    <3>2. disturbed' \in BOOLEAN
      BY <2>2 DEF TypeOK, Machine, StopsListening, Listens, WritesLockfile, Exits, Starts
    <3>3. QED
      BY <2>0, <2>2, <3>1, <3>2 DEF TypeOK, Machine
  <2>3. CASE Begin
    <3>1. [req EXCEPT !.pc = "attempt"] \in RequestType
      BY DEF TypeOK, RequestType
    <3>2. [req EXCEPT !.outcome = "Encode"] \in RequestType
      BY DEF TypeOK, RequestType
    <3>3. QED
      BY <2>0, <2>3, <3>1, <3>2, ReturnedType DEF TypeOK, Begin
  <2>4. CASE ReadLockfile
    <3>1. [req EXCEPT !.pc = "decide", !.outcome = "NoClient"] \in RequestType
      BY DEF TypeOK, RequestType, Outcomes
    <3>2. [req EXCEPT !.pc = "sent", !.port = client.lock] \in RequestType
      BY DEF TypeOK, RequestType, ClientType
    <3>3. QED
      BY <2>0, <2>4, <3>1, <3>2 DEF TypeOK, ReadLockfile
  <2>5. CASE Exchange
    <3>1. PICK d \in 0..Timeout, parses \in BOOLEAN, o \in Outcomes :
            /\ req' = [req EXCEPT !.pc = "decide", !.outcome = o, !.elapsed = @ + d,
                                  !.parses = parses /\ o = "2xx"]
            /\ disturbed' = (disturbed \/ (client.port = req.port /\ o = "Transport"))
            /\ handled' \in {handled, handled + 1}
      BY <2>5 DEF Exchange, Answers, Outcomes
    <3>2. d \in Nat /\ (parses /\ o = "2xx") \in BOOLEAN
      BY TimeAssumption
    <3>3. req' \in RequestType
      <4> DEFINE read == parses /\ o = "2xx"
      <4>1. read \in BOOLEAN /\ req' = [req EXCEPT !.pc = "decide", !.outcome = o,
                                                   !.elapsed = @ + d, !.parses = read]
        BY <3>1
      <4> HIDE DEF read
      <4>2. req.elapsed + d \in Nat /\ req \in RequestType
        BY <3>2 DEF TypeOK, RequestType
      <4>3. QED
        BY <4>1, <4>2 DEF RequestType
    <3>4. QED
      BY <2>0, <2>5, <3>1, <3>3 DEF TypeOK, Exchange
  <2>6. CASE Decide
    <3>1. Returned(req) \in RequestType /\ [req EXCEPT !.pc = "panicked"] \in RequestType
      BY ReturnedType DEF TypeOK, RequestType
    <3> DEFINE delay == Delay(req.policy, req.attempt)
    <3>2. delay \in Nat
      BY DelayType DEF TypeOK, RequestType
    <3>3. [req EXCEPT !.pc = "attempt", !.attempt = @ + 1, !.elapsed = @ + delay] \in RequestType
      <4>1. req \in RequestType /\ req.attempt + 1 \in Nat \ {0} /\ req.elapsed + delay \in Nat
        <5> HIDE DEF delay
        <5> QED BY <3>2 DEF TypeOK, RequestType
      <4> HIDE DEF delay
      <4>2. QED
        BY <4>1 DEF RequestType
    <3>4. QED
      BY <2>0, <2>6, <3>1, <3>3 DEF TypeOK, Decide
  <2>7. QED
    BY <2>1, <2>2, <2>3, <2>4, <2>5, <2>6 DEF Next, Thread
<1>3. QED
  BY <1>1, <1>2, PTL DEF Spec

----------------------------------------------------------------------------
(***************************************************************************)
(* The inductive invariant, in four parts.                                 *)
(***************************************************************************)

\* Between an answer and the next attempt the two counts may agree; an attempt
\* under way is one that has not been carried out yet.
Counted ==
  /\ req.pc \in {"begin", "attempt", "sent"} => handled < req.attempt
  /\ handled <= req.attempt
  /\ req.policy.maxAttempts # None => req.attempt <= req.policy.maxAttempts

\* An attempt starts before the deadline, the first one whenever it is.
Started ==
  req.policy.deadline # None =>
    IF req.pc \in {"begin", "attempt", "sent"}
    THEN req.elapsed < req.policy.deadline \/ (req.attempt = 1 /\ req.elapsed = 0)
    ELSE DeadlineIsKept

\* A port sent to is the client's unless something has happened since it was read.
Settled ==
  /\ (At("sent") /\ ~disturbed) => (client.port = req.port /\ client.port # NoPort)
  /\ (req.pc \in {"decide", "done"} /\ req.outcome = "Transport") => disturbed
  /\ At("begin") => req.outcome = "none"

\* A success in hand was carried out, and what is returned fits the outcome.
Carried ==
  /\ req.outcome = "2xx" => handled > 0
  /\ ~At("done") => req.result = "none"
  /\ req.result = "value" => req.outcome = "2xx"

ReqInv == Counted /\ Started /\ Settled /\ Carried

(***************************************************************************)
(* "value" is said of a success alone (endpoint.rs).                       *)
(***************************************************************************)
LEMMA ReturnedFields ==
  ASSUME NEW r \in RequestType
  PROVE  /\ Returned(r).pc = "done" /\ Returned(r).policy = r.policy
         /\ Returned(r).attempt = r.attempt /\ Returned(r).elapsed = r.elapsed
         /\ Returned(r).outcome = r.outcome
         /\ Returned(r).result = "value" => r.outcome = "2xx"
<1>1. Result(r.finisher, r.outcome, r.parses) = "value" => r.outcome = "2xx"
  BY DEF Result
<1>2. QED
  BY <1>1 DEF Returned, RequestType

(***************************************************************************)
(* The machine moves nothing the invariant speaks of but the client, and   *)
(* says so in disturbed.                                                   *)
(***************************************************************************)
LEMMA ReqInvMachine == ASSUME TypeOK, ReqInv, Machine PROVE ReqInv'
<1>1. UNCHANGED <<req, handled>>
  BY DEF Machine
<1>2. disturbed => disturbed'
  BY DEF Machine, StopsListening, Listens, WritesLockfile, Exits, Starts
<1>3. (client.port # NoPort /\ ~disturbed') => client'.port = client.port
  BY DEF TypeOK, ClientType, Machine, StopsListening, Listens, WritesLockfile, Exits, Starts
<1>4. Counted' /\ Started' /\ Carried'
  BY <1>1 DEF ReqInv, Counted, Started, DeadlineIsKept, Carried, At
<1>5. Settled'
  BY <1>1, <1>2, <1>3 DEF ReqInv, Settled, At
<1>6. QED
  BY <1>4, <1>5 DEF ReqInv

(***************************************************************************)
(* The first step: a body that does not serialize is sent nowhere.         *)
(***************************************************************************)
LEMMA ReqInvBegin == ASSUME TypeOK, ReqInv, Begin PROVE ReqInv'
<1>1. CASE req.encodes
  <2>1. req' = [req EXCEPT !.pc = "attempt"] /\ UNCHANGED <<client, handled, disturbed>>
    BY <1>1 DEF Begin
  <2>2. QED
    BY <2>1 DEF TypeOK, RequestType, Begin, ReqInv, Counted, Started, Settled, Carried, At
<1>2. CASE ~req.encodes
  <2> DEFINE r == [req EXCEPT !.outcome = "Encode"]
  <2>1. r \in RequestType /\ r.policy = req.policy /\ r.attempt = req.attempt
        /\ r.elapsed = req.elapsed /\ r.outcome = "Encode"
    BY DEF TypeOK, RequestType
  <2>2. req' = Returned(r) /\ UNCHANGED <<client, handled, disturbed>>
    BY <1>2 DEF Begin
  <2> HIDE DEF r
  <2>3. /\ req'.pc = "done" /\ req'.policy = req.policy /\ req'.attempt = req.attempt
        /\ req'.elapsed = req.elapsed /\ req'.outcome = "Encode" /\ req'.result # "value"
    BY <2>1, <2>2, ReturnedFields
  <2>4. req.pc = "begin" /\ req.elapsed \in Nat
    BY DEF Begin, At, TypeOK, RequestType
  <2>5. Started'
    BY <2>3, <2>4, TimeAssumption, PolicyAssumption
       DEF ReqInv, Started, DeadlineIsKept, PolicyType, TypeOK, RequestType
  <2>6. QED
    BY <2>2, <2>3, <2>4, <2>5 DEF ReqInv, Counted, Settled, Carried, At
<1>3. QED
  BY <1>1, <1>2

(***************************************************************************)
(* Reading the lockfile sets disturbed to what is so at that moment.       *)
(***************************************************************************)
LEMMA ReqInvReadLockfile == ASSUME TypeOK, ReqInv, ReadLockfile PROVE ReqInv'
<1>1. /\ req.pc = "attempt" /\ UNCHANGED <<client, handled>>
      /\ disturbed' = (client.port = NoPort \/ client.lock # client.port)
  BY DEF ReadLockfile, At
<1>2. CASE client.lock = NoPort
  <2>1. req' = [req EXCEPT !.pc = "decide", !.outcome = "NoClient"]
    BY <1>2 DEF ReadLockfile
  <2>2. /\ req'.pc = "decide" /\ req'.policy = req.policy /\ req'.attempt = req.attempt
        /\ req'.elapsed = req.elapsed /\ req'.outcome = "NoClient" /\ req'.result = req.result
    BY <2>1 DEF TypeOK, RequestType
  <2>3. Started'
    BY <1>1, <2>2, TimeAssumption, PolicyAssumption
       DEF ReqInv, Started, DeadlineIsKept, PolicyType, TypeOK, RequestType
  <2>4. QED
    BY <1>1, <2>2, <2>3 DEF ReqInv, Counted, Settled, Carried, At
<1>3. CASE client.lock # NoPort
  <2>1. req' = [req EXCEPT !.pc = "sent", !.port = client.lock]
    BY <1>3 DEF ReadLockfile
  <2>2. /\ req'.pc = "sent" /\ req'.policy = req.policy /\ req'.attempt = req.attempt
        /\ req'.elapsed = req.elapsed /\ req'.outcome = req.outcome /\ req'.result = req.result
        /\ req'.port = client.lock
    BY <2>1 DEF TypeOK, RequestType
  <2>3. QED
    BY <1>1, <2>2 DEF ReqInv, Counted, Started, Settled, Carried, At
<1>4. QED
  BY <1>2, <1>3

(***************************************************************************)
(* An exchange takes at most a timeout, is carried out at most once, and   *)
(* fails under an undisturbed client only by being mute.                   *)
(***************************************************************************)
LEMMA ReqInvExchange == ASSUME TypeOK, ReqInv, Exchange PROVE ReqInv'
<1>1. PICK d \in 0..Timeout, parses \in BOOLEAN,
           o \in IF client.port = req.port THEN Answers \cup {"Transport"} ELSE {"Transport"} :
        /\ req' = [req EXCEPT !.pc = "decide", !.outcome = o, !.elapsed = @ + d,
                              !.parses = parses /\ o = "2xx"]
        /\ disturbed' = (disturbed \/ (client.port = req.port /\ o = "Transport"))
        /\ handled' \in IF client.port # req.port THEN {handled}
                        ELSE IF o = "2xx" THEN {handled + 1}
                        ELSE IF o = "Transport" THEN {handled, handled + 1}
                        ELSE {handled}
  BY DEF Exchange
<1>2. /\ req'.pc = "decide" /\ req'.policy = req.policy /\ req'.attempt = req.attempt
      /\ req'.elapsed = req.elapsed + d /\ req'.outcome = o /\ req'.result = req.result
  BY <1>1 DEF TypeOK, RequestType
<1>3. req.pc = "sent" /\ handled \in Nat /\ req.attempt \in Nat /\ req.elapsed \in Nat
  BY DEF Exchange, At, TypeOK, RequestType
<1>4. handled' \in {handled, handled + 1} /\ (o = "2xx" => handled' = handled + 1)
  BY <1>1 DEF Answers
<1>5. Counted'
  <2>1. req.policy.maxAttempts # None => req.attempt <= req.policy.maxAttempts
    BY DEF ReqInv, Counted
  <2>2. handled < req.attempt
    BY <1>3 DEF ReqInv, Counted
  <2>3. QED
    BY <1>2, <1>3, <1>4, <2>1, <2>2 DEF Counted
<1>6. Started'
  <2> SUFFICES ASSUME req.policy.deadline # None
               PROVE  \/ req.elapsed + d < req.policy.deadline + Timeout
                      \/ req.attempt = 1 /\ req.elapsed + d <= Timeout
    BY <1>2 DEF Started, DeadlineIsKept
  <2>1. req.policy.deadline \in Nat /\ Timeout \in Nat /\ d \in 0..Timeout
    BY TimeAssumption, PolicyAssumption DEF PolicyType, TypeOK, RequestType
  <2>2. req.elapsed < req.policy.deadline \/ (req.attempt = 1 /\ req.elapsed = 0)
    BY <1>3 DEF ReqInv, Started
  <2>3. QED
    BY <1>3, <2>1, <2>2
<1>7. Settled'
  <2>1. o = "Transport" => disturbed'
    BY <1>1, <1>3 DEF ReqInv, Settled, At, TypeOK
  <2>2. QED
    BY <1>2, <2>1 DEF Settled, At
<1>8. Carried'
  BY <1>2, <1>3, <1>4 DEF ReqInv, Carried, At
<1>9. QED
  BY <1>5, <1>6, <1>7, <1>8 DEF ReqInv

(***************************************************************************)
(* Another attempt is made only within both budgets (retry.rs next_delay). *)
(***************************************************************************)
LEMMA ReqInvDecide == ASSUME TypeOK, ReqInv, Decide PROVE ReqInv'
<1>1. req.pc = "decide" /\ UNCHANGED <<client, handled, disturbed>>
  BY DEF Decide, At
<1> DEFINE delay == Delay(req.policy, req.attempt)
<1>2. delay \in Nat
  BY DelayType DEF TypeOK, RequestType
<1>3. handled \in Nat /\ req.attempt \in Nat /\ req.elapsed \in Nat /\ req.policy \in PolicyType
  BY PolicyAssumption DEF TypeOK, RequestType
<1>4. CASE req' = Returned(req)
  <2>1. /\ req'.pc = "done" /\ req'.policy = req.policy /\ req'.attempt = req.attempt
        /\ req'.elapsed = req.elapsed /\ req'.outcome = req.outcome
        /\ req'.result = "value" => req.outcome = "2xx"
    BY <1>4, ReturnedFields DEF TypeOK
  <2>2. QED
    BY <1>1, <2>1 DEF ReqInv, Counted, Started, DeadlineIsKept, Settled, Carried, At
<1>5. CASE req' = [req EXCEPT !.pc = "panicked"]
  <2>1. /\ req'.pc = "panicked" /\ req'.policy = req.policy /\ req'.attempt = req.attempt
        /\ req'.elapsed = req.elapsed /\ req'.outcome = req.outcome /\ req'.result = req.result
    BY <1>5 DEF TypeOK, RequestType
  <2>2. QED
    BY <1>1, <2>1 DEF ReqInv, Counted, Started, DeadlineIsKept, Settled, Carried, At
<1>6. CASE /\ ~GivesUp /\ ~Overflows(req.policy, req.attempt)
           /\ req' = [req EXCEPT !.pc = "attempt", !.attempt = @ + 1, !.elapsed = @ + delay]
  <2> HIDE DEF delay
  <2>1. /\ req'.pc = "attempt" /\ req'.policy = req.policy /\ req'.attempt = req.attempt + 1
        /\ req'.elapsed = req.elapsed + delay /\ req'.outcome = req.outcome
        /\ req'.result = req.result
    BY <1>6 DEF TypeOK, RequestType
  <2>2. /\ ~Spent(req.policy, req.attempt)
        /\ ~Overshoots(req.policy, delay, req.elapsed)
    BY <1>6 DEF GivesUp, delay
  <2>3. Counted'
    <3>1. req.policy.maxAttempts # None => req.attempt + 1 <= req.policy.maxAttempts
      BY <1>3, <2>2 DEF Spent, PolicyType
    <3>2. handled < req.attempt + 1
      BY <1>3 DEF ReqInv, Counted
    <3>3. QED
      BY <1>1, <1>3, <2>1, <3>1, <3>2 DEF Counted
  <2>4. Started'
    <3>1. req.policy.deadline # None => req.elapsed + delay < req.policy.deadline
      BY <1>2, <1>3, <2>2 DEF Overshoots, PolicyType
    <3>2. QED
      BY <2>1, <3>1 DEF Started
  <2>5. Settled' /\ Carried'
    BY <1>1, <2>1 DEF ReqInv, Settled, Carried, At
  <2>6. QED
    BY <2>3, <2>4, <2>5 DEF ReqInv
<1>7. QED
  BY <1>4, <1>5, <1>6 DEF Decide

(***************************************************************************)
(* The invariant holds, whatever the client does and is asked.             *)
(***************************************************************************)
LEMMA ReqInvHolds == Spec => []ReqInv
<1>1. Init => ReqInv
  <2> SUFFICES ASSUME Init PROVE ReqInv
    OBVIOUS
  <2>1. /\ req.pc = "begin" /\ req.policy \in PolicyType /\ req.attempt = 1
        /\ req.elapsed = 0 /\ req.outcome = "none" /\ req.result = "none" /\ handled = 0
    BY PolicyAssumption DEF Init
  <2>2. req.policy.maxAttempts # None => 1 <= req.policy.maxAttempts
    BY <2>1 DEF PolicyType
  <2>3. QED
    BY <2>1, <2>2 DEF ReqInv, Counted, Started, Settled, Carried, At
<1>2. TypeOK /\ ReqInv /\ [Next]_vars => ReqInv'
  <2> SUFFICES ASSUME TypeOK, ReqInv, [Next]_vars PROVE ReqInv'
    OBVIOUS
  <2>1. CASE UNCHANGED vars
    BY <2>1 DEF vars, ReqInv, Counted, Started, DeadlineIsKept, Settled, Carried, At
  <2>2. QED
    BY <2>1, ReqInvMachine, ReqInvBegin, ReqInvReadLockfile, ReqInvExchange, ReqInvDecide
       DEF Next, Thread
<1>3. QED
  BY <1>1, <1>2, RequestTypeCorrect, PTL DEF Spec

(***************************************************************************)
(* A request ends in a transport failure only if the listener was away,    *)
(* moved or mute during its last attempt (retry.rs:9-13).                  *)
(***************************************************************************)
THEOREM RestartsAreRiddenOut == Spec => []RestartIsRiddenOut
<1>1. ReqInv => RestartIsRiddenOut
  BY DEF ReqInv, Settled, RestartIsRiddenOut, At
<1>2. QED
  BY <1>1, ReqInvHolds, PTL

(***************************************************************************)
(* Under any policy a request is carried out at most as often as it allows *)
(* attempts, and outlives its deadline by less than one attempt.           *)
(***************************************************************************)
THEOREM BudgetsAreKept == Spec => []BudgetIsKept
<1>1. TypeOK /\ ReqInv => BudgetIsKept
  <2> SUFFICES ASSUME TypeOK, ReqInv PROVE BudgetIsKept
    OBVIOUS
  <2>1. req.policy \in PolicyType /\ req.attempt \in Nat /\ req.elapsed \in Nat /\ handled \in Nat
    BY PolicyAssumption DEF TypeOK, RequestType
  <2>2. CarriedOutAsAllowed
    BY <2>1 DEF CarriedOutAsAllowed, ReqInv, Counted, PolicyType
  <2>3. DeadlineIsKept
    BY <2>1, TimeAssumption DEF DeadlineIsKept, ReqInv, Started, PolicyType
  <2>4. QED
    BY <2>2, <2>3 DEF BudgetIsKept
<1>2. QED
  BY <1>1, ReqInvHolds, RequestTypeCorrect, PTL

(***************************************************************************)
(* A finisher that decodes or ignores says success only of a request that  *)
(* the client carried out (endpoint.rs).                                   *)
(***************************************************************************)
THEOREM SuccessesAreHandled == Spec => []SuccessIsHandled
<1>1. ReqInv => SuccessIsHandled
  BY DEF ReqInv, Carried, SuccessIsHandled
<1>2. QED
  BY <1>1, ReqInvHolds, PTL

=============================================================================
